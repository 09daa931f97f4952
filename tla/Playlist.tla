------------------------------ MODULE Playlist ------------------------------
(***************************************************************************)
(* src/src/twitch/hls.rs, pick_audio_only: which line of a master playlist *)
(* ffmpeg is given.  A line is a STREAM-INF tag of an audio_only or of     *)
(* another variant, another tag, a blank line or a URL.                    *)
(***************************************************************************)
EXTENDS Naturals, Sequences, SequencesExt, FiniteSetsExt

StreamInf == {"audio", "video"}
Lines == StreamInf \cup {"tag", "blank", "url"}

\* The URL lines after line i: the first is the one that belongs to it.
UrlsAfter(lines, i) == {j \in DOMAIN lines : j > i /\ lines[j] = "url"}

\* One turn of the loop: `next` is its i, `last` its last_url, and `chosen`
\* what it has returned, as line numbers, 0 for none.
VisitLine(acc, lines, i) ==
    LET urls == UrlsAfter(lines, i)
    IN  IF acc.chosen # 0 \/ i < acc.next \/ lines[i] \notin StreamInf \/ urls = {}
        THEN acc
        ELSE IF lines[i] = "audio" THEN [acc EXCEPT !.chosen = Min(urls)]
        ELSE [acc EXCEPT !.last = Min(urls), !.next = Min(urls) + 1]

\* Mutant: the fallback wins over an audio_only variant that comes first.
PickAudioOnly_Last(lines) ==
    LET urls == UNION {UrlsAfter(lines, i) : i \in {j \in DOMAIN lines : lines[j] \in StreamInf}}
    IN  IF urls = {} THEN 0 ELSE Max(urls)

PickAudioOnly(lines) ==
    LET visited[i \in 0..Len(lines)] ==
            IF i = 0 THEN [chosen |-> 0, last |-> 0, next |-> 1]
            ELSE VisitLine(visited[i - 1], lines, i)
        acc == visited[Len(lines)]
    IN  IF acc.chosen # 0 THEN acc.chosen ELSE acc.last
=============================================================================
