------------------------------- MODULE Edges --------------------------------
(***************************************************************************)
(* The pure functions at the program's edges, called with every input up   *)
(* to a bound: a state is one call with what it returned, and each result  *)
(* is compared with what its caller counts on, stated without the loop     *)
(* that computes it.                                                       *)
(***************************************************************************)
EXTENDS Embeds, Playlist, Replies, Config

CONSTANTS
    MaxText,   \* bound: characters of a text
    MaxLines,  \* bound: lines of a playlist
    MaxFile    \* bound: lines of a .env file

ASSUME EdgesAssumption == MaxText \in Nat /\ MaxLines \in Nat /\ MaxFile \in Nat

VARIABLE call

UpTo(set, n) == UNION {[1..k -> set] : k \in 0..n}

Init == call = [fn |-> "none"]

\* embed.rs 12-49
ChunkTextCall ==
    \E text \in UpTo({"x", " "}, MaxText), limit \in 0..DescLimit :
        call' = [fn |-> "chunk_text", text |-> text, limit |-> limit,
                 out |-> ChunkText(text, limit)]

\* An insight as the LLM may give it: any part of it may be missing.
Insights ==
    [topics : UpTo({<<"t">>, <<"t", "t">>}, 2),
     mood : {<< >>, <<"m">>, [i \in 1..FieldLimit + 1 |-> "m"]},
     moments : UpTo({<<"k", "k">>}, 2), summary : UpTo({"x", " "}, MaxText)]

InsightPayloadCall ==
    \E insight \in Insights :
        call' = [fn |-> "insight_payload", insight |-> insight,
                 out |-> InsightPayload(insight)]

PickAudioOnlyCall ==
    \E lines \in UpTo(Lines, MaxLines) :
        call' = [fn |-> "pick_audio_only", lines |-> lines, out |-> PickAudioOnly(lines)]

SanitizeCall ==
    \E reply \in UpTo({"x", "/", " ", "tab", "newline", "@", "all"}, MaxText - 1),
       max \in {2, MaxText} :
        call' = [fn |-> "sanitize", reply |-> reply, max |-> max,
                 out |-> Sanitize(reply, max)]

ParseInsightCall ==
    \E content \in UpTo({"{", "}", "x"}, MaxText) :
        call' = [fn |-> "parse_insight", content |-> content, out |-> ParseSlice(content)]

FileLines == [key : Keys, value : {Blank, Bad, "b", "c"}] \cup {Skipped, Nameless}

FromEnvCall ==
    \E process \in [Keys -> {Unset, Blank, "a"}], file \in UpTo(FileLines, MaxFile) :
        call' = [fn |-> "from_env", process |-> process, file |-> file,
                 out |-> FromEnv(process, file)]

NormalizeChannelCall ==
    \E raw \in UpTo({"https://", "http://", "www.", "twitch.tv/", Login, "/", "?", " "},
                    MaxText - 1) :
        call' = [fn |-> "normalize_channel", raw |-> raw, out |-> NormalizeChannel(raw)]

Next ==
    /\ call.fn = "none"
    /\ \/ ChunkTextCall \/ InsightPayloadCall \/ PickAudioOnlyCall \/ SanitizeCall
       \/ ParseInsightCall \/ FromEnvCall \/ NormalizeChannelCall

Spec == Init /\ [][Next]_call

----------------------------------------------------------------------------
\* Where a text can be cut without splitting a word, and the word at a place.
WordEnds(text) == {i \in DOMAIN text : text[i] \in Blanks \/ i = Len(text)}
WordAt(text, i) ==
    LET before == {e \in WordEnds(text) : e < i}
        start == IF before = {} THEN 1 ELSE Max(before) + 1
    IN  [start |-> start, size |-> Min({e \in WordEnds(text) : e >= i}) - start + 1]

\* The pieces are the text, none is empty or too long, a word is split only if
\* it fits in no piece, and a piece ends early only for a word that does not
\* fit in the rest of it (embed.rs 10-12).
Splits(text, max, out) ==
    /\ FlattenSeq(out) = text
    /\ \A k \in DOMAIN out : Len(out[k]) \in 1..max
    /\ \A k \in 1..(Len(out) - 1) :
          LET end  == Len(FlattenSeq(SubSeq(out, 1, k)))
              next == WordAt(text, end + 1)
          IN  /\ end \in WordEnds(text) \/ next.size > max
              /\ Len(out[k]) + (IF next.start <= end THEN 1 ELSE next.size) > max

\* chunk_text keeps every character whatever the limit is.
Chunked(text, limit, out) ==
    \/ text = << >> /\ out = << << >> >>
    \/ Splits(text, Max({limit, 1}), out)

\* What the embeds of a message show of a summary.
ShownText(out) == FlattenSeq([k \in DOMAIN out |-> out[k].description])

\* The message shows the summary from its beginning, and all of it unless it
\* has as many embeds as take(8) lets through (embed.rs 113); it is within
\* Discord's limits but for the mood, which is sent as long as the LLM wrote
\* it (embed.rs 88-94).
Presented(insight, out) ==
    LET shown == ShownText(out)
    IN  /\ IsPrefix(shown, insight.summary)
        /\ Len(out) \in 1..MaxEmbeds
        /\ Len(out) < MaxEmbeds => shown = insight.summary
        /\ \A k \in DOMAIN out : Len(out[k].description) <= DescLimit
        /\ \A i \in DOMAIN out[1].fields :
              out[1].fields[i].name # "mood" => Len(out[1].fields[i].value) <= FieldLimit

\* Splitting a text loses nothing of it and breaks no word that fits, and the
\* message made of the pieces cuts the summary only after its last permitted
\* embed (embed.rs 10-12, 111-119).  There it does cut it, against "split ...
\* instead of truncating" (embed.rs 109-110).
ChunksFaithful ==
    /\ call.fn = "chunk_text" => Chunked(call.text, call.limit, call.out)
    /\ call.fn = "insight_payload" => Presented(call.insight, call.out)

\* The variants of a playlist, those with a URL after them, and the first such.
Variants(lines) == {i \in DOMAIN lines : lines[i] \in StreamInf}
WithUrl(lines) == {i \in Variants(lines) : UrlsAfter(lines, i) # {}}
UrlOf(lines, i) == Min(UrlsAfter(lines, i))

\* Of the variants above a URL that no other URL separates from it, it is the
\* first whose URL it is taken to be (hls.rs 114-129).
Owners(lines) ==
    {i \in WithUrl(lines) : \A v \in Variants(lines) : v < i => UrlOf(lines, v) < i}

\* The URL of the first audio_only variant that owns one, that of the last
\* owner if there is none, and nothing if no variant has a URL.
PicksRight(lines, out) ==
    LET owners == Owners(lines)
        audio == {i \in owners : lines[i] = "audio"}
    IN  IF owners = {} THEN out = 0
        ELSE out = UrlOf(lines, IF audio # {} THEN Min(audio) ELSE Max(owners))

\* ffmpeg is given the audio of the stream rather than any other of its
\* variants, and a variant rather than nothing, as far as each variant's tag
\* is followed by its own URL: of two tags above one URL the second is not
\* looked at (hls.rs 106-133).  So in <<video, audio, url, video, url>> the last
\* URL is taken, although "the `audio_only` media-playlist URL" is promised,
\* "falling back to the last variant URL if no audio-only rendition exists"
\* (hls.rs 106-107).
AudioPreferred == call.fn = "pick_audio_only" => PicksRight(call.lines, call.out)

\* Whether the first printed character of a text hides behind command
\* characters a tab away: the one prefix that sanitize does not take off.
TabAfterCommand(line) ==
    LET rest == TrimLeft(line, Prefix) IN rest # << >> /\ Head(rest) = "tab"

\* What is posted is one line within the cap, without white space around it
\* or a mass mention that was not doubled; it starts with a command only
\* behind a tab; and a harmless line is posted as it is (persona.rs 80-91).
Sanitized(reply, max, out) ==
    LET doubled == \E i \in 1..(Len(reply) - 2) :
                      reply[i] = "@" /\ reply[i + 1] = "@" /\ reply[i + 2] = "all"
    IN  /\ Len(out) <= max /\ out = Trim(out, White)
        /\ \A i \in DOMAIN out : out[i] # "newline"
        /\ (\E i \in 1..(Len(out) - 1) : out[i] = "@" /\ out[i + 1] = "all") => doubled
        /\ out # << >> /\ Head(out) \in Prefix => TabAfterCommand(FirstLine(reply))
        /\ (\A i \in DOMAIN reply : reply[i] \in {"x", " ", "all"}) /\ Len(reply) <= max
              => out = Trim(reply, White)

\* The braces of a text balance from i to j and not before j.
Depth(content, i, j) ==
    Quantify(i..j, LAMBDA k : content[k] = "{") - Quantify(i..j, LAMBDA k : content[k] = "}")
Balanced(content, i, j) ==
    Depth(content, i, j) = 0 /\ \A k \in i..(j - 1) : Depth(content, i, k) > 0

\* The slice that is parsed spans the first balanced object, and is that
\* object when no other closing brace follows it (analysis.rs 136-147).
Extracted(content, out) ==
    LET opens == {i \in DOMAIN content : content[i] = "{"}
        ends == IF opens = {} THEN {}
                ELSE {j \in DOMAIN content : j > Min(opens) /\ Balanced(content, Min(opens), j)}
    IN  ends # {} =>
            /\ out # << >> /\ out[1] = Min(opens) /\ out[2] >= Min(ends)
            /\ (\A k \in (Min(ends) + 1)..Len(content) : content[k] # "}")
                  => out = <<Min(opens), Min(ends)>>

\* An answer of the LLM is used as the two rules above say.
AnswersUsed ==
    /\ call.fn = "sanitize" => Sanitized(call.reply, call.max, call.out)
    /\ call.fn = "parse_insight" => Extracted(call.content, call.out)

\* What a variable is set to, and by whom.
Given(process, file, key) ==
    LET named == {i \in DOMAIN file : file[i].key = key}
    IN  IF process[key] # Unset THEN process[key]
        ELSE IF named # {} THEN file[Min(named)].value ELSE Unset

\* The forms a channel is documented in: [scheme][www.][host]login[/...|?...].
Forms(schemes, wwws, hosts, rests) ==
    {scheme \o www \o host \o <<Login>> \o rest :
        scheme \in schemes, www \in wwws, host \in hosts, rest \in rests}
Documented ==
    Forms({<< >>, <<"https://">>, <<"http://">>}, {<< >>, <<"www.">>},
          {<< >>, <<"twitch.tv/">>}, {<< >>, <<"/">>, <<"?">>, <<" ">>})

\* A variable is what the process has, else what the first line of the file
\* that names it says, else its default; a blank one is not an unset one,
\* and the program starts exactly if what must parse does (config.rs 80-232).
Configured(process, file, out) ==
    LET given == [k \in Keys |-> Given(process, file, k)]
        channel == given["TWITCH_CHANNEL"] \notin {Unset, Blank, Bad}
        poll == given["STREAM_POLL_SECS"] \notin {Blank, Bad}
    IN  IF Nameless \in ToSet(file) THEN out.outcome = "panic"
        ELSE IF ~channel THEN out = [outcome |-> "error", key |-> "TWITCH_CHANNEL"]
        ELSE IF ~poll THEN out = [outcome |-> "error", key |-> "STREAM_POLL_SECS"]
        ELSE /\ out.outcome = "config"
             /\ \A k \in Keys : given[k] \notin {Unset, Blank} => out.field[k] = given[k]
             /\ out.field["TWITCH_BOT_USERNAME"] = Nothing
                   <=> given["TWITCH_BOT_USERNAME"] \in {Unset, Blank}
             /\ out.field["STT_MODEL"] = Default <=> given["STT_MODEL"] = Unset

\* A channel in a documented form is reduced to its login, and no separator
\* is left of one in any form (config.rs 146-147).
Normalized(raw, out) ==
    /\ raw \in Documented => out = <<Login>>
    /\ \A i \in DOMAIN out : out[i] \notin Separators

\* The configuration means what is set, and the channel what is documented.
ConfigFaithful ==
    /\ call.fn = "from_env" => Configured(call.process, call.file, call.out)
    /\ call.fn = "normalize_channel" => Normalized(call.raw, call.out)
=============================================================================
