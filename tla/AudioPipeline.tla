---------------------------- MODULE AudioPipeline ----------------------------
(***************************************************************************)
(* src/src/audio/pipeline.rs: while the stream is online, run() keeps a    *)
(* capture task (streamlink and ffmpeg, cut into chunks) and a             *)
(* speech-to-text task going, joined by a channel of two chunks that sheds *)
(* what it cannot hold.  Both learn of the stream's status from a watch,   *)
(* each through a receiver of its own that sees the latest value only.     *)
(*                                                                         *)
(* Audio has no content: a chunk is one unit in the channel.  The answers  *)
(* of the governor, of voice detection and of the provider are arbitrary.  *)
(***************************************************************************)
EXTENDS StatusWatch, Naturals

ChunkCap == 2
Processes == {"streamlink", "ffmpeg"}

VARIABLES
    mode,     \* "replay", "ffmpeg-direct" or "streamlink"
    unseen,   \* run's receiver has not seen the watch's latest version
    at,       \* where run() is
    capture,  \* where capture_loop is; "ended" if there is none
    unread,   \* its receiver has not seen the watch's latest version
    running,  \* child processes that are alive
    queued,   \* chunks in the channel
    stt       \* where stt_loop is; "ended" if there is none

tasks == <<at, capture, stt>>
watch == <<status, unseen, unread>>
audio == <<mode, watch, shutdown, tasks, running, queued>>

AudioTypeOK ==
    /\ mode \in {"replay", "ffmpeg-direct", "streamlink"}
    /\ status \in {"online", "offline"}
    /\ unseen \in BOOLEAN /\ unread \in BOOLEAN /\ shutdown \in BOOLEAN
    /\ at \in {"check", "wait", "launch", "capturing", "draining", "pause", "done"}
    /\ capture \in {"spawn", "spawnFfmpeg", "read", "kill", "reap", "ended"}
    /\ running \subseteq Processes
    /\ queued \in 0..ChunkCap
    /\ stt \in {"recv", "request", "send", "ended"}

AudioInit ==
    /\ mode \in {"replay", "ffmpeg-direct", "streamlink"}
    /\ status = "offline" /\ unseen = FALSE /\ unread = FALSE /\ shutdown = FALSE
    /\ at = "check" /\ capture = "ended" /\ stt = "ended"
    /\ running = {} /\ queued = 0

----------------------------------------------------------------------------
\* run

Wanted == mode = "replay" \/ status = "online"

Moves(from, to) ==
    /\ at = from /\ at' = to
    /\ UNCHANGED <<mode, status, unread, shutdown, capture, stt, running, queued>>

\* borrow() shows the latest value and does not mark it seen.
FindOnline  == Wanted /\ ~shutdown /\ Moves("check", "launch") /\ UNCHANGED unseen
FindOffline == ~Wanted /\ Moves("check", "wait") /\ UNCHANGED unseen

\* changed() marks it.
StatusChanged == unseen /\ unseen' = FALSE /\ Moves("wait", "check")

\* Mutant: the capture's receiver is subscribed anew, with nothing unseen.
Launch_Subscribes ==
    /\ at = "launch" /\ at' = "capturing"
    /\ capture' = "spawn" /\ unread' = FALSE
    /\ stt' = "recv" /\ queued' = 0
    /\ UNCHANGED <<mode, status, unseen, shutdown, running>>

\* A fresh channel and both tasks; a cloned receiver has seen what the
\* original has seen.
Launch ==
    /\ at = "launch" /\ at' = "capturing"
    /\ capture' = "spawn" /\ unread' = unseen
    /\ stt' = "recv" /\ queued' = 0
    /\ UNCHANGED <<mode, status, unseen, shutdown, running>>

AwaitReader == capture = "ended" /\ Moves("capturing", "draining") /\ UNCHANGED unseen

\* Mutant: run() does not wait for speech-to-text.
AwaitConsumer_Not ==
    /\ ~shutdown
    /\ Moves("draining", IF Wanted THEN "pause" ELSE "check")
    /\ UNCHANGED unseen

\* A pause of two seconds if the pipeline ended while it is still wanted.
AwaitConsumer ==
    /\ stt = "ended" /\ ~shutdown
    /\ Moves("draining", IF Wanted THEN "pause" ELSE "check")
    /\ UNCHANGED unseen

PauseOver == Moves("pause", "check") /\ UNCHANGED unseen

\* The token is seen: while waiting or pausing, or once both tasks are over.
RunEnds ==
    /\ shutdown
    /\ \/ Moves("wait", "done") \/ Moves("pause", "done")
       \/ Wanted /\ Moves("check", "done")
       \/ stt = "ended" /\ Moves("draining", "done")
    /\ UNCHANGED unseen

----------------------------------------------------------------------------
\* capture_loop

Capture(from, to) ==
    /\ capture = from /\ capture' = to
    /\ UNCHANGED <<mode, status, unseen, shutdown, at, stt>>

StartStreamlink ==
    /\ mode = "streamlink"
    /\ Capture("spawn", "spawnFfmpeg")
    /\ running' = {"streamlink"}
    /\ UNCHANGED <<unread, queued>>

StartFfmpeg ==
    /\ \/ mode = "streamlink" /\ Capture("spawnFfmpeg", "read")
       \/ mode # "streamlink" /\ Capture("spawn", "read")
    /\ running' = running \cup {"ffmpeg"}
    /\ UNCHANGED <<unread, queued>>

\* Mutant: the child that was started is not killed when it is dropped.
StartFails_Leaks ==
    /\ Capture("spawn", "ended") \/ Capture("spawnFfmpeg", "ended")
    /\ UNCHANGED <<unread, running, queued>>

\* A missing binary, or no playlist: the task returns an error, which run()
\* ignores; dropping a child kills it.
StartFails ==
    /\ Capture("spawn", "ended") \/ Capture("spawnFfmpeg", "ended")
    /\ running' = {}
    /\ UNCHANGED <<unread, queued>>

\* A chunk is cut and try_send: a channel that is full, or has no receiver,
\* sheds it.  What ffmpeg wrote is read even after it has exited.
ReadChunk ==
    /\ Capture("read", "read")
    /\ queued' = IF stt = "ended" \/ queued = ChunkCap THEN queued ELSE queued + 1
    /\ UNCHANGED <<unread, running>>

EndOfFile ==
    /\ "ffmpeg" \notin running
    /\ Capture("read", "kill")
    /\ UNCHANGED <<unread, running, queued>>

ReadError == Capture("read", "kill") /\ UNCHANGED <<unread, running, queued>>

CaptureStatus ==
    /\ unread /\ unread' = FALSE
    /\ Capture("read", IF status = "online" THEN "read" ELSE "kill")
    /\ UNCHANGED <<running, queued>>

CaptureStop ==
    /\ shutdown
    /\ Capture("read", "kill")
    /\ UNCHANGED <<unread, running, queued>>

\* start_kill for both children.
Kill == Capture("kill", "reap") /\ running' = {} /\ UNCHANGED <<unread, queued>>

\* wait for both; returning drops the channel's sender.
Reap == running = {} /\ Capture("reap", "ended") /\ UNCHANGED <<unread, running, queued>>

----------------------------------------------------------------------------
\* stt_loop

Stt(from, to) ==
    /\ stt = from /\ stt' = to
    /\ UNCHANGED <<mode, watch, shutdown, at, capture, running>>

\* A chunk is silent, or refused by the governor, or sent to the provider.
TakeChunk ==
    /\ queued > 0 /\ ~shutdown
    /\ queued' = queued - 1
    /\ Stt("recv", "recv") \/ Stt("recv", "request")

\* A failed request or blank text; or text to hand to the aggregator.
Answer == (Stt("request", "recv") \/ Stt("request", "send")) /\ UNCHANGED queued

\* tr_tx.send() waits for room.
Delivered == Stt("send", "recv") /\ UNCHANGED queued

\* Mutant: the loop waits for chunks from a capture that has ended.
SttEnds_OnlyStopped ==
    /\ shutdown
    /\ Stt("send", "ended") \/ Stt("recv", "ended")
    /\ queued' = 0

\* No chunk and no sender left; or the program is shutting down and a chunk
\* comes, or the aggregator has gone.  What is queued is dropped.
SttEnds ==
    /\ \/ Stt("recv", "ended") /\ queued = 0 /\ capture = "ended"
       \/ Stt("recv", "ended") /\ queued > 0 /\ shutdown
       \/ Stt("send", "ended") /\ shutdown
    /\ queued' = 0

----------------------------------------------------------------------------
\* The rest of the program.

\* The lifecycle worker publishes, perhaps what it has published before.
Publish ==
    /\ status' \in {"online", "offline"}
    /\ unseen' = TRUE /\ unread' = TRUE
    /\ UNCHANGED <<mode, shutdown, tasks, running, queued>>

TokenCancelled ==
    /\ ~shutdown /\ shutdown' = TRUE
    /\ UNCHANGED <<mode, watch, tasks, running, queued>>

Exit(child) ==
    /\ child \in running /\ running' = running \ {child}
    /\ UNCHANGED <<mode, watch, shutdown, tasks, queued>>

RunStep == \/ FindOnline \/ FindOffline \/ StatusChanged \/ Launch
           \/ AwaitReader \/ AwaitConsumer \/ PauseOver
Start == StartStreamlink \/ StartFfmpeg \/ StartFails
CaptureStep == \/ Start \/ ReadChunk \/ EndOfFile \/ ReadError
               \/ CaptureStatus \/ CaptureStop \/ Kill \/ Reap
SttStep == TakeChunk \/ Answer \/ Delivered \/ SttEnds
AudioNext ==
    \/ RunStep \/ RunEnds \/ CaptureStep \/ SttStep
    \/ Publish \/ TokenCancelled \/ \E child \in Processes : Exit(child)

\* The three tasks are scheduled; requests time out, the aggregator keeps
\* receiving until it goes, and a branch that is ready again and again is taken
\* by select!, which chooses at random.  Nothing is assumed of the children,
\* the stream or the operator.
AudioFairness ==
    /\ WF_audio(RunStep) /\ SF_audio(RunEnds)
    /\ WF_audio(Start) /\ WF_audio(Kill) /\ WF_audio(Reap)
    /\ SF_audio(EndOfFile) /\ SF_audio(CaptureStatus) /\ SF_audio(CaptureStop)
    /\ WF_audio(SttStep)

AudioSpec == AudioInit /\ [][AudioNext]_audio /\ AudioFairness

----------------------------------------------------------------------------
\* When run() has no pipeline going, no task and no process of an earlier one
\* is left, however it ended: two captures never overlap (pipeline.rs 85-106).
NoOrphans ==
    /\ AudioTypeOK
    /\ at \in {"check", "wait", "launch", "pause", "done"} =>
          capture = "ended" /\ stt = "ended" /\ running = {}

\* No change of the status is missed, whenever it comes between looking at the
\* watch and waiting on it: who waits while the stream is online, or captures
\* a stream that is offline, has a wake-up coming (pipeline.rs 52-57, 186-190).
NoLostWakeup ==
    /\ at = "wait" /\ status = "online" => unseen
    /\ capture \in {"spawn", "spawnFfmpeg", "read"} /\ mode # "replay"
          /\ status = "offline" => unread

\* If the stream stays offline, its processes are gone for good, whatever
\* speech-to-text is doing and however capturing began (pipeline.rs 186-228);
\* and the worker ends after cancellation with its children gone.
CaptureStops ==
    /\ <>[](status = "offline" /\ mode # "replay") => <>[](running = {})
    /\ shutdown ~> (at = "done" /\ running = {})

\* While it stays online, capturing is tried again and again, whatever ends it.
Recaptures ==
    <>[](status = "online" /\ ~shutdown) =>
        []<>(capture \in {"spawn", "spawnFfmpeg", "read"})

----------------------------------------------------------------------------
\* The inductive invariant of the two safety properties.

\* A capture has children only between starting the first and killing them,
\* and speech-to-text may outlive it only while run() waits for it.
ChildrenInv ==
    /\ capture \in {"spawn", "reap", "ended"} => running = {}
    /\ at # "capturing" => capture = "ended"
    /\ at \notin {"capturing", "draining"} => stt = "ended"

\* What each receiver has yet to see, from the look at the watch that decided
\* to wait or to launch to the wake-up that this look may call for.
WakeupInv ==
    /\ NoLostWakeup
    /\ at = "launch" /\ mode # "replay" /\ status = "offline" => unseen

AudioInv == AudioTypeOK /\ ChildrenInv /\ WakeupInv
=============================================================================
