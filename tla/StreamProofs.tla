---------------------------- MODULE StreamProofs ----------------------------
(* Theorems about the stream's two workers.  The lifecycle: what is published *)
(* has been confirmed, notices alternate but for restarts, and the watch      *)
(* agrees with the worker.  The audio pipeline: nothing is left running when  *)
(* no pipeline goes, and no change of the watch is missed.  The two together, *)
(* as the conjunction of their specifications over the watch they share:      *)
(* capturing follows what the lifecycle worker believes.                      *)
EXTENDS Lifecycle, AudioPipeline, TLAPS

\* At least one poll confirms a change.
LEMMA NeededType == Needed \in Nat \ {0}
  BY LifecycleAssumption DEF Needed

\* The program starts with an offline stream, nothing told and no restart.
LEMMA InitInv == Init => IInv
  <1> SUFFICES ASSUME Init PROVE IInv
    OBVIOUS
  <1> USE LifecycleAssumption, NeededType DEF Init
  <1>1. TypeOK
    <2>1. online \in BOOLEAN /\ since \in BOOLEAN /\ shutdown \in BOOLEAN
      BY Zenon
    <2>2. pending \in 0..(Needed - 1) /\ streak \in 0..Needed
      OBVIOUS
    <2>3. restarts \in 0..MaxRestarts /\ repeats \in 0..(MaxRestarts + 1)
      OBVIOUS
    <2> QED
      BY <2>1, <2>2, <2>3, Zenon DEF TypeOK, Statuses, InWorker
  <1>2. PendingInv
    BY DEF PendingInv
  <1>3. BeliefInv
    BY DEF BeliefInv, StatusOf
  <1>4. NoticeInv
    BY DEF NoticeInv, Upcoming, InWorker, StatusOf
  <1> QED
    BY <1>1, <1>2, <1>3, <1>4 DEF IInv

\* A successful poll preserves the invariant: what is pending are the polls in
\* a row that disagreed, and a change is published, believed and then told.
LEMMA PollInv == ASSUME IInv, PollSucceeds PROVE IInv'
  <1> USE LifecycleAssumption, NeededType
  <1> USE DEF IInv, TypeOK, PollSucceeds, Reported, locals, notices,
              StatusOf, Statuses
  <1>1. CASE Agree
    <2>1. TypeOK'
      BY <1>1 DEF Agree, InWorker
    <2>2. PendingInv'
      BY <1>1 DEF Agree, PendingInv
    <2>3. BeliefInv'
      BY <1>1 DEF Agree, BeliefInv, InWorker
    <2>4. NoticeInv'
      BY <1>1 DEF Agree, NoticeInv, Upcoming, InWorker
    <2> QED
      BY <2>1, <2>2, <2>3, <2>4
  <1>2. CASE Doubt
    <2>1. TypeOK'
      BY <1>2 DEF Doubt, InWorker
    <2>2. PendingInv'
      BY <1>2 DEF Doubt, PendingInv
    <2>3. BeliefInv'
      BY <1>2 DEF Doubt, BeliefInv, InWorker
    <2>4. NoticeInv'
      BY <1>2 DEF Doubt, NoticeInv, Upcoming, InWorker
    <2> QED
      BY <2>1, <2>2, <2>3, <2>4
  <1>3. CASE Change
    <2>1. TypeOK'
      BY <1>3 DEF Change, InWorker
    <2>2. PendingInv'
      BY <1>3 DEF Change, PendingInv
    <2>3. BeliefInv'
      BY <1>3 DEF Change, BeliefInv, InWorker
    <2>4. NoticeInv'
      BY <1>3 DEF Change, NoticeInv, Upcoming, InWorker
    <2> QED
      BY <2>1, <2>2, <2>3, <2>4
  <1> QED
    BY <1>1, <1>2, <1>3

\* Every other step preserves it; a panic pays for the notice that the
\* restarted worker may repeat.
LEMMA StepInv == IInv /\ [Next]_vars => IInv'
  <1> SUFFICES ASSUME IInv, [Next]_vars PROVE IInv'
    OBVIOUS
  <1> USE LifecycleAssumption, NeededType
  <1>1. CASE PollSucceeds
    BY <1>1, PollInv
  <1>2. CASE Spawn
    <2>1. TypeOK'
      <3>1. online' \in BOOLEAN /\ since' \in BOOLEAN
        BY <1>2, Zenon DEF Spawn
      <3>2. pending' \in 0..(Needed - 1)
        BY <1>2 DEF Spawn
      <3>3. pc' \in InWorker \cup {"spawn", "unset", "backoff", "ended"}
        BY <1>2 DEF Spawn, InWorker
      <3>4. /\ cfg' = cfg /\ live' = live /\ shutdown' = shutdown /\ status' = status
            /\ report' = report /\ streak' = streak /\ restarts' = restarts
            /\ told' = told /\ repeats' = repeats
        BY <1>2 DEF Spawn, polls, notices
      <3>5. TypeOK
        BY DEF IInv
      <3> QED
        BY <3>1, <3>2, <3>3, <3>4, <3>5, Zenon DEF TypeOK
    <2>2. PendingInv'
      BY <1>2 DEF Spawn, PendingInv
    <2>3. BeliefInv'
      <3>1. restarts = 0 => status = "offline"
        BY <1>2 DEF Spawn, IInv, BeliefInv, StatusOf
      <3>2. ~online' /\ since' = online' /\ status' = status /\ restarts' = restarts
        BY <1>2, Zenon DEF Spawn
      <3>3. pc' \notin {"spawn", "backoff"}
        BY <1>2 DEF Spawn
      <3> QED
        BY <3>1, <3>2, <3>3 DEF BeliefInv, StatusOf
    <2>4. NoticeInv'
      BY <1>2 DEF Spawn, notices, IInv, NoticeInv, Upcoming, InWorker, StatusOf
    <2> QED
      BY <2>1, <2>2, <2>3, <2>4 DEF IInv
  <1>3. CASE Panic
    BY <1>3 DEF IInv, TypeOK, PendingInv, BeliefInv, NoticeInv, Upcoming,
                Panic, locals, polls, notices, StatusOf, Statuses, InWorker
  <1>4. CASE BackoffOver
    BY <1>4 DEF IInv, TypeOK, PendingInv, BeliefInv, NoticeInv, Upcoming,
                BackoffOver, locals, polls, notices, StatusOf, Statuses, InWorker
  <1>5. CASE Stop
    BY <1>5 DEF IInv, TypeOK, PendingInv, BeliefInv, NoticeInv, Upcoming,
                Stop, locals, polls, notices, StatusOf, Statuses, InWorker
  <1>6. CASE PollFails
    BY <1>6 DEF IInv, TypeOK, PendingInv, BeliefInv, NoticeInv, Upcoming,
                PollFails, locals, polls, notices, StatusOf, Statuses, InWorker
  <1>7. CASE Notify
    BY <1>7 DEF IInv, TypeOK, PendingInv, BeliefInv, NoticeInv, Upcoming,
                Notify, locals, polls, StatusOf, Statuses, InWorker
  <1>8. CASE Wake
    BY <1>8 DEF IInv, TypeOK, PendingInv, BeliefInv, NoticeInv, Upcoming,
                Wake, locals, polls, notices, StatusOf, Statuses, InWorker
  <1>9. CASE Stream
    BY <1>9 DEF IInv, TypeOK, PendingInv, BeliefInv, NoticeInv, Upcoming,
                Stream, locals, polls, notices, StatusOf, Statuses, InWorker
  <1>10. CASE Cancel
    BY <1>10 DEF IInv, TypeOK, PendingInv, BeliefInv, NoticeInv, Upcoming,
                 Cancel, locals, polls, notices, StatusOf, Statuses, InWorker
  <1>11. CASE UNCHANGED vars
    BY <1>11 DEF IInv, TypeOK, PendingInv, BeliefInv, NoticeInv, Upcoming,
                 vars, locals, polls, notices, StatusOf, Statuses, InWorker
  <1> QED
    BY <1>1, <1>2, <1>3, <1>4, <1>5, <1>6, <1>7, <1>8, <1>9, <1>10, <1>11
       DEF Next, Run

\* The inductive invariant holds for every number of confirmations and panics.
THEOREM Inductive == Spec => []IInv
  <1>1. Init => IInv
    BY InitInv
  <1>2. IInv /\ [Next]_vars => IInv'
    BY StepInv
  <1> QED
    BY <1>1, <1>2, PTL DEF Spec

\* The worker's counters and flags keep their types (lifecycle.rs 38-40).
THEOREM TypeCorrect == Spec => []TypeOK
  <1>1. IInv => TypeOK
    BY DEF IInv
  <1> QED
    BY <1>1, Inductive, PTL

\* With both notices wanted, a notice is repeated only at the price of a
\* restart (lifecycle.rs 47-68).
THEOREM NoticesAlternating == Spec => []NoticesAlternate
  <1>1. IInv => NoticesAlternate
    BY DEF IInv, NoticeInv, NoticesAlternate
  <1> QED
    BY <1>1, Inductive, PTL

\* The watch never lags behind what the worker believes (lifecycle.rs 47-68).
THEOREM WatchAgreement == Spec => []WatchAgrees
  <1>1. IInv => WatchAgrees
    BY DEF IInv, BeliefInv, WatchAgrees
  <1> QED
    BY <1>1, Inductive, PTL

\* Whatever polls fail and however often the worker restarts, the watch
\* changes only on confirm_polls successful polls in a row (lifecycle.rs 44-46).
THEOREM ChangesConfirmed == Spec => ConfirmedChange
  <1> DEFINE Confirmed == status' # status => status' = report' /\ streak' = Needed
  <1>1. IInv /\ [Next]_vars => [Confirmed]_vars
    <2> SUFFICES ASSUME IInv, Next, status' # status
                 PROVE  status' = report' /\ streak' = Needed
      BY DEF vars
    <2>1. PollSucceeds /\ Change
      BY DEF Next, Run, Spawn, Panic, BackoffOver, Stop, PollSucceeds, Agree, Doubt,
             PollFails, Notify, Wake, Stream, Cancel
    <2>2. status' = report'
      BY <2>1 DEF PollSucceeds, Change, Reported
    <2>3. streak' = Needed
      BY <2>1, NeededType DEF PollSucceeds, Change, Reported, IInv, TypeOK,
         PendingInv, StatusOf, Statuses
    <2> QED
      BY <2>2, <2>3
  <1> QED
    BY <1>1, Inductive, PTL DEF Spec, ConfirmedChange

----------------------------------------------------------------------------
\* The audio pipeline.

\* It starts with no task and no child, and an offline watch it has seen.
LEMMA AudioInitInv == AudioInit => AudioInv
  <1> SUFFICES ASSUME AudioInit PROVE AudioInv
    OBVIOUS
  <1>1. unseen \in BOOLEAN /\ unread \in BOOLEAN /\ shutdown \in BOOLEAN
    BY Zenon DEF AudioInit
  <1>2. queued \in 0..ChunkCap /\ running \subseteq Processes
    BY DEF AudioInit, ChunkCap
  <1>3. AudioTypeOK
    BY <1>1, <1>2, Zenon DEF AudioInit, AudioTypeOK
  <1>4. ChildrenInv
    BY DEF AudioInit, ChildrenInv
  <1>5. WakeupInv
    BY DEF AudioInit, WakeupInv, NoLostWakeup
  <1> QED
    BY <1>3, <1>4, <1>5 DEF AudioInv

\* run() moves on: it goes to wait only from an offline watch, to launch only
\* from an online one or a replay, and behind both tasks only when they ended.
LEMMA RunInv == AudioInv /\ (RunStep \/ RunEnds) => AudioInv'
  <1> USE DEF AudioInv, AudioTypeOK, ChildrenInv, WakeupInv, NoLostWakeup, Moves, Wanted
  <1>1. ASSUME AudioInv, RunEnds PROVE AudioInv'
    BY <1>1 DEF RunEnds
  <1>2. ASSUME AudioInv, FindOnline \/ FindOffline PROVE AudioInv'
    BY <1>2 DEF FindOnline, FindOffline
  <1>3. ASSUME AudioInv, StatusChanged PROVE AudioInv'
    BY <1>3 DEF StatusChanged
  <1>4. ASSUME AudioInv, Launch PROVE AudioInv'
    BY <1>4 DEF Launch, ChunkCap
  <1>5. ASSUME AudioInv, AwaitReader \/ AwaitConsumer \/ PauseOver PROVE AudioInv'
    BY <1>5 DEF AwaitReader, AwaitConsumer, PauseOver
  <1> QED
    BY <1>1, <1>2, <1>3, <1>4, <1>5 DEF RunStep

\* A capture that goes on leaves no child behind, and stops watching the stream
\* only with nothing left to see or on its way to the end.
LEMMA CaptureInv == AudioInv /\ CaptureStep => AudioInv'
  <1> USE DEF AudioInv, AudioTypeOK, ChildrenInv, WakeupInv, NoLostWakeup, Capture,
              Processes, ChunkCap
  <1>1. ASSUME AudioInv, Start PROVE AudioInv'
    BY <1>1 DEF Start, StartStreamlink, StartFfmpeg, StartFails
  <1>2. ASSUME AudioInv, ReadChunk PROVE AudioInv'
    BY <1>2 DEF ReadChunk
  <1>3. ASSUME AudioInv, EndOfFile \/ ReadError \/ CaptureStop PROVE AudioInv'
    BY <1>3 DEF EndOfFile, ReadError, CaptureStop
  <1>4. ASSUME AudioInv, CaptureStatus PROVE AudioInv'
    BY <1>4 DEF CaptureStatus
  <1>5. ASSUME AudioInv, Kill \/ Reap PROVE AudioInv'
    BY <1>5 DEF Kill, Reap
  <1> QED
    BY <1>1, <1>2, <1>3, <1>4, <1>5 DEF CaptureStep

\* Speech-to-text touches its own place and the channel only.
LEMMA SttInv == AudioInv /\ SttStep => AudioInv'
  BY DEF AudioInv, AudioTypeOK, ChildrenInv, WakeupInv, NoLostWakeup, Stt, SttStep,
         TakeChunk, Answer, Delivered, SttEnds, watch, ChunkCap

\* What is published is unseen by both receivers; a child may exit anywhere.
LEMMA OutsideInv ==
    AudioInv /\ (Publish \/ TokenCancelled \/ \E child \in Processes : Exit(child))
        => AudioInv'
  <1> USE DEF AudioInv, AudioTypeOK, ChildrenInv, WakeupInv, NoLostWakeup, tasks, watch
  <1>1. ASSUME AudioInv, Publish PROVE AudioInv'
    BY <1>1 DEF Publish
  <1>2. ASSUME AudioInv, TokenCancelled PROVE AudioInv'
    BY <1>2 DEF TokenCancelled
  <1>3. ASSUME AudioInv, NEW child \in Processes, Exit(child) PROVE AudioInv'
    BY <1>3 DEF Exit
  <1> QED
    BY <1>1, <1>2, <1>3

\* The pipeline's inductive invariant, in every mode.
THEOREM AudioInductive == AudioSpec => []AudioInv
  <1>1. AudioInv /\ UNCHANGED audio => AudioInv'
    BY DEF AudioInv, AudioTypeOK, ChildrenInv, WakeupInv, NoLostWakeup, audio, tasks, watch
  <1>2. AudioInv /\ [AudioNext]_audio => AudioInv'
    BY <1>1, RunInv, CaptureInv, SttInv, OutsideInv DEF AudioNext
  <1> QED
    BY <1>2, AudioInitInv, PTL DEF AudioSpec

\* While run() has no pipeline going, nothing of an earlier one is left: two
\* captures never overlap (pipeline.rs 85-106).
THEOREM NothingOrphaned == AudioSpec => []NoOrphans
  <1>1. AudioInv => NoOrphans
    BY DEF AudioInv, ChildrenInv, NoOrphans
  <1> QED
    BY <1>1, AudioInductive, PTL

\* No change of the watch is lost between looking and waiting, nor by the clone
\* that a capture takes along (pipeline.rs 52-57, 186-190).
THEOREM NoWakeupLost == AudioSpec => []NoLostWakeup
  <1>1. AudioInv => NoLostWakeup
    BY DEF AudioInv, WakeupInv
  <1> QED
    BY <1>1, AudioInductive, PTL

----------------------------------------------------------------------------
\* The two workers over the watch they share: each takes its own steps, and a
\* status that the lifecycle worker publishes is one the pipeline is sent.

\* The pipeline never waits on, unwoken, while the lifecycle worker believes
\* the stream to be on; nor, as long as that worker has not restarted, captures
\* on, unwoken, what it believes to be off (lifecycle.rs 47-53, pipeline.rs
\* 50-57, 186-228).
CaptureFollows ==
    /\ online /\ pc \in InWorker /\ at = "wait" => unseen
    /\ restarts = 0 /\ ~online /\ mode # "replay"
          /\ capture \in {"spawn", "spawnFfmpeg", "read"} => unread

\* So it is in the program, for any number of confirmations and restarts.
THEOREM CaptureFollowsWorker == Spec /\ AudioSpec => []CaptureFollows
  <1>1. WatchAgrees /\ NoLostWakeup => CaptureFollows
    BY DEF WatchAgrees, NoLostWakeup, CaptureFollows, StatusOf
  <1> QED
    BY <1>1, WatchAgreement, NoWakeupLost, PTL
=============================================================================
