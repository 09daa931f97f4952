------------------------------ MODULE Lifecycle ------------------------------
(***************************************************************************)
(* src/src/twitch/lifecycle.rs under its supervisor: one worker polls      *)
(* Helix, confirms a change of the stream's status over several polls,     *)
(* publishes it on the status watch and announces it on Discord.  A panic  *)
(* of the worker loses what it believed; the watch, which the supervisor's *)
(* factory owns, survives and the restarted worker starts from scratch.    *)
(***************************************************************************)
EXTENDS StatusWatch, Naturals

CONSTANTS
    ConfirmPolls,  \* STREAM_CONFIRM_POLLS; 0 is raised to 1
    MaxRestarts    \* bound: panics of the worker

ASSUME LifecycleAssumption == ConfirmPolls \in Nat /\ MaxRestarts \in Nat

Needed == IF ConfirmPolls = 0 THEN 1 ELSE ConfirmPolls

VARIABLES
    cfg,       \* credentials present, and which changes to announce
    live,      \* what Twitch would report
    pc,        \* where the supervised worker is
    online, pending,  \* its locals
    since,     \* ... and whether online_since is Some
    \* History:
    report, streak,  \* the last successful poll, and how many in a row said so
    restarts,
    told,      \* the last announcement
    repeats    \* announcements that said what the one before said, counted
               \* to one past MaxRestarts

locals  == <<online, pending, since>>
polls   == <<report, streak>>
notices == <<told, repeats>>
vars    == <<cfg, live, shutdown, pc, locals, status, polls, restarts, notices>>

InWorker == {"poll", "notify", "sleep"}

TypeOK ==
    /\ cfg \in [credentials : BOOLEAN, notifyOnline : BOOLEAN, notifyOffline : BOOLEAN]
    /\ live \in BOOLEAN /\ shutdown \in BOOLEAN
    /\ pc \in InWorker \cup {"spawn", "unset", "backoff", "ended"}
    /\ online \in BOOLEAN /\ since \in BOOLEAN
    /\ pending \in 0..(Needed - 1)
    /\ status \in Statuses
    /\ report \in Statuses /\ streak \in 0..Needed
    /\ restarts \in 0..MaxRestarts
    /\ told \in Statuses \cup {"nothing"} /\ repeats \in 0..(MaxRestarts + 1)

Init ==
    /\ cfg \in [credentials : BOOLEAN, notifyOnline : BOOLEAN, notifyOffline : BOOLEAN]
    /\ live \in BOOLEAN /\ shutdown = FALSE
    /\ pc = "spawn"
    /\ online = FALSE /\ pending = 0 /\ since = FALSE
    /\ status = "offline"
    /\ report = "offline" /\ streak = 0
    /\ restarts = 0 /\ told = "nothing" /\ repeats = 0

----------------------------------------------------------------------------
\* Supervisor::supervise

\* The loop calls the factory: run() starts with fresh locals.
Spawn ==
    /\ pc = "spawn" /\ ~shutdown
    /\ pc' = IF cfg.credentials THEN "poll" ELSE "unset"
    /\ online' = FALSE /\ pending' = 0 /\ since' = FALSE
    /\ UNCHANGED <<cfg, live, shutdown, status, polls, restarts, notices>>

\* The worker panics; the loop ends if the program is shutting down.
Panic ==
    /\ pc \in InWorker /\ restarts < MaxRestarts
    /\ restarts' = restarts + 1
    /\ pc' = IF shutdown THEN "ended" ELSE "backoff"
    /\ UNCHANGED <<cfg, live, shutdown, locals, status, polls, notices>>

BackoffOver ==
    /\ pc = "backoff"
    /\ pc' = "spawn"
    /\ UNCHANGED <<cfg, live, shutdown, locals, status, polls, restarts, notices>>

\* Mutant: without credentials the worker does not wait for the token.
Stop_NotUnset ==
    /\ shutdown /\ pc \in {"spawn", "backoff", "sleep"}
    /\ pc' = "ended"
    /\ UNCHANGED <<cfg, live, shutdown, locals, status, polls, restarts, notices>>

\* The token is seen: by the loop's condition, by its wait for the backoff,
\* by the worker's sleep, or by the worker that has no credentials.
Stop ==
    /\ shutdown /\ pc \in {"spawn", "backoff", "sleep", "unset"}
    /\ pc' = "ended"
    /\ UNCHANGED <<cfg, live, shutdown, locals, status, polls, restarts, notices>>

----------------------------------------------------------------------------
\* run

Reported ==
    /\ report' = StatusOf(live)
    /\ streak' = IF report # StatusOf(live) THEN 1
                 ELSE IF streak = Needed THEN Needed ELSE streak + 1

\* Mutant: agreement does not cancel the polls that disagreed.
Agree_KeepsPending == live = online /\ pc' = "sleep" /\ UNCHANGED <<locals, status>>

\* The poll confirms what the worker believes.
Agree ==
    /\ live = online
    /\ pending' = 0
    /\ pc' = "sleep"
    /\ UNCHANGED <<online, since, status>>

\* It disagrees, and not often enough yet.
Doubt ==
    /\ live # online /\ pending + 1 < Needed
    /\ pending' = pending + 1
    /\ pc' = "sleep"
    /\ UNCHANGED <<online, since, status>>

\* Mutant: the change is published before it is believed, and forgotten.
Change_Forgotten ==
    /\ live # online /\ pending + 1 >= Needed
    /\ pending' = 0
    /\ status' = StatusOf(live)
    /\ pc' = IF IF live THEN cfg.notifyOnline ELSE cfg.notifyOffline
             THEN "notify" ELSE "sleep"
    /\ UNCHANGED <<online, since>>

\* Mutant: only a stream that comes online is published.
Change_OnlineOnly ==
    /\ live # online /\ pending + 1 >= Needed
    /\ online' = live /\ pending' = 0 /\ since' = live
    /\ status' = IF live THEN "online" ELSE status
    /\ pc' = IF IF live THEN cfg.notifyOnline ELSE cfg.notifyOffline
             THEN "notify" ELSE "sleep"

\* The change is confirmed: believed and published, then announced.
Change ==
    /\ live # online /\ pending + 1 >= Needed
    /\ online' = live /\ pending' = 0 /\ since' = live
    /\ status' = StatusOf(live)
    /\ pc' = IF IF live THEN cfg.notifyOnline ELSE cfg.notifyOffline
             THEN "notify" ELSE "sleep"

PollSucceeds ==
    /\ pc = "poll"
    /\ Reported
    /\ Agree \/ Doubt \/ Change
    /\ UNCHANGED <<cfg, live, shutdown, restarts, notices>>

\* The worker keeps its last state, and the polls that disagreed with it.
PollFails ==
    /\ pc = "poll"
    /\ pc' = "sleep"
    /\ UNCHANGED <<cfg, live, shutdown, locals, status, polls, restarts, notices>>

\* out_tx.send() returns: the message is queued, or the output worker is gone.
Notify ==
    /\ pc = "notify"
    /\ pc' = "sleep"
    /\ told' = StatusOf(online)
    /\ repeats' = IF told = StatusOf(online) /\ repeats <= MaxRestarts
                  THEN repeats + 1 ELSE repeats
    /\ UNCHANGED <<cfg, live, shutdown, locals, status, polls, restarts>>

Wake ==
    /\ pc = "sleep"
    /\ pc' = "poll"
    /\ UNCHANGED <<cfg, live, shutdown, locals, status, polls, restarts, notices>>

----------------------------------------------------------------------------
\* The stream starts or ends.
Stream ==
    /\ live' = ~live
    /\ UNCHANGED <<cfg, shutdown, pc, locals, status, polls, restarts, notices>>

Cancel ==
    /\ ~shutdown
    /\ shutdown' = TRUE
    /\ UNCHANGED <<cfg, live, pc, locals, status, polls, restarts, notices>>

Run == PollSucceeds \/ PollFails \/ Notify \/ Wake
Next == Spawn \/ Panic \/ BackoffOver \/ Stop \/ Run \/ Stream \/ Cancel

\* Timers fire, the HTTP client gives up after a minute, the output channel
\* has room again or closes, and select! does not ignore the token for ever.
Fairness ==
    /\ WF_vars(Spawn \/ BackoffOver) /\ SF_vars(Stop)
    /\ WF_vars(PollSucceeds \/ PollFails) /\ WF_vars(Notify) /\ WF_vars(Wake)

Spec == Init /\ [][Next]_vars /\ Fairness

----------------------------------------------------------------------------
\* The watch changes only to what the last `confirm_polls` successful polls in
\* a row have reported, whatever fails or restarts between (lifecycle.rs 44-46).
ConfirmedChange ==
    [][status' # status => status' = report' /\ streak' = Needed]_vars

\* Go-live and offline notices alternate, when both are wanted: each restart
\* can make the worker repeat one of them and no more (lifecycle.rs 47-68).
NoticesAlternate ==
    cfg.notifyOnline /\ cfg.notifyOffline => repeats <= restarts

\* The worker never believes in a stream that the watch calls offline, and
\* until it has restarted the two are the same.
WatchAgrees ==
    /\ online /\ pc \in InWorker => status = "online"
    /\ restarts = 0 => status = StatusOf(online)

\* A stream that stays on is published, whatever restarts on the way.  One
\* that stays off is published too, as long as the worker has not restarted: a
\* restarted worker takes a stream to be off and says nothing.
StatusPublished ==
    []<><<PollSucceeds>>_vars =>
        /\ <>[]live => <>[](status = "online")
        /\ <>[]~live => <>[](status = "offline" \/ restarts > 0)

\* The supervised loop ends after cancellation, wherever it is.
LoopEnds == shutdown ~> pc = "ended"

----------------------------------------------------------------------------
\* The inductive invariant.

\* A poll that disagreed is the last successful one, and none has agreed
\* since the first of the pending ones.
PendingInv == pending > 0 => report = StatusOf(~online) /\ pending <= streak

BeliefInv ==
    /\ online /\ pc \in InWorker => status = "online"
    /\ restarts = 0 => status = StatusOf(online)
    /\ since = online
    /\ pc \in {"spawn", "backoff"} => restarts > 0 \/ ~online

\* What the worker announces next, if it announces anything.
Upcoming ==
    IF pc = "notify" THEN StatusOf(online)
    ELSE IF pc \in InWorker THEN StatusOf(~online)
    ELSE "online"

\* An announcement that would repeat the last one is paid for by a restart.
NoticeInv ==
    cfg.notifyOnline /\ cfg.notifyOffline =>
        /\ repeats <= restarts
        /\ pc # "ended" /\ told = Upcoming => repeats < restarts

IInv == TypeOK /\ PendingInv /\ BeliefInv /\ NoticeInv
=============================================================================
