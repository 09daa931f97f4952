-------------------------------- MODULE Drain --------------------------------
(***************************************************************************)
(* The shutdown of the program: the aggregator (all of module Aggregator), *)
(* the output worker that posts its messages to Discord                    *)
(* (src/src/discord.rs), the lifecycle worker as the other sender of the   *)
(* output channel, and the main task joining the workers one after the     *)
(* other (src/src/main.rs, src/src/supervisor.rs).                         *)
(***************************************************************************)
EXTENDS Naturals, Sequences

CONSTANTS
    MaxAge, MaxTokens, Interval, Sizes, OutCap, MaxOwed, \* of Aggregator
    Handles,  \* the workers in the order they were spawned
    Timeout   \* SHUTDOWN_TIMEOUT_SECS, in 5-second ticks

ASSUME DrainAssumption ==
    /\ MaxAge \in Nat /\ MaxTokens \in Nat /\ Interval \in Nat
    /\ Sizes \subseteq Nat \ {0}
    /\ OutCap \in Nat \ {0} /\ MaxOwed \in Nat \ {0}
    /\ Handles \in Seq(STRING) \ {<< >>} /\ Timeout \in Nat

VARIABLES
    entries, tokens, manual, sinceFire, owed, status, changed, shutdown,
    pc, cause, delta, out, open,  \* of Aggregator
    opc,      \* where the output worker is
    item,     \* the message it is posting, or "none"
    ended,    \* the other workers that have returned
    mpc,      \* the main task: "running", "joining" or "exited"
    joining,  \* index of the handle it awaits
    waited,   \* ticks it has awaited that handle
    \* History:
    drained,  \* ticks since it began to join
    posted,   \* the final insight was handed to Discord
    backlog,  \* messages queued before cancellation and still queued
    answered  \* the LLM answered the final summary

A == INSTANCE Aggregator

aggregator == <<entries, tokens, manual, sinceFire, owed, status, changed,
                shutdown, pc, cause, delta, out, open>>
output  == <<opc, item>>
main    == <<mpc, joining, waited>>
history == <<drained, posted, backlog, answered>>
vars    == <<aggregator, output, ended, main, history>>

Others == {Handles[i] : i \in DOMAIN Handles} \ {"aggregate", "output"}

Returned(worker) ==
    CASE worker = "aggregate" -> pc = "done"
      [] worker = "output"    -> opc = "done"
      [] OTHER                -> worker \in ended

TypeOK ==
    /\ A!TypeOK
    /\ opc \in {"recv", "posting", "draining", "emptying", "closing", "done"}
    /\ item \in A!Messages \cup {"none"}
    /\ ended \subseteq Others
    /\ mpc \in {"running", "joining", "exited"}
    /\ joining \in DOMAIN Handles /\ waited \in 0..Timeout
    /\ drained \in Nat /\ posted \in BOOLEAN
    /\ backlog \in 0..OutCap /\ answered \in BOOLEAN

Init ==
    /\ A!Init
    /\ opc = "recv" /\ item = "none" /\ ended = {}
    /\ mpc = "running" /\ joining = 1 /\ waited = 0
    /\ drained = 0 /\ posted = FALSE /\ backlog = 0 /\ answered = FALSE

----------------------------------------------------------------------------
\* The aggregator, and the signal.

Aggregate ==
    /\ A!Loop \/ A!Await
    /\ answered' = (answered \/ (cause = "shutdown" /\ pc' \in {"notice", "insight"}))
    /\ UNCHANGED <<output, ended, main, drained, posted, backlog>>

\* SIGINT or SIGTERM cancels the token that every worker holds.
Cancel ==
    /\ A!Cancel
    /\ backlog' = Len(out)
    /\ UNCHANGED <<output, ended, main, drained, posted, answered>>

----------------------------------------------------------------------------
\* The other workers.  They hold clones of the senders until they return.

\* The lifecycle worker publishes a status and announces it.
Lifecycle ==
    /\ "lifecycle" \in Others \ ended
    /\ A!Publish \/ A!Announce
    /\ UNCHANGED <<output, ended, main, history>>

End(worker) ==
    /\ shutdown
    /\ worker \notin ended
    /\ ended' = ended \cup {worker}
    /\ UNCHANGED <<aggregator, output, main, history>>

----------------------------------------------------------------------------
\* discord::run

Take(to) ==
    /\ A!TakeOut
    /\ item' = Head(out)
    /\ opc' = to
    /\ backlog' = IF backlog = 0 THEN 0 ELSE backlog - 1
    /\ UNCHANGED <<ended, main, drained, posted, answered>>

\* The recv() branch; select! may prefer it to the cancelled token.
Receive == opc = "recv" /\ Take("posting")

\* try_recv() of the drain loop.
TryReceive == opc = "draining" /\ Take("emptying")

\* post(): paced by the limiter, then one request whose failure is logged.
Post ==
    /\ opc \in {"posting", "emptying"}
    /\ opc' = IF opc = "posting" THEN "recv" ELSE "draining"
    /\ posted' = (posted \/ item = "shutdown")
    /\ item' = "none"
    /\ UNCHANGED <<aggregator, ended, main, drained, backlog, answered>>

\* Mutant: the shutdown branch returns at once.
StartDrain_Exits ==
    /\ opc = "recv" /\ shutdown
    /\ opc' = "closing"
    /\ UNCHANGED <<aggregator, item, ended, main, history>>

\* The shutdown branch starts the drain.
StartDrain ==
    /\ opc = "recv" /\ shutdown
    /\ opc' = "draining"
    /\ UNCHANGED <<aggregator, item, ended, main, history>>

\* try_recv() finds nothing.
Drained ==
    /\ opc = "draining" /\ out = << >>
    /\ opc' = "closing"
    /\ UNCHANGED <<aggregator, item, ended, main, history>>

\* recv() finds the channel empty and every sender gone.
ChannelClosed ==
    /\ opc = "recv" /\ out = << >>
    /\ pc = "done" /\ "lifecycle" \in ended
    /\ opc' = "closing"
    /\ UNCHANGED <<aggregator, item, ended, main, history>>

\* The worker returns and drops its receiver; what the other thread has sent
\* since it found the channel empty was accepted, and is lost.
Leave ==
    /\ opc = "closing"
    /\ A!CloseOut
    /\ opc' = "done"
    /\ UNCHANGED <<item, ended, main, history>>

Output == \/ Receive \/ TryReceive \/ Post
          \/ StartDrain \/ Drained \/ ChannelClosed \/ Leave

----------------------------------------------------------------------------
\* main and Supervisor::shutdown_and_join

\* Mutant: main waits for the aggregator before it joins with a timeout.
CanStartJoin_AfterAggregator == mpc = "running" /\ shutdown /\ pc = "done"

CanStartJoin == mpc = "running" /\ shutdown
\* Mutant: a handle is awaited without a timeout.
CanJoin_Untimed == mpc = "joining" /\ Returned(Handles[joining])

CanJoin ==
    mpc = "joining" /\ (Returned(Handles[joining]) \/ waited = Timeout)

StartJoin ==
    /\ CanStartJoin
    /\ mpc' = "joining"
    /\ UNCHANGED <<aggregator, output, ended, joining, waited, history>>

\* timeout(handle) resolves: the worker returned, or its time is over and it
\* is abandoned.  After the last one main returns and the process is gone.
Join ==
    /\ CanJoin
    /\ IF joining = Len(Handles)
       THEN mpc' = "exited" /\ UNCHANGED joining
       ELSE joining' = joining + 1 /\ UNCHANGED mpc
    /\ waited' = 0
    /\ UNCHANGED <<aggregator, output, ended, history>>

\* Five seconds pass, unless main has a timer or a handle to act on.
Elapse ==
    /\ ~CanStartJoin /\ ~CanJoin
    /\ A!Elapse
    /\ IF mpc = "joining"
       THEN waited' = waited + 1 /\ drained' = drained + 1
       ELSE UNCHANGED <<waited, drained>>
    /\ UNCHANGED <<output, ended, mpc, joining, posted, backlog, answered>>

\* The process has exited: whatever the tasks were at is gone with it.
Gone == mpc = "exited" /\ UNCHANGED vars

Running ==
    /\ mpc # "exited"
    /\ \/ Aggregate \/ Cancel \/ Lifecycle
       \/ \E worker \in Others : End(worker)
       \/ Output \/ StartJoin \/ Join \/ Elapse

Next == Running \/ Gone

\* Nobody owes the program a prompt worker; its timers and the main task run.
Spec ==
    Init /\ [][Next]_vars
         /\ WF_vars(StartJoin) /\ WF_vars(Join) /\ WF_vars(Elapse)

----------------------------------------------------------------------------
\* Once the output worker is about to return, nothing queued at cancellation is
\* left, and once it has, no channel that still accepts messages has any.
NothingStranded ==
    /\ opc \in {"closing", "done"} => backlog = 0
    /\ opc = "done" => ~open /\ out = << >>

\* What was queued when the token was cancelled has been posted by the time
\* the output worker returns, and then nothing is left in a channel that still
\* accepts messages: a sender is refused, never left waiting for room
\* (discord.rs 29-32).  What is queued later may be lost with the receiver.
BacklogPosted == TypeOK /\ NothingStranded

\* The timeout is given to each handle in turn (supervisor.rs 94-95), so
\* joining the workers may last one timeout for each of them, and no longer.
\* It does last longer than the one timeout of "exit within
\* SHUTDOWN_TIMEOUT_SECS" (README.md 60-61, DEPLOY.md 106-107) and "bounded by
\* `timeout`" (supervisor.rs 90-91) when more than one worker hangs.
DrainBounded == drained <= Len(Handles) * Timeout

\* Once cancelled the process exits, even if no worker ever returns.
ProcessExits == shutdown ~> mpc = "exited"

\* "drains + posts a final summary" (DEPLOY.md 60): when every worker returned
\* in time, a final summary the LLM answered has been handed to Discord.
FinalSummaryPosted ==
    /\ answered
    /\ \A i \in DOMAIN Handles : Returned(Handles[i])
    => posted
=============================================================================
