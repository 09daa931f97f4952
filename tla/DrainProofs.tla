---------------------------- MODULE DrainProofs ----------------------------
(***************************************************************************)
(* Proofs about the shutdown of the program: how long joining the workers  *)
(* may last and what the output worker leaves behind, for any number of    *)
(* workers, any timeout, and any aggregator.                               *)
(***************************************************************************)
EXTENDS Drain, SequenceTheorems, TLAPS

-----------------------------------------------------------------------------
(* How long main waits *)

\* Inductive: the handles behind main cost a timeout each, the present one
\* what has been waited for it.
JoinInv ==
    /\ joining \in 1..Len(Handles) /\ waited \in 0..Timeout /\ drained \in Nat
    /\ mpc # "exited" => drained <= (joining - 1) * Timeout + waited
    /\ DrainBounded

\* Whatever the workers do, main's account of its waiting holds.
LEMMA JoinKept == Spec => []JoinInv
<1>0. Len(Handles) \in Nat \ {0} /\ Timeout \in Nat
    BY DrainAssumption
<1> USE <1>0
<1>1. Init => JoinInv
    <2> SUFFICES ASSUME Init PROVE JoinInv
        OBVIOUS
    <2>1. joining = 1 /\ waited = 0 /\ drained = 0
        BY DEF Init
    <2>2. 0 * Timeout = 0 /\ 0 <= Len(Handles) * Timeout
        OBVIOUS
    <2> QED
        BY <2>1, <2>2 DEF JoinInv, DrainBounded
<1>2. ASSUME JoinInv, [Next]_vars PROVE JoinInv'
    <2>1. ASSUME UNCHANGED <<mpc, joining, waited, drained>> PROVE JoinInv'
        BY <1>2, <2>1 DEF JoinInv, DrainBounded
    <2>2. CASE Aggregate \/ Cancel \/ Lifecycle \/ Output \/ \E worker \in Others : End(worker)
        BY <2>1, <2>2
           DEF Aggregate, Cancel, Lifecycle, End, Output, Receive, TryReceive, Take, Post,
               StartDrain, Drained, ChannelClosed, Leave, main, history
    <2>3. CASE StartJoin
        BY <1>2, <2>3 DEF StartJoin, CanStartJoin, history, JoinInv, DrainBounded
    <2>4. CASE mpc # "exited" /\ Join
        <3>1. UNCHANGED drained /\ waited' = 0
            BY <2>4 DEF Join, history
        <3>2. /\ drained <= (joining - 1) * Timeout + waited
              /\ joining \in 1..Len(Handles) /\ waited \in 0..Timeout /\ drained \in Nat
            BY <1>2, <2>4 DEF JoinInv
        <3>3. (joining - 1) * Timeout + Timeout = joining * Timeout
            BY <3>2
        <3>4. drained <= joining * Timeout
            <4> DEFINE p == (joining - 1) * Timeout
                       q == joining * Timeout
            <4>1. p \in Int /\ q \in Int /\ p + Timeout = q /\ drained <= p + waited
                BY <3>2, <3>3
            <4> HIDE DEF p, q
            <4>2. drained <= q
                BY <3>2, <4>1
            <4> QED
                BY <4>2 DEF q
        <3>5. CASE joining = Len(Handles)
            BY <1>2, <2>4, <3>1, <3>5 DEF Join, JoinInv, DrainBounded
        <3>6. CASE joining # Len(Handles)
            <4>1. joining' = joining + 1 /\ joining' \in 1..Len(Handles)
                <5>1. joining \in 1..Len(Handles)
                    BY <3>2
                <5>2. joining + 1 \in 1..Len(Handles)
                    BY <3>6, <5>1
                <5> QED
                    BY <2>4, <3>6, <5>2 DEF Join
            <4>2. (joining' - 1) * Timeout + waited' = joining * Timeout
                BY <3>1, <3>2, <4>1
            <4>3. drained' <= (joining' - 1) * Timeout + waited'
                BY <3>1, <3>4, <4>2
            <4>4. waited' \in 0..Timeout /\ drained' \in Nat
                BY <3>1, <3>2
            <4>5. DrainBounded'
                BY <1>2, <3>1 DEF JoinInv, DrainBounded
            <4> QED
                BY <4>1, <4>3, <4>4, <4>5 DEF JoinInv
        <3> QED
            BY <3>5, <3>6
    <2>5. CASE Elapse
        <3>1. CASE mpc = "joining"
            <4>1. /\ waited' = waited + 1 /\ drained' = drained + 1
                  /\ UNCHANGED <<joining, mpc>> /\ waited # Timeout
                BY <2>5, <3>1 DEF Elapse, CanJoin
            <4>2. /\ drained <= (joining - 1) * Timeout + waited
                  /\ joining \in 1..Len(Handles) /\ waited \in 0..(Timeout - 1)
                  /\ drained \in Nat
                BY <1>2, <3>1, <4>1 DEF JoinInv
            <4> DEFINE p == (joining - 1) * Timeout
                       n == Len(Handles) * Timeout
            <4>3. p \in Int /\ n \in Int /\ p + Timeout <= n
                <5>1. p + Timeout = joining * Timeout
                    BY <4>2
                <5>2. joining * Timeout <= n
                    BY <4>2
                <5> QED
                    BY <4>2, <5>1, <5>2
            <4>4. drained <= p + waited
                BY <4>2
            <4> HIDE DEF p, n
            <4>5. drained' <= p + waited' /\ drained' <= n
                BY <4>1, <4>2, <4>3, <4>4
            <4> QED
                BY <4>1, <4>2, <4>5 DEF JoinInv, DrainBounded, p, n
        <3>2. CASE mpc # "joining"
            BY <2>1, <2>5, <3>2 DEF Elapse
        <3> QED
            BY <3>1, <3>2
    <2>6. CASE UNCHANGED vars
        BY <2>1, <2>6 DEF vars, main, history
    <2> QED
        BY <1>2, <2>2, <2>3, <2>4, <2>5, <2>6 DEF Next, Running, Gone
<1> QED
    BY <1>1, <1>2, PTL DEF Spec

\* Joining the workers takes at most one timeout for each of them, whatever
\* they do (supervisor.rs 92-104): the bound the code has, not the one timeout
\* in all that its comment promises.
THEOREM JoinsBounded == Spec => []DrainBounded
<1>1. JoinInv => DrainBounded
    BY DEF JoinInv
<1> QED
    BY <1>1, JoinKept, PTL

-----------------------------------------------------------------------------
(* What the output worker leaves *)

\* Inductive: what was queued at cancellation is still among what is queued,
\* and only a cancelled program has workers that have returned, or an output
\* worker about to; its return closes the channel.
QueueInv ==
    /\ out \in Seq(A!Messages) /\ cause \in A!Causes
    /\ backlog \in 0..Len(out)
    /\ opc # "done" => open = TRUE
    /\ opc = "done" => open = FALSE
    /\ ended # {} \/ opc \in {"draining", "emptying", "closing", "done"} => shutdown = TRUE
    /\ NothingStranded

\* The aggregator appends to the channel or leaves it, and only while it is
\* open; whom it asks for a summary is one of its own branches.
LEMMA AggregatorSends ==
    ASSUME QueueInv, A!Loop \/ A!Await
    PROVE  /\ UNCHANGED <<open, shutdown>>
           /\ cause' \in A!Causes
           /\ \/ UNCHANGED out
              \/ open /\ \E m \in A!Messages : out' = Append(out, m)
<1> USE DEF QueueInv, A!Messages, A!Causes, A!queue, A!task, A!inputs
<1>1. ASSUME NEW why \in A!Causes, A!DoSummary(why)
      PROVE  UNCHANGED <<out, open>> /\ cause' \in A!Causes
    BY <1>1 DEF A!DoSummary, A!Suppressed, A!Asked
<1>2. CASE A!ReceiveChat \/ A!ReceiveTranscript
    BY <1>2 DEF A!ReceiveChat, A!ReceiveTranscript
<1>3. CASE A!StatusChanged
    BY <1>1, <1>3 DEF A!StatusChanged
<1>4. CASE A!TimerTick
    BY <1>1, <1>4 DEF A!TimerTick
<1>5. CASE A!ShutDown
    BY <1>1, <1>5 DEF A!ShutDown
<1>6. CASE A!LlmFails \/ A!LlmAnswers
    BY <1>6 DEF A!LlmFails, A!LlmAnswers
<1>7. CASE A!SendNotice
    BY <1>7 DEF A!SendNotice, A!Send
<1>8. CASE A!SendInsight
    BY <1>8 DEF A!SendInsight, A!Send
<1> QED
    BY <1>2, <1>3, <1>4, <1>5, <1>6, <1>7, <1>8 DEF A!Loop, A!Await

\* However the workers interleave, the channel is accounted for.
LEMMA QueueKept == Spec => []QueueInv
<1>1. Init => QueueInv
    BY DEF Init, A!Init, QueueInv, NothingStranded, A!Causes, A!Messages
<1>2. ASSUME QueueInv, [Next]_vars PROVE QueueInv'
    <2>1. ASSUME UNCHANGED <<out, open, cause, shutdown, opc, ended, backlog>> PROVE QueueInv'
        BY <1>2, <2>1 DEF QueueInv, NothingStranded
    <2>2. CASE Aggregate
        <3>1. UNCHANGED <<opc, ended, backlog>>
            BY <2>2 DEF Aggregate, output
        <3>2. /\ UNCHANGED <<open, shutdown>>
              /\ cause' \in A!Causes
              /\ \/ UNCHANGED out
                 \/ open /\ \E m \in A!Messages : out' = Append(out, m)
            BY <1>2, <2>2, AggregatorSends DEF Aggregate
        <3>3. CASE UNCHANGED out
            BY <1>2, <3>1, <3>2, <3>3 DEF QueueInv, NothingStranded
        <3>4. CASE open /\ \E m \in A!Messages : out' = Append(out, m)
            <4>1. opc # "done"
                BY <1>2, <3>4 DEF QueueInv
            <4>2. PICK m \in A!Messages : out' = Append(out, m)
                BY <3>4
            <4>3. out' \in Seq(A!Messages) /\ Len(out') = Len(out) + 1
                BY <1>2, <4>2 DEF QueueInv
            <4> QED
                BY <1>2, <3>1, <3>2, <4>1, <4>3 DEF QueueInv, NothingStranded
        <3> QED
            BY <3>2, <3>3, <3>4
    <2>3. CASE Cancel
        BY <1>2, <2>3 DEF Cancel, A!Cancel, A!queue, A!task, output, QueueInv, NothingStranded
    <2>4. CASE Lifecycle
        <3>1. CASE A!Publish
            BY <2>1, <2>4, <3>1 DEF Lifecycle, A!Publish, A!task, A!queue, output, history
        <3>2. CASE A!Announce
            BY <1>2, <2>4, <3>2 DEF Lifecycle, A!Announce, A!task, A!inputs, A!Messages, output,
                                    history, QueueInv, NothingStranded
        <3> QED
            BY <2>4, <3>1, <3>2 DEF Lifecycle
    <2>5. CASE Receive \/ TryReceive
        <3>1. /\ out # << >> /\ out' = Tail(out)
              /\ backlog' = IF backlog = 0 THEN 0 ELSE backlog - 1
              /\ UNCHANGED <<open, cause, shutdown, ended>>
              /\ \/ opc = "recv" /\ opc' = "posting"
                 \/ opc = "draining" /\ opc' = "emptying"
            BY <2>5 DEF Receive, TryReceive, Take, A!TakeOut, A!task, A!inputs
        <3> QED
            BY <1>2, <3>1 DEF QueueInv, NothingStranded
    <2>6. CASE Post \/ StartDrain
        BY <1>2, <2>6 DEF Post, StartDrain, aggregator, history, QueueInv, NothingStranded
    <2>7. CASE Drained \/ ChannelClosed
        BY <1>2, <2>7 DEF Drained, ChannelClosed, aggregator, history, QueueInv, NothingStranded
    <2>8. CASE Leave
        BY <1>2, <2>8 DEF Leave, A!CloseOut, A!task, A!inputs, history, QueueInv, NothingStranded
    <2>11. CASE StartJoin \/ Join
        BY <2>1, <2>11 DEF StartJoin, Join, aggregator, output, history
    <2>12. CASE \E worker \in Others : End(worker)
        BY <1>2, <2>12 DEF End, aggregator, output, history, QueueInv, NothingStranded
    <2>9. CASE Elapse
        BY <2>1, <2>9 DEF Elapse, A!Elapse, A!task, A!queue, output
    <2>10. CASE UNCHANGED vars
        BY <2>1, <2>10 DEF vars, aggregator, output, history
    <2> QED
        BY <1>2, <2>2, <2>3, <2>4, <2>5, <2>6, <2>7, <2>8, <2>9, <2>10, <2>11, <2>12
           DEF Next, Running, Gone, Output
<1> QED
    BY <1>1, <1>2, PTL DEF Spec

\* Where the workers and main are.
WorkersInv ==
    /\ opc \in {"recv", "posting", "draining", "emptying", "closing", "done"}
    /\ item \in A!Messages \cup {"none"}
    /\ ended \subseteq Others
    /\ mpc \in {"running", "joining", "exited"}
    /\ posted \in BOOLEAN /\ answered \in BOOLEAN

\* Each worker stays in its own loop, and posts only what was queued.
LEMMA WorkersKept == Spec => []WorkersInv
<1>1. Init => WorkersInv
    BY DEF Init, WorkersInv
<1>2. ASSUME QueueInv, WorkersInv, [Next]_vars PROVE WorkersInv'
    <2>1. ASSUME UNCHANGED <<opc, item, ended, mpc, posted, answered>> PROVE WorkersInv'
        BY <1>2, <2>1 DEF WorkersInv
    <2>2. CASE Aggregate
        <3>1. UNCHANGED <<opc, item, ended, mpc, posted>> /\ answered' \in BOOLEAN
            BY <2>2 DEF Aggregate, output, main
        <3> QED
            BY <1>2, <3>1 DEF WorkersInv
    <2>3. CASE Cancel \/ Lifecycle
        BY <2>1, <2>3 DEF Cancel, Lifecycle, output, main, history
    <2>4. ASSUME NEW worker \in Others, End(worker) PROVE WorkersInv'
        BY <1>2, <2>4 DEF End, output, main, history, WorkersInv
    <2>5. CASE Receive \/ TryReceive
        <3>1. /\ out # << >> /\ item' = Head(out) /\ opc' \in {"posting", "emptying"}
              /\ UNCHANGED <<ended, mpc, posted, answered>>
            BY <2>5 DEF Receive, TryReceive, Take, A!TakeOut, main
        <3>2. item' \in A!Messages
            BY <1>2, <3>1 DEF QueueInv
        <3> QED
            BY <1>2, <3>1, <3>2 DEF WorkersInv
    <2>6. CASE Post
        <3>1. /\ opc' \in {"recv", "draining"} /\ item' = "none"
              /\ posted' = (posted \/ item = "shutdown")
              /\ UNCHANGED <<ended, mpc, answered>>
            BY <2>6 DEF Post, main
        <3>2. posted' \in BOOLEAN
            BY <3>1
        <3> QED
            BY <1>2, <3>1, <3>2 DEF WorkersInv
    <2>7. CASE StartDrain \/ Drained \/ ChannelClosed \/ Leave
        <3>1. /\ opc' \in {"draining", "closing", "done"}
              /\ UNCHANGED <<item, ended, mpc, posted, answered>>
            BY <2>7 DEF StartDrain, Drained, ChannelClosed, Leave, main, history
        <3> QED
            BY <1>2, <3>1 DEF WorkersInv
    <2>8. CASE StartJoin \/ Join
        <3>1. mpc' \in {"joining", "exited", mpc}
              /\ UNCHANGED <<opc, item, ended, posted, answered>>
            BY <2>8 DEF StartJoin, Join, output, history
        <3> QED
            BY <1>2, <3>1 DEF WorkersInv
    <2>9. CASE Elapse
        BY <2>1, <2>9 DEF Elapse, output
    <2>10. CASE UNCHANGED vars
        BY <2>1, <2>10 DEF vars, output, main, history
    <2> QED
        BY <1>2, <2>2, <2>3, <2>4, <2>5, <2>6, <2>7, <2>8, <2>9, <2>10
           DEF Next, Running, Gone, Output
<1> QED
    BY <1>1, <1>2, QueueKept, PTL DEF Spec

-----------------------------------------------------------------------------
(* The aggregator in the program *)

\* A step of the program is one of the aggregator's module or leaves its state
\* alone, as each action says.
LEMMA StepsOfAggregator == ASSUME [Next]_vars PROVE [A!Next]_aggregator
<1>1. CASE Aggregate
    BY <1>1 DEF Aggregate, A!Next
<1>2. CASE Cancel \/ Lifecycle
    BY <1>2 DEF Cancel, Lifecycle, A!Next, A!Environment
<1>3. CASE Receive \/ TryReceive
    BY <1>3 DEF Receive, TryReceive, Take, A!Next, A!Environment
<1>4. CASE Leave
    BY <1>4 DEF Leave, A!Next, A!Environment
<1>5. CASE Elapse
    BY <1>5 DEF Elapse, A!Next, A!Environment
<1>6. CASE \/ Post \/ StartDrain \/ Drained \/ ChannelClosed \/ StartJoin \/ Join
           \/ \E worker \in Others : End(worker)
    BY <1>6 DEF Post, StartDrain, Drained, ChannelClosed, StartJoin, Join, End
<1>7. CASE UNCHANGED vars
    BY <1>7 DEF vars
<1> QED
    BY <1>1, <1>2, <1>3, <1>4, <1>5, <1>6, <1>7 DEF Next, Running, Gone, Output

-----------------------------------------------------------------------------
(* What is proved of the aggregator holds in the program *)

AP == INSTANCE AggregatorProofs

\* Its parameters are those the aggregator's proofs assume.
LEMMA AggregatorParameters == AP!AggregatorAssumption
    BY DrainAssumption DEF AP!AggregatorAssumption

\* The aggregator of the composition is the one the proofs are about: its
\* summaries,
LEMMA SameSummary ==
    /\ A!ShouldFire <=> AP!ShouldFire
    /\ \A why : A!Return(why) <=> AP!Return(why)
    /\ \A why : A!DoSummary(why) <=> AP!DoSummary(why)
<1>1. A!ShouldFire <=> AP!ShouldFire
    <2>1. A!UnsummarizedTokens = AP!UnsummarizedTokens
        BY DEF A!UnsummarizedTokens, AP!UnsummarizedTokens, A!TokensOf, AP!TokensOf
    <2> QED
        BY <2>1 DEF A!ShouldFire, AP!ShouldFire, A!Threshold, AP!Threshold
<1>2. ASSUME NEW why PROVE A!Return(why) <=> AP!Return(why)
    BY DEF A!Return, AP!Return, A!RecordFire, AP!RecordFire, A!trigger, AP!trigger
<1>3. ASSUME NEW why PROVE A!DoSummary(why) <=> AP!DoSummary(why)
    BY <1>2 DEF A!DoSummary, AP!DoSummary, A!Suppressed, AP!Suppressed, A!Asked, AP!Asked,
                A!HasUnsummarized, AP!HasUnsummarized, A!Unsummarized, AP!Unsummarized,
                A!window, AP!window, A!trigger, AP!trigger, A!queue, AP!queue
<1> QED
    BY <1>1, <1>2, <1>3

\* its pushes,
LEMMA SamePush == \A size : A!Push(size) <=> AP!Push(size)
    BY DEF A!Push, AP!Push, A!Evicted, AP!Evicted, A!EvictStops, AP!EvictStops,
           A!TokensOf, AP!TokensOf

\* and so every step of it.
LEMMA SameStep == [A!Next]_aggregator => [AP!Next]_(AP!vars)
<1> USE DEF A!window, AP!window, A!trigger, AP!trigger, A!task, AP!task,
            A!inputs, AP!inputs, A!queue, AP!queue
<1>1. A!Loop => AP!Loop
    BY SameSummary, SamePush
       DEF A!Loop, AP!Loop, A!ReceiveChat, AP!ReceiveChat, A!ReceiveTranscript,
           AP!ReceiveTranscript, A!StatusChanged, AP!StatusChanged, A!TimerTick, AP!TimerTick,
           A!ShutDown, AP!ShutDown, A!HasUnsummarized, AP!HasUnsummarized, A!Unsummarized,
           AP!Unsummarized
<1>2. A!Await => AP!Await
    BY SameSummary
       DEF A!Await, AP!Await, A!LlmFails, AP!LlmFails, A!LlmAnswers, AP!LlmAnswers,
           A!MarkSummarized, AP!MarkSummarized, A!SendNotice, AP!SendNotice,
           A!SendInsight, AP!SendInsight, A!Send, AP!Send
<1>3. A!Environment => AP!Environment
    BY DEF A!Environment, AP!Environment, A!Elapse, AP!Elapse, A!Older, AP!Older,
           A!Publish, AP!Publish, A!Cancel, AP!Cancel, A!Announce, AP!Announce,
           A!TakeOut, AP!TakeOut, A!CloseOut, AP!CloseOut
<1>4. UNCHANGED aggregator => UNCHANGED AP!vars
    BY DEF aggregator, AP!vars
<1> QED
    BY <1>1, <1>2, <1>3, <1>4 DEF A!Next, AP!Next

\* What the program leaves of the aggregator's window and its marks.
AggregatorKept == AP!BudgetInv /\ AP!PromptInv

\* The program keeps what the aggregator keeps.
LEMMA AggregatorHolds == Spec => []AggregatorKept
<1>1. Init => AggregatorKept
    <2>1. Init => AP!Init
        BY DEF Init, A!Init, AP!Init
    <2> QED
        BY <2>1, AggregatorParameters, AP!BudgetStart, AP!PromptStart DEF AggregatorKept
<1>2. ASSUME AggregatorKept, [Next]_vars PROVE AggregatorKept'
    <2>1. [A!Next]_aggregator
        BY <1>2, StepsOfAggregator
    <2> QED
        BY <1>2, <2>1, SameStep, AggregatorParameters, AP!BudgetStep, AP!PromptStep
           DEF AggregatorKept
<1> QED
    BY <1>1, <1>2, PTL DEF Spec

\* In the whole program too, with its other senders, its output worker and
\* main abandoning whom it waits for, the window keeps its budget and nothing
\* is summarized twice (aggregate.rs 109-117, window.rs 1-2).
THEOREM WindowKeptInProgram == Spec => [](A!WindowBudget /\ A!SummarizedOnce)
<1>1. AggregatorKept => A!WindowBudget
    <2> SUFFICES ASSUME AP!BudgetInv PROVE A!WindowBudget
        BY DEF AggregatorKept
    <2>1. A!TokensOf(entries) = AP!TokensOf(entries)
        BY DEF A!TokensOf, AP!TokensOf
    <2>2. A!TypeOK
        BY DEF A!TypeOK, AP!BudgetInv, AP!TypeOK, A!Entry, AP!Entry, A!Causes, AP!Causes,
               A!Messages, AP!Messages
    <2> QED
        BY <2>1, <2>2 DEF A!WindowBudget, AP!BudgetInv, AP!WindowInv, AP!OldestFirst
<1>2. AggregatorKept => A!SummarizedOnce
    BY DEF AggregatorKept, AP!PromptInv, AP!MarksTell, A!SummarizedOnce,
           A!Unsummarized, AP!Unsummarized
<1> QED
    BY <1>1, <1>2, AggregatorHolds, PTL

\* What was queued when the token was cancelled has been posted by the time
\* the output worker returns, and whoever sends later is refused, never left
\* waiting for room (discord.rs 29-32).
THEOREM BacklogAlwaysPosted == Spec => []BacklogPosted
<1>1. A!WindowBudget /\ QueueInv /\ WorkersInv /\ JoinInv => BacklogPosted
    <2> SUFFICES ASSUME A!TypeOK, QueueInv, WorkersInv, JoinInv PROVE BacklogPosted
        BY DEF A!WindowBudget
    <2>1. backlog \in 0..OutCap
        BY DrainAssumption DEF QueueInv, A!TypeOK
    <2>2. joining \in DOMAIN Handles
        BY DrainAssumption DEF JoinInv
    <2> QED
        BY <2>1, <2>2 DEF BacklogPosted, TypeOK, WorkersInv, JoinInv, QueueInv
<1> QED
    BY <1>1, WindowKeptInProgram, QueueKept, WorkersKept, JoinKept, PTL
=============================================================================
