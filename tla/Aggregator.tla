----------------------------- MODULE Aggregator -----------------------------
(***************************************************************************)
(* src/src/aggregate.rs with window.rs and trigger.rs: one task merges     *)
(* chat and transcript into a bounded window and asks the LLM for a        *)
(* summary of what is new, when its trigger fires, when the stream goes    *)
(* offline and when the program shuts down.                                *)
(*                                                                         *)
(* Time is counted in 5-second ticks of the loop's timer and is relative:  *)
(* an age stops growing once it is past every comparison the code makes.   *)
(* A text is its token estimate; prompts and replies have no content.  The *)
(* cost governor's answers are arbitrary here (CostGovernor has them).     *)
(***************************************************************************)
EXTENDS Naturals, Sequences, FiniteSets, SequencesExt

CONSTANTS
    MaxAge,     \* window_max_secs, in ticks
    MaxTokens,  \* window_max_tokens
    Interval,   \* summary_interval, in ticks
    Sizes,      \* token estimates of the texts that arrive
    OutCap,     \* capacity of the channel to the output worker
    MaxOwed     \* bound: timer ticks owed after a long await

ASSUME AggregatorAssumption ==
    /\ MaxAge \in Nat /\ MaxTokens \in Nat /\ Interval \in Nat
    /\ Sizes \subseteq Nat \ {0}   \* estimate_tokens is at least 1
    /\ OutCap \in Nat \ {0} /\ MaxOwed \in Nat \ {0}

VARIABLES
    entries,    \* Window.entries, oldest first
    tokens,     \* Window.tokens
    manual,     \* Trigger.manual
    sinceFire,  \* ticks since Trigger.last_fire
    owed,       \* ticks of the interval timer not yet taken
    status,     \* what the lifecycle worker last published
    changed,    \* ... and the loop has not seen
    shutdown,   \* the cancellation token
    pc,         \* "select", or the await do_summary is at, or "done"
    cause,      \* the select! branch that called do_summary
    delta,      \* indices of the entries rendered into the prompt
    out,        \* messages queued for the output worker
    open        \* the output worker still holds the receiver

window  == <<entries, tokens>>
trigger == <<manual, sinceFire>>
task    == <<pc, cause, delta>>
inputs  == <<owed, status, changed, shutdown>>
queue   == <<out, open>>
vars    == <<window, trigger, task, inputs, queue>>

Causes == {"tick", "offline", "shutdown"}

\* A kill-switch notice, a lifecycle message, or an insight, which is named
\* after the branch that asked for it.
Messages == {"notice", "live"} \cup Causes

\* `told` is history: the summaries whose prompt contained the entry.
Entry == [age : 0..(MaxAge + 1), tokens : Sizes, summarized : BOOLEAN, told : Nat]

TokensOf(es) ==
    LET sum[i \in 0..Len(es)] == IF i = 0 THEN 0 ELSE sum[i - 1] + es[i].tokens
    IN  sum[Len(es)]
Unsummarized == {i \in DOMAIN entries : ~entries[i].summarized}
HasUnsummarized == Unsummarized # {}
UnsummarizedTokens ==
    TokensOf([i \in DOMAIN entries |->
                 [entries[i] EXCEPT !.tokens = IF entries[i].summarized THEN 0 ELSE @]])

TypeOK ==
    /\ entries \in Seq(Entry) /\ tokens \in Nat
    /\ manual \in BOOLEAN /\ sinceFire \in 0..Interval
    /\ owed \in 0..MaxOwed
    /\ status \in {"online", "offline"}
    /\ changed \in BOOLEAN /\ shutdown \in BOOLEAN
    /\ pc \in {"select", "asked", "notice", "insight", "done"}
    /\ cause \in Causes
    /\ delta \subseteq DOMAIN entries
    /\ out \in Seq(Messages) /\ Len(out) <= OutCap /\ open \in BOOLEAN

\* The first tick of a tokio interval is due at once.
Init ==
    /\ entries = << >> /\ tokens = 0
    /\ manual = FALSE /\ sinceFire = 0
    /\ owed = 1 /\ status = "offline" /\ changed = FALSE /\ shutdown = FALSE
    /\ pc = "select" /\ cause = "tick" /\ delta = {}
    /\ out = << >> /\ open = TRUE

----------------------------------------------------------------------------
\* Window

\* evict may stop after dropping the k oldest: the next one is young enough
\* and the rest fits the budget.
EvictStops(es, total, k) ==
    \/ k = Len(es)
    \/ /\ es[k + 1].age <= MaxAge
       /\ total - TokensOf(SubSeq(es, 1, k)) <= MaxTokens

\* Mutant: at most one entry is evicted.
Evicted_Once(es, total) == IF EvictStops(es, total, 0) THEN 0 ELSE 1

Evicted(es, total) ==
    CHOOSE k \in 0..Len(es) :
        /\ EvictStops(es, total, k)
        /\ \A j \in 0..(k - 1) : ~EvictStops(es, total, j)

\* push: append, count, evict.
Push(size) ==
    LET es == Append(entries, [age |-> 0, tokens |-> size,
                               summarized |-> FALSE, told |-> 0])
        k  == Evicted(es, tokens + size)
    IN  /\ entries' = SubSeq(es, k + 1, Len(es))
        /\ tokens' = tokens + size - TokensOf(SubSeq(es, 1, k))

\* mark_summarized marks whatever is in the window; the prompt had `delta`.
MarkSummarized ==
    entries' = [i \in DOMAIN entries |->
                   [entries[i] EXCEPT
                       !.summarized = TRUE,
                       !.told = IF i \in delta THEN @ + 1 ELSE @]]

----------------------------------------------------------------------------
\* Trigger

Threshold == (MaxTokens * 6) \div 10

ShouldFire ==
    \/ manual
    \/ UnsummarizedTokens > 0 /\ sinceFire >= Interval
    \/ Threshold > 0 /\ UnsummarizedTokens >= Threshold

\* Mutant: the interval is not started again.
RecordFire_KeepsTime == manual' = FALSE /\ UNCHANGED sinceFire

RecordFire == manual' = FALSE /\ sinceFire' = 0

----------------------------------------------------------------------------
\* do_summary

\* Mutant: the shutdown branch does not leave the loop.
Return_ToSelect(why) == pc' = "select" /\ RecordFire

\* Where control goes when do_summary returns to the branch that called it.
Return(why) ==
    IF why = "shutdown"
    THEN pc' = "done" /\ UNCHANGED trigger
    ELSE pc' = "select" /\ RecordFire

\* The governor refuses, or there is nothing to say.
Suppressed(why) ==
    /\ Return(why)
    /\ UNCHANGED <<window, cause, delta, queue>>

\* The governor allows it: the delta is rendered and the prompt sent.
Asked(why) ==
    /\ HasUnsummarized
    /\ pc' = "asked" /\ cause' = why
    /\ delta' = Unsummarized
    /\ UNCHANGED <<window, trigger, queue>>

DoSummary(why) == Suppressed(why) \/ Asked(why)

\* A request error, a timeout, or a reply that is no insight.
LlmFails ==
    /\ pc = "asked"
    /\ Return(cause)
    /\ delta' = {}
    /\ UNCHANGED <<window, cause, inputs, queue>>

\* The reply is taken: everything is marked, the cost is recorded, and if
\* that trips the kill-switch a notice goes first.
LlmAnswers ==
    /\ pc = "asked"
    /\ MarkSummarized
    /\ pc' \in {"notice", "insight"}
    /\ delta' = {}
    /\ UNCHANGED <<tokens, trigger, cause, inputs, queue>>

\* out_tx.send().await waits for room; once the receiver is gone it fails,
\* and the code ignores that.
Send(message) ==
    \/ open /\ Len(out) < OutCap /\ out' = Append(out, message)
    \/ ~open /\ UNCHANGED out

SendNotice ==
    /\ pc = "notice"
    /\ Send("notice")
    /\ pc' = "insight"
    /\ UNCHANGED <<window, trigger, cause, delta, inputs, open>>

SendInsight ==
    /\ pc = "insight"
    /\ Send(cause)
    /\ Return(cause)
    /\ UNCHANGED <<window, cause, delta, inputs, open>>

----------------------------------------------------------------------------
\* The branches of select!

\* Mutant: chat is pushed while a request is under way.
ReceiveChat_AnyTime ==
    /\ pc \in {"select", "asked"}
    /\ \E size \in Sizes : Push(size)
    /\ \E command \in BOOLEAN : manual' = (manual \/ command)
    /\ UNCHANGED <<sinceFire, task, inputs, queue>>

\* A chat message, which may be the command `!summary` (or `!resumo`).
ReceiveChat ==
    /\ pc = "select"
    /\ \E size \in Sizes : Push(size)
    /\ \E command \in BOOLEAN : manual' = (manual \/ command)
    /\ UNCHANGED <<sinceFire, task, inputs, queue>>

ReceiveTranscript ==
    /\ pc = "select"
    /\ \E size \in Sizes : Push(size)
    /\ UNCHANGED <<trigger, task, inputs, queue>>

StatusChanged ==
    /\ pc = "select" /\ changed
    /\ changed' = FALSE
    /\ \/ status = "offline" /\ HasUnsummarized /\ DoSummary("offline")
       \/ /\ status = "online" \/ ~HasUnsummarized
          /\ UNCHANGED <<window, trigger, task, queue>>
    /\ UNCHANGED <<owed, status, shutdown>>

TimerTick ==
    /\ pc = "select" /\ owed > 0
    /\ owed' = owed - 1
    /\ \/ ShouldFire /\ DoSummary("tick")
       \/ ~ShouldFire /\ UNCHANGED <<window, trigger, task, queue>>
    /\ UNCHANGED <<status, changed, shutdown>>

ShutDown ==
    /\ pc = "select" /\ shutdown
    /\ \/ HasUnsummarized /\ DoSummary("shutdown")
       \/ /\ ~HasUnsummarized
          /\ pc' = "done"
          /\ UNCHANGED <<window, trigger, cause, delta, queue>>
    /\ UNCHANGED inputs

----------------------------------------------------------------------------
\* The rest of the program.

Older(n, limit) == IF n >= limit THEN limit ELSE n + 1

\* Five seconds pass.
Elapse ==
    /\ entries' = [i \in DOMAIN entries |->
                      [entries[i] EXCEPT !.age = Older(@, MaxAge + 1)]]
    /\ sinceFire' = Older(sinceFire, Interval)
    /\ owed' = Older(owed, MaxOwed)
    /\ UNCHANGED <<tokens, manual, task, status, changed, shutdown, queue>>

\* The lifecycle worker publishes a status: a worker started anew may repeat
\* "online", and one whose poll is under way still publishes once cancelled.
Publish ==
    /\ status' = "online" \/ (status = "online" /\ status' = "offline")
    /\ changed' = TRUE
    /\ UNCHANGED <<window, trigger, task, owed, shutdown, queue>>

Cancel ==
    /\ ~shutdown
    /\ shutdown' = TRUE
    /\ UNCHANGED <<window, trigger, task, owed, status, changed, queue>>

\* The lifecycle worker announces that the stream went live or offline.
Announce ==
    /\ open /\ Len(out) < OutCap
    /\ out' = Append(out, "live")
    /\ UNCHANGED <<window, trigger, task, inputs, open>>

\* The output worker takes a message,
TakeOut ==
    /\ out # << >>
    /\ out' = Tail(out)
    /\ UNCHANGED <<window, trigger, task, inputs, open>>

\* or returns and drops the receiver, with what has arrived since it looked.
CloseOut ==
    /\ shutdown /\ open
    /\ open' = FALSE /\ out' = << >>
    /\ UNCHANGED <<window, trigger, task, inputs>>

Loop == \/ ReceiveChat \/ ReceiveTranscript
        \/ StatusChanged \/ TimerTick \/ ShutDown
Await == LlmFails \/ LlmAnswers \/ SendNotice \/ SendInsight
Environment == \/ Elapse \/ Publish \/ Cancel
               \/ Announce \/ TakeOut \/ CloseOut
Next == Loop \/ Await \/ Environment

\* select! picks at random among its ready branches, so one that is ready
\* again and again is taken; the HTTP client times out after 60 seconds; the
\* output worker keeps draining its channel, whose senders queue fairly.
Fairness ==
    /\ SF_vars(StatusChanged) /\ SF_vars(TimerTick) /\ SF_vars(ShutDown)
    /\ WF_vars(LlmFails \/ LlmAnswers)
    /\ SF_vars(SendNotice \/ SendInsight)
    /\ WF_vars(Elapse) /\ WF_vars(TakeOut)

Spec == Init /\ [][Next]_vars /\ Fairness

----------------------------------------------------------------------------
\* The running token count is the sum over the window however pushes, ages
\* and evictions mix, so it never underflows and the budget holds: no prompt
\* carries more than window_max_tokens (window.rs 1-2).  The window is oldest
\* first, so evict may stop at the first entry it keeps.
WindowBudget ==
    /\ TypeOK
    /\ tokens = TokensOf(entries) /\ tokens <= MaxTokens
    /\ \A i, j \in DOMAIN entries : i < j => entries[i].age >= entries[j].age

\* An entry is marked exactly when one successful summary contained it: what
\* was not in the prompt is never marked, and nothing is summarized twice,
\* whatever fails, is retried or arrives between (aggregate.rs 109-117).
\* The window a request was made of is still the one its answer marks, and of
\* a marked and an unmarked entry the first is the older, so eviction by age
\* takes what has been summarized before what has not.
SummarizedOnce ==
    /\ \A i \in DOMAIN entries :
          entries[i].told = IF entries[i].summarized THEN 1 ELSE 0
    /\ pc = "asked" => delta = Unsummarized /\ delta # {}
    /\ \A i, j \in DOMAIN entries :
          ~entries[i].summarized /\ entries[j].summarized => j < i

\* `!summary` is acted on, and so is content that has waited for a whole
\* interval: an attempt is made, the content is evicted, or the program stops,
\* however much chat competes for the loop.
DueAttempted ==
    /\ manual ~> (~manual \/ pc = "done")
    /\ (HasUnsummarized /\ sinceFire = Interval) ~>
          (~HasUnsummarized \/ sinceFire < Interval \/ pc = "done")

\* The loop ends after cancellation, with or without a final summary.
LoopEnds == shutdown ~> pc = "done"
=============================================================================
