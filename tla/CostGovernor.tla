---------------------------- MODULE CostGovernor ----------------------------
(***************************************************************************)
(* src/src/cost.rs: the daily spend ceiling shared by the aggregator, the  *)
(* speech-to-text loop and the interaction engine.  Each worker asks       *)
(* allowed(), performs a paid request, and record()s what it cost; nothing *)
(* but the `day` mutex and two relaxed atomics orders the workers, so one  *)
(* action here is one atomic access of the code.                           *)
(*                                                                         *)
(* Amounts: a bill is in grains, SubMicro of which make a micro-dollar     *)
(* (record truncates to micro-dollars); everything else is micro-dollars.  *)
(***************************************************************************)
EXTENDS Naturals, FiniteSets

CONSTANTS
    Workers,       \* the tasks that share the governor
    Ceiling,       \* ceiling_usd in micro-dollars; 0 disables the governor
    SubMicro,      \* grains in a micro-dollar
    Bills,         \* what one request may cost, in grains
    MaxBill,       \* the largest of them, in micro-dollars
    MaxDay         \* bound: midnights that pass

Micros(usd) == usd \div SubMicro

ASSUME WorkersAssumption == IsFiniteSet(Workers)
ASSUME AmountsAssumption ==
    /\ Ceiling \in Nat /\ MaxBill \in Nat /\ SubMicro \in Nat \ {0}
    /\ \A bill \in Bills : bill \in Nat /\ Micros(bill) \in 0..MaxBill
ASSUME BoundsAssumption == MaxDay \in Nat

VARIABLES
    today,     \* what current_day() returns
    day,       \* contents of the `day` mutex
    pending,   \* stores of the reset in progress that are not yet visible
    spent,     \* spent_micros
    tripped,   \* the kill-switch
    pc,        \* where each worker is
    call,      \* which of the two operations it is in
    seen,      \* its local `today` of maybe_reset_day
    usd,       \* the argument of its record()
    \* History, read by no guard except through the bounds:
    charged,    \* micro-dollars recorded since midnight by the clock
    reports,    \* record() calls since midnight that returned true
    late,       \* workers whose charge reached the ceiling since spent = 0
    straddled   \* a worker was past its clock read when the day began

governor == <<day, pending, spent, tripped>>
local    == <<pc, call, seen, usd>>
history  == <<charged, reports, late, straddled>>
vars     == <<today, governor, local, history>>

Cells == {"spent", "tripped"}
AwayFromGovernor == {"idle", "request"}
PastClock == {"lock", "reset", "load", "add", "swap"}
Places == AwayFromGovernor \cup {"clock"} \cup PastClock

TypeOK ==
    /\ today \in Nat /\ day \in Nat
    /\ pending \subseteq Cells
    /\ spent \in Nat /\ tripped \in BOOLEAN
    /\ pc \in [Workers -> Places]
    /\ call \in [Workers -> {"allowed", "record"}]
    /\ seen \in [Workers -> Nat]
    /\ usd \in [Workers -> Bills \cup {0}]
    /\ charged \in Nat /\ reports \in Nat
    /\ straddled \in BOOLEAN
    /\ late \subseteq Workers

\* CostGovernor::new: current_day() is also what the clock shows.
Init ==
    /\ today = 0 /\ day = 0 /\ pending = {}
    /\ spent = 0 /\ tripped = FALSE
    /\ pc = [w \in Workers |-> "idle"]
    /\ call = [w \in Workers |-> "allowed"]
    /\ seen = [w \in Workers |-> 0]
    /\ usd = [w \in Workers |-> 0]
    /\ charged = 0 /\ reports = 0 /\ late = {} /\ straddled = FALSE

Move(w, from, to) == pc[w] = from /\ pc' = [pc EXCEPT ![w] = to]

----------------------------------------------------------------------------
\* The three callers, between their calls of the governor.

\* A summary, a chunk or a reply is due: the caller asks allowed().
Ask(w) ==
    /\ Move(w, "idle", "clock")
    /\ call' = [call EXCEPT ![w] = "allowed"]
    /\ UNCHANGED <<today, governor, seen, usd, history>>

\* The request was answered; the caller hands its price to record().
Answered(w) ==
    /\ Move(w, "request", "clock")
    /\ call' = [call EXCEPT ![w] = "record"]
    /\ \E bill \in Bills : usd' = [usd EXCEPT ![w] = bill]
    /\ UNCHANGED <<today, governor, seen, history>>

\* The caller gives up without record(): nothing to send (no bill), a failed
\* request, or a billed answer it cannot use - blank transcript, unparsable
\* insight.
GaveUp(w) ==
    /\ Move(w, "request", "idle")
    /\ UNCHANGED <<today, governor, call, seen, usd, history>>

----------------------------------------------------------------------------
\* maybe_reset_day, the prologue of both operations.

\* The clock is read before the mutex is taken.
ReadClock(w) ==
    /\ Move(w, "clock", "lock")
    /\ seen' = [seen EXCEPT ![w] = today]
    /\ UNCHANGED <<today, governor, call, usd, history>>

LockFree == \A w \in Workers : pc[w] # "reset"
Body(w) == IF call[w] = "allowed" THEN "load" ELSE "add"

\* Lock, compare, unlock: no reset is due.
SameDay(w) ==
    /\ LockFree
    /\ seen[w] = day
    /\ Move(w, "lock", Body(w))
    /\ UNCHANGED <<today, governor, call, seen, usd, history>>

\* Mutant: the new day clears the spend and leaves the kill-switch.
NewDay_KeepsSwitch(w) ==
    /\ LockFree
    /\ seen[w] # day
    /\ Move(w, "lock", "reset")
    /\ day' = seen[w]
    /\ pending' = {"spent"}
    /\ UNCHANGED <<today, spent, tripped, call, seen, usd, history>>

\* Lock and overwrite the day; the mutex stays held until Unlock.
NewDay(w) ==
    /\ LockFree
    /\ seen[w] # day
    /\ Move(w, "lock", "reset")
    /\ day' = seen[w]
    /\ pending' = Cells
    /\ UNCHANGED <<today, spent, tripped, call, seen, usd, history>>

\* The two relaxed stores reach the other threads in either order.
ClearSpent(w) ==
    /\ pc[w] = "reset" /\ "spent" \in pending
    /\ pending' = pending \ {"spent"}
    /\ spent' = 0
    /\ late' = {}
    /\ UNCHANGED <<today, day, tripped, local,
                   charged, reports, straddled>>

ClearTripped(w) ==
    /\ pc[w] = "reset" /\ "tripped" \in pending
    /\ pending' = pending \ {"tripped"}
    /\ tripped' = FALSE
    /\ UNCHANGED <<today, day, spent, local,
                   charged, reports, late, straddled>>

\* Mutant: the operation takes the mutex again before it is released.
Unlock_Relocks(w) ==
    /\ pending = {}
    /\ LockFree
    /\ Move(w, "reset", Body(w))
    /\ UNCHANGED <<today, governor, call, seen, usd, history>>

\* The guard is dropped: both stores are visible to whoever locks next.
Unlock(w) ==
    /\ pending = {}
    /\ Move(w, "reset", Body(w))
    /\ UNCHANGED <<today, governor, call, seen, usd, history>>

----------------------------------------------------------------------------
\* allowed

Allow(w) ==
    /\ ~tripped
    /\ Move(w, "load", "request")
    /\ UNCHANGED <<today, governor, call, seen, usd, history>>

Refuse(w) ==
    /\ tripped
    /\ Move(w, "load", "idle")
    /\ UNCHANGED <<today, governor, call, seen, usd, history>>

----------------------------------------------------------------------------
\* record

Counts(w) == usd[w] > 0 /\ Ceiling > 0

\* Free requests and a disabled governor are not counted.
Uncounted(w) ==
    /\ ~Counts(w)
    /\ Move(w, "add", "idle")
    /\ UNCHANGED <<today, governor, call, seen, usd, history>>

\* Mutant: a charge has to go past the ceiling.
Reaches_Above(total) == total > Ceiling

Reaches(total) == total >= Ceiling

\* Mutant: the ceiling is compared with the spend before the charge.
AddSpend_OldTotal(w) ==
    /\ Counts(w)
    /\ spent' = spent + Micros(usd[w])
    /\ Move(w, "add", IF Reaches(spent) THEN "swap" ELSE "idle")
    /\ late' = IF Reaches(spent) THEN late \cup {w} ELSE late
    /\ charged' = charged + Micros(usd[w])
    /\ UNCHANGED <<today, day, pending, tripped, call, seen, usd,
                   reports, straddled>>

\* fetch_add, and the comparison of its result with the ceiling.
AddSpend(w) ==
    /\ Counts(w)
    /\ LET total == spent + Micros(usd[w])
       IN  /\ spent' = total
           /\ Move(w, "add", IF Reaches(total) THEN "swap" ELSE "idle")
           /\ late' = IF Reaches(total) THEN late \cup {w} ELSE late
    /\ charged' = charged + Micros(usd[w])
    /\ UNCHANGED <<today, day, pending, tripped, call, seen, usd,
                   reports, straddled>>

\* Mutant: a store that reports the trip whatever the switch was.
SwapTripped_Store(w) ==
    /\ Move(w, "swap", "idle")
    /\ tripped' = TRUE
    /\ reports' = reports + 1
    /\ UNCHANGED <<today, day, pending, spent, call, seen, usd,
                   charged, late, straddled>>

\* swap(true); record() returns true exactly when it found the switch off.
SwapTripped(w) ==
    /\ Move(w, "swap", "idle")
    /\ tripped' = TRUE
    /\ reports' = IF tripped THEN reports ELSE reports + 1
    /\ UNCHANGED <<today, day, pending, spent, call, seen, usd,
                   charged, late, straddled>>

----------------------------------------------------------------------------
\* UTC midnight.  The clock only moves forward.
Midnight ==
    /\ today < MaxDay
    /\ today' = today + 1
    /\ charged' = 0 /\ reports' = 0
    /\ straddled' = \E w \in Workers : pc[w] \in PastClock
    /\ UNCHANGED <<governor, local, late>>

\* A step inside allowed() or record().
InCall(w) ==
    \/ ReadClock(w) \/ SameDay(w) \/ NewDay(w)
    \/ ClearSpent(w) \/ ClearTripped(w) \/ Unlock(w)
    \/ Allow(w) \/ Refuse(w)
    \/ Uncounted(w) \/ AddSpend(w) \/ SwapTripped(w)

Next ==
    \/ \E w \in Workers : Ask(w) \/ Answered(w) \/ GaveUp(w) \/ InCall(w)
    \/ Midnight

\* A thread inside a call is scheduled eventually; requests, their answers
\* and midnights are owed to nobody.
Spec == Init /\ [][Next]_vars /\ \A w \in Workers : WF_vars(InCall(w))

----------------------------------------------------------------------------
\* On a day that began with no call in flight, what is recorded by midnight
\* stays below the ceiling plus one bill per worker: requests already under
\* way when the switch trips are the only overshoot (cost.rs 1-2).
DailySpendBounded ==
    Ceiling > 0 /\ ~straddled =>
        charged < Ceiling + Cardinality(Workers) * MaxBill

\* When no call is in flight and the day has been opened, the kill-switch is
\* on exactly when the recorded spend has reached the ceiling: no trip is
\* lost in the gap between fetch_add and swap, none survives a reset.
KillSwitchExact ==
    /\ ~straddled /\ day = today /\ Ceiling > 0
    /\ \A w \in Workers : pc[w] \in AwayFromGovernor
    => (tripped <=> spent >= Ceiling)

\* record() returns true at most once a day however the charges that cross
\* the ceiling interleave (cost.rs 32-34), unless a call straddled midnight.
OneReportPerDay == ~straddled => reports <= 1

\* allowed() refuses only when the spend recorded since midnight has reached
\* the ceiling: yesterday's trip never blocks today.
RefusalJustified ==
    [][\A w \in Workers : Refuse(w) => straddled \/ charged >= Ceiling]_vars

\* allowed() and record() return: a reset releases the mutex others wait for.
CallReturns ==
    \A w \in Workers : pc[w] \notin AwayFromGovernor ~> pc[w] \in AwayFromGovernor

----------------------------------------------------------------------------
\* The inductive invariant behind the safety properties.  Most of it holds
\* only on a day that no call straddles.

PastLock == {"reset", "load", "add", "swap"}

\* The recorded state of a cell belongs to the present day.
Fresh(cell) == day = today /\ cell \notin pending

\* Nobody reads a day that has not come, and a store is pending only while
\* somebody resets.
ClockInv ==
    /\ day <= today
    /\ \A w \in Workers : seen[w] <= today
    /\ pending # {} => \E w \in Workers : pc[w] = "reset"

\* Calls past the clock work on today, and the one that opens the day is
\* alone past the mutex until it releases it.
DayInv ==
    /\ \A w \in Workers : pc[w] \in PastClock => seen[w] = today
    /\ \A w \in Workers : pc[w] \in PastLock => day = today
    /\ \A v, w \in Workers : pc[w] = "reset" /\ v # w => pc[v] \notin PastLock

SpentInv == IF Fresh("spent") THEN spent = charged ELSE charged = 0

ReportInv == reports = IF Fresh("tripped") /\ tripped THEN 1 ELSE 0

SwitchInv ==
    /\ Fresh("tripped") /\ tripped => Fresh("spent") /\ spent >= Ceiling
    /\ \A w \in Workers : pc[w] = "swap" => Ceiling > 0 /\ spent >= Ceiling
    /\ Fresh("spent") /\ Ceiling > 0 /\ spent >= Ceiling =>
          \/ tripped /\ Fresh("tripped")
          \/ \E w \in Workers : pc[w] = "swap"

\* A worker that will reach fetch_add before its next allowed().
Armed(w) ==
    \/ pc[w] \in {"request", "add"}
    \/ pc[w] \in {"clock", "lock", "reset"} /\ call[w] = "record"

\* Each worker charges at most once past the ceiling: it trips the switch
\* before it can be allowed again.
LateInv ==
    Fresh("spent") /\ Ceiling > 0 =>
        /\ spent < Ceiling + Cardinality(late) * MaxBill
        /\ \A w \in late :
              /\ ~Armed(w)
              /\ pc[w] = "swap" \/ (tripped /\ Fresh("tripped"))

CleanDay == DayInv /\ SpentInv /\ ReportInv /\ SwitchInv /\ LateInv

IInv == TypeOK /\ ClockInv /\ (~straddled => CleanDay)

----------------------------------------------------------------------------
\* What the documentation says and the code does not do.

\* "Trips the kill-switch when the ceiling is crossed" (cost.rs 32): with
\* every call returned, a tripped switch stands for a ceiling reached.
TripMeansCeiling ==
    (\A w \in Workers : pc[w] \in AwayFromGovernor) =>
        (tripped => spent >= Ceiling)
=============================================================================
