---------------------------- MODULE LimitsProofs ----------------------------
(***************************************************************************)
(* The two limits the program keeps: the safety properties of CostGovernor *)
(* for every set of workers, price, ceiling and number of days; and the    *)
(* rate bound of RateLimiter for every bucket size, window, length of      *)
(* interval and pattern of calls.                                          *)
(***************************************************************************)
EXTENDS CostGovernor, RateLimiter, FiniteSetTheorems, TLAPS

\* A bill truncates to a natural number of micro-dollars, at most MaxBill.
LEMMA MicrosBound ==
    ASSUME NEW bill \in Bills \cup {0}
    PROVE  Micros(bill) \in Nat /\ (bill \in Bills => Micros(bill) <= MaxBill)
<1>1. CASE bill \in Bills
  BY <1>1, AmountsAssumption
<1>2. CASE bill = 0 /\ bill \notin Bills
  <2>1. 0 \div SubMicro = 0
    BY AmountsAssumption
  <2> QED BY <1>2, <2>1 DEF Micros
<1> QED BY <1>1, <1>2

\* The states the program starts in satisfy the invariant.
LEMMA InitIInv == Init => IInv
<1> SUFFICES ASSUME Init PROVE IInv
  OBVIOUS
<1> USE DEF Init
<1>1. TypeOK
  BY DEF TypeOK, Places, AwayFromGovernor
<1>2. ClockInv
  BY DEF ClockInv
<1>3. Cardinality(late) = 0
  BY FS_EmptySet
<1>4. CleanDay
  BY <1>3, AmountsAssumption
     DEF CleanDay, DayInv, SpentInv, ReportInv, SwitchInv, LateInv, Fresh,
         PastClock, PastLock
<1> QED BY <1>1, <1>2, <1>4 DEF IInv

\* Every step keeps the variables in their types.
LEMMA StepTypeOK ==
    ASSUME TypeOK, [Next]_vars
    PROVE  TypeOK'
<1> USE DEF TypeOK, Move, Places, AwayFromGovernor, PastClock
<1>1. ASSUME NEW w \in Workers, Ask(w) PROVE TypeOK'
  BY <1>1 DEF Ask, governor, history
<1>2. ASSUME NEW w \in Workers, Answered(w) PROVE TypeOK'
  BY <1>2 DEF Answered, governor, history
<1>3. ASSUME NEW w \in Workers, GaveUp(w) PROVE TypeOK'
  BY <1>3 DEF GaveUp, governor, history
<1>4. ASSUME NEW w \in Workers, ReadClock(w) PROVE TypeOK'
  BY <1>4 DEF ReadClock, governor, history
<1>5. ASSUME NEW w \in Workers, SameDay(w) PROVE TypeOK'
  BY <1>5 DEF SameDay, Body, governor, history
<1>6. ASSUME NEW w \in Workers, NewDay(w) PROVE TypeOK'
  BY <1>6 DEF NewDay, Cells, history
<1>7. ASSUME NEW w \in Workers, ClearSpent(w) PROVE TypeOK'
  BY <1>7 DEF ClearSpent, local
<1>8. ASSUME NEW w \in Workers, ClearTripped(w) PROVE TypeOK'
  BY <1>8 DEF ClearTripped, local
<1>9. ASSUME NEW w \in Workers, Unlock(w) PROVE TypeOK'
  BY <1>9 DEF Unlock, Body, governor, history
<1>10. ASSUME NEW w \in Workers, Allow(w) \/ Refuse(w) \/ Uncounted(w)
       PROVE  TypeOK'
  BY <1>10 DEF Allow, Refuse, Uncounted, governor, history
<1>11. ASSUME NEW w \in Workers, AddSpend(w) PROVE TypeOK'
  <2>1. Micros(usd[w]) \in Nat
    BY MicrosBound
  <2> QED BY <1>11, <2>1 DEF AddSpend, Reaches
<1>12. ASSUME NEW w \in Workers, SwapTripped(w) PROVE TypeOK'
  BY <1>12 DEF SwapTripped
<1>13. CASE Midnight
  BY <1>13 DEF Midnight, governor, local
<1>14. CASE UNCHANGED vars
  BY <1>14 DEF vars, governor, local, history
<1> QED
  BY <1>1, <1>2, <1>3, <1>4, <1>5, <1>6, <1>7, <1>8, <1>9, <1>10, <1>11,
     <1>12, <1>13, <1>14 DEF Next, InCall

\* Time, clock reads and the resetter's hold on the mutex.
LEMMA StepClockInv ==
    ASSUME TypeOK, ClockInv, [Next]_vars
    PROVE  ClockInv'
<1> USE DEF TypeOK, ClockInv, Move
<1>1. ASSUME NEW w \in Workers, Ask(w) \/ Answered(w) \/ GaveUp(w)
      PROVE  ClockInv'
  BY <1>1 DEF Ask, Answered, GaveUp, governor
<1>2. ASSUME NEW w \in Workers, ReadClock(w) \/ SameDay(w) PROVE ClockInv'
  BY <1>2 DEF ReadClock, SameDay, governor, LockFree
<1>3. ASSUME NEW w \in Workers, NewDay(w) PROVE ClockInv'
  BY <1>3 DEF NewDay
<1>4. ASSUME NEW w \in Workers, ClearSpent(w) \/ ClearTripped(w)
      PROVE  ClockInv'
  BY <1>4 DEF ClearSpent, ClearTripped, local
<1>5. ASSUME NEW w \in Workers, Unlock(w) PROVE ClockInv'
  BY <1>5 DEF Unlock, governor
<1>6. ASSUME NEW w \in Workers,
             \/ Allow(w) \/ Refuse(w)
             \/ Uncounted(w) \/ AddSpend(w) \/ SwapTripped(w)
      PROVE  ClockInv'
  BY <1>6 DEF Allow, Refuse, Uncounted, AddSpend, SwapTripped, governor
<1>7. CASE Midnight
  BY <1>7 DEF Midnight, governor, local
<1>8. CASE UNCHANGED vars
  BY <1>8 DEF vars, governor, local
<1> QED
  BY <1>1, <1>2, <1>3, <1>4, <1>5, <1>6, <1>7, <1>8 DEF Next, InCall

\* A day that no call straddles starts clean: every call in flight will read
\* the new date, and the governor still shows an older one.
LEMMA MidnightCleanDay ==
    ASSUME TypeOK, ClockInv, Midnight, ~straddled'
    PROVE  CleanDay'
<1>1. \A w \in Workers : pc'[w] \notin PastClock
  BY DEF Midnight, local
<1>2. day' # today'
  BY DEF Midnight, governor, TypeOK, ClockInv
<1>3. DayInv'
  BY <1>1 DEF DayInv, PastClock, PastLock
<1>4. SpentInv' /\ ReportInv' /\ LateInv'
  BY <1>2 DEF Midnight, SpentInv, ReportInv, LateInv, Fresh
<1>5. SwitchInv'
  BY <1>1, <1>2 DEF SwitchInv, Fresh, PastClock
<1> QED BY <1>3, <1>4, <1>5 DEF CleanDay

\* On a clean day the steps of the workers keep the calls on today's date.
LEMMA StepDayInv ==
    ASSUME TypeOK, ClockInv, DayInv, [Next]_vars, ~Midnight
    PROVE  DayInv'
<1> USE DEF TypeOK, DayInv, Move, PastClock, PastLock
<1>1. ASSUME NEW w \in Workers, Ask(w) \/ Answered(w) \/ GaveUp(w)
      PROVE  DayInv'
  BY <1>1 DEF Ask, Answered, GaveUp, governor
<1>2. ASSUME NEW w \in Workers, ReadClock(w) PROVE DayInv'
  BY <1>2 DEF ReadClock, governor
<1>3. ASSUME NEW w \in Workers, SameDay(w) PROVE DayInv'
  BY <1>3 DEF SameDay, governor, LockFree, Body
<1>4. ASSUME NEW w \in Workers, NewDay(w) PROVE DayInv'
  <2>1. seen[w] = today /\ day # today
    BY <1>4 DEF NewDay
  <2>2. \A v \in Workers : pc[v] \notin PastLock
    BY <2>1
  <2> QED BY <1>4, <2>1, <2>2 DEF NewDay
<1>5. ASSUME NEW w \in Workers, ClearSpent(w) \/ ClearTripped(w)
      PROVE  DayInv'
  BY <1>5 DEF ClearSpent, ClearTripped, local
<1>6. ASSUME NEW w \in Workers, Unlock(w) PROVE DayInv'
  BY <1>6 DEF Unlock, governor, Body
<1>7. ASSUME NEW w \in Workers,
             \/ Allow(w) \/ Refuse(w)
             \/ Uncounted(w) \/ AddSpend(w) \/ SwapTripped(w)
      PROVE  DayInv'
  BY <1>7 DEF Allow, Refuse, Uncounted, AddSpend, SwapTripped, governor
<1>8. CASE UNCHANGED vars
  BY <1>8 DEF vars, governor, local
<1> QED
  BY <1>1, <1>2, <1>3, <1>4, <1>5, <1>6, <1>7, <1>8 DEF Next, InCall

\* On a clean day a reset runs alone past the mutex, and it is still owed a
\* store whenever one is pending.
LEMMA ResetAlone ==
    ASSUME TypeOK, ClockInv, DayInv, NEW w \in Workers, pc[w] \in PastLock
    PROVE  /\ day = today
           /\ pc[w] # "reset" => pending = {}
           /\ pc[w] = "reset" =>
                 \A v \in Workers \ {w} : pc[v] \notin PastLock
BY DEF TypeOK, ClockInv, DayInv, PastLock

\* spent_micros is what has been charged since midnight.
LEMMA StepSpentInv ==
    ASSUME TypeOK, ClockInv, DayInv, SpentInv, [Next]_vars, ~Midnight
    PROVE  SpentInv'
<1> USE DEF TypeOK, SpentInv, Fresh
<1>1. ASSUME NEW w \in Workers, NewDay(w) PROVE SpentInv'
  <2>1. ~Fresh("spent")
    BY <1>1 DEF NewDay, Move, DayInv, PastClock
  <2>2. ~Fresh("spent")'
    BY <1>1 DEF NewDay, Cells
  <2> QED BY <1>1, <2>1, <2>2 DEF NewDay, history
<1>2. ASSUME NEW w \in Workers, ClearSpent(w) PROVE SpentInv'
  BY <1>2 DEF ClearSpent
<1>3. ASSUME NEW w \in Workers, ClearTripped(w) PROVE SpentInv'
  BY <1>3 DEF ClearTripped
<1>4. ASSUME NEW w \in Workers, AddSpend(w) PROVE SpentInv'
  <2>1. day = today /\ pending = {}
    BY <1>4, ResetAlone DEF AddSpend, Move, PastLock
  <2> QED BY <1>4, <2>1 DEF AddSpend
<1>5. ASSUME NEW w \in Workers,
             \/ Ask(w) \/ Answered(w) \/ GaveUp(w) \/ ReadClock(w)
             \/ SameDay(w) \/ Unlock(w) \/ Allow(w) \/ Refuse(w)
             \/ Uncounted(w) \/ SwapTripped(w)
      PROVE  SpentInv'
  BY <1>5 DEF Ask, Answered, GaveUp, ReadClock, SameDay, Unlock, Allow,
              Refuse, Uncounted, SwapTripped, governor, history
<1>6. CASE UNCHANGED vars
  BY <1>6 DEF vars, governor, history
<1> QED
  BY <1>1, <1>2, <1>3, <1>4, <1>5, <1>6 DEF Next, InCall

\* record() has returned true today exactly if the switch is on.
LEMMA StepReportInv ==
    ASSUME TypeOK, ClockInv, DayInv, ReportInv, [Next]_vars, ~Midnight
    PROVE  ReportInv'
<1> USE DEF TypeOK, ReportInv, Fresh
<1>1. ASSUME NEW w \in Workers, NewDay(w) PROVE ReportInv'
  <2>1. ~Fresh("tripped")
    BY <1>1 DEF NewDay, Move, DayInv, PastClock
  <2>2. ~Fresh("tripped")'
    BY <1>1 DEF NewDay, Cells
  <2> QED BY <1>1, <2>1, <2>2 DEF NewDay, history
<1>2. ASSUME NEW w \in Workers, ClearSpent(w) PROVE ReportInv'
  BY <1>2 DEF ClearSpent
<1>3. ASSUME NEW w \in Workers, ClearTripped(w) PROVE ReportInv'
  BY <1>3 DEF ClearTripped
<1>4. ASSUME NEW w \in Workers, SwapTripped(w) PROVE ReportInv'
  <2>1. day = today /\ pending = {}
    BY <1>4, ResetAlone DEF SwapTripped, Move, PastLock
  <2> QED BY <1>4, <2>1 DEF SwapTripped
<1>5. ASSUME NEW w \in Workers,
             \/ Ask(w) \/ Answered(w) \/ GaveUp(w) \/ ReadClock(w)
             \/ SameDay(w) \/ Unlock(w) \/ Allow(w) \/ Refuse(w)
             \/ Uncounted(w) \/ AddSpend(w)
      PROVE  ReportInv'
  BY <1>5 DEF Ask, Answered, GaveUp, ReadClock, SameDay, Unlock, Allow,
              Refuse, Uncounted, AddSpend, governor, history
<1>6. CASE UNCHANGED vars
  BY <1>6 DEF vars, governor, history
<1> QED
  BY <1>1, <1>2, <1>3, <1>4, <1>5, <1>6 DEF Next, InCall

\* The switch is on only above the ceiling, and above the ceiling it is on or
\* a worker is about to swap it.
LEMMA StepSwitchInv ==
    ASSUME TypeOK, ClockInv, DayInv, SwitchInv, [Next]_vars, ~Midnight
    PROVE  SwitchInv'
<1> USE AmountsAssumption DEF TypeOK, SwitchInv, Fresh, Move
<1>1. ASSUME NEW w \in Workers, NewDay(w) PROVE SwitchInv'
  BY <1>1 DEF NewDay, Cells, DayInv, PastClock, PastLock
<1>2. ASSUME NEW w \in Workers, ClearSpent(w) PROVE SwitchInv'
  <2>1. \A v \in Workers : pc[v] # "swap"
    BY <1>2, ResetAlone DEF ClearSpent, PastLock
  <2> QED BY <1>2, <2>1 DEF ClearSpent, local
<1>3. ASSUME NEW w \in Workers, ClearTripped(w) PROVE SwitchInv'
  <2>1. \A v \in Workers : pc[v] # "swap"
    BY <1>3, ResetAlone DEF ClearTripped, PastLock
  <2>2. Fresh("spent") /\ Ceiling > 0 => spent < Ceiling
    BY <1>3, <2>1 DEF ClearTripped
  <2> QED BY <1>3, <2>1, <2>2 DEF ClearTripped, local
<1>4. ASSUME NEW w \in Workers, AddSpend(w) PROVE SwitchInv'
  <2>1. Micros(usd[w]) \in Nat /\ Ceiling > 0
    BY <1>4, MicrosBound DEF AddSpend, Counts
  <2> QED BY <1>4, <2>1 DEF AddSpend, Reaches
<1>5. ASSUME NEW w \in Workers, SwapTripped(w) PROVE SwitchInv'
  <2>1. day = today /\ pending = {}
    BY <1>5, ResetAlone DEF SwapTripped, PastLock
  <2> QED BY <1>5, <2>1 DEF SwapTripped
<1>6. ASSUME NEW w \in Workers,
             \/ Ask(w) \/ Answered(w) \/ GaveUp(w) \/ ReadClock(w)
             \/ SameDay(w) \/ Unlock(w) \/ Allow(w) \/ Refuse(w)
             \/ Uncounted(w)
      PROVE  SwitchInv'
  BY <1>6 DEF Ask, Answered, GaveUp, ReadClock, SameDay, Unlock, Body, Allow,
              Refuse, Uncounted, governor, history
<1>7. CASE UNCHANGED vars
  BY <1>7 DEF vars, governor, local, history
<1> QED
  BY <1>1, <1>2, <1>3, <1>4, <1>5, <1>6, <1>7 DEF Next, InCall

\* A worker charges past the ceiling at most once before the switch is on, so
\* the overshoot is at most one bill for each of them.
LEMMA StepLateInv ==
    ASSUME TypeOK, ClockInv, DayInv, LateInv, [Next]_vars, ~Midnight
    PROVE  LateInv'
<1> SUFFICES ASSUME Ceiling > 0, Fresh("spent")'
             PROVE  /\ spent' < Ceiling + Cardinality(late') * MaxBill
                    /\ \A w \in late' :
                          /\ ~Armed(w)'
                          /\ pc'[w] = "swap" \/ (tripped' /\ Fresh("tripped")')
  BY DEF LateInv
<1> DEFINE Goal == /\ spent' < Ceiling + Cardinality(late') * MaxBill
                   /\ \A w \in late' :
                         /\ ~Armed(w)'
                         /\ pc'[w] = "swap" \/ (tripped' /\ Fresh("tripped")')
<1> USE AmountsAssumption DEF TypeOK, Move
<1>1. ASSUME NEW w \in Workers, NewDay(w) PROVE FALSE
  BY <1>1 DEF NewDay, Cells, Fresh
<1>2. ASSUME NEW w \in Workers, ClearSpent(w) PROVE Goal
  <2>1. Cardinality({}) = 0
    BY FS_EmptySet
  <2> QED BY <1>2, <2>1 DEF ClearSpent
\* Elsewhere the recorded spend was already today's.
<1>3. ASSUME NEW w \in Workers, ClearTripped(w) PROVE Goal
  <2>1. Fresh("spent") /\ ~Fresh("tripped")
    BY <1>3 DEF ClearTripped, Fresh
  <2>2. \A v \in late : pc[v] = "swap"
    BY <2>1 DEF LateInv
  <2>3. late = {}
    BY <1>3, <2>2, ResetAlone DEF ClearTripped, PastLock
  <2> QED BY <1>3, <2>1, <2>3 DEF ClearTripped, LateInv
<1>4. ASSUME NEW w \in Workers, AddSpend(w) PROVE Goal
  <2>1. day = today /\ pending = {} /\ Fresh("spent")
    BY <1>4, ResetAlone DEF AddSpend, PastLock, Fresh
  <2>2. Micros(usd[w]) \in Nat /\ Micros(usd[w]) <= MaxBill
    BY <1>4, MicrosBound DEF AddSpend, Counts
  <2>3. w \notin late
    BY <1>4, <2>1 DEF LateInv, Armed, AddSpend
  <2>4. IsFiniteSet(late)
    BY WorkersAssumption, FS_Subset
  <2>5. /\ Cardinality(late) \in Nat
        /\ Cardinality(late \cup {w}) = Cardinality(late) + 1
    BY <2>3, <2>4, FS_AddElement, FS_CardinalityType
  <2>6. /\ spent < Ceiling + Cardinality(late) * MaxBill
        /\ \A v \in late : /\ ~Armed(v)
                           /\ pc[v] = "swap" \/ (tripped /\ Fresh("tripped"))
    BY <2>1 DEF LateInv
  <2>7. CASE Reaches(spent + Micros(usd[w]))
    <3>1. late' = late \cup {w} /\ spent' = spent + Micros(usd[w])
      BY <1>4, <2>7 DEF AddSpend
    <3>2. (Cardinality(late) + 1) * MaxBill
             = Cardinality(late) * MaxBill + MaxBill
      BY <2>5
    <3>3. spent' < Ceiling + Cardinality(late') * MaxBill
      BY <2>2, <2>5, <2>6, <3>1, <3>2
    <3>4. \A v \in late' :
             /\ ~Armed(v)'
             /\ pc'[v] = "swap" \/ (tripped' /\ Fresh("tripped")')
      BY <1>4, <2>6, <2>7, <3>1 DEF AddSpend, Armed, Fresh
    <3> QED BY <3>3, <3>4
  <2>8. CASE ~Reaches(spent + Micros(usd[w]))
    <3>1. late' = late /\ spent' = spent + Micros(usd[w]) /\ spent' < Ceiling
      BY <1>4, <2>2, <2>8 DEF AddSpend, Reaches
    <3>2. Cardinality(late) * MaxBill \in Nat
      BY <2>5
    <3>3. \A v \in late :
             /\ ~Armed(v)'
             /\ pc'[v] = "swap" \/ (tripped' /\ Fresh("tripped")')
      BY <1>4, <2>3, <2>6, <2>8 DEF AddSpend, Armed, Fresh
    <3> QED BY <3>1, <3>2, <3>3
  <2> QED BY <2>7, <2>8
<1>5. ASSUME NEW w \in Workers, SwapTripped(w) PROVE Goal
  <2>1. day = today /\ pending = {} /\ Fresh("spent")
    BY <1>5, ResetAlone DEF SwapTripped, PastLock, Fresh
  <2> QED BY <1>5, <2>1 DEF SwapTripped, LateInv, Armed, Fresh
<1>6. ASSUME NEW w \in Workers,
             \/ Ask(w) \/ Answered(w) \/ GaveUp(w) \/ ReadClock(w)
             \/ SameDay(w) \/ Unlock(w) \/ Refuse(w) \/ Uncounted(w)
      PROVE  Goal
  BY <1>6 DEF Ask, Answered, GaveUp, ReadClock, SameDay, Unlock, Body,
              Refuse, Uncounted, governor, history, LateInv, Armed, Fresh
\* A late worker that asks again finds the switch on.
<1>7. ASSUME NEW w \in Workers, Allow(w) PROVE Goal
  <2>1. Fresh("spent") /\ w \notin late
    BY <1>7 DEF Allow, governor, LateInv, Fresh
  <2> QED BY <1>7, <2>1 DEF Allow, governor, history, LateInv, Armed, Fresh
<1>8. CASE UNCHANGED vars
  BY <1>8 DEF vars, governor, local, history, LateInv, Armed, Fresh
<1> QED
  BY <1>1, <1>2, <1>3, <1>4, <1>5, <1>6, <1>7, <1>8 DEF Next, InCall

\* Every step of the governor keeps the invariant.
LEMMA StepIInv == IInv /\ [Next]_vars => IInv'
<1> SUFFICES ASSUME IInv, [Next]_vars PROVE IInv'
  OBVIOUS
<1>1. TypeOK' /\ ClockInv'
  BY StepTypeOK, StepClockInv DEF IInv
<1>2. ASSUME Midnight, ~straddled' PROVE CleanDay'
  BY <1>2, MidnightCleanDay DEF IInv
<1>3. ASSUME ~Midnight, ~straddled' PROVE CleanDay'
  <2>1. ~straddled
    BY <1>3 DEF Next, InCall, Ask, Answered, GaveUp, ReadClock, SameDay,
                NewDay, ClearSpent, ClearTripped, Unlock, Allow, Refuse,
                Uncounted, AddSpend, SwapTripped, history, vars
  <2> QED
    BY <1>3, <2>1, StepDayInv, StepSpentInv, StepReportInv, StepSwitchInv,
       StepLateInv DEF IInv, CleanDay
<1> QED BY <1>1, <1>2, <1>3 DEF IInv

\* The invariant holds in every reachable state.
THEOREM Inductive == Spec => []IInv
<1>1. Init => IInv
  BY InitIInv
<1>2. IInv /\ [Next]_vars => IInv'
  BY StepIInv
<1> QED BY <1>1, <1>2, PTL DEF Spec

\* Every variable keeps its type.
THEOREM TypeCorrect == Spec => []TypeOK
<1>1. IInv => TypeOK
  BY DEF IInv
<1> QED BY <1>1, Inductive, PTL

\* The invariant bounds what a day spends.
LEMMA IInvSpendBounded == IInv => DailySpendBounded
<1> SUFFICES ASSUME IInv, Ceiling > 0, ~straddled
             PROVE  charged < Ceiling + Cardinality(Workers) * MaxBill
  BY DEF DailySpendBounded
<1> USE AmountsAssumption, WorkersAssumption DEF IInv, TypeOK, CleanDay
<1>1. /\ Cardinality(late) \in Nat
      /\ Cardinality(Workers) \in Nat
      /\ Cardinality(late) <= Cardinality(Workers)
  BY FS_Subset, FS_CardinalityType
<1>2. /\ Cardinality(late) * MaxBill <= Cardinality(Workers) * MaxBill
      /\ Cardinality(late) * MaxBill \in Nat
      /\ Cardinality(Workers) * MaxBill \in Nat
  BY <1>1
<1>3. CASE Fresh("spent")
  BY <1>2, <1>3 DEF SpentInv, LateInv
<1>4. CASE ~Fresh("spent")
  BY <1>2, <1>4 DEF SpentInv
<1> QED BY <1>3, <1>4

\* On a day no call straddles, the recorded spend stays below the ceiling plus
\* one bill per worker, for any number of workers and any interleaving.
THEOREM SpendBounded == Spec => []DailySpendBounded
BY Inductive, IInvSpendBounded, PTL

\* With no call in flight on an opened clean day, the switch is on exactly
\* when the ceiling has been reached.
THEOREM SwitchExact == Spec => []KillSwitchExact
<1>1. IInv => KillSwitchExact
  <2> SUFFICES ASSUME IInv, ~straddled, day = today, Ceiling > 0,
                      \A w \in Workers : pc[w] \in AwayFromGovernor
               PROVE  tripped <=> spent >= Ceiling
    BY DEF KillSwitchExact
  <2>1. pending = {}
    BY DEF IInv, ClockInv, AwayFromGovernor
  <2>2. Fresh("tripped") /\ Fresh("spent")
    BY <2>1 DEF Fresh
  <2>3. tripped => spent >= Ceiling
    BY <2>2 DEF IInv, CleanDay, SwitchInv
  <2>4. spent >= Ceiling => tripped
    BY <2>2 DEF IInv, CleanDay, SwitchInv, AwayFromGovernor
  <2> QED BY <2>3, <2>4
<1> QED BY <1>1, Inductive, PTL

\* record() returns true at most once on a day no call straddles.
THEOREM SingleReport == Spec => []OneReportPerDay
<1>1. IInv => OneReportPerDay
  BY DEF IInv, CleanDay, ReportInv, OneReportPerDay
<1> QED BY <1>1, Inductive, PTL

\* On a day no call straddles, allowed() refuses only above the ceiling.
THEOREM RefusalsJustified == Spec => RefusalJustified
<1>1. ASSUME IInv, NEW w \in Workers, Refuse(w)
      PROVE  straddled \/ charged >= Ceiling
  <2> SUFFICES ASSUME ~straddled PROVE charged >= Ceiling
    OBVIOUS
  <2>1. day = today /\ pending = {}
    BY <1>1, ResetAlone DEF IInv, CleanDay, Refuse, Move, PastLock
  <2> QED
    BY <1>1, <2>1 DEF IInv, CleanDay, SwitchInv, SpentInv, Fresh, Refuse
<1>2. IInv => [\A w \in Workers : Refuse(w) => straddled \/ charged >= Ceiling]_vars
  BY <1>1
<1> QED BY <1>2, Inductive, PTL DEF RefusalJustified

----------------------------------------------------------------------------
\* The rate limiter.

\* A token is worth something and the bucket holds at least one.
LEMMA Sizes ==
    /\ Capacity \in Nat \ {0}
    /\ Token \in Nat \ {0}
    /\ Full \in Nat
    /\ Token <= Full
<1>1. Capacity \in Nat \ {0} /\ Token \in Nat \ {0}
  BY RateAssumption DEF Capacity, Token
<1>2. \A c, t \in Nat \ {0} : c * t \in Nat /\ t <= c * t
  OBVIOUS
<1> QED BY <1>1, <1>2 DEF Full

\* Products of the elapsed time, for provers that do not multiply.
LEMMA Products ==
    ASSUME NEW n \in Nat, NEW c \in Nat
    PROVE  n * c \in Nat /\ (n + 1) * c = n * c + c
OBVIOUS

\* A refill adds at most what the elapsed time is worth and never overfills.
LEMMA RefillBound ==
    ASSUME RateTypeOK
    PROVE  /\ Refilled \in 0..Full
           /\ Refilled <= tokens + elapsed * Capacity
BY Sizes, Products, RateAssumption DEF RateTypeOK, Refilled

\* The bucket neither overfills nor goes into debt.
LEMMA StepRateTypeOK == RateTypeOK /\ [RateNext]_limiter => RateTypeOK'
<1> SUFFICES ASSUME RateTypeOK, [RateNext]_limiter PROVE RateTypeOK'
  OBVIOUS
<1> USE DEF RateTypeOK
<1>1. ASSUME Grant, owner' \in {"ready", "asleep"} PROVE RateTypeOK'
  BY <1>1, Sizes, RefillBound, RateAssumption DEF Grant
<1>2. ASSUME Deny, owner' \in {"ready", "asleep"} PROVE RateTypeOK'
  BY <1>2, Sizes, RefillBound, RateAssumption DEF Deny, interval
<1>3. CASE Tick
  <2>1. measuring' \in BOOLEAN
    BY <1>3, Zenon DEF Tick
  <2>2. measuring' => age < MaxAge
    BY <1>3 DEF Tick
  <2>3. elapsed' \in 0..Window /\ age' \in 0..MaxAge /\ granted' \in Nat
    BY <1>3, <2>2, RateAssumption DEF Tick
  <2> QED BY <1>3, <2>1, <2>3 DEF Tick
<1>4. CASE Measure
  BY <1>4 DEF Measure, bucket
<1>5. CASE UNCHANGED limiter
  BY <1>5 DEF limiter, bucket, interval
<1> QED
  BY <1>1, <1>2, <1>3, <1>4, <1>5 DEF RateNext, Acquire, GiveUp, Sleep, Wake

\* Every step of the limiter keeps its account.
LEMMA StepAccount == RateTypeOK /\ Account /\ [RateNext]_limiter => Account'
<1> SUFFICES ASSUME RateTypeOK, Account, [RateNext]_limiter PROVE Account'
  OBVIOUS
<1> DEFINE worth == elapsed * Capacity
           accrued == age * Capacity
           paid == granted * Token
<1>1. /\ worth \in Nat /\ accrued \in Nat /\ paid \in Nat
      /\ (elapsed + 1) * Capacity = worth + Capacity
      /\ (age + 1) * Capacity = accrued + Capacity
      /\ (granted + 1) * Token = paid + Token
      /\ 0 * Capacity = 0
  BY Sizes, Products, RateAssumption DEF RateTypeOK
<1>2. ~measuring => granted = 0
  BY DEF Account
<1>3. granted = 0 \/ paid + tokens + worth <= Full + accrued
  BY DEF Account
<1>4. Refilled \in Nat /\ Refilled <= Full /\ Refilled <= tokens + worth
  BY RefillBound, Sizes
<1> HIDE DEF worth, accrued, paid
<1>5. ASSUME Grant PROVE Account'
  <2>1. CASE measuring
    <3>1. /\ granted' = granted + 1 /\ measuring' = measuring
          /\ tokens' = Refilled - Token /\ Refilled >= Token
          /\ elapsed' = 0 /\ age' = age
      BY <1>5, <2>1 DEF Grant
    <3>2. granted' * Token + tokens' + elapsed' * Capacity
             = paid + Token + (Refilled - Token) + 0
      BY <1>1, <3>1 DEF paid
    <3>3. paid + Refilled <= Full + accrued
      BY <1>1, <1>3, <1>4, Sizes DEF paid, RateTypeOK
    <3>4. granted' * Token + tokens' + elapsed' * Capacity <= Full + age' * Capacity
      BY <1>1, <1>4, <3>1, <3>2, <3>3, Sizes DEF accrued
    <3> QED BY <2>1, <3>1, <3>4, Sizes DEF Account, Full, Capacity, Token
  <2>2. CASE ~measuring
    BY <1>2, <1>5, <2>2 DEF Grant, Account
  <2> QED BY <2>1, <2>2
<1>6. ASSUME Deny PROVE Account'
  <2>1. /\ granted' = granted /\ measuring' = measuring /\ age' = age
        /\ tokens' = Refilled /\ elapsed' = 0
    BY <1>6 DEF Deny, interval
  <2>2. CASE granted = 0
    BY <2>1, <2>2 DEF Account
  <2>3. CASE granted # 0
    <3>1. paid + Refilled + 0 <= Full + accrued
      BY <1>1, <1>3, <1>4, <2>3, Sizes DEF RateTypeOK
    <3>2. granted' * Token + tokens' + elapsed' * Capacity <= Full + age' * Capacity
      BY <1>1, <2>1, <3>1 DEF paid, accrued
    <3> QED BY <1>2, <2>1, <3>2 DEF Account
  <2> QED BY <2>2, <2>3
<1>7. CASE Tick
  <2>1. CASE measuring' /\ granted # 0
    <3>1. /\ measuring /\ age' = age + 1 /\ granted' = granted
          /\ tokens' = tokens
          /\ elapsed' = elapsed \/ elapsed' = elapsed + 1
      BY <1>7, <2>1 DEF Tick, RateTypeOK
    <3>2. elapsed' * Capacity <= worth + Capacity
      BY <1>1, <3>1, Sizes DEF worth
    <3>3. elapsed' * Capacity \in Nat
      BY <1>1, <3>1, Sizes DEF worth
    <3>4. paid + tokens + elapsed' * Capacity <= Full + (accrued + Capacity)
      BY <1>1, <1>3, <2>1, <3>2, <3>3, Sizes DEF RateTypeOK
    <3>5. granted' * Token + tokens' + elapsed' * Capacity <= Full + age' * Capacity
      BY <1>1, <3>1, <3>4 DEF paid
    <3> QED BY <2>1, <3>5 DEF Account
  <2>2. CASE ~measuring' \/ granted = 0
    BY <1>2, <1>7, <2>2 DEF Tick, Account
  <2> QED BY <2>1, <2>2
<1>8. CASE Measure
  BY <1>2, <1>8 DEF Measure, bucket, Account
<1>9. CASE UNCHANGED limiter
  BY <1>9 DEF limiter, bucket, interval, Account
<1> QED
  BY <1>5, <1>6, <1>7, <1>8, <1>9 DEF RateNext, Acquire, GiveUp, Sleep, Wake

\* The bucket stays within its types.
THEOREM RateTypeCorrect == RateSpec => []RateTypeOK
<1>1. RateInit => RateTypeOK
  <2> SUFFICES ASSUME RateInit PROVE RateTypeOK
    OBVIOUS
  <2>1. measuring \in BOOLEAN
    BY Zenon DEF RateInit
  <2>2. tokens \in 0..Full /\ elapsed \in 0..Window /\ age \in 0..MaxAge
    BY Sizes, RateAssumption DEF RateInit
  <2> QED BY <2>1, <2>2 DEF RateInit, RateTypeOK
<1> QED BY <1>1, StepRateTypeOK, PTL DEF RateSpec

\* Over any interval the grants are bounded by a full bucket plus the refill.
THEOREM RateBounded == RateSpec => []RateBound
<1>1. RateInit => Account
  BY DEF RateInit, Account
<1>2. RateTypeOK /\ Account => RateBound
  <2> SUFFICES ASSUME RateTypeOK, Account PROVE RateBound
    OBVIOUS
  <2>1. /\ elapsed * Capacity \in Nat /\ age * Capacity \in Nat
        /\ granted * Token \in Nat /\ 0 * Token = 0
    BY Sizes, Products, RateAssumption DEF RateTypeOK
  <2> QED BY <2>1, Sizes DEF RateTypeOK, Account, RateBound
<1>3. RateSpec => []Account
  BY <1>1, StepAccount, RateTypeCorrect, PTL DEF RateSpec
<1> QED BY <1>2, <1>3, RateTypeCorrect, PTL
=============================================================================
