------------------------------ MODULE LossyLog ------------------------------
(***************************************************************************)
(* What a best-effort log promises its producers (storage.rs:1-4): rows of *)
(* a table are posted in the order they were offered, each at most once,   *)
(* in batches of bounded size, and none once the log is closed.  It        *)
(* promises nothing about which rows are posted, nor that a posted row is  *)
(* ever stored.                                                            *)
(***************************************************************************)
EXTENDS Naturals, Sequences

CONSTANTS Tables, Batch

VARIABLES
  offered,   \* offered[t]: how many rows producers have offered for table t
  posted,    \* posted[t]: numbers of the rows handed to the database
  closed     \* the log takes no more rows

vars == <<offered, posted, closed>>

Init ==
  /\ offered = [t \in Tables |-> 0]
  /\ posted = [t \in Tables |-> <<>>]
  /\ closed = FALSE

Offer(t) ==
  /\ offered' = [offered EXCEPT ![t] = @ + 1]
  /\ UNCHANGED <<posted, closed>>

\* A batch: rows newer than any posted before, oldest first.
Post(t) ==
  LET old == Len(posted[t])
      new == Len(posted'[t])
  IN /\ ~closed
     /\ new - old \in 1..Batch
     /\ posted' = [posted EXCEPT ![t] = posted'[t]]
     /\ SubSeq(posted'[t], 1, old) = posted[t]
     /\ \A i \in (old + 1)..new :
          /\ posted'[t][i] <= offered[t]
          /\ i > 1 => posted'[t][i - 1] < posted'[t][i]
     /\ UNCHANGED <<offered, closed>>

Close ==
  /\ ~closed
  /\ closed' = TRUE
  /\ UNCHANGED <<offered, posted>>

Next == Close \/ \E t \in Tables : Offer(t) \/ Post(t)

Spec == Init /\ [][Next]_vars
=============================================================================
