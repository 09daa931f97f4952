------------------------------ MODULE Storage -------------------------------
(***************************************************************************)
(* The storage writer (storage.rs): one task takes records from a bounded  *)
(* channel, keeps a buffer per table and posts a buffer when it is full or *)
(* when a timer fires.  Producers never wait: a record that finds the      *)
(* channel full is dropped.  A record is the pair of its table and its     *)
(* number among the records offered for that table.                        *)
(***************************************************************************)
EXTENDS Naturals, Sequences, SequencesExt

CONSTANTS
  Cap,         \* capacity of the channel (1024)
  Batch,       \* BATCH (100)
  MaxBuffer,   \* MAX_BUFFER (2000)
  Rows         \* bound: records offered per table

ASSUME SizesAssumption ==
  /\ Cap \in Nat \ {0} /\ Batch \in Nat \ {0} /\ Rows \in Nat
  /\ MaxBuffer \in Nat /\ Batch < MaxBuffer

\* The tables in the order flush_all posts them.
Order == <<"chat", "transcripts", "summaries">>
Tables == Range(Order)
\* Who holds senders: the producing workers, of which only the last to end
\* matters to the channel, and main, which keeps store_opt until it returns.
Senders == {"workers", "main"}
None == <<>>

VARIABLES
  offered,   \* offered[t]: records offered so far
  senders,   \* who still holds a sender of the channel
  queue,     \* the channel
  buf,       \* buf[t]: the buffer of table t
  todo,      \* the tables still to post before the next select!
  batch,     \* <<table, rows>> of the POST in flight, or None
  last,      \* the loop ends after the current flush
  alive,     \* the task has not been dropped with the runtime
  shutdown,  \* the cancellation token
  accepted,  \* history: accepted[t], rows that entered the channel
  posted     \* history: posted[t], rows handed to Supabase

vars == <<offered, senders, queue, buf, todo, batch, last, alive, shutdown,
          accepted, posted>>
loop == <<buf, todo, batch, last, posted>>

Init ==
  /\ offered = [t \in Tables |-> 0]
  /\ senders = Senders
  /\ queue = <<>>
  /\ buf = [t \in Tables |-> <<>>]
  /\ todo = {} /\ batch = None
  /\ last = FALSE /\ alive = TRUE /\ shutdown = FALSE
  /\ accepted = [t \in Tables |-> <<>>]
  /\ posted = [t \in Tables |-> <<>>]

Idle == todo = {} /\ batch = None
AtSelect == alive /\ Idle /\ ~last
Ended == Idle /\ last
Receiving == alive /\ ~Ended

-----------------------------------------------------------------------------
(* The workers and main *)

\* try_send: a full channel, or one without a reader, sheds the new record.
Offer(t) ==
  /\ alive /\ "workers" \in senders /\ offered[t] < Rows
  /\ offered' = [offered EXCEPT ![t] = @ + 1]
  /\ IF Receiving /\ Len(queue) < Cap
       THEN /\ queue' = Append(queue, [table |-> t, row |-> offered[t] + 1])
            /\ accepted' = [accepted EXCEPT ![t] = Append(@, offered[t] + 1)]
       ELSE UNCHANGED <<queue, accepted>>
  /\ UNCHANGED <<senders, loop, alive, shutdown>>

Cancel ==
  /\ ~shutdown /\ shutdown' = TRUE
  /\ UNCHANGED <<offered, senders, queue, loop, alive, accepted>>

\* All after cancellation: the aggregator and the audio supervisor run until
\* then, and main returns after joins that a timeout bounds, which may leave
\* workers running.
DropSender(s) ==
  /\ alive /\ shutdown /\ s \in senders
  /\ senders' = senders \ {s}
  /\ UNCHANGED <<offered, queue, loop, alive, shutdown, accepted>>

\* The runtime goes with main and drops the task where it awaits.
Exit ==
  /\ "main" \notin senders /\ alive
  /\ alive' = FALSE
  /\ UNCHANGED <<offered, senders, queue, loop, shutdown, accepted>>

-----------------------------------------------------------------------------
(* The loop of the writer *)

\* Mutant: flush_all flushes only the chat table.
FlushAll_Chat == {t \in Tables : t = "chat" /\ buf[t] # <<>>}

\* flush skips an empty buffer; nothing enters one during a flush.
FlushAll == {t \in Tables : buf[t] # <<>>}

\* Mutant: the shutdown branch flushes and goes on.
Cancelled_Continues ==
  /\ AtSelect /\ shutdown
  /\ todo' = FlushAll
  /\ UNCHANGED <<offered, senders, queue, buf, batch, last, alive, shutdown, accepted, posted>>

Cancelled ==
  /\ AtSelect /\ shutdown
  /\ todo' = FlushAll /\ last' = TRUE
  /\ UNCHANGED <<offered, senders, queue, buf, batch, alive, shutdown, accepted, posted>>

Closed ==
  /\ AtSelect /\ senders = {} /\ queue = <<>>
  /\ todo' = FlushAll /\ last' = TRUE
  /\ UNCHANGED <<offered, senders, queue, buf, batch, alive, shutdown, accepted, posted>>

Tick ==
  /\ AtSelect /\ FlushAll # {}
  /\ todo' = FlushAll
  /\ UNCHANGED <<offered, senders, queue, buf, batch, last, alive, shutdown, accepted, posted>>

\* Mutant: an overflowing buffer is cut at BATCH, before it is flushed.
PushBounded_Batch(b, row) ==
  Append(IF Len(b) + 1 >= Batch /\ b # <<>> THEN Tail(b) ELSE b, row)

PushBounded(b, row) == Append(IF Len(b) >= MaxBuffer THEN Tail(b) ELSE b, row)

Full(t, b) == t = "summaries" \/ Len(b) >= Batch

Recv ==
  /\ AtSelect /\ queue # <<>>
  /\ LET t == Head(queue).table
         b == PushBounded(buf[t], Head(queue).row)
     IN /\ buf' = [buf EXCEPT ![t] = b]
        /\ todo' = IF Full(t, b) THEN {t} ELSE {}
  /\ queue' = Tail(queue)
  /\ UNCHANGED <<offered, senders, batch, last, alive, shutdown, accepted, posted>>

\* The table that Order names first among those still to post.
IsNext(t) ==
  /\ t \in todo
  /\ \E i \in DOMAIN Order : Order[i] = t /\ \A j \in 1..(i - 1) : Order[j] \notin todo

\* flush: the buffer is taken before the POST is awaited.
Flush ==
  /\ alive /\ batch = None
  /\ \E t \in Tables :
       /\ IsNext(t)
       /\ batch' = <<t, buf[t]>>
       /\ buf' = [buf EXCEPT ![t] = <<>>]
       /\ posted' = [posted EXCEPT ![t] = @ \o buf[t]]
       /\ todo' = todo \ {t}
  /\ UNCHANGED <<offered, senders, queue, last, alive, shutdown, accepted>>

\* Mutant: a failed batch is put back into its buffer.
Answer_Retry ==
  /\ alive /\ batch # None /\ batch' = None
  /\ \E ok \in BOOLEAN :
       buf' = IF ok THEN buf ELSE [buf EXCEPT ![batch[1]] = batch[2] \o @]
  /\ UNCHANGED <<offered, senders, queue, todo, last, alive, shutdown, accepted, posted>>

\* Success, another status and a transport error all leave the batch behind.
Answer ==
  /\ alive /\ batch # None /\ batch' = None
  /\ UNCHANGED <<offered, senders, queue, buf, todo, last, alive, shutdown, accepted, posted>>

Next ==
  \/ \E t \in Tables : Offer(t)
  \/ \E s \in Senders : DropSender(s)
  \/ Cancel \/ Exit
  \/ Cancelled \/ Closed \/ Tick \/ Recv \/ Flush \/ Answer

(***************************************************************************)
(* The client's requests time out after 60 s (main.rs:33), so a POST       *)
(* answers; select! picks at random among its ready branches, so each      *)
(* branch that is ready again and again is taken.  Nothing obliges         *)
(* producers, the operator or main to act.                                 *)
(***************************************************************************)
Fairness ==
  /\ WF_vars(Flush) /\ WF_vars(Answer)
  /\ SF_vars(Cancelled) /\ SF_vars(Tick) /\ SF_vars(Recv)

Spec == Init /\ [][Next]_vars /\ Fairness

-----------------------------------------------------------------------------
(* Properties *)

Numbers == Seq(1..Rows)

TypeOK ==
  /\ offered \in [Tables -> 0..Rows]
  /\ senders \subseteq Senders
  /\ queue \in Seq([table : Tables, row : 1..Rows])
  /\ buf \in [Tables -> Numbers]
  /\ todo \subseteq Tables
  /\ batch = None \/ batch \in Tables \X Numbers
  /\ {last, alive, shutdown} \subseteq BOOLEAN
  /\ accepted \in [Tables -> Numbers] /\ posted \in [Tables -> Numbers]

\* The rows of table t in q, oldest first.
RowsOf(q, t) ==
  LET rows[i \in 0..Len(q)] ==
        IF i = 0 THEN <<>>
        ELSE IF q[i].table = t THEN Append(rows[i - 1], q[i].row) ELSE rows[i - 1]
  IN rows[Len(q)]

Queued(t) == RowsOf(queue, t)

\* A record that entered the channel is in exactly one place, and the places
\* are in order: posted, then buffered, then still queued.  In particular a
\* loop that has ended left nothing in its buffers (storage.rs:39-43,
\* 107-118); what it loses is what it had not yet received.  Memory stays
\* bounded whatever Supabase does (storage.rs:3-4), and more tightly than
\* MAX_BUFFER says: when the writer waits every buffer is below BATCH and no
\* summary is kept, so the drop-oldest of push_bounded is never reached; it is
\* the channel that sheds.
RowsAccounted ==
  /\ TypeOK
  /\ \A t \in Tables :
       /\ accepted[t] = posted[t] \o buf[t] \o Queued(t)
       /\ Ended => buf[t] = <<>>
  /\ Len(queue) <= Cap
  /\ \A t \in Tables : Len(buf[t]) <= Batch
  /\ AtSelect => buf["summaries"] = <<>> /\ \A t \in Tables : Len(buf[t]) < Batch

\* The writer is a best-effort log: rows in order, never twice, never above
\* BATCH in one POST, none after the loop (storage.rs:120-140).
Log == INSTANCE LossyLog WITH closed <- ~Receiving
LogImplemented == Log!Spec

\* A record that entered the channel is posted, unless the program is asked
\* to stop: the timer empties a buffer that never fills (storage.rs:44-46).
AcceptedPosted ==
  \A t \in Tables : \A n \in 1..Rows :
    Contains(accepted[t], n) ~> (Contains(posted[t], n) \/ shutdown)

\* Once asked to stop the writer ends, full channel or not: producers cannot
\* keep it from the branch of the token (storage.rs:39).
WriterEnds == shutdown ~> ~Receiving
=============================================================================
