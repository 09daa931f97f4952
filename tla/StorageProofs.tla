--------------------------- MODULE StorageProofs ----------------------------
(***************************************************************************)
(* Proofs that the storage writer implements the best-effort log and that  *)
(* it accounts for every record that entered the channel, for any          *)
(* capacity, batch size and number of records.                             *)
(***************************************************************************)
EXTENDS Storage, WellFoundedInduction, SequenceTheorems, TLAPS

-----------------------------------------------------------------------------
(* The invariant *)

Record == [table : Tables, row : Nat]

\* n is older than whatever of table t is still queued or yet to be offered.
Behind(t, n) ==
    /\ n <= offered[t]
    /\ \A j \in 1..Len(queue) : queue[j].table = t => n < queue[j].row

Types ==
    /\ offered \in [Tables -> Nat]
    /\ queue \in Seq(Record)
    /\ buf \in [Tables -> Seq(Nat)]
    /\ posted \in [Tables -> Seq(Nat)]

QueueOrdered ==
    \A i, j \in 1..Len(queue) :
        /\ queue[i].row <= offered[queue[i].table]
        /\ i < j /\ queue[i].table = queue[j].table => queue[i].row < queue[j].row

BuffersOrdered ==
    \A t \in Tables : \A i \in 1..Len(buf[t]) :
        /\ Behind(t, buf[t][i])
        /\ \A j \in 1..Len(buf[t]) : i < j => buf[t][i] < buf[t][j]

PostedOrdered ==
    \A t \in Tables : \A i \in 1..Len(posted[t]) :
        /\ Behind(t, posted[t][i])
        /\ \A j \in 1..Len(buf[t]) : posted[t][i] < buf[t][j]

\* A full buffer is about to be posted, and no empty one is.
BuffersBounded ==
    /\ todo \subseteq Tables
    /\ \A t \in todo : buf[t] # <<>>
    /\ \A t \in Tables : Len(buf[t]) <= Batch /\ (Len(buf[t]) = Batch => t \in todo)

LogInv == Types /\ QueueOrdered /\ BuffersOrdered /\ PostedOrdered /\ BuffersBounded

-----------------------------------------------------------------------------
(* The steps that move records *)

\* What the channel holds are records of the tables.
LEMMA RecordsQueued ==
    ASSUME Types
    PROVE  \A i \in 1..Len(queue) : queue[i].table \in Tables /\ queue[i].row \in Nat
<1> SUFFICES ASSUME NEW i \in 1..Len(queue)
             PROVE  queue[i].table \in Tables /\ queue[i].row \in Nat
    OBVIOUS
<1>1. queue[i] \in Record
    BY DEF Types
<1> QED
    BY <1>1 DEF Record

\* Rows that stay where they are stay in order if they stay behind.
LEMMA OrderCarried ==
    ASSUME Types, BuffersOrdered, PostedOrdered, UNCHANGED <<buf, posted>>,
           \A u \in Tables : \A n \in Nat : Behind(u, n) => Behind(u, n)'
    PROVE  BuffersOrdered' /\ PostedOrdered'
<1>1. \A u \in Tables : buf[u] \in Seq(Nat) /\ posted[u] \in Seq(Nat)
    BY DEF Types
<1>2. ASSUME NEW u \in Tables, NEW i \in 1..Len(buf[u])
      PROVE  Behind(u, buf[u][i])'
    <2>1. buf[u][i] \in Nat /\ Behind(u, buf[u][i])
        BY <1>1 DEF BuffersOrdered
    <2> QED
        BY <2>1 DEF Behind
<1>3. ASSUME NEW u \in Tables, NEW i \in 1..Len(posted[u])
      PROVE  Behind(u, posted[u][i])'
    <2>1. posted[u][i] \in Nat /\ Behind(u, posted[u][i])
        BY <1>1 DEF PostedOrdered
    <2> QED
        BY <2>1 DEF Behind
<1>4. BuffersOrdered'
    BY <1>2 DEF BuffersOrdered, Behind
<1>5. PostedOrdered'
    BY <1>3 DEF PostedOrdered, Behind
<1> QED
    BY <1>4, <1>5

\* A record is numbered above all of its table that were offered before.
LEMMA OfferKeeps == ASSUME LogInv, NEW t \in Tables, Offer(t) PROVE LogInv'
<1>0. Types /\ QueueOrdered /\ BuffersOrdered /\ PostedOrdered /\ BuffersBounded
    BY DEF LogInv
<1>1. /\ offered' = [offered EXCEPT ![t] = @ + 1]
      /\ UNCHANGED <<buf, posted, todo>>
    BY DEF Offer, loop
<1>2. /\ offered \in [Tables -> Nat] /\ offered' \in [Tables -> Nat]
      /\ offered'[t] = offered[t] + 1 /\ \A u \in Tables : offered[u] <= offered'[u]
    BY <1>0, <1>1 DEF Types
<1>3. BuffersBounded'
    BY <1>0, <1>1 DEF BuffersBounded
<1>4. \A i \in 1..Len(queue) :
          /\ queue[i].table \in Tables /\ queue[i].row \in Nat
          /\ queue[i].row <= offered[queue[i].table]
          /\ queue[i].row <= offered'[queue[i].table]
    <2> SUFFICES ASSUME NEW i \in 1..Len(queue)
                 PROVE  /\ queue[i].table \in Tables /\ queue[i].row \in Nat
                        /\ queue[i].row <= offered[queue[i].table]
                        /\ queue[i].row <= offered'[queue[i].table]
        OBVIOUS
    <2>1. queue[i].table \in Tables /\ queue[i].row \in Nat
        BY <1>0, RecordsQueued
    <2>2. queue[i].row <= offered[queue[i].table]
        BY <1>0 DEF QueueOrdered
    <2> QED
        BY <1>2, <2>1, <2>2
<1>5. CASE UNCHANGED queue
    <2>1. \A u \in Tables : \A n \in Nat : Behind(u, n) => Behind(u, n)'
        <3> SUFFICES ASSUME NEW u \in Tables, NEW n \in Nat, Behind(u, n)
                     PROVE  Behind(u, n)'
            OBVIOUS
        <3>1. n <= offered'[u]
            BY <1>2 DEF Behind
        <3> QED
            BY <1>5, <3>1 DEF Behind
    <2>2. QueueOrdered'
        BY <1>0, <1>4, <1>5 DEF QueueOrdered
    <2> QED
        BY <1>0, <1>1, <1>2, <1>3, <1>5, <2>1, <2>2, OrderCarried DEF LogInv, Types
<1>6. CASE queue' = Append(queue, [table |-> t, row |-> offered[t] + 1])
    <2> DEFINE last1 == Len(queue) + 1
    <2>1. /\ Len(queue) \in Nat /\ Len(queue') = last1
          /\ \A i \in 1..Len(queue) : queue'[i] = queue[i]
          /\ queue'[last1] = [table |-> t, row |-> offered[t] + 1]
          /\ queue' \in Seq(Record)
        <3>1. [table |-> t, row |-> offered[t] + 1] \in Record
            BY <1>2 DEF Record
        <3> QED
            BY <1>0, <1>6, <3>1 DEF Types
    <2>2. queue'[last1].table = t /\ queue'[last1].row = offered[t] + 1
        BY <2>1
    <2>3. ASSUME NEW i \in 1..Len(queue')
          PROVE  /\ i \in 1..Len(queue) => queue'[i] = queue[i]
                 /\ i \notin 1..Len(queue) => i = last1
        BY <2>1
    <2> HIDE DEF last1
    <2>4. \A u \in Tables : \A n \in Nat : Behind(u, n) => Behind(u, n)'
        <3> SUFFICES ASSUME NEW u \in Tables, NEW n \in Nat, Behind(u, n)
                     PROVE  Behind(u, n)'
            OBVIOUS
        <3>1. n <= offered[u] /\ n <= offered'[u]
            BY <1>2 DEF Behind
        <3>2. ASSUME NEW j \in 1..Len(queue'), queue'[j].table = u PROVE n < queue'[j].row
            <4>1. CASE j \in 1..Len(queue)
                BY <2>3, <3>2, <4>1 DEF Behind
            <4>2. CASE j \notin 1..Len(queue)
                <5>1. u = t /\ queue'[j].row = offered[t] + 1
                    BY <2>2, <2>3, <3>2, <4>2
                <5> QED
                    BY <1>2, <3>1, <5>1
            <4> QED
                BY <4>1, <4>2
        <3> QED
            BY <3>1, <3>2 DEF Behind
    <2>5. QueueOrdered'
        <3> SUFFICES ASSUME NEW i \in 1..Len(queue'), NEW j \in 1..Len(queue')
                     PROVE  /\ queue'[i].row <= offered'[queue'[i].table]
                            /\ i < j /\ queue'[i].table = queue'[j].table
                                 => queue'[i].row < queue'[j].row
            BY DEF QueueOrdered
        <3>1. CASE i \notin 1..Len(queue)
            <4>1. i = last1 /\ ~(i < j)
                BY <2>1, <2>3, <3>1 DEF last1
            <4>2. offered[t] + 1 <= offered'[t]
                BY <1>2
            <4> QED
                BY <2>2, <4>1, <4>2
        <3>2. CASE i \in 1..Len(queue) /\ j \in 1..Len(queue)
            BY <1>0, <1>4, <2>3, <3>2 DEF QueueOrdered
        <3>3. CASE i \in 1..Len(queue) /\ j \notin 1..Len(queue)
            <4>1. queue'[i] = queue[i] /\ queue'[j].table = t /\ queue'[j].row = offered[t] + 1
                BY <2>2, <2>3, <3>3
            <4>2. /\ queue[i].table \in Tables /\ queue[i].row \in Nat
                  /\ queue[i].row <= offered[queue[i].table]
                  /\ queue[i].row <= offered'[queue[i].table]
                BY <1>4, <3>3
            <4> QED
                BY <1>2, <4>1, <4>2
        <3> QED
            BY <3>1, <3>2, <3>3
    <2> QED
        BY <1>0, <1>1, <1>2, <1>3, <2>1, <2>4, <2>5, OrderCarried DEF LogInv, Types
<1> QED
    BY <1>5, <1>6 DEF Offer

\* The oldest queued record goes to the end of its buffer, which had room.
LEMMA RecvKeeps == ASSUME LogInv, Recv PROVE LogInv'
<1>0. Types /\ QueueOrdered /\ BuffersOrdered /\ PostedOrdered /\ BuffersBounded
    BY DEF LogInv
<1>2. /\ Len(queue) \in Nat \ {0} /\ queue[1] = Head(queue) /\ queue[1] \in Record
      /\ queue' \in Seq(Record) /\ Len(queue') = Len(queue) - 1
      /\ \A i \in 1..Len(queue') : i + 1 \in 1..Len(queue) /\ queue'[i] = queue[i + 1]
    BY <1>0 DEF Types, Recv
<1>14. PICK r \in Record : r = Head(queue)
    BY <1>2
<1> DEFINE t == r.table
           n == r.row
           b == PushBounded(buf[t], n)
           l == Len(buf[t])
<1>1. /\ queue # <<>> /\ queue' = Tail(queue) /\ todo = {}
      /\ buf' = [buf EXCEPT ![t] = b]
      /\ todo' = IF Full(t, b) THEN {t} ELSE {}
      /\ UNCHANGED <<offered, posted>>
    BY <1>14 DEF Recv, AtSelect, Idle
<1>3. t \in Tables /\ n \in Nat /\ t = queue[1].table /\ n = queue[1].row
    BY <1>2, <1>14 DEF Record
<1>4. l \in Nat /\ l < Batch
    BY <1>0, <1>1, <1>3, SizesAssumption DEF Types, BuffersBounded
<1>5. b = Append(buf[t], n)
    BY <1>4, SizesAssumption DEF PushBounded
<1> HIDE DEF t, n, b
<1>6. /\ b \in Seq(Nat) /\ Len(b) = l + 1 /\ b[l + 1] = n
      /\ \A i \in 1..l : b[i] = buf[t][i]
    BY <1>0, <1>3, <1>4, <1>5 DEF Types
<1>7. buf' \in [Tables -> Seq(Nat)] /\ buf'[t] = b /\ \A u \in Tables : u # t => buf'[u] = buf[u]
    BY <1>0, <1>1, <1>3, <1>6 DEF Types
<1> HIDE DEF l
<1>8. BuffersBounded'
    <2>1. Len(b) >= Batch => t \in todo'
        BY <1>1 DEF Full
    <2>2. \A u \in todo' : u = t
        BY <1>1
    <2>3. b # <<>>
        BY <1>4, <1>6
    <2>4. ASSUME NEW u \in Tables
          PROVE  Len(buf'[u]) <= Batch /\ (Len(buf'[u]) = Batch => u \in todo')
        <3>1. CASE u = t
            BY <1>4, <1>6, <1>7, <2>1, <3>1, SizesAssumption
        <3>2. CASE u # t
            BY <1>0, <1>1, <1>7, <3>2 DEF BuffersBounded
        <3> QED
            BY <3>1, <3>2
    <2> QED
        BY <1>3, <1>7, <2>2, <2>3, <2>4 DEF BuffersBounded
<1>9. ASSUME NEW u \in Tables, NEW m \in Nat, Behind(u, m) PROVE Behind(u, m)'
    BY <1>1, <1>2, <1>9 DEF Behind
<1>10. Behind(t, n)'
    <2>1. n <= offered[t]
        BY <1>0, <1>2, <1>3 DEF QueueOrdered
    <2>2. ASSUME NEW j \in 1..Len(queue'), queue'[j].table = t PROVE n < queue'[j].row
        <3>1. 1 \in 1..Len(queue) /\ j + 1 \in 1..Len(queue) /\ 1 < j + 1
            BY <1>2
        <3> QED
            BY <1>0, <1>2, <1>3, <2>2, <3>1 DEF QueueOrdered
    <2> QED
        BY <1>1, <2>1, <2>2 DEF Behind
<1>11. QueueOrdered'
    <2> SUFFICES ASSUME NEW i \in 1..Len(queue'), NEW j \in 1..Len(queue')
                 PROVE  /\ queue'[i].row <= offered[queue'[i].table]
                        /\ i < j /\ queue'[i].table = queue'[j].table => queue'[i].row < queue'[j].row
        BY <1>1 DEF QueueOrdered
    <2>1. /\ i + 1 \in 1..Len(queue) /\ j + 1 \in 1..Len(queue)
          /\ queue'[i] = queue[i + 1] /\ queue'[j] = queue[j + 1]
          /\ i < j => i + 1 < j + 1
        BY <1>2
    <2> QED
        BY <1>0, <2>1 DEF QueueOrdered
<1>12. BuffersOrdered'
    <2> SUFFICES ASSUME NEW u \in Tables, NEW i \in 1..Len(buf'[u])
                 PROVE  /\ Behind(u, buf[u][i])'
                        /\ \A j \in 1..Len(buf'[u]) : i < j => buf'[u][i] < buf'[u][j]
        BY DEF BuffersOrdered
    <2>1. CASE u # t
        <3>1. buf'[u] = buf[u] /\ buf[u] \in Seq(Nat) /\ buf[u][i] \in Nat
            BY <1>0, <1>7, <2>1 DEF Types
        <3>2. Behind(u, buf[u][i])
            BY <1>0, <3>1 DEF BuffersOrdered
        <3>3. PICK m \in Nat : m = buf[u][i] /\ m = buf'[u][i]
            BY <3>1
        <3>4. Behind(u, m)'
            BY <1>9, <3>2, <3>3
        <3>5. Behind(u, buf[u][i])'
            BY <3>3, <3>4, Zenon DEF Behind
        <3> QED
            BY <1>0, <3>1, <3>5 DEF BuffersOrdered
    <2>2. CASE u = t /\ i = l + 1
        <3>1. buf'[u][i] = n
            BY <1>6, <1>7, <2>2
        <3>2. ~(\E j \in 1..Len(buf'[u]) : i < j)
            BY <1>4, <1>6, <1>7, <2>2
        <3>3. Behind(u, buf[u][i])'
            BY <1>10, <2>2, <3>1 DEF Behind
        <3> QED
            BY <3>2, <3>3
    <2>3. CASE u = t /\ i # l + 1
        <3>1. i \in 1..l /\ buf'[u][i] = buf[t][i] /\ buf[t][i] \in Nat
            <4>1. i \in 1..Len(b)
                BY <1>7, <2>3
            <4>2. i \in 1..l
                BY <1>4, <1>6, <2>3, <4>1
            <4>3. buf'[u][i] = buf[t][i]
                BY <1>6, <1>7, <2>3, <4>2
            <4>4. buf[t] \in Seq(Nat) /\ i \in 1..Len(buf[t])
                BY <1>0, <1>3, <4>2 DEF Types, l
            <4> QED
                BY <4>2, <4>3, <4>4
        <3>2. Behind(t, buf[t][i]) /\ \A j \in 1..l : i < j => buf[t][i] < buf[t][j]
            BY <1>0, <1>3, <3>1 DEF BuffersOrdered, l
        <3>3. buf[t][i] < n
            BY <1>2, <1>3, <3>2 DEF Behind
        <3>4. \A j \in 1..Len(buf'[u]) : i < j => buf'[u][i] < buf'[u][j]
            BY <1>4, <1>6, <1>7, <2>3, <3>1, <3>2, <3>3
        <3>5. PICK m \in Nat : m = buf[t][i] /\ m = buf'[u][i]
            BY <3>1
        <3>6. Behind(u, m)'
            BY <1>3, <1>9, <2>3, <3>2, <3>5
        <3>7. Behind(u, buf[u][i])'
            BY <3>5, <3>6 DEF Behind
        <3> QED
            BY <3>4, <3>7
    <2> QED
        BY <2>1, <2>2, <2>3
<1>13. PostedOrdered'
    <2> SUFFICES ASSUME NEW u \in Tables, NEW i \in 1..Len(posted[u])
                 PROVE  /\ Behind(u, posted[u][i])'
                        /\ \A j \in 1..Len(buf'[u]) : posted[u][i] < buf'[u][j]
        BY <1>1 DEF PostedOrdered, Behind
    <2>1. PICK m \in Nat : m = posted[u][i]
        <3>1. posted[u] \in Seq(Nat)
            BY <1>0 DEF Types
        <3> QED
            BY <3>1
    <2>2. Behind(u, m) /\ \A j \in 1..Len(buf[u]) : m < buf[u][j]
        BY <1>0, <2>1 DEF PostedOrdered
    <2>3. Behind(u, posted[u][i])'
        <3>1. Behind(u, m)'
            BY <1>9, <2>2
        <3> QED
            BY <1>1, <2>1, <3>1 DEF Behind
    <2>4. CASE u # t
        BY <1>7, <2>1, <2>2, <2>3, <2>4
    <2>5. CASE u = t
        <3>1. m < n
            BY <1>2, <1>3, <2>2, <2>5 DEF Behind
        <3> QED
            <4>1. \A j \in 1..l : m < b[j]
                BY <1>6, <2>2, <2>5 DEF l
            <4>2. \A j \in 1..(l + 1) : m < b[j]
                <5> SUFFICES ASSUME NEW j \in 1..(l + 1) PROVE m < b[j]
                    OBVIOUS
                <5>1. CASE j = l + 1
                    BY <1>6, <3>1, <5>1
                <5>2. CASE j # l + 1
                    <6>1. j \in 1..l
                        BY <1>4, <5>2
                    <6> QED
                        BY <4>1, <6>1
                <5> QED
                    BY <5>1, <5>2
            <4> QED
                BY <1>6, <1>7, <2>1, <2>3, <2>5, <4>2
    <2> QED
        BY <2>4, <2>5
<1> QED
    BY <1>0, <1>1, <1>2, <1>7, <1>8, <1>11, <1>12, <1>13 DEF LogInv, Types

\* What appending a batch to the rows posted before gives.
LEMMA Appended ==
    ASSUME NEW p \in Seq(Nat), NEW b \in Seq(Nat), NEW q, q = p \o b
    PROVE  /\ q \in Seq(Nat) /\ Len(p) \in Nat /\ Len(q) = Len(p) + Len(b)
           /\ \A i \in 1..Len(p) : q[i] = p[i]
           /\ \A i \in (Len(p) + 1)..Len(q) :
                 i - Len(p) \in 1..Len(b) /\ q[i] = b[i - Len(p)]
           /\ SubSeq(q, 1, Len(p)) = p
<1>1. q \in Seq(Nat) /\ Len(p) \in Nat /\ Len(b) \in Nat /\ Len(q) = Len(p) + Len(b)
    OBVIOUS
<1>2. \A i \in 1..Len(q) : q[i] = IF i <= Len(p) THEN p[i] ELSE b[i - Len(p)]
    BY ConcatProperties
<1>3. \A i \in 1..Len(p) : q[i] = p[i]
    BY <1>1, <1>2
<1>4. \A i \in (Len(p) + 1)..Len(q) : i - Len(p) \in 1..Len(b) /\ q[i] = b[i - Len(p)]
    BY <1>1, <1>2
<1>5. SubSeq(q, 1, Len(p)) = p
    BY <1>1, SubSeqOfConcat1, SubSeqFull
<1> QED
    BY <1>1, <1>3, <1>4, <1>5

\* A POST takes all of a buffer, which is neither empty nor above BATCH, and
\* its rows are newer than any posted before.
LEMMA FlushKeeps == ASSUME LogInv, Flush
                    PROVE  LogInv' /\ \E t \in Tables : Log!Post(t)
<1>0. Types /\ QueueOrdered /\ BuffersOrdered /\ PostedOrdered /\ BuffersBounded
    BY DEF LogInv
<1>1. PICK t \in Tables :
          /\ t \in todo /\ todo' = todo \ {t}
          /\ batch' = <<t, buf[t]>>
          /\ buf' = [buf EXCEPT ![t] = <<>>]
          /\ posted' = [posted EXCEPT ![t] = @ \o buf[t]]
    BY DEF Flush, IsNext
<1>2. UNCHANGED <<offered, queue, alive>> /\ alive /\ batch = None
    BY DEF Flush
<1> DEFINE old == Len(posted[t])
           new == Len(posted'[t])
<1>3. /\ posted[t] \in Seq(Nat) /\ buf[t] \in Seq(Nat) /\ buf[t] # <<>>
      /\ Len(buf[t]) <= Batch
    BY <1>0, <1>1 DEF Types, BuffersBounded
<1>4. posted'[t] = posted[t] \o buf[t]
    BY <1>0, <1>1 DEF Types
<1>5. /\ old \in Nat /\ new = old + Len(buf[t]) /\ Len(buf[t]) \in 1..Batch
      /\ \A i \in 1..old : posted'[t][i] = posted[t][i]
      /\ \A i \in (old + 1)..new : i - old \in 1..Len(buf[t]) /\ posted'[t][i] = buf[t][i - old]
      /\ SubSeq(posted'[t], 1, old) = posted[t]
      /\ posted'[t] \in Seq(Nat)
    <2>1. Len(buf[t]) \in 1..Batch
        BY <1>3, SizesAssumption
    <2>2. PICK p \in Seq(Nat), b \in Seq(Nat) : p = posted[t] /\ b = buf[t]
        BY <1>3
    <2>3. PICK q : q = posted'[t]
        OBVIOUS
    <2>4. q = p \o b
        BY <1>4, <2>2, <2>3
    <2>5. /\ q \in Seq(Nat) /\ Len(p) \in Nat /\ Len(q) = Len(p) + Len(b)
          /\ \A i \in 1..Len(p) : q[i] = p[i]
          /\ \A i \in (Len(p) + 1)..Len(q) :
                i - Len(p) \in 1..Len(b) /\ q[i] = b[i - Len(p)]
          /\ SubSeq(q, 1, Len(p)) = p
        BY <2>4, Appended
    <2> QED
        BY <2>1, <2>2, <2>3, <2>5, Zenon
<1>6. /\ buf' \in [Tables -> Seq(Nat)] /\ posted' \in [Tables -> Seq(Nat)]
      /\ buf'[t] = <<>>
      /\ \A u \in Tables : u # t => buf'[u] = buf[u] /\ posted'[u] = posted[u]
    BY <1>0, <1>1, <1>3, <1>4, <1>5 DEF Types
<1> HIDE DEF old, new
<1>7. \A i \in (old + 1)..new : posted'[t][i] \in Nat /\ Behind(t, posted'[t][i])
    <2> SUFFICES ASSUME NEW i \in (old + 1)..new
                 PROVE  posted'[t][i] \in Nat /\ Behind(t, posted'[t][i])
        OBVIOUS
    <2>1. i - old \in 1..Len(buf[t]) /\ posted'[t][i] = buf[t][i - old]
        BY <1>5
    <2>2. buf[t][i - old] \in Nat /\ Behind(t, buf[t][i - old])
        BY <1>0, <1>3, <2>1 DEF BuffersOrdered
    <2> QED
        BY <2>1, <2>2
<1>8. ASSUME NEW i \in (old + 1)..new, i > 1 PROVE posted'[t][i - 1] < posted'[t][i]
    <2>1. i - old \in 1..Len(buf[t]) /\ posted'[t][i] = buf[t][i - old] /\ i \in Nat
        BY <1>5
    <2>2. CASE i = old + 1
        <3>1. i - 1 \in 1..old /\ posted'[t][i - 1] = posted[t][i - 1]
            <4>1. old \in Nat /\ \A k \in 1..old : posted'[t][k] = posted[t][k]
                BY <1>5
            <4>2. i - 1 \in 1..old
                BY <1>8, <2>2, <4>1
            <4> QED
                BY <4>1, <4>2
        <3>2. i - 1 \in 1..Len(posted[t])
            BY <3>1 DEF old
        <3> QED
            BY <1>0, <2>1, <3>1, <3>2 DEF PostedOrdered
    <2>3. CASE i # old + 1
        <3>1. i - 1 \in (old + 1)..new
            BY <1>5, <2>1, <2>3
        <3>2. /\ (i - 1) - old \in 1..Len(buf[t])
              /\ posted'[t][i - 1] = buf[t][(i - 1) - old]
            BY <1>5, <3>1
        <3>3. (i - 1) - old < i - old
            BY <1>5, <2>1
        <3> QED
            BY <1>0, <2>1, <3>2, <3>3 DEF BuffersOrdered
    <2> QED
        BY <2>2, <2>3
<1>9. Log!Post(t)
    <2>1. Receiving /\ Receiving'
        <3>1. todo # {} /\ batch' # None
            BY <1>1 DEF None
        <3> QED
            BY <1>2, <3>1 DEF Receiving, Ended, Idle
    <2>2. new - old \in 1..Batch
        BY <1>5
    <2>3. posted' = [posted EXCEPT ![t] = posted'[t]]
        BY <1>1, <1>4
    <2>4. \A i \in (old + 1)..new : posted'[t][i] <= offered[t]
        BY <1>7 DEF Behind
    <2> QED
        BY <1>2, <1>5, <1>8, <2>1, <2>2, <2>3, <2>4 DEF Log!Post, old, new
<1>10. BuffersBounded'
    <2>1. ASSUME NEW u \in Tables
          PROVE  Len(buf'[u]) <= Batch /\ (Len(buf'[u]) = Batch => u \in todo')
        <3>1. CASE u = t
            <4>1. Len(buf'[u]) = 0
                BY <1>6, <3>1
            <4> QED
                BY <4>1, SizesAssumption
        <3>2. CASE u # t
            BY <1>0, <1>1, <1>6, <3>2 DEF BuffersBounded
        <3> QED
            BY <3>1, <3>2
    <2>2. todo' \subseteq Tables /\ \A u \in todo' : buf'[u] # <<>>
        BY <1>0, <1>1, <1>6 DEF BuffersBounded
    <2> QED
        BY <2>1, <2>2 DEF BuffersBounded
<1>11. QueueOrdered'
    BY <1>0, <1>2 DEF QueueOrdered
<1>12. BuffersOrdered'
    <2> SUFFICES ASSUME NEW u \in Tables, NEW i \in 1..Len(buf'[u])
                 PROVE  /\ Behind(u, buf[u][i])'
                        /\ \A j \in 1..Len(buf'[u]) : i < j => buf'[u][i] < buf'[u][j]
        BY DEF BuffersOrdered
    <2>1. u # t /\ buf'[u] = buf[u]
        BY <1>6
    <2> QED
        BY <1>0, <1>2, <2>1 DEF BuffersOrdered, Behind
<1>13. PostedOrdered'
    <2> SUFFICES ASSUME NEW u \in Tables, NEW i \in 1..Len(posted'[u])
                 PROVE  /\ Behind(u, posted[u][i])'
                        /\ \A j \in 1..Len(buf'[u]) : posted'[u][i] < buf'[u][j]
        BY DEF PostedOrdered
    <2>1. CASE u # t
        BY <1>0, <1>2, <1>6, <2>1 DEF PostedOrdered, Behind
    <2>2. CASE u = t
        <3>1. Behind(t, posted'[t][i])
            <4>1. CASE i \in 1..old
                BY <1>0, <1>5, <4>1 DEF PostedOrdered, old
            <4>2. CASE i \notin 1..old
                <5>1. i \in (old + 1)..new
                    BY <1>5, <2>2, <4>2 DEF new
                <5> QED
                    BY <1>7, <5>1
            <4> QED
                BY <4>1, <4>2
        <3>2. Behind(u, posted[u][i])'
            BY <1>2, <2>2, <3>1 DEF Behind
        <3> QED
            BY <1>6, <2>2, <3>2
    <2> QED
        BY <2>1, <2>2
<1> QED
    BY <1>0, <1>2, <1>6, <1>9, <1>10, <1>11, <1>12, <1>13 DEF LogInv, Types

-----------------------------------------------------------------------------
(* Refinement *)

\* A step that moves no record keeps the invariant if it leaves the buffers to
\* post as they were or asks for all that are not empty.
LEMMA StillKeeps ==
    ASSUME LogInv, UNCHANGED <<offered, queue, buf, posted>>,
           todo' = todo \/ todo' = FlushAll
    PROVE  LogInv'
<1>1. Types' /\ QueueOrdered' /\ BuffersOrdered' /\ PostedOrdered'
    BY DEF LogInv, Types, QueueOrdered, BuffersOrdered, PostedOrdered, Behind
<1>2. BuffersBounded'
    <2>1. CASE todo' = todo
        BY <2>1 DEF LogInv, BuffersBounded
    <2>2. CASE todo' = FlushAll
        <3>1. \A t \in Tables : Len(buf[t]) = Batch => buf[t] # <<>>
            BY SizesAssumption DEF LogInv, Types
        <3> QED
            BY <2>2, <3>1 DEF LogInv, BuffersBounded, FlushAll
    <2> QED
        BY <2>1, <2>2
<1> QED
    BY <1>1, <1>2 DEF LogInv

\* Initially the buffers are in order, every step keeps them so, and the log
\* takes it or stutters.
LEMMA LogSteps ==
    /\ Init => LogInv /\ Log!Init
    /\ LogInv /\ [Next]_vars => LogInv' /\ [Log!Next]_(Log!vars)
<1>1. Init => LogInv /\ Log!Init
    <2> SUFFICES ASSUME Init PROVE LogInv /\ Log!Init
        OBVIOUS
    <2>1. \A t \in Tables : buf[t] = <<>> /\ posted[t] = <<>> /\ Len(buf[t]) = 0
        BY DEF Init
    <2>2. Len(queue) = 0 /\ \A t \in Tables : Len(posted[t]) = 0
        BY DEF Init
    <2>3. Types
        BY DEF Init, Types
    <2>4. QueueOrdered /\ BuffersOrdered /\ PostedOrdered
        BY <2>1, <2>2 DEF QueueOrdered, BuffersOrdered, PostedOrdered
    <2>5. BuffersBounded
        BY <2>1, SizesAssumption DEF Init, BuffersBounded
    <2>6. Log!Init
        BY DEF Init, Log!Init, Receiving, Ended
    <2> QED
        BY <2>3, <2>4, <2>5, <2>6 DEF LogInv
<1>2. ASSUME LogInv, [Next]_vars PROVE LogInv' /\ [Log!Next]_(Log!vars)
    <2>1. ASSUME UNCHANGED <<offered, posted>>, Receiving \/ ~Receiving'
          PROVE  [Log!Next]_(Log!vars)
        BY <2>1 DEF Log!Next, Log!Close, Log!vars
    <2>2. ASSUME NEW t \in Tables, Offer(t) PROVE LogInv' /\ [Log!Next]_(Log!vars)
        <3>1. LogInv'
            BY <1>2, <2>2, OfferKeeps
        <3>2. Log!Offer(t)
            BY <2>2 DEF Offer, loop, Log!Offer, Receiving, Ended, Idle
        <3> QED
            BY <3>1, <3>2 DEF Log!Next
    <2>3. CASE Flush
        BY <1>2, <2>3, FlushKeeps DEF Log!Next
    <2>4. CASE Recv
        <3>1. LogInv'
            BY <1>2, <2>4, RecvKeeps
        <3>2. Receiving /\ UNCHANGED <<offered, posted>>
            BY <2>4 DEF Recv, AtSelect, Receiving, Ended
        <3> QED
            BY <2>1, <3>1, <3>2
    <2>5. CASE Cancelled \/ Closed \/ Tick
        <3>1. LogInv'
            BY <1>2, <2>5, StillKeeps DEF Cancelled, Closed, Tick
        <3>2. Receiving /\ UNCHANGED <<offered, posted>>
            BY <2>5 DEF Cancelled, Closed, Tick, AtSelect, Receiving, Ended
        <3> QED
            BY <2>1, <3>1, <3>2
    <2>6. CASE Answer
        <3>1. LogInv'
            BY <1>2, <2>6, StillKeeps DEF Answer
        <3>2. Receiving /\ UNCHANGED <<offered, posted>>
            BY <2>6 DEF Answer, Receiving, Ended, Idle
        <3> QED
            BY <2>1, <3>1, <3>2
    <2>7. CASE Cancel \/ Exit \/ (\E s \in Senders : DropSender(s)) \/ UNCHANGED vars
        <3>1. LogInv'
            BY <1>2, <2>7, StillKeeps DEF Cancel, Exit, DropSender, vars, loop
        <3>2. UNCHANGED <<offered, posted, todo, batch, last>> /\ (alive' = alive \/ ~alive')
            BY <2>7 DEF Cancel, Exit, DropSender, vars, loop
        <3>3. Receiving \/ ~Receiving'
            BY <3>2 DEF Receiving, Ended, Idle
        <3> QED
            BY <2>1, <3>1, <3>2, <3>3
    <2> QED
        BY <1>2, <2>2, <2>3, <2>4, <2>5, <2>6, <2>7 DEF Next
<1> QED
    BY <1>1, <1>2

\* They always are.
LEMMA LogKept == Spec => []LogInv
    BY LogSteps, PTL DEF Spec

\* The writer is a best-effort log: rows in the order they were offered, never
\* twice, never above BATCH in one POST, and none after the loop
\* (storage.rs:1-4, 100-140).
THEOREM ImplementsLog == Spec => LogImplemented
    BY LogSteps, PTL DEF Spec, LogImplemented, Log!Spec

-----------------------------------------------------------------------------
(* Induction, and the rows of one table *)

\* Induction on the natural numbers, for a set that a proof defines.
LEMMA SetInduction ==
    ASSUME NEW S, 0 \in S, \A n \in Nat : n \in S => n + 1 \in S
    PROVE  Nat \subseteq S
<1> SUFFICES ASSUME Nat \ S # {} PROVE FALSE
    OBVIOUS
<1> DEFINE rest == Nat \ S
<1>1. rest \subseteq Nat /\ rest # {}
    OBVIOUS
<1> HIDE DEF rest
<1>2. \E n \in rest : \A m \in rest : ~(<<m, n>> \in OpToRel(<, Nat))
    BY <1>1, NatLessThanWellFounded, WFMin, Zenon
<1>3. PICK n \in rest : \A m \in rest : ~(m < n)
    BY <1>1, <1>2 DEF OpToRel
<1>4. n \in Nat /\ n \notin S /\ n # 0
    BY DEF rest
<1>5. n - 1 \in Nat /\ n - 1 < n
    BY <1>4
<1>6. n - 1 \in S
    BY <1>3, <1>5 DEF rest
<1>7. (n - 1) + 1 = n
    BY <1>4
<1>8. n \in S
    BY <1>5, <1>6, <1>7
<1> QED
    BY <1>4, <1>8

Row == 1..Rows
Rec == [table : Tables, row : Row]

\* The rows of table t when record r follows those that had the rows rs.
More(rs, r, t) == IF r.table = t THEN Append(rs, r.row) ELSE rs

\* f has the rows of table t among the first i records of q.
Selects(q, t, f) ==
    /\ f \in [0..Len(q) -> Seq(Row)] /\ f[0] = <<>>
    /\ \A i \in 1..Len(q) : f[i] = More(f[i - 1], q[i], t)

\* They are rows again.
LEMMA MoreRows ==
    ASSUME NEW rs \in Seq(Row), NEW r \in Rec, NEW t
    PROVE  More(rs, r, t) \in Seq(Row)
<1>1. r.row \in Row
    BY DEF Rec
<1> QED
    BY <1>1, AppendProperties DEF More

\* Every channel has such rows: one more record adds at most one.
LEMMA SelectsExist ==
    ASSUME NEW q \in Seq(Rec), NEW t
    PROVE  \E f : Selects(q, t, f)
<1> DEFINE UpTo(n) == {f \in [0..n -> Seq(Row)] :
               f[0] = <<>> /\ \A i \in 1..n : f[i] = More(f[i - 1], q[i], t)}
           S == {n \in Nat : n <= Len(q) => UpTo(n) # {}}
<1>0. Len(q) \in Nat
    OBVIOUS
<1>1. 0 \in S
    <2>1. [i \in 0..0 |-> <<>>] \in UpTo(0)
        OBVIOUS
    <2> QED
        BY <2>1, Zenon
<1>2. ASSUME NEW n \in Nat, n \in S PROVE n + 1 \in S
    <2>0. CASE ~(n + 1 <= Len(q))
        BY <2>0
    <2>1. CASE n + 1 <= Len(q)
        <3>0. UpTo(n) # {}
            <4> HIDE DEF UpTo
            <4> QED
                BY <1>0, <1>2, <2>1
        <3>1. PICK g \in [0..n -> Seq(Row)] :
                  g[0] = <<>> /\ \A i \in 1..n : g[i] = More(g[i - 1], q[i], t)
            BY <3>0
        <3>2. q[n + 1] \in Rec
            BY <1>0, <2>1
        <3> DEFINE f == [i \in 0..(n + 1) |-> IF i = n + 1 THEN More(g[n], q[n + 1], t) ELSE g[i]]
        <3>4. More(g[n], q[n + 1], t) \in Seq(Row)
            BY <3>1, <3>2, MoreRows
        <3>5. /\ f[n + 1] = More(f[n], q[n + 1], t)
              /\ \A i \in 0..n : f[i] = g[i]
            OBVIOUS
        <3>6. f \in [0..(n + 1) -> Seq(Row)]
            BY <3>1, <3>4
        <3> HIDE DEF f
        <3>7. ASSUME NEW i \in 1..(n + 1) PROVE f[i] = More(f[i - 1], q[i], t)
            <4>1. CASE i = n + 1
                <5>1. (n + 1) - 1 = n
                    OBVIOUS
                <5> QED
                    BY <3>5, <4>1, <5>1, Zenon
            <4>2. CASE i # n + 1
                <5>1. i \in 1..n /\ i \in 0..n /\ i - 1 \in 0..n
                    BY <4>2
                <5> QED
                    BY <3>1, <3>5, <5>1, Zenon
            <4> QED
                BY <4>1, <4>2
        <3>8. f[0] = <<>>
            BY <3>1, <3>5
        <3>9. f \in UpTo(n + 1)
            BY <3>6, <3>7, <3>8
        <3> HIDE DEF UpTo
        <3> QED
            BY <3>9
    <2> QED
        BY <2>0, <2>1
<1> HIDE DEF S
<1>3. Len(q) \in S
    BY <1>0, <1>1, <1>2, SetInduction
<1> QED
    BY <1>0, <1>3 DEF S, Selects

\* RowsOf is the last of them, whatever function of them one looks at.
LEMMA RowsOfIs ==
    ASSUME NEW q \in Seq(Rec), NEW t, NEW f, Selects(q, t, f)
    PROVE  RowsOf(q, t) = f[Len(q)]
<1>0. Len(q) \in Nat
    OBVIOUS
<1> DEFINE At(g, i) == IF i = 0 THEN <<>> ELSE More(g[i - 1], q[i], t)
           Def(g) == [i \in 0..Len(q) |-> At(g, i)]
           h == CHOOSE g : g = Def(g)
<1>1. f = Def(f)
    BY <1>0 DEF Selects
<1>2. h = Def(h)
    BY <1>1, Zenon
<1>3. RowsOf(q, t) = h[Len(q)]
    BY DEF RowsOf, More
<1> HIDE DEF h
<1>4. \A i \in 0..Len(q) : h[i] = At(h, i)
    <2>1. \A i \in 0..Len(q) : Def(h)[i] = At(h, i)
        BY Zenon
    <2> HIDE DEF Def, At
    <2> QED
        BY <1>2, <2>1, Zenon
<1> HIDE DEF Def
<1> DEFINE S == {n \in Nat : n <= Len(q) => h[n] = f[n]}
<1>5. 0 \in S
    BY <1>0, <1>4 DEF Selects
<1>6. ASSUME NEW n \in Nat, n \in S PROVE n + 1 \in S
    BY <1>0, <1>4, <1>6 DEF Selects
<1> HIDE DEF S
<1>7. Len(q) \in S
    BY <1>0, <1>5, <1>6, SetInduction
<1> QED
    BY <1>0, <1>3, <1>7 DEF S

\* An empty channel has no rows.
LEMMA RowsOfNone == ASSUME NEW t PROVE RowsOf(<<>>, t) = <<>>
<1>1. <<>> \in Seq(Rec) /\ Len(<<>>) = 0
    OBVIOUS
<1>2. PICK f : Selects(<<>>, t, f)
    BY <1>1, SelectsExist
<1> QED
    BY <1>1, <1>2, RowsOfIs DEF Selects

\* A record that joins the channel joins the rows of its table, at the end.
LEMMA RowsOfAppend ==
    ASSUME NEW q \in Seq(Rec), NEW r \in Rec, NEW t
    PROVE  /\ RowsOf(q, t) \in Seq(Row)
           /\ RowsOf(Append(q, r), t) =
                 More(RowsOf(q, t), r, t)
<1> DEFINE m == Append(q, r)
<1>1. /\ m \in Seq(Rec) /\ Len(q) \in Nat /\ Len(m) = Len(q) + 1
      /\ m[Len(q) + 1] = r /\ \A i \in 1..Len(q) : m[i] = q[i]
    BY AppendProperties
<1> HIDE DEF m
<1>2. PICK g : Selects(m, t, g)
    BY <1>1, SelectsExist
<1> DEFINE f == [i \in 0..Len(q) |-> g[i]]
<1>3. \A i \in 0..Len(q) : f[i] = g[i] /\ g[i] \in Seq(Row)
    <2>1. g \in [0..Len(m) -> Seq(Row)]
        BY <1>2 DEF Selects
    <2>2. \A i \in 0..Len(q) : i \in 0..Len(m)
        BY <1>1
    <2> QED
        BY <2>1, <2>2
<1>4. f \in [0..Len(q) -> Seq(Row)]
    BY <1>3
<1> HIDE DEF f
<1>5. ASSUME NEW i \in 1..Len(q) PROVE f[i] = More(f[i - 1], q[i], t)
    <2>1. i \in 1..Len(m) /\ i \in 0..Len(q) /\ i - 1 \in 0..Len(q) /\ m[i] = q[i]
        BY <1>1
    <2>2. g[i] = More(g[i - 1], m[i], t)
        BY <1>2, <2>1 DEF Selects
    <2> QED
        BY <1>3, <2>1, <2>2, Zenon
<1>6. Selects(q, t, f)
    BY <1>1, <1>2, <1>3, <1>4, <1>5 DEF Selects
<1>7. RowsOf(q, t) = g[Len(q)] /\ g[Len(q)] \in Seq(Row)
    BY <1>1, <1>3, <1>6, RowsOfIs
<1>8. RowsOf(m, t) = g[Len(q) + 1]
    BY <1>1, <1>2, RowsOfIs
<1>9. g[Len(q) + 1] = More(g[Len(q)], r, t)
    <2>1. Len(q) + 1 \in 1..Len(m) /\ (Len(q) + 1) - 1 = Len(q)
        BY <1>1
    <2>2. g[Len(q) + 1] = More(g[(Len(q) + 1) - 1], m[Len(q) + 1], t)
        BY <1>2, <2>1 DEF Selects
    <2> QED
        BY <1>1, <2>1, <2>2, Zenon
<1> QED
    BY <1>7, <1>8, <1>9 DEF m

\* What is appended to b is appended to what ends in b.
LEMMA AppendLast ==
    ASSUME NEW a \in Seq(Row), NEW b \in Seq(Row), NEW e \in Row
    PROVE  Append(a \o b, e) = a \o Append(b, e)
<1>1. a \o b \in Seq(Row) /\ <<e>> \in Seq(Row)
    OBVIOUS
<1>2. Append(a \o b, e) = (a \o b) \o <<e>> /\ Append(b, e) = b \o <<e>>
    BY <1>1, AppendIsConcat
<1>3. (a \o b) \o <<e>> = a \o (b \o <<e>>)
    BY <1>1, ConcatAssociative
<1> QED
    BY <1>2, <1>3, Zenon

\* The record that leaves the channel was the first of the rows of its table.
LEMMA RowsOfTail ==
    ASSUME NEW q \in Seq(Rec), q # <<>>, NEW t
    PROVE  RowsOf(q, t) = IF Head(q).table = t THEN <<Head(q).row>> \o RowsOf(Tail(q), t)
                          ELSE RowsOf(Tail(q), t)
<1> DEFINE r == Tail(q)
           first == IF Head(q).table = t THEN <<Head(q).row>> ELSE <<>>
<1>1. /\ r \in Seq(Rec) /\ Len(r) \in Nat /\ Len(q) = Len(r) + 1
      /\ \A i \in 1..Len(r) : r[i] = q[i + 1]
      /\ Head(q) = q[1] /\ Head(q) \in Rec
    BY HeadTailProperties
<1> HIDE DEF r
<1>2. first \in Seq(Row)
    BY <1>1 DEF Rec
<1>3. PICK g : Selects(q, t, g)
    BY SelectsExist
<1>4. PICK f : Selects(r, t, f)
    BY <1>1, SelectsExist
<1>5. g[1] = first /\ f[0] = <<>>
    <2>1. g[1] = More(g[0], q[1], t)
        <3>1. 1 \in 1..Len(q) /\ 1 - 1 = 0
            BY <1>1
        <3>2. g[1] = More(g[1 - 1], q[1], t)
            BY <1>3, <3>1 DEF Selects
        <3> QED
            BY <3>1, <3>2, Zenon
    <2>2. g[0] = <<>> /\ f[0] = <<>>
        BY <1>3, <1>4 DEF Selects
    <2> QED
        BY <1>1, <2>1, <2>2 DEF More
<1> HIDE DEF first
<1> DEFINE S == {n \in Nat : n <= Len(r) => g[n + 1] = first \o f[n]}
<1>6. 0 \in S
    BY <1>2, <1>5, ConcatEmptySeq
<1>7. ASSUME NEW n \in Nat, n \in S PROVE n + 1 \in S
    <2> SUFFICES ASSUME n + 1 <= Len(r) PROVE g[(n + 1) + 1] = first \o f[n + 1]
        OBVIOUS
    <2>1. g[n + 1] = first \o f[n]
        BY <1>1, <1>7
    <2> DEFINE x == r[n + 1]
    <2>2. x = q[(n + 1) + 1] /\ x \in Rec
        BY <1>1
    <2>3. g[(n + 1) + 1] = More(g[n + 1], x, t)
        <3>1. (n + 1) + 1 \in 1..Len(q) /\ ((n + 1) + 1) - 1 = n + 1
            BY <1>1
        <3> QED
            BY <1>3, <2>2, <3>1 DEF Selects
    <2>4. /\ f[n + 1] = More(f[n], x, t)
          /\ f[n] \in Seq(Row)
        <3>1. n + 1 \in 1..Len(r) /\ (n + 1) - 1 = n /\ n \in 0..Len(r)
            BY <1>1
        <3> QED
            BY <1>4, <3>1 DEF Selects
    <2>5. x.row \in Row
        BY <2>2 DEF Rec
    <2> HIDE DEF x
    <2>6. Append(first \o f[n], x.row) = first \o Append(f[n], x.row)
        BY <1>2, <2>4, <2>5, AppendLast
    <2> QED
        BY <2>1, <2>3, <2>4, <2>6, Zenon DEF More
<1> HIDE DEF S
<1>8. Len(r) \in S
    BY <1>1, <1>6, <1>7, SetInduction
<1>9. g[Len(r) + 1] = first \o f[Len(r)] /\ f[Len(r)] \in Seq(Row)
    <2>1. f \in [0..Len(r) -> Seq(Row)]
        BY <1>4 DEF Selects
    <2>2. Len(r) \in 0..Len(r) /\ Len(r) <= Len(r)
        BY <1>1
    <2> QED
        BY <1>8, <2>1, <2>2 DEF S
<1>10. RowsOf(q, t) = g[Len(r) + 1] /\ RowsOf(r, t) = f[Len(r)]
    BY <1>1, <1>3, <1>4, RowsOfIs
<1>11. <<>> \o f[Len(r)] = f[Len(r)]
    BY <1>9, ConcatEmptySeq
<1> QED
    BY <1>9, <1>10, <1>11, Zenon DEF first, r
-----------------------------------------------------------------------------
(* Where every row is *)

Pieces ==
    /\ accepted \in [Tables -> Seq(Row)] /\ posted \in [Tables -> Seq(Row)]
    /\ buf \in [Tables -> Seq(Row)] /\ queue \in Seq(Rec)
    /\ \A t \in Tables : accepted[t] = posted[t] \o buf[t] \o RowsOf(queue, t)

\* Only a summary leaves a buffer to post below BATCH, and the last flush
\* leaves none.
Posting ==
    /\ last => \A t \in Tables : buf[t] # <<>> => t \in todo
    /\ buf["summaries"] # <<>> => "summaries" \in todo
    /\ Len(queue) <= Cap

RowsInv == TypeOK /\ Pieces /\ Posting

\* The names of the sets of TypeOK.
LEMMA Named == Numbers = Seq(Row) /\ [table : Tables, row : 1..Rows] = Rec
    BY DEF Numbers, Row, Rec

\* The rows of the channel are rows.
LEMMA RowsAreRows == ASSUME NEW q \in Seq(Rec), NEW t PROVE RowsOf(q, t) \in Seq(Row)
<1>1. CASE q = <<>>
    <2>1. <<>> \in Seq(Row)
        OBVIOUS
    <2> QED
        BY <1>1, <2>1, RowsOfNone, Zenon
<1>2. CASE q # <<>>
    <2>1. q[1] \in Rec
        BY <1>2
    <2> QED
        BY <2>1, RowsOfAppend
<1> QED
    BY <1>1, <1>2

\* A record that moves from the channel to its buffer.
LEMMA Received ==
    ASSUME NEW p \in Seq(Row), NEW b \in Seq(Row), NEW r \in Seq(Row), NEW n \in Row
    PROVE  (p \o b) \o (<<n>> \o r) = (p \o Append(b, n)) \o r
<1>1. <<n>> \in Seq(Row) /\ p \o b \in Seq(Row)
    OBVIOUS
<1>2. (p \o b) \o (<<n>> \o r) = ((p \o b) \o <<n>>) \o r
    BY <1>1, ConcatAssociative
<1>3. (p \o b) \o <<n>> = Append(p \o b, n)
    BY <1>1, AppendIsConcat
<1>4. Append(p \o b, n) = p \o Append(b, n)
    BY AppendLast
<1> QED
    BY <1>2, <1>3, <1>4, Zenon

\* A record that enters the channel is the last of its table.
LEMMA OfferAccounts == ASSUME RowsInv, NEW t \in Tables, Offer(t) PROVE RowsInv'
<1>0. TypeOK /\ Pieces /\ Posting
    BY DEF RowsInv
<1>1. /\ offered \in [Tables -> 0..Rows] /\ offered[t] < Rows
      /\ offered' = [offered EXCEPT ![t] = @ + 1]
      /\ UNCHANGED <<senders, buf, todo, batch, last, posted, alive, shutdown>>
    BY <1>0 DEF Offer, loop, TypeOK
<1>2. offered' \in [Tables -> 0..Rows] /\ offered[t] + 1 \in Row
    <2>1. \A u \in Tables : offered'[u] = IF u = t THEN offered[t] + 1 ELSE offered[u]
        BY <1>1
    <2>2. offered[t] \in 0..Rows /\ offered[t] + 1 \in 0..Rows /\ offered[t] + 1 \in 1..Rows
        BY <1>1, SizesAssumption
    <2> QED
        BY <1>1, <2>2 DEF Row
<1>3. CASE UNCHANGED <<queue, accepted>>
    <2>1. TypeOK'
        BY <1>0, <1>1, <1>2, <1>3 DEF TypeOK
    <2>2. Pieces' /\ Posting'
        BY <1>0, <1>1, <1>3, Zenon DEF Pieces, Posting
    <2> QED
        BY <2>1, <2>2 DEF RowsInv
<1>4. CASE /\ Len(queue) < Cap
           /\ queue' = Append(queue, [table |-> t, row |-> offered[t] + 1])
           /\ accepted' = [accepted EXCEPT ![t] = Append(@, offered[t] + 1)]
    <2> DEFINE n == offered[t] + 1
               r == [table |-> t, row |-> n]
    <2>1. r \in Rec /\ r.table = t /\ r.row = n /\ n \in Row
        BY <1>2 DEF Rec
    <2>2. queue' = Append(queue, r) /\ accepted' = [accepted EXCEPT ![t] = Append(@, n)]
        BY <1>4
    <2> HIDE DEF n, r
    <2>3. /\ queue \in Seq(Rec) /\ accepted \in [Tables -> Seq(Row)]
          /\ \A u \in Tables : /\ posted[u] \in Seq(Row) /\ buf[u] \in Seq(Row)
                               /\ accepted[u] \in Seq(Row)
                               /\ posted[u] \o buf[u] \in Seq(Row)
        <3>1. /\ queue \in Seq(Rec) /\ accepted \in [Tables -> Seq(Row)]
              /\ \A u \in Tables : posted[u] \in Seq(Row) /\ buf[u] \in Seq(Row)
                                   /\ accepted[u] \in Seq(Row)
            BY <1>0 DEF Pieces
        <3>2. \A u \in Tables : posted[u] \o buf[u] \in Seq(Row)
            BY <3>1, ConcatProperties
        <3> QED
            BY <3>1, <3>2
    <2>4. queue' \in Seq(Rec) /\ Len(queue') = Len(queue) + 1
        BY <2>1, <2>2, <2>3, AppendProperties
    <2>5. Append(accepted[t], n) \in Seq(Row)
        BY <2>1, <2>3, AppendProperties
    <2>6. /\ accepted' \in [Tables -> Seq(Row)] /\ accepted'[t] = Append(accepted[t], n)
          /\ \A u \in Tables : u # t => accepted'[u] = accepted[u]
        BY <2>2, <2>3, <2>5
    <2>7. ASSUME NEW u \in Tables
          PROVE  accepted'[u] = posted'[u] \o buf'[u] \o RowsOf(queue', u)
        <3>1. accepted[u] = (posted[u] \o buf[u]) \o RowsOf(queue, u)
            BY <1>0 DEF Pieces
        <3>2. /\ RowsOf(queue, u) \in Seq(Row)
              /\ RowsOf(queue', u) = More(RowsOf(queue, u), r, u)
            BY <2>1, <2>2, <2>3, RowsOfAppend
        <3>3. CASE u = t
            <4>1. RowsOf(queue', u) = Append(RowsOf(queue, u), n)
                BY <2>1, <3>2, <3>3 DEF More
            <4>2. Append((posted[u] \o buf[u]) \o RowsOf(queue, u), n)
                      = (posted[u] \o buf[u]) \o Append(RowsOf(queue, u), n)
                <5> DEFINE pb == posted[u] \o buf[u]
                           rs == RowsOf(queue, u)
                <5>1. pb \in Seq(Row) /\ rs \in Seq(Row)
                    BY <2>3, <3>2
                <5> HIDE DEF pb, rs
                <5>2. Append(pb \o rs, n) = pb \o Append(rs, n)
                    BY <2>1, <5>1, AppendLast
                <5> QED
                    BY <5>2 DEF pb, rs
            <4> QED
                BY <1>1, <2>6, <3>1, <3>3, <4>1, <4>2, Zenon
        <3>4. CASE u # t
            <4>1. RowsOf(queue', u) = RowsOf(queue, u)
                BY <2>1, <3>2, <3>4 DEF More
            <4> QED
                BY <1>1, <2>6, <3>1, <3>4, <4>1, Zenon
        <3> QED
            BY <3>3, <3>4
    <2>8. Pieces'
        BY <1>0, <1>1, <2>4, <2>6, <2>7 DEF Pieces
    <2>9. Len(queue') <= Cap
        BY <1>4, <2>3, <2>4, SizesAssumption
    <2>10. Posting'
        BY <1>0, <1>1, <2>9, Zenon DEF Posting
    <2>11. TypeOK'
        <3>1. queue' \in Seq([table : Tables, row : 1..Rows])
            BY <2>4, Named, Zenon
        <3>2. accepted' \in [Tables -> Numbers]
            BY <2>6, Named, Zenon
        <3>3. /\ senders \subseteq Senders /\ buf \in [Tables -> Numbers] /\ todo \subseteq Tables
              /\ batch = None \/ batch \in Tables \X Numbers
              /\ {last, alive, shutdown} \subseteq BOOLEAN /\ posted \in [Tables -> Numbers]
            BY <1>0, Zenon DEF TypeOK
        <3> QED
            BY <1>1, <1>2, <3>1, <3>2, <3>3, Zenon DEF TypeOK
    <2> QED
        BY <2>8, <2>10, <2>11, Zenon DEF RowsInv
<1> QED
    BY <1>3, <1>4 DEF Offer

\* A record that is received is the newest of its buffer, and none is thrown
\* out of a buffer that has room.
LEMMA RecvAccounts == ASSUME LogInv, RowsInv, Recv PROVE RowsInv'
<1>0. TypeOK /\ Pieces /\ Posting /\ BuffersBounded
    BY DEF RowsInv, LogInv
<1> DEFINE t == Head(queue).table
           n == Head(queue).row
           b == PushBounded(buf[t], n)
<1>1. /\ todo = {} /\ ~last /\ queue # <<>>
      /\ buf' = [buf EXCEPT ![t] = b]
      /\ todo' = IF Full(t, b) THEN {t} ELSE {}
      /\ queue' = Tail(queue)
      /\ UNCHANGED <<offered, senders, batch, last, alive, shutdown, accepted, posted>>
    BY DEF Recv, AtSelect, Idle
<1>2. /\ queue \in Seq(Rec) /\ buf \in [Tables -> Seq(Row)]
      /\ \A u \in Tables : posted[u] \in Seq(Row) /\ buf[u] \in Seq(Row)
    BY <1>0 DEF Pieces
<1>3. /\ queue' \in Seq(Rec) /\ Len(queue') = Len(queue) - 1 /\ Head(queue) \in Rec
      /\ Len(queue) \in Nat
    BY <1>1, <1>2, HeadTailProperties
<1>4. t \in Tables /\ n \in Row
    BY <1>3 DEF Rec
<1>5. b = Append(buf[t], n) /\ b \in Seq(Row)
    <2>1. Len(buf[t]) \in Nat /\ Len(buf[t]) < Batch
        BY <1>0, <1>1, <1>2, <1>4, SizesAssumption DEF BuffersBounded
    <2>2. ~(Len(buf[t]) >= MaxBuffer)
        BY <2>1, SizesAssumption
    <2>3. b = Append(buf[t], n)
        BY <2>2 DEF PushBounded
    <2>4. PICK old : old = buf[t] /\ old \in Seq(Row)
        BY <1>2, <1>4
    <2>5. Append(old, n) \in Seq(Row)
        BY <1>4, <2>4, AppendProperties
    <2> QED
        BY <2>3, <2>4, <2>5, Zenon
<1> HIDE DEF b, t, n
<1>6. /\ buf' \in [Tables -> Seq(Row)] /\ buf'[t] = b
      /\ \A u \in Tables : u # t => buf'[u] = buf[u]
    BY <1>1, <1>2, <1>4, <1>5
<1>7. ASSUME NEW u \in Tables
      PROVE  accepted'[u] = posted'[u] \o buf'[u] \o RowsOf(queue', u)
    <2>1. accepted[u] = (posted[u] \o buf[u]) \o RowsOf(queue, u)
        BY <1>0 DEF Pieces
    <2>2. /\ RowsOf(queue, u) = IF t = u THEN <<n>> \o RowsOf(queue', u) ELSE RowsOf(queue', u)
          /\ RowsOf(queue', u) \in Seq(Row)
        BY <1>1, <1>2, <1>3, RowsOfTail, RowsAreRows DEF t, n
    <2>3. CASE u = t
        <3>1. (posted[u] \o buf[u]) \o (<<n>> \o RowsOf(queue', u))
                  = (posted[u] \o Append(buf[u], n)) \o RowsOf(queue', u)
            BY <1>2, <1>4, <2>2, Received
        <3> QED
            BY <1>1, <1>5, <1>6, <2>1, <2>2, <2>3, <3>1, Zenon
    <2>4. CASE u # t
        BY <1>1, <1>6, <2>1, <2>2, <2>4, Zenon
    <2> QED
        BY <2>3, <2>4
<1>8. Pieces'
    BY <1>0, <1>1, <1>3, <1>6, <1>7 DEF Pieces
<1>9. Posting'
    <2>1. Len(queue') <= Cap
        BY <1>0, <1>3, SizesAssumption DEF Posting
    <2>2. "summaries" \in Tables
        BY DEF Tables, Order, Range
    <2>3. buf'["summaries"] # <<>> => "summaries" \in todo'
        <3>1. CASE t = "summaries"
            BY <1>1, <3>1, Zenon DEF Full
        <3>2. CASE t # "summaries"
            BY <1>0, <1>1, <1>6, <2>2, <3>2 DEF Posting
        <3> QED
            BY <3>1, <3>2
    <2> QED
        BY <1>1, <2>1, <2>3 DEF Posting
<1>10. TypeOK'
    <2>1. queue' \in Seq([table : Tables, row : 1..Rows])
        BY <1>3, Named, Zenon
    <2>2. buf' \in [Tables -> Numbers]
        BY <1>6, Named, Zenon
    <2>3. todo' \subseteq Tables
        BY <1>1, <1>4
    <2>4. /\ offered \in [Tables -> 0..Rows] /\ senders \subseteq Senders
          /\ batch = None \/ batch \in Tables \X Numbers
          /\ {last, alive, shutdown} \subseteq BOOLEAN
          /\ accepted \in [Tables -> Numbers] /\ posted \in [Tables -> Numbers]
        BY <1>0, Zenon DEF TypeOK
    <2> QED
        BY <1>1, <2>1, <2>2, <2>3, <2>4, Zenon DEF TypeOK
<1> QED
    BY <1>8, <1>9, <1>10, Zenon DEF RowsInv

\* A POST takes the buffer as it is.
LEMMA FlushAccounts == ASSUME RowsInv, Flush PROVE RowsInv'
<1>0. TypeOK /\ Pieces /\ Posting
    BY DEF RowsInv
<1>1. PICK t \in Tables :
          /\ t \in todo /\ todo' = todo \ {t}
          /\ batch' = <<t, buf[t]>>
          /\ buf' = [buf EXCEPT ![t] = <<>>]
          /\ posted' = [posted EXCEPT ![t] = @ \o buf[t]]
    BY DEF Flush, IsNext
<1>2. UNCHANGED <<offered, senders, queue, last, alive, shutdown, accepted>>
    BY DEF Flush
<1>3. /\ buf \in [Tables -> Seq(Row)] /\ posted \in [Tables -> Seq(Row)]
      /\ queue \in Seq(Rec)
      /\ \A u \in Tables : posted[u] \in Seq(Row) /\ buf[u] \in Seq(Row)
    BY <1>0 DEF Pieces
<1>4. posted[t] \o buf[t] \in Seq(Row) /\ <<>> \in Seq(Row)
    BY <1>3, ConcatProperties
<1>5. /\ buf' \in [Tables -> Seq(Row)] /\ buf'[t] = <<>>
      /\ posted' \in [Tables -> Seq(Row)] /\ posted'[t] = posted[t] \o buf[t]
      /\ \A u \in Tables : u # t => buf'[u] = buf[u] /\ posted'[u] = posted[u]
    BY <1>1, <1>3, <1>4
<1>6. ASSUME NEW u \in Tables
      PROVE  accepted'[u] = posted'[u] \o buf'[u] \o RowsOf(queue', u)
    <2>1. accepted[u] = (posted[u] \o buf[u]) \o RowsOf(queue, u)
        BY <1>0 DEF Pieces
    <2>2. CASE u = t
        <3>1. (posted[u] \o buf[u]) \o <<>> = posted[u] \o buf[u]
            BY <1>4, <2>2, ConcatEmptySeq
        <3> QED
            BY <1>2, <1>5, <2>1, <2>2, <3>1, Zenon
    <2>3. CASE u # t
        BY <1>2, <1>5, <2>1, <2>3, Zenon
    <2> QED
        BY <2>2, <2>3
<1>7. Pieces'
    BY <1>0, <1>2, <1>5, <1>6 DEF Pieces
<1>8. Posting'
    <2>1. "summaries" \in Tables
        BY DEF Tables, Order, Range
    <2>2. \A u \in Tables : buf'[u] # <<>> => u # t /\ buf[u] # <<>>
        BY <1>5, Zenon
    <2>3. \A u \in todo : u # t => u \in todo'
        BY <1>1
    <2> QED
        BY <1>0, <1>2, <2>1, <2>2, <2>3, Zenon DEF Posting
<1>9. TypeOK'
    <2>1. buf' \in [Tables -> Numbers] /\ posted' \in [Tables -> Numbers]
        BY <1>5, Named, Zenon
    <2>2. batch' \in Tables \X Numbers
        <3>1. buf[t] \in Numbers
            BY <1>3, Named, Zenon
        <3> QED
            BY <1>1, <3>1
    <2>3. todo' \subseteq Tables
        BY <1>0, <1>1 DEF TypeOK
    <2>4. /\ offered \in [Tables -> 0..Rows] /\ senders \subseteq Senders
          /\ queue \in Seq([table : Tables, row : 1..Rows])
          /\ {last, alive, shutdown} \subseteq BOOLEAN /\ accepted \in [Tables -> Numbers]
        BY <1>0, Zenon DEF TypeOK
    <2> QED
        BY <1>2, <2>1, <2>2, <2>3, <2>4, Zenon DEF TypeOK
<1> QED
    BY <1>7, <1>8, <1>9, Zenon DEF RowsInv

\* A step that moves no record keeps the account, if it asks for the buffers
\* that are not empty before it ends the loop.
LEMMA StillAccounts ==
    ASSUME RowsInv, UNCHANGED <<offered, queue, buf, accepted, posted>>,
           \/ UNCHANGED <<todo, last>>
           \/ todo = {} /\ todo' = FlushAll /\ last' \in BOOLEAN,
           senders' \subseteq senders, batch' \in {batch, None},
           alive' \in {alive, FALSE}, shutdown' \in {shutdown, TRUE}
    PROVE  RowsInv'
<1>0. TypeOK /\ Pieces /\ Posting
    BY DEF RowsInv
<1>1. Pieces'
    BY <1>0, Zenon DEF Pieces
<1>2. "summaries" \in Tables
    BY DEF Tables, Order, Range
<1>3. Posting'
    <2>1. CASE UNCHANGED <<todo, last>>
        BY <1>0, <2>1, Zenon DEF Posting
    <2>2. CASE todo' = FlushAll
        <3>1. \A t \in Tables : buf[t] # <<>> => t \in todo'
            BY <2>2 DEF FlushAll
        <3> QED
            BY <1>0, <1>2, <3>1, Zenon DEF Posting
    <2> QED
        BY <2>1, <2>2
<1>4. TypeOK'
    <2>1. /\ offered \in [Tables -> 0..Rows] /\ senders \subseteq Senders
          /\ queue \in Seq([table : Tables, row : 1..Rows])
          /\ buf \in [Tables -> Numbers] /\ todo \subseteq Tables
          /\ accepted \in [Tables -> Numbers] /\ posted \in [Tables -> Numbers]
        BY <1>0, Zenon DEF TypeOK
    <2>2. batch' = None \/ batch' \in Tables \X Numbers
        BY <1>0, Zenon DEF TypeOK
    <2>3. last' \in BOOLEAN /\ alive' \in BOOLEAN /\ shutdown' \in BOOLEAN
        <3>1. last \in BOOLEAN /\ alive \in BOOLEAN /\ shutdown \in BOOLEAN
            BY <1>0 DEF TypeOK
        <3> QED
            BY <3>1
    <2>4. todo' \subseteq Tables
        BY <2>1 DEF FlushAll
    <2>5. {last', alive', shutdown'} \subseteq BOOLEAN
        BY <2>3
    <2>6. senders' \subseteq Senders
        BY <2>1
    <2> QED
        BY <2>1, <2>2, <2>4, <2>5, <2>6, Zenon DEF TypeOK
<1> QED
    BY <1>1, <1>3, <1>4, Zenon DEF RowsInv

\* Every record that entered the channel is posted, buffered or queued, in this
\* order; a loop that ended left no buffer behind; and the channel and the
\* buffers stay within their bounds (storage.rs:39-43, 100-140).
THEOREM RowsAlwaysAccounted == Spec => []RowsAccounted
<1>1. Init => RowsInv
    <2> SUFFICES ASSUME Init PROVE RowsInv
        OBVIOUS
    <2>0. /\ \A t \in Tables : accepted[t] = <<>> /\ posted[t] = <<>> /\ buf[t] = <<>>
          /\ queue = <<>> /\ Len(queue) = 0
        BY DEF Init
    <2>1. <<>> \in Seq(Row) /\ <<>> \in Seq(Rec) /\ <<>> \o <<>> \o <<>> = <<>>
        <3>1. <<>> \in Seq(Row) /\ <<>> \in Seq(Rec)
            OBVIOUS
        <3>2. <<>> \o <<>> = <<>>
            BY <3>1, ConcatEmptySeq
        <3> QED
            BY <3>1, <3>2
    <2>2. Pieces
        <3>1. /\ accepted \in [Tables -> Seq(Row)] /\ posted \in [Tables -> Seq(Row)]
              /\ buf \in [Tables -> Seq(Row)]
            BY <2>1 DEF Init
        <3>2. \A t \in Tables : RowsOf(queue, t) = <<>>
            BY <2>0, RowsOfNone
        <3>3. \A t \in Tables : accepted[t] = posted[t] \o buf[t] \o RowsOf(queue, t)
            BY <2>0, <2>1, <3>2, Zenon
        <3> QED
            BY <2>0, <2>1, <3>1, <3>3, Zenon DEF Pieces
    <2>3. Posting
        <3>1. "summaries" \in Tables
            BY DEF Tables, Order, Range
        <3> QED
            BY <2>0, <3>1, SizesAssumption DEF Posting
    <2>4. TypeOK
        <3>1. queue \in Seq([table : Tables, row : 1..Rows])
            BY <2>0, <2>1, Named, Zenon
        <3>2. /\ buf \in [Tables -> Numbers] /\ accepted \in [Tables -> Numbers]
              /\ posted \in [Tables -> Numbers]
            BY <2>2, Named, Zenon DEF Pieces
        <3>3. offered \in [Tables -> 0..Rows]
            BY SizesAssumption DEF Init
        <3> QED
            BY <3>1, <3>2, <3>3 DEF Init, TypeOK
    <2> QED
        BY <2>2, <2>3, <2>4 DEF RowsInv
<1>2. LogInv /\ RowsInv /\ [Next]_vars => RowsInv'
    <2> SUFFICES ASSUME LogInv, RowsInv, [Next]_vars PROVE RowsInv'
        OBVIOUS
    <2>1. CASE \E t \in Tables : Offer(t)
        BY <2>1, OfferAccounts
    <2>2. CASE Recv
        BY <2>2, RecvAccounts
    <2>3. CASE Flush
        BY <2>3, FlushAccounts
    <2>4. CASE Cancelled \/ Closed \/ Tick
        <3>1. last \in BOOLEAN
            BY DEF RowsInv, TypeOK
        <3> QED
            BY <2>4, <3>1, StillAccounts DEF Cancelled, Closed, Tick, AtSelect, Idle
    <2>5. CASE Answer
        BY <2>5, StillAccounts DEF Answer
    <2>6. CASE Cancel \/ Exit \/ (\E s \in Senders : DropSender(s)) \/ UNCHANGED vars
        BY <2>6, StillAccounts DEF Cancel, Exit, DropSender, vars, loop
    <2> QED
        BY <2>1, <2>2, <2>3, <2>4, <2>5, <2>6 DEF Next
<1>3. LogInv /\ RowsInv => RowsAccounted
    <2> SUFFICES ASSUME LogInv, RowsInv PROVE RowsAccounted
        OBVIOUS
    <2>1. \A t \in Tables : accepted[t] = posted[t] \o buf[t] \o Queued(t)
        BY Zenon DEF RowsInv, Pieces, Queued
    <2>2. \A t \in Tables : Ended => buf[t] = <<>>
        BY DEF RowsInv, Posting, Ended, Idle
    <2>3. \A t \in Tables : Len(buf[t]) <= Batch
        BY DEF LogInv, BuffersBounded
    <2>4. AtSelect => buf["summaries"] = <<>> /\ \A t \in Tables : Len(buf[t]) < Batch
        <3>1. ASSUME AtSelect, NEW t \in Tables PROVE Len(buf[t]) < Batch
            <4>1. Len(buf[t]) \in Nat /\ Len(buf[t]) <= Batch /\ Len(buf[t]) # Batch
                BY <3>1 DEF LogInv, Types, BuffersBounded, AtSelect, Idle
            <4> QED
                BY <4>1, SizesAssumption
        <3>2. AtSelect => buf["summaries"] = <<>>
            BY DEF RowsInv, Posting, AtSelect, Idle
        <3> QED
            BY <3>1, <3>2
    <2> QED
        BY <2>1, <2>2, <2>3, <2>4, Zenon DEF RowsInv, Posting, RowsAccounted
<1> QED
    BY <1>1, <1>2, <1>3, LogKept, PTL DEF Spec
=============================================================================
