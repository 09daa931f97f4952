----------------------------- MODULE ChatProofs -----------------------------
(***************************************************************************)
(* Proofs about the chat worker and the interaction engine: the one call   *)
(* it may begin after a trip of the kill-switch, whom its registry         *)
(* forgets, what a lag costs it and in which order it answers, for any     *)
(* users, capacities, limits and length of the chat.                       *)
(***************************************************************************)
EXTENDS Chat, FiniteSetTheorems, TLAPS

-----------------------------------------------------------------------------
(* The kill-switch *)

\* Inductive: the one call that began after the trip had its leave before it,
\* and there is no second request under way that could lead to another.
CallInv ==
    /\ overrun \in {0, 1}
    /\ overrun = 1 => tripped = TRUE /\ engine # "age"

\* The governor is asked before each request, whatever comes between.
LEMMA CallKept == Spec => []CallInv
<1>1. Init => CallInv
    BY DEF Init, CallInv
<1>2. ASSUME CallInv, [Next]_vars PROVE CallInv'
    <2> USE DEF CallInv, gates
    <2>1. CASE Handle
        <3>1. PICK u \in Users : EasterEgg(pos', u) \/ Mention(u) \/ Ignore
            BY <2>1 DEF Handle
        <3>2. UNCHANGED <<tripped>> /\ engine = "select"
            BY <2>1 DEF Handle
        <3> QED
            BY <1>2, <3>1, <3>2 DEF EasterEgg, Mention, MayCall, BeginCall, Ignore
    <2>2. CASE AgeAnswer
        BY <1>2, <2>2 DEF AgeAnswer, BeginCall
    <2>3. CASE ReplyAnswer
        BY <1>2, <2>3 DEF ReplyAnswer, Recorded
    <2>4. CASE Proactive
        BY <1>2, <2>4 DEF Proactive, MayCall, BeginCall
    <2>5. CASE ProactiveAnswer
        BY <1>2, <2>5 DEF ProactiveAnswer, Recorded
    <2>6. CASE EngineEnds \/ GovernorChanges
        BY <1>2, <2>6 DEF EngineEnds, GovernorChanges
    <2>7. CASE Receive \/ Say \/ ChatEnds \/ Lag \/ Cancel \/ TimePasses
        BY <1>2, <2>7 DEF Receive, Say, ChatEnds, Lag, Cancel, TimePasses
    <2>8. CASE UNCHANGED vars
        BY <1>2, <2>8 DEF vars
    <2> QED
        BY <1>2, <2>1, <2>2, <2>3, <2>4, <2>5, <2>6, <2>7, <2>8 DEF Next
<1> QED
    BY <1>1, <1>2, PTL DEF Spec

\* Whatever the other workers and the requests do, at most one LLM call of the
\* engine begins after the kill-switch has tripped: the one that had its leave
\* before (interaction.rs:125, 131, 147).
THEOREM OneCall == Spec => []OneCallAfterTrip
<1>1. CallInv => OneCallAfterTrip
    BY DEF CallInv, OneCallAfterTrip
<1> QED
    BY <1>1, CallKept, PTL

-----------------------------------------------------------------------------
(* The registry *)

\* Inductive: what a profile says of its user is when the user last spoke,
\* nobody spoke after the last message, and whoever is unknown has been
\* outlived by a full registry.
RegistryInv ==
    /\ instant \in Nat /\ spoke \in [Users -> Nat]
    /\ \A u \in Users : spoke[u] <= instant
    /\ Known \subseteq Users /\ IsFiniteSet(Known)
    /\ LeastRecentForgotten

\* The empty registry has forgotten nobody, as nobody has spoken.
LEMMA RegistryStart == RegistryInit => RegistryInv
<1> SUFFICES ASSUME RegistryInit PROVE RegistryInv
    OBVIOUS
<1>1. Known = {}
    BY DEF RegistryInit, Known
<1>2. Cardinality(Known) = 0 /\ IsFiniteSet(Known)
    BY <1>1, FS_EmptySet
<1> QED
    BY <1>1, <1>2, RegistryAssumption
       DEF RegistryInit, RegistryInv, LeastRecentForgotten

\* Who is evicted made room for one, and nobody else: none when the author is
\* known or there is room, else one of the least recently seen.
LEMMA ObserveKeeps ==
    ASSUME RegistryInv, NEW u \in Users, Observe(u)
    PROVE  RegistryInv'
<1> USE DEF RegistryInv, LeastRecentForgotten
<1>1. PICK gone \in Victims(u) :
          lastSeen' = [v \in (Known \ gone) \cup {u} |->
                         IF v = u THEN instant' ELSE lastSeen[v]]
    BY DEF Observe
<1>2. Known' = (Known \ gone) \cup {u}
    BY <1>1 DEF Known
<1>3. instant' = instant + 1 /\ spoke' = [spoke EXCEPT ![u] = instant + 1]
    BY DEF Observe
<1>4. /\ instant' \in Nat /\ spoke' \in [Users -> Nat]
      /\ \A w \in Users : spoke'[w] <= instant'
      /\ Known' \subseteq Users
    BY <1>2, <1>3
<1>5. \A v \in Known' : lastSeen'[v] = spoke'[v]
    BY <1>1, <1>2, <1>3
<1>6. Cardinality(Known) \in Nat
    BY FS_CardinalityType
<1>7. CASE u \in Known \/ Cardinality(Known) < RegCap
    <2>1. gone = {}
        BY <1>1, <1>7 DEF Victims
    <2>2. Known' = Known \cup {u}
        BY <1>2, <2>1
    <2>3. /\ IsFiniteSet(Known')
          /\ Cardinality(Known') = IF u \in Known THEN Cardinality(Known)
                                   ELSE Cardinality(Known) + 1
        BY <2>2, FS_AddElement
    <2>4. Cardinality(Known') <= RegCap
        BY <1>6, <1>7, <2>3, RegistryAssumption
    <2>5. ASSUME NEW w \in Users \ Known', spoke'[w] > 0
          PROVE  Cardinality(Known') = RegCap /\ \A v \in Known' : lastSeen'[v] >= spoke'[w]
        <3>1. w # u /\ w \notin Known /\ spoke'[w] = spoke[w] /\ spoke[w] > 0
            BY <1>3, <2>2, <2>5
        <3>2. Cardinality(Known) = RegCap /\ \A v \in Known : spoke[v] >= spoke[w]
            BY <3>1
        <3>3. u \in Known /\ Known' = Known
            BY <1>6, <1>7, <2>2, <3>2, RegistryAssumption
        <3>4. \A v \in Known' : spoke'[v] >= spoke[w]
            BY <1>3, <3>2, <3>3
        <3> QED
            BY <1>5, <3>1, <3>2, <3>3, <3>4
    <2> QED
        BY <1>4, <1>5, <2>3, <2>4, <2>5
<1>8. CASE ~(u \in Known \/ Cardinality(Known) < RegCap)
    <2>1. PICK o \in Oldest : gone = {o}
        BY <1>1, <1>8 DEF Victims
    <2>2. o \in Known /\ \A v \in Known : spoke[o] <= spoke[v]
        BY <2>1 DEF Oldest
    <2>3. Cardinality(Known) = RegCap /\ u \notin Known
        BY <1>6, <1>8, RegistryAssumption
    <2>4. IsFiniteSet(Known \ {o}) /\ Cardinality(Known \ {o}) = RegCap - 1
        BY <2>2, <2>3, FS_RemoveElement
    <2>5. Known' = (Known \ {o}) \cup {u} /\ u \notin Known \ {o}
        BY <1>2, <2>1, <2>3
    <2>6. IsFiniteSet(Known') /\ Cardinality(Known') = RegCap
        <3>1. Cardinality(Known') = Cardinality(Known \ {o}) + 1
            BY <2>4, <2>5, FS_AddElement
        <3>2. IsFiniteSet(Known')
            BY <2>4, <2>5, FS_AddElement
        <3> QED
            BY <2>4, <3>1, <3>2, RegistryAssumption
    <2>7. ASSUME NEW w \in Users \ Known', spoke'[w] > 0
          PROVE  \A v \in Known' : lastSeen'[v] >= spoke'[w]
        <3>1. w # u /\ spoke'[w] = spoke[w]
            BY <1>3, <2>5
        <3>2. \A v \in Known : spoke[v] >= spoke[w]
            <4>1. CASE w = o
                BY <2>2, <4>1
            <4>2. CASE w # o
                BY <2>5, <2>7, <3>1, <4>2
            <4> QED
                BY <4>1, <4>2
        <3>3. \A v \in Known' : spoke'[v] >= spoke[w]
            BY <1>3, <2>5, <3>2
        <3> QED
            BY <1>5, <3>1, <3>3
    <2> QED
        BY <1>4, <1>5, <2>6, <2>7, RegistryAssumption
<1> QED
    BY <1>7, <1>8

\* Nothing but a message touches what the registry says of its users.
LEMMA RegistryUnmoved ==
    ASSUME RegistryInv, UNCHANGED <<lastSeen, instant, spoke>>
    PROVE  RegistryInv'
BY DEF RegistryInv, LeastRecentForgotten, Known

\* Only a message moves the registry.
LEMMA RegistryKept == Spec => []RegistryInv
<1>1. Init => RegistryInv
    BY RegistryStart DEF Init
<1>2. ASSUME RegistryInv, [Next]_vars PROVE RegistryInv'
    <2>1. CASE Handle
        BY <1>2, <2>1, ObserveKeeps DEF Handle
    <2>2. CASE ~Handle
        <3>1. UNCHANGED <<lastSeen, instant, spoke>>
            BY <1>2, <2>2
               DEF Next, vars, registry, Receive, Say, ChatEnds, Lag, AgeAnswer, ReplyAnswer,
                   Proactive, ProactiveAnswer, EngineEnds, Cancel, TimePasses, GovernorChanges
        <3> QED
            BY <1>2, <3>1, RegistryUnmoved
    <2> QED
        BY <2>1, <2>2
<1> QED
    BY <1>1, <1>2, PTL DEF Spec

\* Whatever the order of authors, the registry stays within its capacity and
\* forgets only the least recently seen (registry.rs:55-57, 78-87).
THEOREM ForgetsLeastRecent == Spec => []LeastRecentForgotten
<1>1. RegistryInv => LeastRecentForgotten
    BY DEF RegistryInv
<1> QED
    BY <1>1, RegistryKept, PTL

-----------------------------------------------------------------------------
(* What the engine reads *)

\* The whole of s ends t.
Ends(s, t) ==
    Len(s) <= Len(t) /\ \A i \in 1..Len(s) : s[i] = t[(Len(t) - Len(s)) + i]

\* Ends is what the community modules call a suffix.
LEMMA EndsIsSuffix ==
    ASSUME NEW S, NEW s \in Seq(S), NEW t \in Seq(S), Ends(s, t)
    PROVE  IsSuffix(s, t)
<1> DEFINE n == Len(s)
           r == Reverse(s)
           q == Reverse(t)
<1>1. n \in Nat /\ Len(t) \in Nat /\ n <= Len(t)
    BY DEF Ends
<1>2. r \in Seq(S) /\ q \in Seq(S) /\ Len(r) = n /\ Len(q) = Len(t)
    <2>1. \A i \in 1..n : s[(n - i) + 1] \in S
        BY <1>1
    <2>2. \A i \in 1..Len(t) : t[(Len(t) - i) + 1] \in S
        BY <1>1
    <2> QED
        BY <1>1, <2>1, <2>2 DEF Reverse
<1>3. ASSUME NEW i \in 1..n PROVE r[i] = q[i]
    <2>1. (n - i) + 1 \in 1..n /\ (Len(t) - n) + ((n - i) + 1) = (Len(t) - i) + 1
        BY <1>1
    <2>2. s[(n - i) + 1] = t[(Len(t) - i) + 1]
        BY <2>1 DEF Ends
    <2>3. i \in 1..Len(t)
        BY <1>1
    <2> QED
        BY <2>2, <2>3 DEF Reverse
<1> HIDE DEF n, r, q
<1>4. SubSeq(r, 1, n) = SubSeq(q, 1, n)
    BY <1>1, <1>2, <1>3
<1> QED
    BY <1>1, <1>2, <1>4 DEF IsSuffix, IsPrefix, n, r, q

\* The positions a message may have in the chat.
Positions == 1..Messages

\* Inductive: LagLosesOldest but for the types of what is not read.
ReadInv ==
    /\ sent \in 0..Messages /\ pos \in 0..sent
    /\ handled \in Seq(Positions) /\ recent \in Seq(Positions)
    /\ \A i \in DOMAIN handled : handled[i] <= pos
    /\ Increasing(handled)
    /\ \A m \in 1..pos : Contains(handled, m) \/ m <= sent - Cap
    /\ Ends(recent, handled)
    /\ Len(recent) = IF Len(handled) < Recent THEN Len(handled) ELSE Recent

\* What is left of the context when another message comes to it.
Kept(s, limit) == IF Len(s) >= limit THEN Tail(s) ELSE s

\* It is the end of what was handled, and there is room for one more.
LEMMA KeptEnds ==
    ASSUME NEW S, NEW s \in Seq(S), NEW t \in Seq(S), NEW limit \in Nat \ {0},
           Ends(s, t), Len(s) = IF Len(t) < limit THEN Len(t) ELSE limit
    PROVE  /\ Kept(s, limit) \in Seq(S) /\ Ends(Kept(s, limit), t)
           /\ Len(Kept(s, limit)) + 1 = IF Len(t) + 1 < limit THEN Len(t) + 1 ELSE limit
<1>1. Len(s) \in Nat /\ Len(t) \in Nat
    OBVIOUS
<1>2. CASE Len(s) >= limit
    <2> DEFINE r == Tail(s)
    <2>1. Len(s) = limit /\ limit <= Len(t) /\ s # << >>
        BY <1>1, <1>2
    <2>2. r \in Seq(S) /\ Len(r) = limit - 1 /\ \A i \in 1..(limit - 1) : r[i] = s[i + 1]
        BY <2>1
    <2> HIDE DEF r
    <2>3. ASSUME NEW i \in 1..(limit - 1) PROVE r[i] = t[(Len(t) - Len(r)) + i]
        <3>1. i + 1 \in 1..Len(s)
            BY <2>1
        <3>2. s[i + 1] = t[(Len(t) - Len(s)) + (i + 1)]
            BY <3>1 DEF Ends
        <3>3. \A a \in Nat : (a - limit) + (i + 1) = (a - (limit - 1)) + i
            OBVIOUS
        <3>4. (Len(t) - Len(s)) + (i + 1) = (Len(t) - Len(r)) + i
            BY <1>1, <2>1, <2>2, <3>3
        <3> QED
            BY <2>2, <3>2, <3>4
    <2>4. Ends(r, t)
        BY <1>1, <2>1, <2>2, <2>3 DEF Ends
    <2>5. Len(r) + 1 = IF Len(t) + 1 < limit THEN Len(t) + 1 ELSE limit
        BY <1>1, <2>1, <2>2
    <2>6. Kept(s, limit) = r
        BY <1>2 DEF Kept, r
    <2> QED
        BY <2>2, <2>4, <2>5, <2>6
<1>3. CASE ~(Len(s) >= limit)
    <2>1. Kept(s, limit) = s
        BY <1>3 DEF Kept
    <2>2. Len(s) + 1 = IF Len(t) + 1 < limit THEN Len(t) + 1 ELSE limit
        BY <1>1, <1>3
    <2> QED
        BY <2>1, <2>2
<1> QED
    BY <1>2, <1>3

\* Two sequences that end alike do so when both get the same element.
LEMMA EndsGrow ==
    ASSUME NEW S, NEW s \in Seq(S), NEW t \in Seq(S), NEW e \in S, Ends(s, t)
    PROVE  /\ Append(s, e) \in Seq(S) /\ Len(Append(s, e)) = Len(s) + 1
           /\ Append(s, e) # << >> /\ Last(Append(s, e)) = e
           /\ Ends(Append(s, e), Append(t, e))
<1> DEFINE k == Len(s)
           n == Len(t)
           u == Append(s, e)
           v == Append(t, e)
<1>1. k \in Nat /\ n \in Nat /\ k <= n
    BY DEF Ends
<1>2. /\ u \in Seq(S) /\ Len(u) = k + 1 /\ u[k + 1] = e
      /\ \A i \in 1..k : u[i] = s[i]
    OBVIOUS
<1>3. /\ v \in Seq(S) /\ Len(v) = n + 1 /\ v[n + 1] = e
      /\ \A i \in 1..n : v[i] = t[i]
    OBVIOUS
<1>4. \A i \in 1..k : s[i] = t[(n - k) + i]
    BY DEF Ends
<1> HIDE DEF k, n, u, v
<1>5. \A i \in 1..k : (n - k) + i \in 1..n
    BY <1>1
<1>6. (n + 1) - (k + 1) = n - k /\ (n - k) + (k + 1) = n + 1 /\ k + 1 <= n + 1
    BY <1>1
<1>7. \A i \in 1..(k + 1) : i = k + 1 \/ i \in 1..k
    BY <1>1
<1>8. ASSUME NEW i \in 1..(k + 1) PROVE u[i] = v[(n - k) + i]
    <2>1. CASE i = k + 1
        BY <1>2, <1>3, <1>6, <2>1
    <2>2. CASE i \in 1..k
        BY <1>2, <1>3, <1>4, <1>5, <2>2
    <2> QED
        BY <1>7, <2>1, <2>2
<1>9. Ends(u, v)
    <2>1. Len(u) <= Len(v) /\ Len(v) - Len(u) = n - k
        BY <1>2, <1>3, <1>6
    <2> QED
        BY <1>2, <1>8, <2>1 DEF Ends
<1>10. u # << >> /\ Last(u) = e
    <2>1. Last(u) = e
        BY <1>2 DEF Last
    <2>2. Len(u) # 0
        BY <1>1, <1>2
    <2> QED
        BY <2>1, <2>2
<1> QED
    BY <1>2, <1>9, <1>10 DEF u, v, k

\* A message handled is the newest, of all that were handled and of the context.
LEMMA HandleReads ==
    ASSUME ReadInv, Handle
    PROVE  ReadInv' /\ recent' # << >> /\ Current' = pos' /\ pos' = pos + 1
<1>1. sent \in Nat /\ pos \in Nat /\ pos <= sent /\ sent <= Messages /\ Messages \in Nat
    BY ChatAssumption DEF ReadInv
<1>2. pos' = pos + 1 /\ UNCHANGED sent /\ pos' \in 1..sent
    <2>1. pos' = pos + 1 /\ UNCHANGED sent /\ sent - pos \in 1..Cap
        BY DEF Handle, worker
    <2> QED
        BY <1>1, <2>1, ChatAssumption
<1>3. pos' \in Positions
    BY <1>1, <1>2 DEF Positions
<1> DEFINE n == Len(handled)
<1>4. /\ n \in Nat /\ handled \in Seq(Positions) /\ DOMAIN handled = 1..n
      /\ \A i \in 1..n : handled[i] \in Positions /\ handled[i] <= pos
    <2>1. handled \in Seq(Positions) /\ \A i \in DOMAIN handled : handled[i] <= pos
        BY DEF ReadInv
    <2>2. n \in Nat /\ DOMAIN handled = 1..n /\ \A i \in 1..n : handled[i] \in Positions
        BY <2>1
    <2> HIDE DEF n
    <2> QED
        BY <2>1, <2>2, Zenon
<1>5. /\ handled' \in Seq(Positions) /\ Len(handled') = n + 1 /\ DOMAIN handled' = 1..(n + 1)
      /\ \A i \in 1..n : handled'[i] = handled[i]
      /\ handled'[n + 1] = pos'
    <2>1. handled' = Append(handled, pos')
        BY DEF Handle
    <2> QED
        BY <1>3, <1>4, <2>1
<1>6. /\ recent' \in Seq(Positions) /\ recent' # << >> /\ Current' = pos'
      /\ Ends(recent', handled')
      /\ Len(recent') = IF Len(handled') < Recent THEN Len(handled') ELSE Recent
    <2> DEFINE old == Kept(recent, Recent)
    <2>1. recent' = Append(old, pos') /\ handled' = Append(handled, pos')
        BY DEF Handle, Kept
    <2>2. /\ recent \in Seq(Positions) /\ Recent \in Nat \ {0} /\ Ends(recent, handled)
          /\ Len(recent) = IF Len(handled) < Recent THEN Len(handled) ELSE Recent
        BY ChatAssumption DEF ReadInv
    <2>3. /\ old \in Seq(Positions) /\ Ends(old, handled)
          /\ Len(old) + 1 = IF n + 1 < Recent THEN n + 1 ELSE Recent
        BY <1>4, <2>2, KeptEnds
    <2> HIDE DEF old
    <2>4. /\ Append(old, pos') \in Seq(Positions)
          /\ Len(Append(old, pos')) = Len(old) + 1
          /\ Append(old, pos') # << >> /\ Last(Append(old, pos')) = pos'
          /\ Ends(Append(old, pos'), Append(handled, pos'))
        BY <1>3, <1>4, <2>3, EndsGrow
    <2>5. Len(recent') = IF Len(handled') < Recent THEN Len(handled') ELSE Recent
        BY <1>5, <2>1, <2>3, <2>4
    <2> QED
        BY <2>1, <2>4, <2>5 DEF Current
<1> HIDE DEF n
<1>7. \A i \in 1..(n + 1) : i = n + 1 \/ i \in 1..n
    BY <1>4
<1>8. ASSUME NEW i \in 1..n PROVE handled'[i] \in Positions /\ handled'[i] < pos'
    BY <1>1, <1>2, <1>4, <1>5 DEF Positions
<1>9. \A i \in DOMAIN handled' : handled'[i] <= pos'
    BY <1>3, <1>5, <1>7, <1>8 DEF Positions
<1>10. Increasing(handled')
    <2> SUFFICES ASSUME NEW i \in 1..(n + 1), NEW j \in 1..(n + 1), i < j
                 PROVE  handled'[i] < handled'[j]
        BY <1>5 DEF Increasing
    <2>1. i \in 1..n
        BY <1>4
    <2>2. CASE j = n + 1
        BY <1>5, <1>8, <2>1, <2>2
    <2>3. CASE j \in 1..n
        <3>1. handled[i] < handled[j]
            BY <1>4, <2>1, <2>3 DEF ReadInv, Increasing
        <3> QED
            BY <1>5, <2>1, <2>3, <3>1
    <2> QED
        BY <1>7, <2>2, <2>3
<1>11. \A m \in 1..pos' : Contains(handled', m) \/ m <= sent' - Cap
    <2> SUFFICES ASSUME NEW m \in 1..pos' PROVE Contains(handled', m) \/ m <= sent' - Cap
        OBVIOUS
    <2>1. CASE m = pos'
        <3>1. n + 1 \in 1..Len(handled')
            BY <1>4, <1>5
        <3> QED
            BY <1>5, <2>1, <3>1 DEF Contains
    <2>2. CASE m # pos'
        <3>1. m \in 1..pos
            BY <1>1, <1>2, <2>2
        <3>2. CASE Contains(handled, m)
            <4>1. PICK i \in 1..n : handled[i] = m
                BY <1>4, <3>2 DEF Contains
            <4>2. i \in 1..Len(handled') /\ handled'[i] = m
                BY <1>4, <1>5, <4>1
            <4> QED
                BY <4>2 DEF Contains
        <3>3. CASE m <= sent - Cap
            BY <1>2, <3>3
        <3> QED
            BY <3>1, <3>2, <3>3 DEF ReadInv
    <2> QED
        BY <2>1, <2>2
<1>12. pos' \in 0..sent' /\ sent' \in 0..Messages
    BY <1>1, <1>2
<1> QED
    BY <1>2, <1>5, <1>6, <1>9, <1>10, <1>11, <1>12 DEF ReadInv

\* What the engine does at its awaits moves neither its place nor its context.
LEMMA ReadKept == Spec => []ReadInv
<1>1. Init => ReadInv
    <2> SUFFICES ASSUME Init PROVE ReadInv
        OBVIOUS
    <2>1. sent = 0 /\ pos = 0 /\ handled = << >> /\ recent = << >>
        BY DEF Init
    <2>2. /\ handled \in Seq(Positions) /\ DOMAIN handled = {} /\ Len(handled) = 0
          /\ recent \in Seq(Positions) /\ Len(recent) = 0
        BY <2>1
    <2>3. 0 \in 0..Messages /\ 0 \in 0..0 /\ 1..0 = {} /\ 0 < Recent /\ 0 <= 0
        BY ChatAssumption
    <2> QED
        BY <2>1, <2>2, <2>3 DEF ReadInv, Increasing, Ends
<1>2. ASSUME ReadInv, [Next]_vars PROVE ReadInv'
    <2>0. /\ sent \in Nat /\ pos \in Nat /\ pos <= sent /\ sent <= Messages
          /\ Messages \in Nat /\ Cap \in Nat
        BY <1>2, ChatAssumption DEF ReadInv
    <2>1. ASSUME UNCHANGED <<handled, recent>>,
                 sent' \in 0..Messages, sent' >= sent, pos' \in 0..sent', pos' >= pos,
                 \A m \in 1..pos' : m \in 1..pos \/ m <= sent' - Cap
          PROVE  ReadInv'
        <3>1. \A i \in DOMAIN handled : handled[i] <= pos'
            <4>1. \A i \in DOMAIN handled : handled[i] \in Positions /\ handled[i] <= pos
                BY <1>2 DEF ReadInv
            <4>2. \A n \in Positions : n <= pos => n <= pos'
                BY <2>0, <2>1 DEF Positions
            <4> QED
                BY <4>1, <4>2
        <3>2. \A m \in 1..pos' : Contains(handled, m) \/ m <= sent' - Cap
            <4>1. \A m \in 1..pos : Contains(handled, m) \/ m <= sent - Cap
                BY <1>2 DEF ReadInv
            <4>2. \A m \in 1..pos : m <= sent - Cap => m <= sent' - Cap
                <5>0. sent' \in 0..Messages /\ sent' >= sent
                    BY <2>1
                <5>1. sent' \in Nat /\ sent <= sent'
                    BY <2>0, <5>0
                <5>2. sent - Cap <= sent' - Cap /\ sent - Cap \in Int /\ sent' - Cap \in Int
                    <6>1. \A a, b, c \in Nat :
                             a <= b => a - c <= b - c /\ a - c \in Int /\ b - c \in Int
                        OBVIOUS
                    <6> QED
                        BY <2>0, <5>1, <6>1, Zenon
                <5>3. \A m \in 1..pos : m \in Int
                    BY <2>0
                <5>4. \A m, a, b \in Int : m <= a /\ a <= b => m <= b
                    OBVIOUS
                <5> QED
                    BY <5>2, <5>3, <5>4, Zenon
            <4>3. \A m \in 1..pos' : m \in 1..pos \/ m <= sent' - Cap
                BY <2>1
            <4> QED
                BY <4>1, <4>2, <4>3, Zenon
        <3>3. /\ handled' = handled /\ recent' = recent
              /\ sent' \in 0..Messages /\ pos' \in 0..sent'
            BY <2>1
        <3> QED
            BY <1>2, <3>1, <3>2, <3>3 DEF ReadInv, Increasing, Ends
    <2>2. ASSUME UNCHANGED <<handled, recent, sent, pos>> PROVE ReadInv'
        BY <2>0, <2>1, <2>2
    <2>3. CASE Receive
        <3>1. sent' = sent + 1 /\ sent < Messages /\ UNCHANGED <<handled, recent, pos>>
            BY <2>3 DEF Receive, mind
        <3> QED
            BY <2>0, <2>1, <3>1
    <2>4. CASE Lag
        <3>1. pos' = sent - Cap /\ sent - pos > Cap /\ UNCHANGED <<handled, recent, sent>>
            BY <2>4 DEF Lag, mind, worker
        <3> QED
            BY <2>0, <2>1, <3>1
    <2>5. CASE Handle
        BY <1>2, <2>5, HandleReads
    <2>6. CASE ~(Receive \/ Lag \/ Handle)
        BY <1>2, <2>2, <2>6
           DEF Next, vars, worker, mind, Say, ChatEnds, AgeAnswer, ReplyAnswer, Proactive,
               ProactiveAnswer, EngineEnds, Cancel, TimePasses, GovernorChanges
    <2> QED
        BY <2>3, <2>4, <2>5, <2>6
<1> QED
    BY <1>1, <1>2, PTL DEF Spec

-----------------------------------------------------------------------------
(* What the engine answers *)

\* What may be in the outbound channel.
Texts == 0..Messages

\* Inductive: AnswersInOrder, and no answer is of a message that the engine has
\* not read; the one it is working at has none yet.
ReplyInv ==
    /\ out \in Seq(Texts) /\ Len(out) <= OutCap /\ said \in 0..pos
    /\ \A i \in DOMAIN out : out[i] <= pos
    /\ AnswersInOrder
    /\ engine \in {"age", "reply"} =>
          /\ Current = pos /\ said < pos
          /\ \A i \in DOMAIN out : out[i] < pos

\* An answer to a message later than all others, or a text that answers none,
\* goes behind them.
LEMMA OfferKeeps ==
    ASSUME NEW m \in Texts, Offer(m), UNCHANGED said, said \in Nat,
           out \in Seq(Texts), Len(out) <= OutCap, AnswersInOrder,
           m = 0 \/ (said < m /\ \A i \in DOMAIN out : out[i] < m)
    PROVE  /\ out' \in Seq(Texts) /\ Len(out') <= OutCap /\ AnswersInOrder'
           /\ \A i \in DOMAIN out' : out'[i] = m \/ \E j \in DOMAIN out : out'[i] = out[j]
<1>1. CASE out' = out
    BY <1>1 DEF AnswersInOrder, Answers
<1>2. CASE Len(out) < OutCap /\ out' = Append(out, m)
    <2> DEFINE n == Len(out)
    <2>1. n \in Nat /\ DOMAIN out = 1..n /\ OutCap \in Nat
        BY ChatAssumption
    <2>2. /\ out' \in Seq(Texts) /\ Len(out') = n + 1 /\ DOMAIN out' = 1..(n + 1)
          /\ \A i \in 1..n : out'[i] = out[i]
          /\ out'[n + 1] = m
        BY <1>2
    <2>3. n < OutCap
        BY <1>2
    <2>4. \A i \in 1..n : out[i] \in Texts
        BY <2>1
    <2> HIDE DEF n
    <2>5. \A i \in 1..(n + 1) : i = n + 1 \/ i \in 1..n
        BY <2>1
    <2>6. n + 1 <= OutCap /\ \A i \in 1..n : i < n + 1 /\ ~(n + 1 < i)
        BY <2>1, <2>3
    <2>7. ASSUME NEW i \in 1..(n + 1), out'[i] # 0 PROVE said' < out'[i]
        <3>1. CASE i = n + 1
            BY <2>2, <2>7, <3>1
        <3>2. CASE i \in 1..n
            BY <2>1, <2>2, <2>7, <3>2 DEF AnswersInOrder, Answers
        <3> QED
            BY <2>5, <3>1, <3>2
    <2>8. ASSUME NEW i \in 1..(n + 1), NEW j \in 1..(n + 1), out'[i] # 0, out'[j] # 0, i < j
          PROVE  out'[i] < out'[j]
        <3>1. i \in 1..n
            BY <2>1, <2>8
        <3>2. CASE j = n + 1
            BY <2>1, <2>2, <2>8, <3>1, <3>2
        <3>3. CASE j \in 1..n
            <4>1. out[i] < out[j]
                BY <2>1, <2>2, <2>8, <3>1, <3>3 DEF AnswersInOrder, Answers
            <4> QED
                BY <2>2, <3>1, <3>3, <4>1
        <3> QED
            BY <2>5, <3>2, <3>3
    <2>9. AnswersInOrder'
        BY <2>2, <2>7, <2>8 DEF AnswersInOrder, Answers
    <2>10. \A i \in DOMAIN out' : out'[i] = m \/ \E j \in DOMAIN out : out'[i] = out[j]
        BY <2>1, <2>2, <2>5
    <2> QED
        BY <2>2, <2>6, <2>9, <2>10
<1> QED
    BY <1>1, <1>2 DEF Offer

\* Saying the first leaves the others in order.
LEMMA SayKeeps ==
    ASSUME Say, said \in Nat, out \in Seq(Texts), Len(out) <= OutCap, AnswersInOrder
    PROVE  /\ out' \in Seq(Texts) /\ Len(out') <= OutCap /\ AnswersInOrder'
           /\ \A i \in DOMAIN out' : \E j \in DOMAIN out : out'[i] = out[j]
           /\ said' = said \/ \E j \in DOMAIN out : said' = out[j]
<1> DEFINE n == Len(out)
<1>1. out # << >> /\ out' = Tail(out) /\ said' = IF Head(out) = 0 THEN said ELSE Head(out)
    BY DEF Say
<1>2. /\ n \in Nat \ {0} /\ DOMAIN out = 1..n /\ OutCap \in Nat /\ Head(out) = out[1]
      /\ \A i \in 1..n : out[i] \in Texts
    BY <1>1, ChatAssumption
<1>3. /\ out' \in Seq(Texts) /\ Len(out') = n - 1 /\ DOMAIN out' = 1..(n - 1)
      /\ \A i \in 1..(n - 1) : out'[i] = out[i + 1]
    BY <1>1
<1>4. n <= OutCap
    OBVIOUS
<1> HIDE DEF n
<1>5. /\ 1 \in 1..n /\ n - 1 <= OutCap
      /\ \A i \in 1..(n - 1) : i + 1 \in 1..n /\ 1 < i + 1
    BY <1>2, <1>4
<1>6. ASSUME NEW i \in 1..(n - 1), out'[i] # 0 PROVE said' < out'[i]
    <2>1. out'[i] = out[i + 1] /\ out[i + 1] # 0
        BY <1>3, <1>6
    <2>2. CASE out[1] = 0
        BY <1>1, <1>2, <1>5, <2>1, <2>2 DEF AnswersInOrder, Answers
    <2>3. CASE out[1] # 0
        BY <1>1, <1>2, <1>5, <2>1, <2>3 DEF AnswersInOrder, Answers
    <2> QED
        BY <2>2, <2>3
<1>7. ASSUME NEW i \in 1..(n - 1), NEW j \in 1..(n - 1), out'[i] # 0, out'[j] # 0, i < j
      PROVE  out'[i] < out'[j]
    <2>1. /\ out'[i] = out[i + 1] /\ out[i + 1] # 0 /\ out'[j] = out[j + 1] /\ out[j + 1] # 0
          /\ i + 1 \in 1..n /\ j + 1 \in 1..n /\ i + 1 < j + 1
        BY <1>3, <1>5, <1>7
    <2> QED
        BY <1>2, <2>1 DEF AnswersInOrder, Answers
<1>8. AnswersInOrder'
    BY <1>3, <1>6, <1>7 DEF AnswersInOrder, Answers
<1> QED
    BY <1>1, <1>2, <1>3, <1>5, <1>8

\* Requests, lag and refusals between, the engine answers what it reads in
\* the order it reads it.
LEMMA ReplyKept == Spec => []ReplyInv
<1>1. Init => ReplyInv
    <2> SUFFICES ASSUME Init PROVE ReplyInv
        OBVIOUS
    <2>1. /\ pos = 0 /\ out = << >> /\ said = 0 /\ engine \notin {"age", "reply"}
          /\ 0 \in 0..0 /\ 0 <= OutCap
        BY ChatAssumption DEF Init
    <2>2. out \in Seq(Texts) /\ DOMAIN out = {} /\ Len(out) = 0
        BY <2>1
    <2> QED
        BY <2>1, <2>2 DEF ReplyInv, AnswersInOrder, Answers
<1>2. ASSUME ReadInv, ReplyInv, [Next]_vars PROVE ReplyInv'
    <2>0. /\ pos \in Nat /\ said \in Nat /\ said <= pos /\ sent \in Nat /\ Cap \in Nat
          /\ \A i \in DOMAIN out : out[i] \in Nat /\ out[i] <= pos
        BY <1>2, ChatAssumption DEF ReadInv, ReplyInv, Texts
    <2>1. ASSUME UNCHANGED <<out, said, pos, recent>>,
                 engine' \in {"age", "reply"} => engine \in {"age", "reply"}
          PROVE  ReplyInv'
        BY <1>2, <2>1 DEF ReplyInv, AnswersInOrder, Answers, Current
    <2>2. CASE Say
        <3>1. /\ out' \in Seq(Texts) /\ Len(out') <= OutCap /\ AnswersInOrder'
              /\ \A i \in DOMAIN out' : \E j \in DOMAIN out : out'[i] = out[j]
              /\ said' = said \/ \E j \in DOMAIN out : said' = out[j]
            BY <1>2, <2>0, <2>2, SayKeeps DEF ReplyInv
        <3>2. UNCHANGED <<pos, engine, recent>>
            BY <2>2 DEF Say, mind
        <3>3. said' \in 0..pos
            BY <2>0, <3>1
        <3>4. engine \in {"age", "reply"} => said' < pos /\ Current' = pos
            BY <1>2, <3>1, <3>2 DEF ReplyInv, Current
        <3> QED
            BY <1>2, <3>1, <3>2, <3>3, <3>4 DEF ReplyInv
    <2>3. ASSUME NEW m \in Texts, Offer(m), m = 0 \/ (m = pos /\ engine = "reply"),
                 UNCHANGED <<said, pos>>, engine' = "select"
          PROVE  ReplyInv'
        <3>1. m = 0 \/ (said < m /\ \A i \in DOMAIN out : out[i] < m)
            BY <1>2, <2>3 DEF ReplyInv
        <3>2. /\ out' \in Seq(Texts) /\ Len(out') <= OutCap /\ AnswersInOrder'
              /\ \A i \in DOMAIN out' : out'[i] = m \/ \E j \in DOMAIN out : out'[i] = out[j]
            BY <1>2, <2>0, <2>3, <3>1, OfferKeeps DEF ReplyInv
        <3>3. m <= pos /\ pos <= pos
            BY <2>0, <2>3
        <3>4. \A i \in DOMAIN out' : out'[i] <= pos
            BY <2>0, <3>2, <3>3
        <3> QED
            BY <1>2, <2>3, <3>2, <3>4 DEF ReplyInv
    <2>4. ASSUME out' = out \/ Offer(pos'), UNCHANGED said, pos' = pos + 1, pos' \in Texts,
                 Current' = pos', engine' = "select" \/ out' = out
          PROVE  ReplyInv'
        <3>0. pos' \in Nat /\ said < pos' /\ \A i \in DOMAIN out : out[i] < pos'
            BY <2>0, <2>4
        <3>1. CASE out' = out
            <4>1. AnswersInOrder'
                BY <1>2, <2>4, <3>1 DEF ReplyInv, AnswersInOrder, Answers
            <4>2. \A i \in DOMAIN out' : out'[i] < pos' /\ out'[i] <= pos'
                BY <2>0, <3>0, <3>1
            <4>3. said' \in 0..pos' /\ said' < pos'
                BY <2>0, <2>4, <3>0
            <4> QED
                BY <1>2, <2>4, <3>1, <4>1, <4>2, <4>3 DEF ReplyInv
        <3>2. CASE Offer(pos') /\ engine' = "select"
            <4>1. /\ out' \in Seq(Texts) /\ Len(out') <= OutCap /\ AnswersInOrder'
                  /\ \A i \in DOMAIN out' :
                        out'[i] = pos' \/ \E j \in DOMAIN out : out'[i] = out[j]
                BY <1>2, <2>0, <2>4, <3>0, <3>2, OfferKeeps DEF ReplyInv
            <4>2. \A i \in DOMAIN out' : out'[i] <= pos'
                BY <2>0, <3>0, <4>1
            <4>3. said' \in 0..pos'
                BY <2>0, <2>4, <3>0
            <4> QED
                BY <3>2, <4>1, <4>2, <4>3 DEF ReplyInv
        <3> QED
            BY <2>4, <3>1, <3>2
    <2>5. CASE Handle
        <3>1. pos' = pos + 1 /\ Current' = pos' /\ ReadInv'
            BY <1>2, <2>5, HandleReads
        <3>2. pos' \in Texts
            BY <3>1, ChatAssumption DEF ReadInv, Texts
        <3>3. engine = "select" /\ UNCHANGED said
            BY <2>5 DEF Handle, worker
        <3>4. PICK u \in Users : EasterEgg(pos', u) \/ Mention(u) \/ Ignore
            BY <2>5 DEF Handle
        <3>5. /\ out' = out \/ Offer(pos')
              /\ engine' = "select" \/ out' = out
            BY <3>3, <3>4 DEF EasterEgg, Mention, Ignore
        <3> QED
            BY <2>4, <3>1, <3>2, <3>3, <3>5
    <2>6. CASE ReplyAnswer
        <3>1. /\ UNCHANGED <<said, pos, recent>> /\ engine = "reply" /\ engine' = "select"
              /\ out' = out \/ Offer(Current)
            BY <2>6 DEF ReplyAnswer, worker, mind
        <3>2. Current = pos
            BY <1>2, <3>1 DEF ReplyInv
        <3>3. pos \in Texts
            BY <1>2, ChatAssumption DEF ReadInv, Texts
        <3> QED
            BY <2>1, <2>3, <3>1, <3>2, <3>3
    <2>7. CASE ProactiveAnswer
        <3>1. /\ UNCHANGED <<said, pos, recent>> /\ engine' = "select"
              /\ out' = out \/ Offer(0)
            BY <2>7 DEF ProactiveAnswer, worker, mind
        <3>2. 0 \in Texts
            BY ChatAssumption DEF Texts
        <3> QED
            BY <2>1, <2>3, <3>1, <3>2
    <2>8. CASE Lag
        <3>1. /\ engine = "select" /\ engine' = engine /\ pos' = sent - Cap /\ sent - pos > Cap
              /\ UNCHANGED <<out, said>>
            BY <2>8 DEF Lag, worker
        <3>2. pos' \in Nat /\ pos <= pos'
            BY <2>0, <3>1
        <3>3. said' \in 0..pos' /\ \A i \in DOMAIN out' : out'[i] <= pos'
            BY <2>0, <3>1, <3>2
        <3>4. AnswersInOrder'
            BY <1>2, <3>1 DEF ReplyInv, AnswersInOrder, Answers
        <3> QED
            BY <1>2, <3>1, <3>3, <3>4 DEF ReplyInv
    <2>9. CASE \/ Receive \/ ChatEnds \/ AgeAnswer \/ Proactive \/ EngineEnds
               \/ Cancel \/ TimePasses \/ GovernorChanges \/ UNCHANGED vars
        BY <2>1, <2>9
           DEF vars, worker, mind, Receive, ChatEnds, AgeAnswer, Proactive, EngineEnds, Cancel,
               TimePasses, GovernorChanges
    <2> QED
        BY <1>2, <2>2, <2>5, <2>6, <2>7, <2>8, <2>9 DEF Next
<1> QED
    BY <1>1, <1>2, ReadKept, PTL DEF Spec

\* End to end a message is answered at most once, and in the order of the chat
\* (interaction.rs:113-121, 152-155; chat.rs:152-154).
THEOREM RepliesInOrder == Spec => []AnswersInOrder
<1>1. ReplyInv => AnswersInOrder
    BY DEF ReplyInv
<1> QED
    BY <1>1, ReplyKept, PTL

-----------------------------------------------------------------------------
(* Types *)

\* Where the two loops are, and what gates the engine.
GatesInv ==
    /\ chat \in {"select", "done"}
    /\ engine \in {"select", "age", "reply", "proactive", "done"}
    /\ tokens \in 0..Bucket
    /\ tripped \in BOOLEAN /\ due \in BOOLEAN /\ shutdown \in BOOLEAN
    /\ aged \subseteq Known

\* A token is spent only when there is one, and an age is known only of a user
\* who is.
LEMMA GatesKept == Spec => []GatesInv
<1> USE DEF GatesInv
<1>1. Init => GatesInv
    <2> SUFFICES ASSUME Init PROVE GatesInv
        OBVIOUS
    <2>1. tokens \in 0..Bucket
        BY ChatAssumption DEF Init
    <2> QED
        BY <2>1 DEF Init, RegistryInit
<1>2. ASSUME GatesInv, [Next]_vars PROVE GatesInv'
    <2>0. Bucket \in Nat /\ (tokens > 0 => tokens - 1 \in 0..Bucket)
        BY <1>2, ChatAssumption
    <2>1. ASSUME UNCHANGED <<lastSeen, aged>> PROVE aged' \subseteq Known'
        BY <1>2, <2>1 DEF Known
    <2>2. CASE Handle
        <3>1. PICK u \in Users : Observe(u) /\ (EasterEgg(pos', u) \/ Mention(u) \/ Ignore)
            BY <2>2 DEF Handle
        <3>2. aged' \subseteq Known'
            BY <1>2, <3>1 DEF Observe, Known
        <3>3. UNCHANGED <<chat, tripped, due, shutdown>> /\ engine = "select"
            BY <2>2 DEF Handle, worker, gates
        <3>4. tokens' \in 0..Bucket /\ engine' \in {"select", "age", "reply"}
            <4>1. CASE EasterEgg(pos', u)
                BY <2>0, <3>3, <4>1 DEF EasterEgg
            <4>2. CASE Mention(u)
                BY <2>0, <3>3, <4>2 DEF Mention, MayCall
            <4>3. CASE Ignore
                BY <1>2, <3>3, <4>3 DEF Ignore
            <4> QED
                BY <3>1, <4>1, <4>2, <4>3
        <3> QED
            BY <1>2, <3>2, <3>3, <3>4
    <2>3. CASE AgeAnswer
        <3>1. aged' \subseteq Known'
            BY <1>2, <2>3 DEF AgeAnswer, SetAge, Known
        <3>2. UNCHANGED <<chat, tokens, tripped, due, shutdown>> /\ engine' = "reply"
            BY <2>3 DEF AgeAnswer, worker, gates
        <3> QED
            BY <1>2, <3>1, <3>2
    <2>4. CASE ReplyAnswer
        BY <1>2, <2>1, <2>4 DEF ReplyAnswer, Recorded, worker, registry
    <2>5. CASE Proactive
        <3>1. tokens' \in 0..Bucket /\ engine' = "proactive"
            BY <2>0, <2>5 DEF Proactive, MayCall
        <3>2. UNCHANGED <<chat, tripped, due, shutdown, lastSeen, aged>>
            BY <2>5 DEF Proactive, worker, gates, registry
        <3> QED
            BY <1>2, <2>1, <3>1, <3>2
    <2>6. CASE ProactiveAnswer
        BY <1>2, <2>1, <2>6 DEF ProactiveAnswer, Recorded, worker, registry
    <2>7. CASE EngineEnds \/ ChatEnds \/ Receive \/ Say \/ Lag
        BY <1>2, <2>1, <2>7 DEF EngineEnds, ChatEnds, Receive, Say, Lag, worker, gates, registry
    <2>8. CASE Cancel
        BY <1>2, <2>1, <2>8 DEF Cancel, worker, registry
    <2>9. CASE GovernorChanges
        BY <1>2, <2>1, <2>9 DEF GovernorChanges, worker, registry
    <2>10. CASE TimePasses
        <3>1. tokens' \in 0..Bucket
            BY <1>2, <2>0, <2>10 DEF TimePasses
        <3>2. due' \in BOOLEAN /\ UNCHANGED <<chat, engine, tripped, shutdown>>
            BY <1>2, <2>10 DEF TimePasses, worker
        <3>3. UNCHANGED <<lastSeen, aged>>
            BY <2>10 DEF TimePasses, registry
        <3> QED
            BY <1>2, <2>1, <3>1, <3>2, <3>3
    <2>11. CASE UNCHANGED vars
        BY <1>2, <2>1, <2>11 DEF vars, worker, gates, registry
    <2> QED
        BY <1>2, <2>2, <2>3, <2>4, <2>5, <2>6, <2>7, <2>8, <2>9, <2>10, <2>11 DEF Next
<1> QED
    BY <1>1, <1>2, PTL DEF Spec

\* A slow engine loses only messages the channel had to overwrite, and sees the
\* others once, in order; its context is the end of what it has seen
\* (interaction.rs:101-110, 170-175; main.rs:41).
THEOREM OnlyOldestLost == Spec => []LagLosesOldest
<1>1. ASSUME ReadInv, ReplyInv, GatesInv, RegistryInv, CallInv PROVE LagLosesOldest
    <2>1. IsSuffix(recent, handled)
        BY <1>1, EndsIsSuffix DEF ReadInv
    <2>2. said \in 0..Messages
        BY <1>1, ChatAssumption DEF ReadInv, ReplyInv
    <2>3. TypeOK
        BY <1>1, <2>2 DEF ReadInv, ReplyInv, GatesInv, RegistryInv, CallInv, TypeOK, Positions,
                          Texts
    <2> QED
        BY <1>1, <2>1, <2>3 DEF ReadInv, LagLosesOldest
<1> QED
    BY <1>1, ReadKept, ReplyKept, GatesKept, RegistryKept, CallKept, PTL
=============================================================================
