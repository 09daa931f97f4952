-------------------------- MODULE AggregatorProofs --------------------------
(***************************************************************************)
(* Proofs about the aggregator: what a prompt contains, what is marked     *)
(* when its answer comes, and in which order, for any sizes, limits and    *)
(* number of texts.                                                        *)
(***************************************************************************)
EXTENDS Aggregator, WellFoundedInduction, SequenceTheorems, TLAPS

-----------------------------------------------------------------------------
(* Induction, and the sums of token estimates *)

\* Induction on the natural numbers, for a set that a proof defines.
LEMMA SetInduction ==
    ASSUME NEW S, 0 \in S, \A n \in Nat : n \in S => n + 1 \in S
    PROVE  Nat \subseteq S
<1> SUFFICES ASSUME Nat \ S # {} PROVE FALSE
    OBVIOUS
<1> DEFINE rest == Nat \ S
<1>1. rest \subseteq Nat /\ rest # {}
    OBVIOUS
<1> HIDE DEF rest
<1>2. \E n \in rest : \A m \in rest : ~(<<m, n>> \in OpToRel(<, Nat))
    BY <1>1, NatLessThanWellFounded, WFMin, Zenon
<1>3. PICK n \in rest : \A m \in rest : ~(m < n)
    BY <1>1, <1>2 DEF OpToRel
<1>4. n \in Nat /\ n \notin S /\ n # 0
    BY DEF rest
<1>5. n - 1 \in Nat /\ n - 1 < n
    BY <1>4
<1>6. n - 1 \in S
    BY <1>3, <1>5 DEF rest
<1>7. (n - 1) + 1 = n
    BY <1>4
<1>8. n \in S
    BY <1>5, <1>6, <1>7
<1> QED
    BY <1>4, <1>8

\* f has the sums of the estimates of the first i entries.
Sums(es, f) ==
    /\ f \in [0..Len(es) -> Nat] /\ f[0] = 0
    /\ \A i \in 1..Len(es) : f[i] = f[i - 1] + es[i].tokens

\* Every window has such sums: one more entry adds one more.
LEMMA SumsExist ==
    ASSUME NEW es \in Seq(Entry)
    PROVE  \E f : Sums(es, f)
<1> DEFINE UpTo(n) == {f \in [0..n -> Nat] :
                          f[0] = 0 /\ \A i \in 1..n : f[i] = f[i - 1] + es[i].tokens}
           S == {n \in Nat : n <= Len(es) => UpTo(n) # {}}
<1>0. Len(es) \in Nat
    OBVIOUS
<1>1. 0 \in S
    <2>1. [i \in 0..0 |-> 0] \in UpTo(0)
        OBVIOUS
    <2> QED
        BY <2>1, Zenon
<1>2. ASSUME NEW n \in Nat, n \in S PROVE n + 1 \in S
    <2>0. CASE ~(n + 1 <= Len(es))
        BY <2>0
    <2>1. CASE n + 1 <= Len(es)
        <3>0. UpTo(n) # {}
            <4> HIDE DEF UpTo
            <4> QED
                BY <1>0, <1>2, <2>1
        <3>1. PICK g \in [0..n -> Nat] : g[0] = 0 /\ \A i \in 1..n : g[i] = g[i - 1] + es[i].tokens
            BY <3>0
        <3>2. es[n + 1] \in Entry
            BY <1>0, <2>1
        <3>3. es[n + 1].tokens \in Nat
            BY <3>2, AggregatorAssumption DEF Entry
        <3> DEFINE f == [i \in 0..(n + 1) |-> IF i = n + 1 THEN g[n] + es[n + 1].tokens ELSE g[i]]
        <3>4. f \in [0..(n + 1) -> Nat]
            BY <3>1, <3>3
        <3>5. f[0] = 0
            BY <3>1
        <3>6. \A i \in 1..(n + 1) : f[i] = f[i - 1] + es[i].tokens
            BY <3>1
        <3> HIDE DEF f
        <3>7. f \in UpTo(n + 1)
            BY <3>4, <3>5, <3>6
        <3> HIDE DEF UpTo
        <3> QED
            BY <3>7
    <2> QED
        BY <2>0, <2>1
<1> HIDE DEF S
<1>3. Len(es) \in S
    BY <1>0, <1>1, <1>2, SetInduction
<1> QED
    BY <1>0, <1>3 DEF S, Sums

\* TokensOf is the last of them, whatever function of them one looks at.
LEMMA TokensOfIs ==
    ASSUME NEW es \in Seq(Entry), NEW f, Sums(es, f)
    PROVE  TokensOf(es) = f[Len(es)]
<1>0. Len(es) \in Nat
    OBVIOUS
<1> DEFINE Def(g) == [i \in 0..Len(es) |-> IF i = 0 THEN 0 ELSE g[i - 1] + es[i].tokens]
           h == CHOOSE g : g = Def(g)
<1>1. f = Def(f)
    BY <1>0 DEF Sums
<1>2. h = Def(h)
    BY <1>1, Zenon
<1>3. TokensOf(es) = h[Len(es)]
    BY DEF TokensOf
<1> HIDE DEF h
<1>4. h[0] = 0 /\ \A i \in 1..Len(es) : h[i] = h[i - 1] + es[i].tokens
    <2>1. \A i \in 0..Len(es) : h[i] = Def(h)[i]
        BY <1>2, Zenon
    <2>2. \A i \in 0..Len(es) : Def(h)[i] = IF i = 0 THEN 0 ELSE h[i - 1] + es[i].tokens
        OBVIOUS
    <2> HIDE DEF Def
    <2>3. 0 \in 0..Len(es) /\ \A i \in 1..Len(es) : i \in 0..Len(es) /\ i # 0
        BY <1>0
    <2> QED
        BY <2>1, <2>2, <2>3, Zenon
<1> HIDE DEF Def
<1> DEFINE S == {n \in Nat : n <= Len(es) => h[n] = f[n]}
<1>5. 0 \in S
    BY <1>4 DEF Sums
<1>6. ASSUME NEW n \in Nat, n \in S PROVE n + 1 \in S
    BY <1>0, <1>4, <1>6 DEF Sums
<1> HIDE DEF S
<1>7. Len(es) \in S
    BY <1>0, <1>5, <1>6, SetInduction
<1> QED
    BY <1>0, <1>3, <1>7 DEF S

\* No sum is negative, and that of an empty window is 0.
LEMMA SumIsNat ==
    ASSUME NEW es \in Seq(Entry)
    PROVE  TokensOf(es) \in Nat /\ (es = << >> => TokensOf(es) = 0)
<1>1. PICK f : Sums(es, f)
    BY SumsExist
<1> QED
    BY <1>1, TokensOfIs DEF Sums

\* The sum of a window is that of its oldest entries and that of the others.
LEMMA SumSplits ==
    ASSUME NEW es \in Seq(Entry), NEW k \in 0..Len(es)
    PROVE  TokensOf(es) = TokensOf(SubSeq(es, 1, k)) + TokensOf(SubSeq(es, k + 1, Len(es)))
<1> DEFINE p == SubSeq(es, 1, k)
           q == SubSeq(es, k + 1, Len(es))
<1>1. /\ p \in Seq(Entry) /\ Len(p) = k /\ k \in Nat /\ Len(es) \in Nat
      /\ \A i \in 1..k : p[i] = es[i]
    OBVIOUS
<1>2. /\ q \in Seq(Entry) /\ Len(q) = Len(es) - k
      /\ \A i \in 1..(Len(es) - k) : q[i] = es[k + i]
    OBVIOUS
<1> HIDE DEF p, q
<1>3. PICK f : Sums(p, f)
    BY <1>1, SumsExist
<1>4. PICK g : Sums(q, g)
    BY <1>2, SumsExist
<1> DEFINE h == [i \in 0..Len(es) |-> IF i <= k THEN f[i] ELSE f[k] + g[i - k]]
<1>5. /\ f \in [0..k -> Nat] /\ f[0] = 0
      /\ \A i \in 1..k : f[i] = f[i - 1] + es[i].tokens
    BY <1>1, <1>3 DEF Sums
<1>6. /\ g \in [0..(Len(es) - k) -> Nat] /\ g[0] = 0
      /\ \A i \in 1..(Len(es) - k) : g[i] = g[i - 1] + es[k + i].tokens
    BY <1>1, <1>2, <1>4 DEF Sums
<1>7. Sums(es, h)
    <2>1. h \in [0..Len(es) -> Nat] /\ h[0] = 0
        BY <1>1, <1>5, <1>6
    <2>2. ASSUME NEW i \in 1..Len(es) PROVE h[i] = h[i - 1] + es[i].tokens
        <3>0. es[i].tokens \in Nat
            <4>1. es[i] \in Entry
                OBVIOUS
            <4> QED
                BY <4>1, AggregatorAssumption DEF Entry
        <3>1. CASE i <= k
            <4>1. i \in 1..k /\ h[i] = f[i] /\ h[i - 1] = f[i - 1]
                BY <1>1, <3>1
            <4> QED
                BY <1>5, <4>1
        <3>2. CASE i = k + 1
            <4>1. g[1] = g[0] + es[k + 1].tokens /\ g[0] = 0
                BY <1>1, <1>6, <3>2
            <4>2. h[i] = f[k] + g[1] /\ h[i - 1] = f[k] /\ f[k] \in Nat
                BY <1>1, <1>5, <3>2
            <4> HIDE DEF h
            <4> QED
                BY <3>0, <3>2, <4>1, <4>2
        <3>3. CASE i > k + 1
            <4>1. /\ i - k \in 1..(Len(es) - k) /\ (i - k) - 1 = (i - 1) - k /\ k + (i - k) = i
                  /\ i - 1 > k
                  /\ (i - 1) - k \in 0..(Len(es) - k) /\ i - k \in 0..(Len(es) - k) /\ k \in 0..k
                BY <1>1, <3>3
            <4>2. g[i - k] = g[(i - 1) - k] + es[i].tokens
                <5>1. g[i - k] = g[(i - k) - 1] + es[k + (i - k)].tokens
                    BY <1>6, <4>1
                <5> QED
                    BY <4>1, <5>1
            <4>3. g[(i - 1) - k] \in Nat /\ f[k] \in Nat /\ g[i - k] \in Nat
                BY <1>5, <1>6, <4>1
            <4>4. h[i] = f[k] + g[i - k] /\ h[i - 1] = f[k] + g[(i - 1) - k]
                BY <1>1, <3>3
            <4> HIDE DEF h
            <4> QED
                BY <3>0, <4>2, <4>3, <4>4
        <3> QED
            BY <1>1, <3>1, <3>2, <3>3
    <2> QED
        BY <2>1, <2>2 DEF Sums
<1>8. TokensOf(p) = f[k] /\ TokensOf(q) = g[Len(es) - k] /\ TokensOf(es) = h[Len(es)]
    BY <1>1, <1>2, <1>3, <1>4, <1>7, TokensOfIs
<1>9. h[Len(es)] = f[k] + g[Len(es) - k]
    BY <1>1, <1>5, <1>6
<1> QED
    BY <1>8, <1>9 DEF p, q

\* Marks and ages do not count.
LEMMA SumUnmoved ==
    ASSUME NEW es \in Seq(Entry), NEW fs \in Seq(Entry), Len(fs) = Len(es),
           \A i \in 1..Len(es) : fs[i].tokens = es[i].tokens
    PROVE  TokensOf(fs) = TokensOf(es)
<1>1. PICK f : Sums(es, f)
    BY SumsExist
<1>2. Sums(fs, f)
    BY <1>1 DEF Sums
<1> QED
    BY <1>1, <1>2, TokensOfIs

\* A new entry adds its estimate.
LEMMA SumAppended ==
    ASSUME NEW es \in Seq(Entry), NEW e \in Entry
    PROVE  TokensOf(Append(es, e)) = TokensOf(es) + e.tokens
<1> DEFINE fs == Append(es, e)
<1>1. PICK f : Sums(es, f)
    BY SumsExist
<1>2. /\ fs \in Seq(Entry) /\ Len(fs) = Len(es) + 1 /\ Len(es) \in Nat
      /\ fs[Len(es) + 1] = e /\ \A i \in 1..Len(es) : fs[i] = es[i]
    OBVIOUS
<1> HIDE DEF fs
<1>3. e.tokens \in Nat
    BY AggregatorAssumption DEF Entry
<1>4. /\ f \in [0..Len(es) -> Nat] /\ f[0] = 0
      /\ \A i \in 1..Len(es) : f[i] = f[i - 1] + es[i].tokens
    BY <1>1 DEF Sums
<1> DEFINE h == [i \in 0..(Len(es) + 1) |-> IF i <= Len(es) THEN f[i] ELSE f[Len(es)] + e.tokens]
<1>5. h \in [0..Len(fs) -> Nat] /\ h[0] = 0 /\ h[Len(es) + 1] = f[Len(es)] + e.tokens
    BY <1>2, <1>3, <1>4
<1>6. ASSUME NEW i \in 1..Len(fs) PROVE h[i] = h[i - 1] + fs[i].tokens
    <2>1. CASE i = Len(es) + 1
        <3>1. h[i - 1] = f[Len(es)] /\ fs[i] = e
            BY <1>2, <2>1
        <3> QED
            BY <1>5, <2>1, <3>1
    <2>2. CASE i # Len(es) + 1
        <3>1. i \in 1..Len(es) /\ h[i] = f[i] /\ h[i - 1] = f[i - 1] /\ fs[i] = es[i]
            BY <1>2, <2>2
        <3> QED
            BY <1>4, <3>1
    <2> QED
        BY <2>1, <2>2
<1> HIDE DEF h
<1>7. Sums(fs, h)
    BY <1>5, <1>6 DEF Sums
<1> QED
    BY <1>1, <1>2, <1>5, <1>7, TokensOfIs DEF fs
-----------------------------------------------------------------------------
(* Eviction *)

\* evict always stops, at the latest when the window is empty, and so drops
\* some number of the oldest entries after which it may stop.
LEMMA EvictedInRange ==
    ASSUME NEW es \in Seq(Entry), NEW total
    PROVE  Evicted(es, total) \in 0..Len(es) /\ EvictStops(es, total, Evicted(es, total))
<1> DEFINE stops == {k \in 0..Len(es) : EvictStops(es, total, k)}
<1>1. Len(es) \in Nat /\ stops \subseteq Nat
    OBVIOUS
<1>2. Len(es) \in stops
    BY <1>1 DEF EvictStops
<1> HIDE DEF stops
<1>3. \E k \in stops : \A j \in stops : ~(<<j, k>> \in OpToRel(<, Nat))
    BY <1>1, <1>2, NatLessThanWellFounded, WFMin, Zenon
<1>4. PICK k \in stops : \A j \in stops : ~(j < k)
    BY <1>1, <1>3 DEF OpToRel
<1>5. k \in 0..Len(es) /\ EvictStops(es, total, k)
    BY <1>4 DEF stops
<1>6. \A j \in 0..(k - 1) : ~EvictStops(es, total, j)
    BY <1>1, <1>4, <1>5 DEF stops
<1> QED
    BY <1>5, <1>6 DEF Evicted

-----------------------------------------------------------------------------
(* The budget *)

\* No entry is older than one before it.
OldestFirst(es) == \A i, j \in DOMAIN es : i < j => es[i].age >= es[j].age

\* The part of WindowBudget that speaks of the window alone.
WindowInv ==
    /\ entries \in Seq(Entry)
    /\ tokens = TokensOf(entries) /\ tokens <= MaxTokens
    /\ OldestFirst(entries)

\* What evict leaves is a suffix, and what it takes off the count is the sum
\* of what it drops.
LEMMA PushKeepsBudget ==
    ASSUME WindowInv, NEW size \in Sizes, Push(size)
    PROVE  WindowInv'
<1> DEFINE new == [age |-> 0, tokens |-> size, summarized |-> FALSE, told |-> 0]
           es  == Append(entries, new)
           k   == Evicted(es, tokens + size)
           kept == SubSeq(es, k + 1, Len(es))
<1>1. new \in Entry /\ new.tokens = size /\ new.age = 0 /\ size \in Nat
    BY AggregatorAssumption DEF Entry
<1>2. /\ entries' = kept
      /\ tokens' = tokens + size - TokensOf(SubSeq(es, 1, k))
    BY DEF Push
<1> HIDE DEF new
<1>3. /\ es \in Seq(Entry) /\ Len(es) = Len(entries) + 1 /\ Len(entries) \in Nat
      /\ \A i \in 1..Len(entries) : es[i] = entries[i]
      /\ es[Len(entries) + 1] = new
    BY <1>1 DEF WindowInv
<1>4. TokensOf(es) = tokens + size /\ tokens \in Nat
    BY <1>1, SumAppended, SumIsNat DEF WindowInv
<1>5. OldestFirst(es)
    <2> SUFFICES ASSUME NEW i \in 1..Len(es), NEW j \in 1..Len(es), i < j
                 PROVE  es[i].age >= es[j].age
        BY <1>3 DEF OldestFirst
    <2> HIDE DEF es
    <2>1. i \in 1..Len(entries) /\ es[i] = entries[i] /\ entries[i] \in Entry
        BY <1>3 DEF WindowInv
    <2>2. CASE j = Len(entries) + 1
        BY <1>1, <1>3, <2>1, <2>2, AggregatorAssumption DEF Entry
    <2>3. CASE j # Len(entries) + 1
        <3>1. j \in 1..Len(entries) /\ es[j] = entries[j] /\ DOMAIN entries = 1..Len(entries)
            BY <1>3, <2>3 DEF WindowInv
        <3> QED
            BY <2>1, <3>1 DEF WindowInv, OldestFirst
    <2> QED
        BY <2>2, <2>3
<1> HIDE DEF es
<1>6. k \in 0..Len(es) /\ EvictStops(es, tokens + size, k)
    BY <1>3, EvictedInRange
<1> HIDE DEF k
<1>7. TokensOf(es) = TokensOf(SubSeq(es, 1, k)) + TokensOf(kept)
    BY <1>3, <1>6, SumSplits
<1>8. /\ kept \in Seq(Entry) /\ Len(kept) = Len(es) - k /\ DOMAIN kept = 1..(Len(es) - k)
      /\ \A i \in 1..(Len(es) - k) : k + i \in 1..Len(es) /\ kept[i] = es[k + i]
    BY <1>3, <1>6
<1>9. SubSeq(es, 1, k) \in Seq(Entry)
    BY <1>3, <1>6
<1> HIDE DEF kept
<1>10. TokensOf(kept) \in Nat /\ TokensOf(SubSeq(es, 1, k)) \in Nat
    BY <1>8, <1>9, SumIsNat
<1>11. tokens' = TokensOf(kept)
    BY <1>1, <1>2, <1>4, <1>7, <1>10
<1>12. tokens' <= MaxTokens
    <2>1. CASE k = Len(es)
        <3>1. kept = << >>
            BY <1>3, <1>8, <2>1
        <3>2. TokensOf(kept) = 0
            BY <1>8, <3>1, SumIsNat, Zenon
        <3> QED
            BY <1>11, <3>2, AggregatorAssumption
    <2>2. CASE (tokens + size) - TokensOf(SubSeq(es, 1, k)) <= MaxTokens
        BY <1>1, <1>2, <1>4, <1>10, <2>2
    <2>3. k = Len(es) \/ (tokens + size) - TokensOf(SubSeq(es, 1, k)) <= MaxTokens
        BY <1>6, Zenon DEF EvictStops
    <2> QED
        BY <2>1, <2>2, <2>3, Zenon
<1>13. OldestFirst(kept)
    <2> SUFFICES ASSUME NEW i \in DOMAIN kept, NEW j \in DOMAIN kept, i < j
                 PROVE  kept[i].age >= kept[j].age
        BY DEF OldestFirst
    <2>1. /\ k + i \in DOMAIN es /\ k + j \in DOMAIN es /\ k + i < k + j
          /\ kept[i] = es[k + i] /\ kept[j] = es[k + j]
        BY <1>3, <1>6, <1>8
    <2> QED
        BY <1>5, <2>1 DEF OldestFirst
<1> QED
    BY <1>2, <1>8, <1>11, <1>12, <1>13 DEF WindowInv

\* Marking moves no entry, and changes neither its age nor its estimate.
LEMMA MarkKeepsBudget ==
    ASSUME WindowInv, MarkSummarized, UNCHANGED tokens
    PROVE  WindowInv' /\ DOMAIN entries' = DOMAIN entries
<1>1. entries \in Seq(Entry) /\ DOMAIN entries = 1..Len(entries) /\ Len(entries) \in Nat
    BY DEF WindowInv
<1>2. ASSUME NEW i \in DOMAIN entries
      PROVE  /\ entries'[i] \in Entry
             /\ entries'[i].age = entries[i].age /\ entries'[i].tokens = entries[i].tokens
    <2>1. entries[i] \in Entry
        BY <1>1
    <2> DEFINE e == [entries[i] EXCEPT !.summarized = TRUE]
               n == IF i \in delta THEN entries[i].told + 1 ELSE entries[i].told
    <2>2. e \in Entry /\ e.age = entries[i].age /\ e.tokens = entries[i].tokens
        BY <2>1 DEF Entry
    <2>3. entries'[i] = [e EXCEPT !.told = n]
        BY <2>1 DEF MarkSummarized, Entry
    <2>4. n \in Nat
        BY <2>1 DEF Entry
    <2> HIDE DEF e, n
    <2> QED
        BY <2>2, <2>3, <2>4 DEF Entry
<1>3. DOMAIN entries' = DOMAIN entries /\ entries' = [i \in 1..Len(entries) |-> entries'[i]]
    BY <1>1 DEF MarkSummarized
<1>4. entries' \in Seq(Entry) /\ Len(entries') = Len(entries)
    BY <1>1, <1>2, <1>3
<1>5. TokensOf(entries') = TokensOf(entries)
    BY <1>1, <1>2, <1>4, SumUnmoved
<1>6. OldestFirst(entries')
    BY <1>2, <1>3 DEF WindowInv, OldestFirst
<1> QED
    BY <1>3, <1>4, <1>5, <1>6 DEF WindowInv

\* All entries age alike, and none beyond the last age that is told apart.
LEMMA ElapseKeepsBudget ==
    ASSUME WindowInv, Elapse
    PROVE  WindowInv' /\ DOMAIN entries' = DOMAIN entries
<1>1. entries \in Seq(Entry) /\ DOMAIN entries = 1..Len(entries) /\ Len(entries) \in Nat
    BY DEF WindowInv
<1>2. ASSUME NEW i \in DOMAIN entries
      PROVE  /\ entries'[i] \in Entry
             /\ entries'[i].age = Older(entries[i].age, MaxAge + 1)
             /\ entries'[i].tokens = entries[i].tokens
             /\ entries[i].age \in 0..(MaxAge + 1)
    <2>0. entries[i] \in Entry
        BY <1>1
    <2>1. entries[i].age \in 0..(MaxAge + 1)
        BY <2>0 DEF Entry
    <2>2. entries'[i] = [entries[i] EXCEPT !.age = Older(entries[i].age, MaxAge + 1)]
        BY DEF Elapse
    <2>3. Older(entries[i].age, MaxAge + 1) \in 0..(MaxAge + 1)
        BY <2>1, AggregatorAssumption DEF Older
    <2> QED
        BY <2>0, <2>1, <2>2, <2>3 DEF Entry
<1>3. DOMAIN entries' = DOMAIN entries /\ entries' = [i \in 1..Len(entries) |-> entries'[i]]
    BY <1>1 DEF Elapse
<1>4. entries' \in Seq(Entry) /\ Len(entries') = Len(entries)
    BY <1>1, <1>2, <1>3
<1>5. TokensOf(entries') = TokensOf(entries)
    BY <1>1, <1>2, <1>4, SumUnmoved
<1>6. OldestFirst(entries')
    <2> SUFFICES ASSUME NEW i \in DOMAIN entries, NEW j \in DOMAIN entries, i < j
                 PROVE  entries'[i].age >= entries'[j].age
        BY <1>3 DEF OldestFirst
    <2>1. entries[i].age >= entries[j].age
        BY DEF WindowInv, OldestFirst
    <2> QED
        BY <1>2, <2>1, AggregatorAssumption DEF Older
<1>7. UNCHANGED tokens
    BY DEF Elapse
<1> QED
    BY <1>3, <1>4, <1>5, <1>6, <1>7 DEF WindowInv
\* Inductive: WindowBudget, and no prompt is remembered but the one under way,
\* so that what is remembered are entries the window has.
BudgetInv ==
    /\ TypeOK /\ WindowInv
    /\ pc # "asked" => delta = {}

\* The loop starts with an empty window and its first tick due.
LEMMA BudgetStart == Init => BudgetInv
<1> SUFFICES ASSUME Init PROVE BudgetInv
    OBVIOUS
<1>1. entries \in Seq(Entry) /\ entries = << >> /\ DOMAIN entries = {} /\ tokens = 0
    BY DEF Init
<1>2. WindowInv
    <2>1. TokensOf(entries) = 0
        BY <1>1, SumIsNat
    <2> QED
        BY <1>1, <2>1, AggregatorAssumption DEF WindowInv, OldestFirst
<1>3. TypeOK
    <2>1. out \in Seq(Messages) /\ Len(out) = 0 /\ Len(out) <= OutCap
        BY AggregatorAssumption DEF Init
    <2>2. owed \in 0..MaxOwed /\ sinceFire \in 0..Interval
        BY AggregatorAssumption DEF Init
    <2>3. tokens \in Nat /\ delta \subseteq DOMAIN entries /\ cause \in Causes
        BY <1>1 DEF Init, Causes
    <2> QED
        BY <1>1, <2>1, <2>2, <2>3 DEF Init, TypeOK
<1> QED
    BY <1>2, <1>3 DEF Init, BudgetInv

\* Returning to select! starts the interval again and forgets the command.
LEMMA ReturnKeepsTypes ==
    ASSUME TypeOK, NEW why, Return(why)
    PROVE  manual' \in BOOLEAN /\ sinceFire' \in 0..Interval /\ pc' \in {"select", "done"}
<1>1. CASE why = "shutdown"
    <2>1. pc' = "done" /\ manual' = manual /\ sinceFire' = sinceFire
        BY <1>1 DEF Return, trigger
    <2> QED
        BY <2>1 DEF TypeOK
<1>2. CASE why # "shutdown"
    <2>1. pc' = "select" /\ manual' = FALSE /\ sinceFire' = 0
        BY <1>2 DEF Return, RecordFire
    <2>2. 0 \in 0..Interval
        BY AggregatorAssumption
    <2> QED
        BY <2>1, <2>2, Zenon
<1> QED
    BY <1>1, <1>2

\* do_summary leaves the window alone, and remembers what its prompt has.
LEMMA SummaryKeepsBudget ==
    ASSUME BudgetInv, NEW why \in Causes, DoSummary(why), pc = "select",
           owed' \in 0..MaxOwed, status' = status, changed' \in BOOLEAN, UNCHANGED shutdown
    PROVE  BudgetInv'
<1>1. WindowInv'
    BY DEF BudgetInv, DoSummary, Suppressed, Asked, window, WindowInv
<1>2. CASE Suppressed(why)
    <2>1. manual' \in BOOLEAN /\ sinceFire' \in 0..Interval /\ pc' \in {"select", "done"}
        BY <1>2, ReturnKeepsTypes DEF Suppressed, BudgetInv
    <2> QED
        BY <1>1, <1>2, <2>1 DEF Suppressed, BudgetInv, TypeOK, window, queue
<1>3. CASE Asked(why)
    BY <1>1, <1>3 DEF Asked, BudgetInv, TypeOK, window, trigger, queue, Unsummarized
<1> QED
    BY <1>2, <1>3 DEF DoSummary

\* Every step keeps the count, the budget, the order and the types.
LEMMA BudgetStep ==
    ASSUME BudgetInv, [Next]_vars
    PROVE  BudgetInv'
<1> USE AggregatorAssumption
<1>0. TypeOK /\ WindowInv
    BY DEF BudgetInv
<1>1. CASE ReceiveChat \/ ReceiveTranscript
    <2>1. PICK size \in Sizes : Push(size)
        BY <1>1 DEF ReceiveChat, ReceiveTranscript
    <2>2. WindowInv' /\ tokens' \in Nat
        BY <1>0, <2>1, PushKeepsBudget, SumIsNat DEF WindowInv
    <2>3. delta = {} /\ UNCHANGED <<sinceFire, task, inputs, queue>> /\ manual' \in BOOLEAN
        BY <1>1 DEF ReceiveChat, ReceiveTranscript, trigger, BudgetInv, TypeOK
    <2> QED
        BY <1>0, <2>2, <2>3 DEF BudgetInv, TypeOK, WindowInv, task, inputs, queue
<1>2. CASE StatusChanged
    <2>1. CASE DoSummary("offline")
        BY <1>0, <1>2, <2>1, SummaryKeepsBudget DEF StatusChanged, Causes, TypeOK
    <2>2. CASE UNCHANGED <<window, trigger, task, queue>>
        BY <1>0, <1>2, <2>2
           DEF StatusChanged, BudgetInv, TypeOK, WindowInv, window, trigger, task, queue
    <2> QED
        BY <1>2, <2>1, <2>2 DEF StatusChanged
<1>3. CASE TimerTick
    <2>0. owed' \in 0..MaxOwed
        BY <1>0, <1>3 DEF TimerTick, TypeOK
    <2>1. CASE DoSummary("tick")
        BY <1>0, <1>3, <2>0, <2>1, SummaryKeepsBudget DEF TimerTick, Causes, TypeOK
    <2>2. CASE UNCHANGED <<window, trigger, task, queue>>
        BY <1>0, <1>3, <2>0, <2>2
           DEF TimerTick, BudgetInv, TypeOK, WindowInv, window, trigger, task, queue
    <2> QED
        BY <1>3, <2>1, <2>2 DEF TimerTick
<1>4. CASE ShutDown
    <2>1. CASE DoSummary("shutdown")
        BY <1>0, <1>4, <2>1, SummaryKeepsBudget DEF ShutDown, Causes, TypeOK, inputs
    <2>2. CASE pc' = "done" /\ UNCHANGED <<window, trigger, cause, delta, queue>>
        BY <1>0, <1>4, <2>2
           DEF ShutDown, BudgetInv, TypeOK, WindowInv, window, trigger, inputs, queue
    <2> QED
        BY <1>4, <2>1, <2>2 DEF ShutDown
<1>5. CASE LlmFails
    <2>1. manual' \in BOOLEAN /\ sinceFire' \in 0..Interval /\ pc' \in {"select", "done"}
        BY <1>0, <1>5, ReturnKeepsTypes DEF LlmFails
    <2>2. WindowInv'
        BY <1>0, <1>5 DEF LlmFails, WindowInv, window
    <2> QED
        BY <1>0, <1>5, <2>1, <2>2 DEF LlmFails, BudgetInv, TypeOK, window, inputs, queue
<1>6. CASE LlmAnswers
    <2>1. WindowInv' /\ DOMAIN entries' = DOMAIN entries
        BY <1>0, <1>6, MarkKeepsBudget DEF LlmAnswers
    <2> QED
        BY <1>0, <1>6, <2>1 DEF LlmAnswers, BudgetInv, TypeOK, WindowInv, trigger, inputs, queue
<1>7. ASSUME NEW message \in Messages, Send(message), UNCHANGED open
      PROVE  out' \in Seq(Messages) /\ Len(out') <= OutCap
    BY <1>0, <1>7 DEF Send, TypeOK
<1>8. CASE SendNotice
    <2>1. out' \in Seq(Messages) /\ Len(out') <= OutCap
        BY <1>7, <1>8 DEF SendNotice, Messages
    <2> QED
        BY <1>0, <1>8, <2>1
           DEF SendNotice, BudgetInv, TypeOK, WindowInv, window, trigger, inputs
<1>9. CASE SendInsight
    <2>1. out' \in Seq(Messages) /\ Len(out') <= OutCap
        BY <1>0, <1>7, <1>9 DEF SendInsight, Messages, TypeOK
    <2>2. manual' \in BOOLEAN /\ sinceFire' \in 0..Interval /\ pc' \in {"select", "done"}
        BY <1>0, <1>9, ReturnKeepsTypes DEF SendInsight
    <2>3. WindowInv'
        BY <1>0, <1>9 DEF SendInsight, WindowInv, window
    <2> QED
        BY <1>0, <1>9, <2>1, <2>2, <2>3 DEF SendInsight, BudgetInv, TypeOK, window, inputs
<1>10. CASE Elapse
    <2>1. WindowInv' /\ DOMAIN entries' = DOMAIN entries
        BY <1>0, <1>10, ElapseKeepsBudget
    <2>2. sinceFire' \in 0..Interval /\ owed' \in 0..MaxOwed
        BY <1>0, <1>10 DEF Elapse, Older, TypeOK
    <2> QED
        BY <1>0, <1>10, <2>1, <2>2 DEF Elapse, BudgetInv, TypeOK, WindowInv, task, queue
<1>11. CASE Publish \/ Cancel
    BY <1>0, <1>11
       DEF Publish, Cancel, BudgetInv, TypeOK, WindowInv, window, trigger, task, queue
<1>12. CASE Announce \/ TakeOut \/ CloseOut
    <2>1. out' \in Seq(Messages) /\ Len(out') <= OutCap /\ open' \in BOOLEAN
        <3>1. CASE Announce \/ TakeOut
            <4>1. out' \in Seq(Messages) /\ Len(out') <= OutCap
                <5>1. out \in Seq(Messages) /\ Len(out) <= OutCap /\ "live" \in Messages
                    BY <1>0 DEF TypeOK, Messages
                <5>2. \/ Len(out) < OutCap /\ out' = Append(out, "live")
                      \/ out # << >> /\ out' = Tail(out)
                    BY <3>1 DEF Announce, TakeOut
                <5> QED
                    BY <5>1, <5>2
            <4>2. open' = open
                BY <3>1 DEF Announce, TakeOut
            <4> QED
                BY <1>0, <4>1, <4>2 DEF TypeOK
        <3>2. CASE CloseOut
            <4>1. out' = << >> /\ open' = FALSE
                BY <3>2 DEF CloseOut
            <4>2. OutCap \in Nat /\ 0 <= OutCap
                BY AggregatorAssumption
            <4>3. << >> \in Seq(Messages) /\ Len(<< >>) = 0
                OBVIOUS
            <4> QED
                BY <4>1, <4>2, <4>3
        <3> QED
            BY <1>12, <3>1, <3>2
    <2>2. UNCHANGED <<window, trigger, task, inputs>>
        BY <1>12 DEF Announce, TakeOut, CloseOut
    <2>3. WindowInv'
        BY <1>0, <2>2 DEF WindowInv, window
    <2> QED
        BY <1>0, <2>1, <2>2, <2>3 DEF BudgetInv, TypeOK, window, trigger, task, inputs
<1>13. CASE UNCHANGED vars
    BY <1>0, <1>13
       DEF vars, BudgetInv, TypeOK, WindowInv, window, trigger, task, inputs, queue
<1> QED
    BY <1>1, <1>2, <1>3, <1>4, <1>5, <1>6, <1>8, <1>9, <1>10, <1>11, <1>12, <1>13
       DEF Next, Loop, Await, Environment

\* However pushes, ages, marks and evictions mix, the running count is the sum
\* of the window's estimates, so no subtraction underflows; it stays within
\* the budget of a prompt, and the window is oldest first (window.rs 1-2).
THEOREM WindowWithinBudget == Spec => []WindowBudget
<1>1. BudgetInv => WindowBudget
    BY DEF BudgetInv, WindowInv, OldestFirst, WindowBudget
<1> QED
    BY <1>1, BudgetStart, BudgetStep, PTL DEF Spec

-----------------------------------------------------------------------------
(* Marks *)

\* The part of SummarizedOnce that speaks of the window alone.
MarksTell ==
    /\ entries \in Seq(Entry)
    /\ \A i \in DOMAIN entries :
          entries[i].told = IF entries[i].summarized THEN 1 ELSE 0
    /\ \A i, j \in DOMAIN entries :
          ~entries[i].summarized /\ entries[j].summarized => j < i

\* Inductive: a prompt under way has every entry that is not marked.
PromptInv ==
    /\ MarksTell
    /\ pc = "asked" => delta = Unsummarized /\ delta # {}

\* A new entry comes last and unmarked, and eviction takes from the front.
LEMMA PushKeeps ==
    ASSUME MarksTell, NEW size \in Sizes, Push(size)
    PROVE  MarksTell'
<1> DEFINE new == [age |-> 0, tokens |-> size, summarized |-> FALSE, told |-> 0]
           es  == Append(entries, new)
           k   == Evicted(es, tokens + size)
<1>1. new \in Entry
    BY AggregatorAssumption DEF Entry
<1>2. /\ es \in Seq(Entry) /\ Len(es) = Len(entries) + 1
      /\ \A i \in 1..Len(entries) : es[i] = entries[i]
      /\ es[Len(entries) + 1] = new
    BY <1>1 DEF MarksTell
<1>3. k \in 0..Len(es)
    BY <1>2, EvictedInRange
<1>4. entries' = SubSeq(es, k + 1, Len(es))
    BY DEF Push
<1>5. \A i, j \in 1..Len(es) :
          /\ es[i].told = IF es[i].summarized THEN 1 ELSE 0
          /\ ~es[i].summarized /\ es[j].summarized => j < i
    <2> SUFFICES ASSUME NEW i \in 1..Len(es), NEW j \in 1..Len(es)
                 PROVE  /\ es[i].told = IF es[i].summarized THEN 1 ELSE 0
                        /\ ~es[i].summarized /\ es[j].summarized => j < i
        OBVIOUS
    <2>1. ~new.summarized /\ new.told = 0
        OBVIOUS
    <2> HIDE DEF new, es, k
    <2>2. Len(entries) \in Nat /\ DOMAIN entries = 1..Len(entries)
        BY DEF MarksTell
    <2>3. CASE i = Len(entries) + 1
        BY <1>2, <2>1, <2>2, <2>3
    <2>4. CASE i # Len(entries) + 1
        <3>1. i \in DOMAIN entries /\ es[i] = entries[i]
            BY <1>2, <2>2, <2>4
        <3>2. CASE j = Len(entries) + 1
            BY <1>2, <2>1, <3>1, <3>2 DEF MarksTell
        <3>3. CASE j # Len(entries) + 1
            <4>1. j \in DOMAIN entries /\ es[j] = entries[j]
                BY <1>2, <2>2, <3>3
            <4> QED
                BY <3>1, <4>1 DEF MarksTell
        <3> QED
            BY <3>2, <3>3
    <2> QED
        BY <2>3, <2>4
<1> HIDE DEF new, es, k
<1>6. /\ entries' \in Seq(Entry) /\ DOMAIN entries' = 1..(Len(es) - k)
      /\ \A i \in 1..(Len(es) - k) : k + i \in 1..Len(es) /\ entries'[i] = es[k + i]
    BY <1>2, <1>3, <1>4
<1>7. ASSUME NEW i \in DOMAIN entries'
      PROVE  entries'[i].told = IF entries'[i].summarized THEN 1 ELSE 0
    BY <1>5, <1>6
<1>8. ASSUME NEW i \in DOMAIN entries', NEW j \in DOMAIN entries',
             ~entries'[i].summarized, entries'[j].summarized
      PROVE  j < i
    <2>1. k + j < k + i
        BY <1>5, <1>6, <1>8
    <2> QED
        BY <1>3, <1>6, <2>1
<1> QED
    BY <1>6, <1>7, <1>8 DEF MarksTell

\* An answer marks what its prompt had, which was all that was not marked.
LEMMA MarkKeeps ==
    ASSUME MarksTell, delta = Unsummarized, MarkSummarized
    PROVE  MarksTell'
<1>1. entries \in Seq(Entry) /\ DOMAIN entries = 1..Len(entries) /\ Len(entries) \in Nat
    BY DEF MarksTell
<1>2. DOMAIN entries' = DOMAIN entries
    BY DEF MarkSummarized
<1>3. ASSUME NEW i \in DOMAIN entries
      PROVE  /\ entries'[i] \in Entry
             /\ entries'[i].summarized /\ entries'[i].told = 1
    <2>1. entries[i] \in Entry
        BY <1>1
    <2>2. entries'[i] = [entries[i] EXCEPT !.summarized = TRUE,
                                           !.told = IF i \in delta THEN @ + 1 ELSE @]
        BY DEF MarkSummarized
    <2>3. CASE i \in delta
        <3>1. entries[i].told = 0
            BY <2>3 DEF MarksTell, Unsummarized
        <3>2. entries'[i] = [entries[i] EXCEPT !.summarized = TRUE, !.told = 1]
            BY <2>2, <2>3, <3>1
        <3>3. entries'[i] = [[entries[i] EXCEPT !.summarized = TRUE] EXCEPT !.told = 1]
            BY <3>2, Zenon
        <3>4. [entries[i] EXCEPT !.summarized = TRUE] \in Entry
            BY <2>1 DEF Entry
        <3>5. entries'[i] \in Entry /\ entries'[i].told = 1
            <4> DEFINE e == [entries[i] EXCEPT !.summarized = TRUE]
            <4>1. e \in Entry /\ entries'[i] = [e EXCEPT !.told = 1]
                BY <3>3, <3>4
            <4> HIDE DEF e
            <4> QED
                BY <4>1 DEF Entry
        <3>6. entries'[i].summarized
            BY <2>1, <3>3 DEF Entry
        <3> QED
            BY <3>5, <3>6
    <2>4. CASE i \notin delta
        <3>1. entries[i].told = 1
            BY <2>4 DEF MarksTell, Unsummarized
        <3>2. entries'[i] = [entries[i] EXCEPT !.summarized = TRUE]
            BY <2>1, <2>2, <2>4 DEF Entry
        <3> QED
            BY <2>1, <3>1, <3>2 DEF Entry
    <2> QED
        BY <2>3, <2>4
<1>4. entries' \in [1..Len(entries) -> Entry]
    BY <1>1, <1>2, <1>3 DEF MarkSummarized
<1> QED
    BY <1>1, <1>2, <1>3, <1>4, SeqDef DEF MarksTell

\* Time changes ages, which no mark depends on.
LEMMA ElapseKeeps ==
    ASSUME MarksTell, Elapse
    PROVE  MarksTell' /\ Unsummarized' = Unsummarized
<1>1. entries \in Seq(Entry) /\ DOMAIN entries = 1..Len(entries) /\ Len(entries) \in Nat
    BY DEF MarksTell
<1>2. DOMAIN entries' = DOMAIN entries
    BY DEF Elapse
<1>3. ASSUME NEW i \in DOMAIN entries
      PROVE  /\ entries'[i] \in Entry
             /\ entries'[i].summarized = entries[i].summarized
             /\ entries'[i].told = entries[i].told
    <2>1. entries[i] \in Entry
        BY <1>1
    <2>2. entries'[i] = [entries[i] EXCEPT !.age = Older(@, MaxAge + 1)]
        BY DEF Elapse
    <2>3. entries[i].age \in 0..(MaxAge + 1)
        BY <2>1 DEF Entry
    <2>4. Older(entries[i].age, MaxAge + 1) \in 0..(MaxAge + 1)
        BY <2>3, AggregatorAssumption DEF Older
    <2> QED
        BY <2>1, <2>2, <2>4 DEF Entry
<1>4. entries' \in [1..Len(entries) -> Entry]
    BY <1>1, <1>2, <1>3 DEF Elapse
<1>5. Unsummarized' = Unsummarized
    BY <1>2, <1>3 DEF Unsummarized
<1> QED
    BY <1>1, <1>2, <1>3, <1>4, <1>5, SeqDef DEF MarksTell

\* The loop starts with nothing asked.
LEMMA PromptStart == Init => PromptInv
    BY DEF Init, PromptInv, MarksTell

\* Every step keeps the prompt under way true to the window.
LEMMA PromptStep ==
    ASSUME PromptInv, [Next]_vars
    PROVE  PromptInv'
<1>1. ASSUME NEW why, DoSummary(why) PROVE PromptInv'
    <2>1. UNCHANGED entries
        BY <1>1 DEF DoSummary, Suppressed, Asked, window
    <2>2. CASE Suppressed(why)
        BY <2>1, <2>2 DEF Suppressed, Return, PromptInv, MarksTell
    <2>3. CASE Asked(why)
        BY <2>1, <2>3
           DEF Asked, PromptInv, MarksTell, HasUnsummarized, Unsummarized
    <2> QED
        BY <1>1, <2>2, <2>3 DEF DoSummary
<1>2. ASSUME UNCHANGED <<entries, pc, delta>> PROVE PromptInv'
    BY <1>2 DEF PromptInv, MarksTell, Unsummarized
<1>3. CASE ReceiveChat \/ ReceiveTranscript
    <2>1. pc' # "asked" /\ \E size \in Sizes : Push(size)
        BY <1>3 DEF ReceiveChat, ReceiveTranscript, task
    <2> QED
        BY <2>1, PushKeeps DEF PromptInv
<1>4. CASE StatusChanged
    BY <1>1, <1>2, <1>4 DEF StatusChanged, window, task
<1>5. CASE TimerTick
    BY <1>1, <1>2, <1>5 DEF TimerTick, window, task
<1>6. CASE ShutDown
    <2>1. CASE HasUnsummarized
        BY <1>1, <1>6, <2>1 DEF ShutDown
    <2>2. CASE ~HasUnsummarized
        BY <1>6, <2>2 DEF ShutDown, window, PromptInv, MarksTell
    <2> QED
        BY <2>1, <2>2
<1>7. CASE LlmFails
    BY <1>7 DEF LlmFails, Return, window, PromptInv, MarksTell
<1>8. CASE LlmAnswers
    BY <1>8, MarkKeeps DEF LlmAnswers, PromptInv
<1>9. CASE SendNotice \/ SendInsight
    BY <1>9 DEF SendNotice, SendInsight, Return, window, PromptInv, MarksTell
<1>10. CASE Elapse
    BY <1>10, ElapseKeeps DEF Elapse, task, PromptInv
<1>11. CASE Publish \/ Cancel \/ Announce \/ TakeOut \/ CloseOut
    BY <1>2, <1>11 DEF Publish, Cancel, Announce, TakeOut, CloseOut, window, task
<1>12. CASE UNCHANGED vars
    BY <1>2, <1>12 DEF vars, window, task
<1> QED
    BY <1>3, <1>4, <1>5, <1>6, <1>7, <1>8, <1>9, <1>10, <1>11, <1>12
       DEF Next, Loop, Await, Environment

\* What was in no prompt is never marked and nothing is summarized twice,
\* whatever fails, is retried or arrives between (aggregate.rs 109-117).
THEOREM SummarizedAtMostOnce == Spec => []SummarizedOnce
<1>1. PromptInv => SummarizedOnce
    BY DEF PromptInv, MarksTell, SummarizedOnce
<1> QED
    BY <1>1, PromptStart, PromptStep, PTL DEF Spec
=============================================================================
