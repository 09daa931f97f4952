---------------------------- MODULE EdgesProofs -----------------------------
(***************************************************************************)
(* Theorems about Edges: each of the functions at the program's edges      *)
(* returns what its caller counts on, for texts, playlists and files of    *)
(* any length and for any limits.  A loop of the code is a recursive       *)
(* function over the input, about which an invariant of the loop is proved *)
(* by induction on how much of the input has been gone through.            *)
(***************************************************************************)
EXTENDS Integers, Edges, WellFoundedInduction, FiniteSetTheorems, SequenceTheorems, TLAPS

\* A set of natural numbers that is not empty has a least element, and Min is it.
LEMMA MinIsLeast ==
    ASSUME NEW S \in SUBSET Nat, S # {}
    PROVE  Min(S) \in S /\ \A m \in S : Min(S) <= m
<1>1. \E n \in S : \A m \in S : ~(<<m, n>> \in OpToRel(<, Nat))
    BY NatLessThanWellFounded, WFMin, Zenon
<1>2. PICK n \in S : \A m \in S : ~(m < n)
    BY <1>1 DEF OpToRel
<1>3. n \in S /\ \A m \in S : n <= m
    BY <1>2
<1> QED
    BY <1>3 DEF Min

\* Induction on the natural numbers, for a set that a proof defines.
LEMMA SetInduction ==
    ASSUME NEW S, 0 \in S, \A n \in Nat : n \in S => n + 1 \in S
    PROVE  Nat \subseteq S
<1> SUFFICES ASSUME Nat \ S # {} PROVE FALSE
    OBVIOUS
<1> DEFINE rest == Nat \ S
           least == Min(rest)
<1>1. least \in rest /\ \A m \in rest : least <= m
    <2>1. rest \in SUBSET Nat /\ rest # {}
        OBVIOUS
    <2> HIDE DEF rest
    <2> QED
        BY <2>1, MinIsLeast
<1> HIDE DEF least
<1>2. least \in Nat /\ least # 0
    BY <1>1
<1>3. least - 1 \in Nat /\ (least - 1) + 1 = least /\ ~(least <= least - 1)
    BY <1>2
<1>4. least - 1 \in S
    BY <1>1, <1>3
<1> QED
    BY <1>1, <1>3, <1>4

\* A set of natural numbers below a bound that is not empty has a greatest
\* element, and Max is it.
LEMMA MaxIsGreatest ==
    ASSUME NEW n \in Nat, NEW S \in SUBSET (0..n), S # {}
    PROVE  Max(S) \in S /\ \A m \in S : m <= Max(S)
<1> DEFINE left == {n - m : m \in S}
           k == n - Min(left)
<1>1. left \in SUBSET Nat /\ left # {}
    <2>1. \A m \in S : m \in 0..n /\ n - m \in Nat
        OBVIOUS
    <2>2. left \subseteq Nat
        BY <2>1
    <2>3. PICK m \in S : TRUE
        OBVIOUS
    <2> QED
        BY <2>2, <2>3
<1>2. Min(left) \in left /\ \A m \in left : Min(left) <= m
    <2> HIDE DEF left
    <2> QED
        BY <1>1, MinIsLeast
<1>3. k \in S
    BY <1>2
<1>4. ASSUME NEW m \in S PROVE k >= m
    <2>1. n - m \in left
        OBVIOUS
    <2>2. Min(left) <= n - m /\ Min(left) \in Nat
        BY <1>1, <1>2, <2>1
    <2> HIDE DEF left
    <2> QED
        BY <2>2
<1> HIDE DEF k
<1> QED
    BY <1>3, <1>4 DEF Max

\* A loop over n inputs: from a state of T, each input takes it to another.
Loops(f, n, T, base, step) ==
    /\ f \in [0..n -> T] /\ f[0] = base
    /\ \A i \in 1..n : f[i] = step[<<f[i - 1], i>>]

\* Every loop has a run.
LEMMA LoopExists ==
    ASSUME NEW n \in Nat, NEW T, NEW base \in T, NEW step \in [T \X (1..n) -> T]
    PROVE  \E f : Loops(f, n, T, base, step)
<1> DEFINE Runs(m) == {f \in [0..m -> T] :
               f[0] = base /\ \A i \in 1..m : f[i] = step[<<f[i - 1], i>>]}
           S == {m \in Nat : m <= n => Runs(m) # {}}
<1>1. 0 \in S
    <2>1. [i \in 0..0 |-> base] \in Runs(0)
        OBVIOUS
    <2> QED
        BY <2>1, Zenon
<1>2. ASSUME NEW m \in Nat, m \in S PROVE m + 1 \in S
    <2>1. CASE ~(m + 1 <= n)
        BY <2>1
    <2>2. CASE m + 1 <= n
        <3>1. Runs(m) # {}
            <4> HIDE DEF Runs
            <4> QED
                BY <1>2, <2>2
        <3>2. PICK g \in [0..m -> T] :
                  g[0] = base /\ \A i \in 1..m : g[i] = step[<<g[i - 1], i>>]
            BY <3>1
        <3> DEFINE last == step[<<g[m], m + 1>>]
                   f == [i \in 0..(m + 1) |-> IF i = m + 1 THEN last ELSE g[i]]
        <3>3. m + 1 \in 1..n /\ g[m] \in T
            BY <2>2, <3>2
        <3>4. last \in T
            BY <3>3
        <3> HIDE DEF last
        <3>5. f[m + 1] = last /\ f[m] = g[m] /\ \A i \in 0..m : f[i] = g[i]
            OBVIOUS
        <3>6. f \in [0..(m + 1) -> T]
            BY <3>2, <3>4
        <3> HIDE DEF f
        <3>7. ASSUME NEW i \in 1..(m + 1) PROVE f[i] = step[<<f[i - 1], i>>]
            <4>1. CASE i = m + 1
                <5>1. (m + 1) - 1 = m
                    OBVIOUS
                <5> QED
                    BY <3>5, <4>1, <5>1, Zenon DEF last
            <4>2. CASE i # m + 1
                <5>1. i \in 1..m /\ i \in 0..m /\ i - 1 \in 0..m
                    BY <4>2
                <5> QED
                    BY <3>2, <3>5, <5>1, Zenon
            <4> QED
                BY <4>1, <4>2
        <3>8. f[0] = base
            BY <3>2, <3>5
        <3>9. f \in Runs(m + 1)
            BY <3>6, <3>7, <3>8
        <3> HIDE DEF Runs
        <3> QED
            BY <3>9
    <2> QED
        BY <2>1, <2>2
<1> HIDE DEF S
<1>3. n \in S
    BY <1>1, <1>2, SetInduction
<1> QED
    BY <1>3 DEF S, Loops

----------------------------------------------------------------------------
\* What the str methods return

\* A part of a text, as a sequence.
LEMMA PartIs ==
    ASSUME NEW S, NEW text \in Seq(S), NEW i \in 1..Len(text), NEW j \in 1..Len(text), i <= j
    PROVE  /\ SubSeq(text, i, j) \in Seq(S)
           /\ Len(SubSeq(text, i, j)) = j - i + 1
           /\ \A k \in 1..(j - i + 1) : SubSeq(text, i, j)[k] = text[i + k - 1]
<1>1. Len(text) \in Nat /\ i \in Int /\ j \in Int /\ \A k \in i..j : text[k] \in S
    OBVIOUS
<1> QED
    BY <1>1, SubSeqProperties

\* A sequence of one element.
LEMMA OneIs ==
    ASSUME NEW S, NEW c \in S
    PROVE  /\ <<c>> \in Seq(S) /\ Len(<<c>>) = 1 /\ <<c>>[1] = c
           /\ \A s \in Seq(S) : Len(s) = 1 /\ s[1] = c => s = <<c>>
OBVIOUS

\* trim returns the text from the first to the last character that is not
\* blank, or nothing.
LEMMA TrimIs ==
    ASSUME NEW S, NEW text \in Seq(S), NEW blanks
    PROVE  \/ /\ \A k \in 1..Len(text) : text[k] \in blanks
              /\ Trim(text, blanks) = << >>
           \/ \E i, j \in 1..Len(text) :
                 /\ i <= j /\ text[i] \notin blanks /\ text[j] \notin blanks
                 /\ \A k \in 1..Len(text) : text[k] \notin blanks => i <= k /\ k <= j
                 /\ Trim(text, blanks) = SubSeq(text, i, j)
<1> DEFINE inner == {i \in DOMAIN text : text[i] \notin blanks}
<1>1. Len(text) \in Nat /\ DOMAIN text = 1..Len(text)
    OBVIOUS
<1>2. inner \in SUBSET (0..Len(text)) /\ inner \in SUBSET Nat /\ inner \in SUBSET (1..Len(text))
    BY <1>1
<1>3. Trim(text, blanks) = IF inner = {} THEN << >>
                           ELSE SubSeq(text, Min(inner), Max(inner))
    BY Zenon DEF Trim
<1>4. \A k \in 1..Len(text) : k \in inner <=> text[k] \notin blanks
    BY <1>1
<1> HIDE DEF inner
<1>5. CASE inner = {}
    BY <1>3, <1>4, <1>5, Zenon
<1>6. CASE inner # {}
    <2>1. Min(inner) \in inner /\ \A k \in inner : Min(inner) <= k
        BY <1>2, <1>6, MinIsLeast
    <2>2. Max(inner) \in inner /\ \A k \in inner : k <= Max(inner)
        BY <1>1, <1>2, <1>6, MaxIsGreatest
    <2> QED
        BY <1>2, <1>3, <1>4, <1>6, <2>1, <2>2, Zenon
<1> QED
    BY <1>5, <1>6

\* What is between two characters that are not blank, with only blanks around
\* it, is what trim returns.
LEMMA TrimsTo ==
    ASSUME NEW S, NEW text \in Seq(S), NEW blanks,
           NEW i \in 1..Len(text), NEW j \in 1..Len(text), i <= j,
           text[i] \notin blanks, text[j] \notin blanks,
           \A k \in 1..Len(text) : text[k] \notin blanks => i <= k /\ k <= j
    PROVE  Trim(text, blanks) = SubSeq(text, i, j)
<1>1. PICK m, n \in 1..Len(text) :
          /\ text[m] \notin blanks /\ text[n] \notin blanks
          /\ \A k \in 1..Len(text) : text[k] \notin blanks => m <= k /\ k <= n
          /\ Trim(text, blanks) = SubSeq(text, m, n)
    BY TrimIs, Zenon
<1>2. m <= i /\ i <= m /\ n <= j /\ j <= n
    BY <1>1, Zenon
<1>3. ASSUME NEW a \in 1..Len(text), NEW b \in 1..Len(text), a <= b, b <= a PROVE a = b
    BY <1>3
<1> QED
    BY <1>1, <1>2, <1>3, Zenon

\* A text with no blanks around it is not changed.
LEMMA TrimKeeps ==
    ASSUME NEW S, NEW text \in Seq(S), NEW blanks,
           text # << >> => text[1] \notin blanks /\ text[Len(text)] \notin blanks
    PROVE  Trim(text, blanks) = text
<1>1. CASE text = << >>
    <2>1. Len(text) = 0 /\ 1..0 = {}
        BY <1>1
    <2> QED
        BY <1>1, <2>1, TrimIs, Zenon
<1>2. CASE text # << >>
    <2>1. 1 \in 1..Len(text) /\ Len(text) \in 1..Len(text) /\ 1 <= Len(text)
          /\ \A k \in 1..Len(text) : 1 <= k /\ k <= Len(text)
        BY <1>2
    <2>2. Trim(text, blanks) = SubSeq(text, 1, Len(text))
        BY <1>2, <2>1, TrimsTo, Zenon
    <2> QED
        BY <2>2, SubSeqFull, Zenon
<1> QED
    BY <1>1, <1>2

\* One text is in another, after its first characters.
Within(part, text, off) ==
    /\ off \in Nat /\ off + Len(part) <= Len(text)
    /\ \A k \in 1..Len(part) : part[k] = text[off + k]

\* What trim returns is in the text, with no blanks around it.
LEMMA Trimmed ==
    ASSUME NEW S, NEW text \in Seq(S), NEW blanks
    PROVE  /\ Trim(text, blanks) \in Seq(S)
           /\ Len(Trim(text, blanks)) <= Len(text)
           /\ \E off : Within(Trim(text, blanks), text, off)
           /\ Trim(text, blanks) # << >> =>
                 /\ Trim(text, blanks)[1] \notin blanks
                 /\ Trim(text, blanks)[Len(Trim(text, blanks))] \notin blanks
           /\ text # << >> /\ text[1] \notin blanks =>
                 Trim(text, blanks) # << >> /\ Trim(text, blanks)[1] = text[1]
<1> DEFINE out == Trim(text, blanks)
<1> SUFFICES /\ out \in Seq(S)
             /\ Len(out) <= Len(text)
             /\ \E off : Within(out, text, off)
             /\ out # << >> => out[1] \notin blanks /\ out[Len(out)] \notin blanks
             /\ text # << >> /\ text[1] \notin blanks => out # << >> /\ out[1] = text[1]
    OBVIOUS
<1>1. CASE /\ \A k \in 1..Len(text) : text[k] \in blanks
           /\ out = << >>
    <2>1. Within(<< >>, text, 0) /\ << >> \in Seq(S) /\ Len(<< >>) <= Len(text)
        BY DEF Within
    <2>2. text # << >> => 1 \in 1..Len(text)
        OBVIOUS
    <2> QED
        BY <1>1, <2>1, <2>2, Zenon
<1>2. CASE \E i, j \in 1..Len(text) :
              /\ i <= j /\ text[i] \notin blanks /\ text[j] \notin blanks
              /\ \A k \in 1..Len(text) : text[k] \notin blanks => i <= k /\ k <= j
              /\ out = SubSeq(text, i, j)
    <2>1. PICK i, j \in 1..Len(text) :
              /\ i <= j /\ text[i] \notin blanks /\ text[j] \notin blanks
              /\ \A k \in 1..Len(text) : text[k] \notin blanks => i <= k /\ k <= j
              /\ out = SubSeq(text, i, j)
        BY <1>2, Zenon
    <2>2. /\ out \in Seq(S) /\ Len(out) = j - i + 1
          /\ \A k \in 1..(j - i + 1) : out[k] = text[i + k - 1]
        <3> HIDE DEF out
        <3> QED
            BY <2>1, PartIs, Zenon
    <2> HIDE DEF out
    <2>3. Len(text) \in Nat /\ i \in Nat /\ j \in Nat /\ 1 <= i /\ i <= j /\ j <= Len(text)
        BY <2>1
    <2>4. out[1] = text[i] /\ out[Len(out)] = text[j] /\ out # << >>
        <3>1. /\ 1 \in 1..(j - i + 1) /\ j - i + 1 \in 1..(j - i + 1)
              /\ i + 1 - 1 = i /\ i + (j - i + 1) - 1 = j /\ j - i + 1 # 0
            BY <2>3
        <3> QED
            BY <2>2, <3>1
    <2>5. Within(out, text, i - 1)
        <3>1. /\ i - 1 \in Nat /\ (i - 1) + Len(out) <= Len(text)
              /\ \A k \in 1..Len(out) : k \in 1..(j - i + 1) /\ i + k - 1 = (i - 1) + k
            BY <2>2, <2>3
        <3> QED
            BY <2>2, <3>1, Zenon DEF Within
    <2>6. Len(out) <= Len(text)
        BY <2>2, <2>3
    <2>7. text # << >> /\ text[1] \notin blanks => i = 1
        <3>1. 1 \in 1..Len(text)
            BY <2>3
        <3>2. text[1] \notin blanks => i <= 1
            BY <2>1, <3>1, Zenon
        <3> QED
            BY <2>3, <3>2
    <2> QED
        BY <2>1, <2>2, <2>4, <2>5, <2>6, <2>7, Zenon
<1> QED
    BY <1>1, <1>2, TrimIs, Zenon

\* What is in a part of a text is in the text.
LEMMA WithinWithin ==
    ASSUME NEW S, NEW text \in Seq(S), NEW part \in Seq(S), NEW piece \in Seq(S),
           NEW o1, NEW o2, Within(piece, part, o1), Within(part, text, o2)
    PROVE  Within(piece, text, o2 + o1)
<1>1. /\ o1 \in Nat /\ o1 + Len(piece) <= Len(part)
      /\ \A k \in 1..Len(piece) : piece[k] = part[o1 + k]
      /\ o2 \in Nat /\ o2 + Len(part) <= Len(text)
      /\ \A k \in 1..Len(part) : part[k] = text[o2 + k]
    BY DEF Within
<1>2. Len(piece) \in Nat /\ Len(part) \in Nat /\ Len(text) \in Nat
    OBVIOUS
<1>3. o2 + o1 \in Nat /\ (o2 + o1) + Len(piece) <= Len(text)
    BY <1>1, <1>2
<1>4. \A k \in 1..Len(piece) : o1 + k \in 1..Len(part) /\ o2 + (o1 + k) = (o2 + o1) + k
    BY <1>1, <1>2
<1> QED
    BY <1>1, <1>3, <1>4, Zenon DEF Within

\* A text is two put together.
Joined(whole, s, t) == whole = s \o t

\* Its length and its elements.
LEMMA JoinedIs ==
    ASSUME NEW S, NEW s \in Seq(S), NEW t \in Seq(S), NEW whole, Joined(whole, s, t)
    PROVE  /\ whole \in Seq(S) /\ Len(whole) = Len(s) + Len(t)
           /\ \A i \in 1..Len(s) : whole[i] = s[i]
           /\ \A i \in 1..Len(t) : whole[Len(s) + i] = t[i]
<1>1. /\ whole \in Seq(S) /\ Len(whole) = Len(s) + Len(t)
      /\ \A i \in 1..(Len(s) + Len(t)) :
            whole[i] = IF i <= Len(s) THEN s[i] ELSE t[i - Len(s)]
    BY ConcatProperties, Zenon DEF Joined
<1>2. Len(s) \in Nat /\ Len(t) \in Nat
    BY LenProperties, Zenon
<1>3. ASSUME NEW i \in 1..Len(s) PROVE whole[i] = s[i]
    <2>1. i \in 1..(Len(s) + Len(t)) /\ i <= Len(s)
        BY <1>2
    <2> QED
        BY <1>1, <2>1, Zenon
<1>4. ASSUME NEW i \in 1..Len(t) PROVE whole[Len(s) + i] = t[i]
    <2>1. /\ Len(s) + i \in 1..(Len(s) + Len(t)) /\ ~(Len(s) + i <= Len(s))
          /\ (Len(s) + i) - Len(s) = i
        BY <1>2
    <2> QED
        BY <1>1, <2>1, Zenon
<1> QED
    BY <1>1, <1>3, <1>4, Zenon

\* A text of one element, before another text.
Single(one) == Len(one) = 1

\* Its first element and the others.
LEMMA JoinedOne ==
    ASSUME NEW S, NEW one \in Seq(S), Single(one), NEW text \in Seq(S),
           NEW whole, Joined(whole, one, text)
    PROVE  /\ whole \in Seq(S) /\ Len(whole) = 1 + Len(text) /\ whole # << >>
           /\ whole[1] = one[1]
           /\ \A i \in 1..Len(text) : whole[1 + i] = text[i]
<1>1. /\ whole \in Seq(S) /\ Len(whole) = Len(one) + Len(text)
      /\ \A i \in 1..Len(one) : whole[i] = one[i]
      /\ \A i \in 1..Len(text) : whole[Len(one) + i] = text[i]
    BY JoinedIs
<1>2. Len(text) \in Nat /\ Len(one) = 1
    BY LenProperties, Zenon DEF Single
<1> QED
    BY <1>1, <1>2

\* Where one of the two is empty, it is the other.
LEMMA JoinedNothing ==
    ASSUME NEW S, NEW s \in Seq(S), NEW t \in Seq(S), NEW whole, Joined(whole, s, t)
    PROVE  (s = << >> => whole = t) /\ (t = << >> => whole = s)
BY ConcatEmptySeq, Zenon DEF Joined

\* The place of the first element that is not in a set, or 0.
LEMMA FirstNotIn ==
    ASSUME NEW S, NEW text \in Seq(S), NEW blanks
    PROVE  LET first == SelectInSeq(text, LAMBDA c : c \notin blanks)
           IN  IF \A k \in 1..Len(text) : text[k] \in blanks THEN first = 0
               ELSE /\ first \in 1..Len(text) /\ text[first] \notin blanks
                    /\ \A k \in 1..Len(text) : k < first => text[k] \in blanks
<1> DEFINE first == SelectInSeq(text, LAMBDA c : c \notin blanks)
           I == {i \in 1..Len(text) : text[i] \notin blanks}
<1>1. first = IF I # {} THEN Min(I) ELSE 0
    BY Zenon DEF SelectInSeq
<1>2. I \in SUBSET Nat /\ I \in SUBSET (1..Len(text))
    OBVIOUS
<1>3. \A k \in 1..Len(text) : k \in I <=> text[k] \notin blanks
    OBVIOUS
<1> SUFFICES IF \A k \in 1..Len(text) : text[k] \in blanks THEN first = 0
             ELSE /\ first \in 1..Len(text) /\ text[first] \notin blanks
                  /\ \A k \in 1..Len(text) : k < first => text[k] \in blanks
    OBVIOUS
<1> HIDE DEF I, first
<1>4. CASE I = {}
    BY <1>1, <1>3, <1>4, Zenon
<1>5. CASE I # {}
    <2>1. Min(I) \in I /\ \A k \in I : Min(I) <= k
        BY <1>2, <1>5, MinIsLeast
    <2>2. ASSUME NEW k \in I PROVE ~(k < Min(I))
        <3>1. k \in Nat /\ Min(I) \in Nat /\ Min(I) <= k
            BY <1>2, <2>1, Zenon
        <3> QED
            BY <3>1
    <2> QED
        BY <1>1, <1>2, <1>3, <1>5, <2>1, <2>2, Zenon
<1> QED
    BY <1>4, <1>5

\* What trim_start_matches returns is the end of the text.
LEMMA TrimmedLeft ==
    ASSUME NEW S, NEW text \in Seq(S), NEW blanks
    PROVE  /\ TrimLeft(text, blanks) \in Seq(S)
           /\ Len(TrimLeft(text, blanks)) <= Len(text)
           /\ \E off : Within(TrimLeft(text, blanks), text, off)
           /\ TrimLeft(text, blanks) # << >> => TrimLeft(text, blanks)[1] \notin blanks
           /\ (text # << >> => text[1] \notin blanks) => TrimLeft(text, blanks) = text
<1> DEFINE out == TrimLeft(text, blanks)
           first == SelectInSeq(text, LAMBDA c : c \notin blanks)
<1>1. out = IF first = 0 THEN << >> ELSE SubSeq(text, first, Len(text))
    BY Zenon DEF TrimLeft
<1>2. IF \A k \in 1..Len(text) : text[k] \in blanks THEN first = 0
      ELSE /\ first \in 1..Len(text) /\ text[first] \notin blanks
           /\ \A k \in 1..Len(text) : k < first => text[k] \in blanks
    BY FirstNotIn
<1> SUFFICES /\ out \in Seq(S)
             /\ Len(out) <= Len(text)
             /\ \E off : Within(out, text, off)
             /\ out # << >> => out[1] \notin blanks
             /\ (text # << >> => text[1] \notin blanks) => out = text
    OBVIOUS
<1> HIDE DEF out, first
<1>3. CASE \A k \in 1..Len(text) : text[k] \in blanks
    <2>1. Within(<< >>, text, 0) /\ << >> \in Seq(S) /\ Len(<< >>) <= Len(text)
        BY DEF Within
    <2>2. text # << >> => 1 \in 1..Len(text)
        OBVIOUS
    <2> QED
        BY <1>1, <1>2, <1>3, <2>1, <2>2, Zenon
<1>4. CASE ~(\A k \in 1..Len(text) : text[k] \in blanks)
    <2>1. /\ first \in 1..Len(text) /\ text[first] \notin blanks
          /\ \A k \in 1..Len(text) : k < first => text[k] \in blanks
        BY <1>2, <1>4, Zenon
    <2>2. Len(text) \in Nat /\ first \in Nat /\ first # 0 /\ 1 <= first /\ first <= Len(text)
          /\ Len(text) \in 1..Len(text) /\ 1 \in 1..Len(text) /\ text # << >>
        BY <2>1
    <2>3. out = SubSeq(text, first, Len(text))
        BY <1>1, <2>2, Zenon
    <2>4. /\ out \in Seq(S) /\ Len(out) = Len(text) - first + 1
          /\ \A k \in 1..(Len(text) - first + 1) : out[k] = text[first + k - 1]
        BY <2>1, <2>2, <2>3, PartIs, Zenon
    <2>5. out # << >> /\ out[1] = text[first] /\ Len(out) <= Len(text)
        <3>1. 1 \in 1..(Len(text) - first + 1) /\ first + 1 - 1 = first
            BY <2>2
        <3> QED
            BY <2>2, <2>4, <3>1
    <2>6. Within(out, text, first - 1)
        <3>1. /\ first - 1 \in Nat /\ (first - 1) + Len(out) <= Len(text)
              /\ \A k \in 1..Len(out) : /\ k \in 1..(Len(text) - first + 1)
                                        /\ first + k - 1 = (first - 1) + k
            BY <2>2, <2>4
        <3> QED
            BY <2>4, <3>1, Zenon DEF Within
    <2>7. ASSUME text[1] \notin blanks PROVE out = text
        <3>1. ~(1 < first)
            BY <2>1, <2>2, <2>7, Zenon
        <3>2. first = 1
            BY <2>2, <3>1
        <3> QED
            BY <2>3, <3>2, SubSeqFull, Zenon
    <2> QED
        BY <2>1, <2>2, <2>4, <2>5, <2>6, <2>7, Zenon
<1> QED
    BY <1>3, <1>4

\* What take returns is the beginning of the text.
LEMMA Taken ==
    ASSUME NEW S, NEW text \in Seq(S), NEW n \in Nat
    PROVE  /\ Take(text, n) \in Seq(S)
           /\ Len(Take(text, n)) <= n
           /\ Within(Take(text, n), text, 0)
           /\ Len(text) <= n => Take(text, n) = text
           /\ n < Len(text) => Len(Take(text, n)) = n
<1> DEFINE m == Min({n, Len(text)})
<1>1. Len(text) \in Nat
    OBVIOUS
<1>2. /\ m \in {n, Len(text)} /\ m <= n /\ m <= Len(text) /\ m \in Nat
    <2>1. {n, Len(text)} \in SUBSET Nat /\ {n, Len(text)} # {}
        BY <1>1
    <2>2. m \in {n, Len(text)} /\ \A k \in {n, Len(text)} : m <= k
        BY <2>1, MinIsLeast, Zenon
    <2> QED
        BY <2>1, <2>2
<1>3. Take(text, n) = SubSeq(text, 1, m)
    BY Zenon DEF Take
<1> HIDE DEF m
<1>4. /\ SubSeq(text, 1, m) \in Seq(S) /\ Len(SubSeq(text, 1, m)) = m
      /\ \A k \in 1..m : SubSeq(text, 1, m)[k] = text[k]
    <2>1. 1 \in Int /\ m \in Int /\ \A i \in 1..m : text[i] \in S
        BY <1>1, <1>2
    <2>2. /\ SubSeq(text, 1, m) \in Seq(S)
          /\ Len(SubSeq(text, 1, m)) = IF 1 <= m THEN m - 1 + 1 ELSE 0
          /\ \A k \in 1..(m - 1 + 1) : SubSeq(text, 1, m)[k] = text[1 + k - 1]
        BY <2>1, SubSeqProperties
    <2>3. /\ m - 1 + 1 = m /\ (IF 1 <= m THEN m - 1 + 1 ELSE 0) = m
          /\ \A k \in 1..m : 1 + k - 1 = k
        BY <1>2
    <2> QED
        BY <2>2, <2>3, Zenon
<1>5. Within(Take(text, n), text, 0)
    <2> DEFINE part == SubSeq(text, 1, m)
    <2>1. part = Take(text, n) /\ Len(part) = m /\ \A k \in 1..m : part[k] = text[k]
        BY <1>3, <1>4, Zenon
    <2> HIDE DEF part
    <2>2. Within(part, text, 0)
        BY <1>1, <1>2, <2>1 DEF Within
    <2> QED
        BY <2>1, <2>2, Zenon
<1>6. ASSUME Len(text) <= n PROVE Take(text, n) = text
    <2>1. m = Len(text)
        BY <1>1, <1>2, <1>6
    <2> QED
        BY <1>3, <2>1, SubSeqFull, Zenon
<1>7. n < Len(text) => m = n
    BY <1>1, <1>2
<1> QED
    BY <1>2, <1>3, <1>4, <1>5, <1>6, <1>7, Zenon

\* strip_prefix takes its prefix off, once, or nothing.
LEMMA Stripped ==
    ASSUME NEW S, NEW text \in Seq(S), NEW prefix
    PROVE  /\ StripPrefix(text, prefix) \in Seq(S)
           /\ text = << >> \/ text[1] # prefix => StripPrefix(text, prefix) = text
BY DEF StripPrefix

\* A prefix put before a text is taken off.
LEMMA StripsOff ==
    ASSUME NEW S, NEW one \in Seq(S), Single(one), NEW text \in Seq(S),
           NEW whole, Joined(whole, one, text)
    PROVE  StripPrefix(whole, one[1]) = text
<1>1. /\ whole \in Seq(S) /\ Len(whole) = 1 + Len(text) /\ whole # << >>
      /\ whole[1] = one[1]
      /\ \A i \in 1..Len(text) : whole[1 + i] = text[i]
    BY JoinedOne
<1>2. Len(text) \in Nat
    BY LenProperties, Zenon
<1>3. Tail(whole) = text
    <2>1. /\ Tail(whole) \in Seq(S) /\ Len(Tail(whole)) = Len(whole) - 1
          /\ \A i \in 1..Len(Tail(whole)) : Tail(whole)[i] = whole[i + 1]
        BY <1>1, HeadTailProperties, Zenon
    <2>2. Len(Tail(whole)) = Len(text)
        BY <1>1, <1>2, <2>1
    <2>3. \A i \in 1..Len(text) : i + 1 = 1 + i
        BY <1>2
    <2>4. \A i \in 1..Len(Tail(whole)) : Tail(whole)[i] = text[i]
        BY <1>1, <2>1, <2>2, <2>3, Zenon
    <2> QED
        BY <2>1, <2>2, <2>4, SeqEqual, Zenon
<1>4. Head(whole) = one[1]
    BY <1>1
<1> QED
    BY <1>1, <1>3, <1>4, Zenon DEF StripPrefix

----------------------------------------------------------------------------
\* pick_audio_only

\* The audio variants that own a URL.
AudioOwners(lines) == {i \in Owners(lines) : lines[i] = "audio"}

\* A variant's URL is a line after it, and the first such.
LEMMA UrlIsNext ==
    ASSUME NEW lines \in Seq(Lines), NEW i \in DOMAIN lines, UrlsAfter(lines, i) # {}
    PROVE  /\ UrlOf(lines, i) \in UrlsAfter(lines, i)
           /\ UrlOf(lines, i) \in Nat /\ UrlOf(lines, i) > i
           /\ UrlOf(lines, i) \in DOMAIN lines /\ lines[UrlOf(lines, i)] = "url"
           /\ \A j \in UrlsAfter(lines, i) : UrlOf(lines, i) <= j
<1>1. i \in Nat /\ \A j \in UrlsAfter(lines, i) : j \in Nat /\ j > i
    BY DEF UrlsAfter
<1>2. UrlsAfter(lines, i) \in SUBSET Nat
    BY <1>1
<1>3. /\ UrlOf(lines, i) \in UrlsAfter(lines, i)
      /\ \A j \in UrlsAfter(lines, i) : UrlOf(lines, i) <= j
    BY <1>2, MinIsLeast DEF UrlOf
<1> QED
    BY <1>1, <1>3 DEF UrlsAfter

\* What the loop over the lines keeps, and with what it starts.
VisitState == [chosen : Nat, last : Nat, next : Nat]
Unvisited == [chosen |-> 0, last |-> 0, next |-> 1]

\* What a turn of the loop does to each of the three.
LEMMA VisitTurn ==
    ASSUME NEW lines \in Seq(Lines), NEW i \in DOMAIN lines, NEW acc \in VisitState
    PROVE  /\ VisitLine(acc, lines, i) \in VisitState
           /\ \/ /\ VisitLine(acc, lines, i) = acc
                 /\ acc.chosen # 0 \/ i < acc.next \/ i \notin WithUrl(lines)
              \/ /\ acc.chosen = 0 /\ acc.next <= i
                 /\ i \in WithUrl(lines) /\ lines[i] = "audio"
                 /\ VisitLine(acc, lines, i).chosen = UrlOf(lines, i)
                 /\ VisitLine(acc, lines, i).last = acc.last
                 /\ VisitLine(acc, lines, i).next = acc.next
              \/ /\ acc.chosen = 0 /\ acc.next <= i
                 /\ i \in WithUrl(lines) /\ lines[i] # "audio"
                 /\ VisitLine(acc, lines, i).chosen = 0
                 /\ VisitLine(acc, lines, i).last = UrlOf(lines, i)
                 /\ VisitLine(acc, lines, i).next = UrlOf(lines, i) + 1
<1> DEFINE url == UrlOf(lines, i)
           skips == acc.chosen # 0 \/ i < acc.next \/ i \notin WithUrl(lines)
<1>1. /\ acc.chosen \in Nat /\ acc.last \in Nat /\ acc.next \in Nat /\ i \in Nat
      /\ acc = [chosen |-> acc.chosen, last |-> acc.last, next |-> acc.next]
    BY DEF VisitState
<1>2. CASE skips
    <2>1. VisitLine(acc, lines, i) = acc
        BY <1>2 DEF VisitLine, WithUrl, Variants
    <2> QED
        BY <1>2, <2>1
<1>3. CASE ~skips /\ lines[i] = "audio"
    <2>1. VisitLine(acc, lines, i) = [acc EXCEPT !.chosen = url]
        BY <1>3 DEF VisitLine, WithUrl, Variants, UrlOf
    <2>2. url \in Nat
        BY <1>3, UrlIsNext DEF WithUrl
    <2>3. i \in WithUrl(lines)
        BY <1>3
    <2> HIDE DEF url
    <2>4. VisitLine(acc, lines, i) = [chosen |-> url, last |-> acc.last, next |-> acc.next]
        BY <1>1, <2>1
    <2> QED
        BY <1>1, <1>3, <2>2, <2>3, <2>4 DEF VisitState, url
<1>4. CASE ~skips /\ lines[i] # "audio"
    <2>1. VisitLine(acc, lines, i) = [acc EXCEPT !.last = url, !.next = url + 1]
        BY <1>4 DEF VisitLine, WithUrl, Variants, UrlOf
    <2>2. url \in Nat
        BY <1>4, UrlIsNext DEF WithUrl
    <2>3. i \in WithUrl(lines)
        BY <1>4
    <2> HIDE DEF url
    <2>4. VisitLine(acc, lines, i) = [chosen |-> acc.chosen, last |-> url, next |-> url + 1]
        BY <1>1, <2>1
    <2> QED
        BY <1>1, <1>4, <2>2, <2>3, <2>4 DEF VisitState, url
<1> QED
    BY <1>2, <1>3, <1>4

\* After the first i lines: what is chosen is the URL of the first audio owner;
\* until then what is kept is that of the last owner so far, and no variant so
\* far has its URL further on.
PickedInv(lines, i, acc) ==
    /\ acc \in VisitState /\ acc.next = acc.last + 1
    /\ acc.chosen # 0 =>
          \E v \in AudioOwners(lines) :
             acc.chosen = UrlOf(lines, v) /\ \A w \in AudioOwners(lines) : v <= w
    /\ acc.chosen = 0 =>
          /\ \A a \in AudioOwners(lines) : a > i
          /\ \A w \in WithUrl(lines) : w <= i => UrlOf(lines, w) <= acc.last
          /\ acc.last # 0 =>
                \E v \in Owners(lines) :
                   /\ v <= i /\ acc.last = UrlOf(lines, v)
                   /\ \A w \in Owners(lines) : w <= i => w <= v

\* The loop skips the variants that own no URL, and no others.
LEMMA OwnerVisited ==
    ASSUME NEW lines \in Seq(Lines), NEW i \in WithUrl(lines), NEW acc, acc.chosen = 0,
           PickedInv(lines, i - 1, acc)
    PROVE  /\ acc.next <= i <=> i \in Owners(lines)
           /\ i < acc.next => UrlOf(lines, i) <= acc.last
<1>1. /\ i \in DOMAIN lines /\ i \in Nat /\ i >= 1 /\ lines[i] \in StreamInf
      /\ UrlsAfter(lines, i) # {}
    BY DEF WithUrl, Variants
<1>2. acc.last \in Nat /\ acc.next = acc.last + 1
    BY DEF PickedInv, VisitState
<1>3. ASSUME acc.next <= i PROVE i \in Owners(lines)
    <2> SUFFICES ASSUME NEW v \in Variants(lines), v < i PROVE UrlOf(lines, v) < i
        BY DEF Owners
    <2>1. v \in DOMAIN lines /\ v \in Nat
        BY DEF Variants
    <2>2. UrlsAfter(lines, i) \subseteq UrlsAfter(lines, v)
        BY <1>1, <2>1 DEF UrlsAfter
    <2>3. v \in WithUrl(lines) /\ UrlOf(lines, v) \in Nat
        BY <1>1, <2>1, <2>2, UrlIsNext DEF WithUrl
    <2>4. v <= i - 1
        BY <1>1, <2>1
    <2>5. UrlOf(lines, v) <= acc.last
        BY <2>3, <2>4 DEF PickedInv
    <2> QED
        BY <1>1, <1>2, <1>3, <2>3, <2>5
<1>4. ASSUME i < acc.next
      PROVE  i \notin Owners(lines) /\ UrlOf(lines, i) <= acc.last
    <2>1. acc.last # 0
        BY <1>1, <1>2, <1>4
    <2>2. PICK v \in Owners(lines) : v <= i - 1 /\ acc.last = UrlOf(lines, v)
        BY <2>1 DEF PickedInv
    <2>3. v \in Variants(lines) /\ v \in DOMAIN lines /\ v \in Nat /\ UrlsAfter(lines, v) # {}
        BY <2>2 DEF Owners, WithUrl, Variants
    <2>4. acc.last \in DOMAIN lines /\ lines[acc.last] = "url"
        BY <2>2, <2>3, UrlIsNext
    <2>5. acc.last # i
        BY <1>1, <2>4 DEF StreamInf
    <2>6. i < acc.last /\ v < i
        BY <1>1, <1>2, <1>4, <2>2, <2>3, <2>5
    <2>7. acc.last \in UrlsAfter(lines, i)
        BY <2>4, <2>6 DEF UrlsAfter
    <2>8. UrlOf(lines, i) <= acc.last
        BY <1>1, <2>7, UrlIsNext
    <2>9. ~(UrlOf(lines, v) < i)
        BY <1>1, <1>2, <2>2, <2>6
    <2> QED
        BY <2>3, <2>6, <2>8, <2>9 DEF Owners
<1> QED
    BY <1>1, <1>2, <1>3, <1>4

\* A turn of the loop keeps the invariant.
LEMMA PickedStep ==
    ASSUME NEW lines \in Seq(Lines), NEW i \in DOMAIN lines, NEW acc,
           PickedInv(lines, i - 1, acc)
    PROVE  PickedInv(lines, i, VisitLine(acc, lines, i))
<1> DEFINE then == VisitLine(acc, lines, i)
<1>1. acc \in VisitState /\ acc.next = acc.last + 1 /\ i \in Nat /\ i >= 1
    BY DEF PickedInv
<1>2. acc.chosen \in Nat /\ acc.last \in Nat /\ acc.next \in Nat
    BY <1>1 DEF VisitState
<1>3. /\ Owners(lines) \subseteq WithUrl(lines) /\ WithUrl(lines) \subseteq Nat
      /\ AudioOwners(lines) \subseteq Owners(lines)
    BY DEF Owners, WithUrl, Variants, AudioOwners
<1>4. /\ then \in VisitState
      /\ \/ then = acc /\ (acc.chosen # 0 \/ i < acc.next \/ i \notin WithUrl(lines))
         \/ /\ acc.chosen = 0 /\ acc.next <= i
            /\ i \in WithUrl(lines) /\ lines[i] = "audio"
            /\ then.chosen = UrlOf(lines, i)
            /\ then.last = acc.last /\ then.next = acc.next
         \/ /\ acc.chosen = 0 /\ acc.next <= i
            /\ i \in WithUrl(lines) /\ lines[i] # "audio"
            /\ then.chosen = 0 /\ then.last = UrlOf(lines, i)
            /\ then.next = UrlOf(lines, i) + 1
    BY <1>1, VisitTurn
<1> SUFFICES PickedInv(lines, i, then)
    OBVIOUS
<1> HIDE DEF then
<1>5. ASSUME i \in WithUrl(lines)
      PROVE  /\ UrlOf(lines, i) \in Nat /\ UrlOf(lines, i) # 0 /\ UrlOf(lines, i) > i
    BY <1>1, <1>5, UrlIsNext DEF WithUrl
<1>6. ASSUME acc.chosen = 0
      PROVE  /\ \A a \in AudioOwners(lines) : a > i - 1
             /\ \A w \in WithUrl(lines) : w <= i - 1 => UrlOf(lines, w) <= acc.last
             /\ acc.last # 0 =>
                   \E v \in Owners(lines) :
                      /\ v <= i - 1 /\ acc.last = UrlOf(lines, v)
                      /\ \A w \in Owners(lines) : w <= i - 1 => w <= v
    BY <1>6 DEF PickedInv
<1>7. CASE then = acc /\ acc.chosen # 0
    BY <1>7 DEF PickedInv
<1>8. CASE then = acc /\ acc.chosen = 0 /\ (i < acc.next \/ i \notin WithUrl(lines))
    <2>1. i \notin Owners(lines) /\ (i \in WithUrl(lines) => UrlOf(lines, i) <= acc.last)
        <3>1. CASE i \notin WithUrl(lines)
            BY <1>3, <3>1
        <3>2. CASE i \in WithUrl(lines)
            BY <1>1, <1>2, <1>8, <3>2, OwnerVisited
        <3> QED
            BY <3>1, <3>2
    <2>2. \A w \in Owners(lines) : (w <= i <=> w <= i - 1) /\ (w > i <=> w > i - 1)
        BY <1>1, <1>3, <2>1
    <2>3. \A a \in AudioOwners(lines) : a > i
        BY <1>3, <1>6, <1>8, <2>2
    <2>4. \A w \in WithUrl(lines) : w <= i => UrlOf(lines, w) <= acc.last
        <3> SUFFICES ASSUME NEW w \in WithUrl(lines), w <= i
                     PROVE  UrlOf(lines, w) <= acc.last
            OBVIOUS
        <3>1. CASE w = i
            BY <2>1, <3>1
        <3>2. CASE w # i
            <4>1. w <= i - 1
                BY <1>1, <1>3, <3>2
            <4> QED
                BY <1>6, <1>8, <4>1
        <3> QED
            BY <3>1, <3>2
    <2>5. acc.last # 0 =>
              \E v \in Owners(lines) :
                 /\ v <= i /\ acc.last = UrlOf(lines, v)
                 /\ \A w \in Owners(lines) : w <= i => w <= v
        BY <1>6, <1>8, <2>2, Zenon
    <2> QED
        BY <1>1, <1>8, <2>3, <2>4, <2>5 DEF PickedInv
<1>9. CASE /\ acc.chosen = 0 /\ acc.next <= i
           /\ i \in WithUrl(lines) /\ lines[i] = "audio"
           /\ then.chosen = UrlOf(lines, i)
           /\ then.last = acc.last /\ then.next = acc.next
    <2>1. i \in AudioOwners(lines)
        BY <1>9, OwnerVisited DEF AudioOwners
    <2>2. \A w \in AudioOwners(lines) : i <= w
        BY <1>1, <1>3, <1>6, <1>9
    <2>3. then.chosen # 0 /\ then.next = then.last + 1
        BY <1>1, <1>5, <1>9
    <2> QED
        BY <1>4, <1>9, <2>1, <2>2, <2>3 DEF PickedInv
<1>10. CASE /\ acc.chosen = 0 /\ acc.next <= i
            /\ i \in WithUrl(lines) /\ lines[i] # "audio"
            /\ then.chosen = 0 /\ then.last = UrlOf(lines, i)
            /\ then.next = UrlOf(lines, i) + 1
    <2>1. i \in Owners(lines) /\ i \notin AudioOwners(lines)
        BY <1>10, OwnerVisited DEF AudioOwners
    <2>2. \A a \in AudioOwners(lines) : a > i
        BY <1>1, <1>3, <1>6, <1>10, <2>1
    <2>3. \A w \in WithUrl(lines) : w <= i => UrlOf(lines, w) <= then.last
        <3> SUFFICES ASSUME NEW w \in WithUrl(lines), w <= i
                     PROVE  UrlOf(lines, w) <= UrlOf(lines, i)
            BY <1>10
        <3>1. w \in DOMAIN lines /\ w \in Nat /\ UrlsAfter(lines, w) # {}
            BY <1>3 DEF WithUrl, Variants
        <3>2. UrlOf(lines, w) \in Nat
            BY <3>1, UrlIsNext
        <3>3. CASE w = i
            BY <3>2, <3>3
        <3>4. CASE w # i
            <4>1. w <= i - 1
                BY <1>1, <3>1, <3>4
            <4>2. UrlOf(lines, w) <= acc.last
                BY <1>6, <1>10, <4>1
            <4> QED
                BY <1>1, <1>2, <1>5, <1>10, <3>2, <4>2
        <3> QED
            BY <3>3, <3>4
    <2>4. i <= i
        BY <1>1
    <2>5. \E v \in Owners(lines) :
             /\ v <= i /\ then.last = UrlOf(lines, v)
             /\ \A w \in Owners(lines) : w <= i => w <= v
        BY <1>10, <2>1, <2>4
    <2>6. then.next = then.last + 1
        BY <1>10
    <2> QED
        BY <1>4, <1>10, <2>2, <2>3, <2>5, <2>6 DEF PickedInv
<1> QED
    BY <1>4, <1>7, <1>8, <1>9, <1>10

\* What the loop returns is what a run of its turns ends with.
LEMMA VisitingLines ==
    ASSUME NEW lines \in Seq(Lines)
    PROVE  \E h : /\ h[0] = Unvisited
                  /\ \A i \in 1..Len(lines) : h[i] = VisitLine(h[i - 1], lines, i)
                  /\ PickAudioOnly(lines) = IF h[Len(lines)].chosen # 0
                                            THEN h[Len(lines)].chosen ELSE h[Len(lines)].last
<1> DEFINE n == Len(lines)
           step == [p \in VisitState \X (1..n) |-> VisitLine(p[1], lines, p[2])]
           At(g, i) == IF i = 0 THEN Unvisited ELSE VisitLine(g[i - 1], lines, i)
           Def(g) == [i \in 0..n |-> At(g, i)]
           h == CHOOSE g : g = Def(g)
<1>1. n \in Nat /\ DOMAIN lines = 1..n
    OBVIOUS
<1>2. Unvisited \in VisitState
    BY DEF Unvisited, VisitState
<1>3. step \in [VisitState \X (1..n) -> VisitState]
    BY <1>1, VisitTurn
<1>4. \A acc \in VisitState, i \in 1..n : step[<<acc, i>>] = VisitLine(acc, lines, i)
    OBVIOUS
<1> HIDE DEF step, n
<1>5. PICK f : Loops(f, n, VisitState, Unvisited, step)
    BY <1>1, <1>2, <1>3, LoopExists
<1>6. f \in [0..n -> VisitState] /\ f[0] = Unvisited
    BY <1>5 DEF Loops
<1>7. ASSUME NEW i \in 0..n PROVE f[i] = At(f, i)
    <2>1. CASE i = 0
        BY <1>6, <2>1
    <2>2. CASE i # 0
        <3>1. i \in 1..n /\ i - 1 \in 0..n /\ f[i] = step[<<f[i - 1], i>>]
            BY <1>1, <1>5, <2>2 DEF Loops
        <3> QED
            BY <1>4, <1>6, <2>2, <3>1
    <2> QED
        BY <2>1, <2>2
<1>8. f = Def(f)
    <2> HIDE DEF At
    <2> QED
        BY <1>6, <1>7
<1>9. h = Def(h)
    BY <1>8, Zenon
<1>10. PickAudioOnly(lines) = IF h[n].chosen # 0 THEN h[n].chosen ELSE h[n].last
    BY DEF PickAudioOnly, Unvisited, n
<1> HIDE DEF h
<1>11. \A i \in 0..n : h[i] = At(h, i)
    <2>1. \A i \in 0..n : Def(h)[i] = At(h, i)
        BY Zenon
    <2> HIDE DEF Def, At
    <2> QED
        BY <1>9, <2>1, Zenon
<1>12. h[0] = Unvisited /\ \A i \in 1..n : h[i] = VisitLine(h[i - 1], lines, i)
    BY <1>1, <1>11
<1> QED
    BY <1>10, <1>12, Zenon DEF n

\* In any playlist the loop ends with the right line.
LEMMA PlaylistPicked ==
    ASSUME NEW lines \in Seq(Lines)
    PROVE  PicksRight(lines, PickAudioOnly(lines))
<1> DEFINE n == Len(lines)
           out == PickAudioOnly(lines)
<1>1. n \in Nat /\ DOMAIN lines = 1..n
    OBVIOUS
<1>2. PICK h : /\ h[0] = Unvisited
               /\ \A i \in 1..n : h[i] = VisitLine(h[i - 1], lines, i)
               /\ out = IF h[n].chosen # 0 THEN h[n].chosen ELSE h[n].last
    BY VisitingLines
<1> HIDE DEF n, out
<1> DEFINE S == {i \in Nat : i <= n => PickedInv(lines, i, h[i])}
<1>3. /\ Owners(lines) \subseteq WithUrl(lines) /\ WithUrl(lines) \subseteq 1..n
      /\ AudioOwners(lines) \subseteq Owners(lines)
    BY <1>1 DEF Owners, WithUrl, Variants, AudioOwners
<1>4. 0 \in S
    <2>1. h[0] \in VisitState /\ h[0].chosen = 0 /\ h[0].last = 0 /\ h[0].next = 1
        BY <1>2 DEF Unvisited, VisitState
    <2>2. \A v \in WithUrl(lines) : v > 0 /\ ~(v <= 0)
        BY <1>1, <1>3
    <2> QED
        BY <1>3, <2>1, <2>2 DEF PickedInv
<1>5. ASSUME NEW i \in Nat, i \in S PROVE i + 1 \in S
    <2> SUFFICES ASSUME i + 1 <= n PROVE PickedInv(lines, i + 1, h[i + 1])
        OBVIOUS
    <2>1. i + 1 \in 1..n /\ (i + 1) - 1 = i
        BY <1>1
    <2>2. PickedInv(lines, i, h[i])
        BY <1>1, <1>5
    <2>3. h[i + 1] = VisitLine(h[i], lines, i + 1)
        BY <1>2, <2>1, Zenon
    <2>4. PickedInv(lines, i + 1, VisitLine(h[i], lines, i + 1))
        BY <1>1, <2>1, <2>2, PickedStep
    <2> QED
        BY <2>3, <2>4, Zenon
<1>6. PickedInv(lines, n, h[n])
    <2> HIDE DEF S
    <2>1. Nat \subseteq S
        BY <1>4, <1>5, SetInduction
    <2>2. n \in S
        BY <1>1, <2>1
    <2> QED
        BY <1>1, <2>2 DEF S
<1> HIDE DEF S
<1> DEFINE acc == h[n]
<1>7. CASE acc.chosen # 0
    <2>1. PICK v \in AudioOwners(lines) :
              acc.chosen = UrlOf(lines, v) /\ \A w \in AudioOwners(lines) : v <= w
        BY <1>6, <1>7 DEF PickedInv
    <2>2. AudioOwners(lines) \in SUBSET Nat /\ AudioOwners(lines) # {}
        BY <1>1, <1>3, <2>1
    <2>3. /\ Min(AudioOwners(lines)) \in AudioOwners(lines)
          /\ \A w \in AudioOwners(lines) : Min(AudioOwners(lines)) <= w
        BY <2>2, MinIsLeast
    <2>4. Min(AudioOwners(lines)) = v
        <3>1. Min(AudioOwners(lines)) \in Nat /\ v \in Nat
            BY <2>1, <2>2, <2>3
        <3>2. Min(AudioOwners(lines)) <= v /\ v <= Min(AudioOwners(lines))
            BY <2>1, <2>3
        <3> QED
            BY <3>1, <3>2
    <2>5. Owners(lines) # {} /\ out = UrlOf(lines, Min(AudioOwners(lines)))
        BY <1>2, <1>3, <1>7, <2>1, <2>4
    <2> QED
        BY <2>2, <2>5, Zenon DEF PicksRight, AudioOwners, out
<1>8. CASE acc.chosen = 0
    <2>1. out = acc.last /\ acc.last \in Nat
        BY <1>2, <1>6, <1>8 DEF PickedInv, VisitState
    <2>2. /\ \A a \in AudioOwners(lines) : a > n
          /\ \A w \in WithUrl(lines) : w <= n => UrlOf(lines, w) <= acc.last
          /\ acc.last # 0 =>
                \E v \in Owners(lines) :
                   /\ v <= n /\ acc.last = UrlOf(lines, v)
                   /\ \A w \in Owners(lines) : w <= n => w <= v
        BY <1>6, <1>8 DEF PickedInv
    <2>3. AudioOwners(lines) = {}
        BY <1>1, <1>3, <2>2
    <2>4. CASE acc.last = 0
        <3>1. ASSUME NEW w \in Owners(lines) PROVE FALSE
            <4>1. /\ w \in WithUrl(lines) /\ w \in DOMAIN lines /\ w \in Nat
                  /\ UrlsAfter(lines, w) # {}
                BY <1>3 DEF WithUrl, Variants
            <4>2. UrlOf(lines, w) \in Nat /\ UrlOf(lines, w) > w
                BY <4>1, UrlIsNext
            <4>3. UrlOf(lines, w) <= acc.last
                BY <1>1, <1>3, <2>2, <4>1
            <4> QED
                BY <2>4, <4>1, <4>2, <4>3
        <3> QED
            BY <2>1, <2>4, <3>1, Zenon DEF PicksRight, out
    <2>5. CASE acc.last # 0
        <3>1. PICK v \in Owners(lines) :
                  /\ acc.last = UrlOf(lines, v)
                  /\ \A w \in Owners(lines) : w <= n => w <= v
            BY <2>2, <2>5
        <3>2. Owners(lines) \in SUBSET (0..n) /\ Owners(lines) # {}
            BY <1>1, <1>3, <3>1
        <3>3. /\ Max(Owners(lines)) \in Owners(lines)
              /\ \A w \in Owners(lines) : w <= Max(Owners(lines))
            BY <1>1, <3>2, MaxIsGreatest
        <3>4. Max(Owners(lines)) = v
            <4>1. Max(Owners(lines)) \in Nat /\ v \in Nat /\ Max(Owners(lines)) <= n
                BY <1>1, <3>1, <3>2, <3>3
            <4>2. Max(Owners(lines)) <= v /\ v <= Max(Owners(lines))
                BY <3>1, <3>3, <4>1
            <4> QED
                BY <4>1, <4>2
        <3>5. out = UrlOf(lines, Max(Owners(lines)))
            BY <2>1, <3>1, <3>4
        <3> QED
            BY <2>3, <3>2, <3>5, Zenon DEF PicksRight, AudioOwners, out
    <2> QED
        BY <2>4, <2>5
<1> QED
    BY <1>7, <1>8 DEF out

----------------------------------------------------------------------------
\* parse_insight

\* An interval of natural numbers grows by its end, and is finite.
LEMMA IntervalGrows ==
    ASSUME NEW i \in Nat, NEW j \in Nat, i < j
    PROVE  /\ i..j = (i..(j - 1)) \cup {j} /\ IsFiniteSet(i..j)
           /\ j - 1 \in i..(j - 1)
<1>1. i \in Int /\ j \in Int
    OBVIOUS
<1>2. IsFiniteSet(i..j)
    BY <1>1, FS_Interval
<1> QED
    BY <1>2

\* The numbers of the elements of a finite set and of a part of it.
LEMMA PartIsSmaller ==
    ASSUME NEW whole, IsFiniteSet(whole), NEW part \in SUBSET whole
    PROVE  /\ Cardinality(part) \in Nat /\ Cardinality(whole) \in Nat
           /\ Cardinality(part) <= Cardinality(whole)
BY FS_Subset, FS_CardinalityType

\* The same number is taken off the higher and the lower of two.
LEMMA LessTaken ==
    ASSUME NEW high \in Nat, NEW low \in Nat, NEW same \in Nat, low <= high
    PROVE  high - same \in Int /\ low - same \in Int /\ high - same >= low - same
OBVIOUS

\* A number that is not below a positive one is not zero.
LEMMA StillPositive ==
    ASSUME NEW high \in Int, NEW low \in Int, high >= low, low > 0
    PROVE  high # 0
OBVIOUS

\* The depth is a number, and does not fall but at a closing brace.
LEMMA DepthFalls ==
    ASSUME NEW content, NEW i \in Nat, NEW j \in Nat, i < j, content[j] # "}"
    PROVE  /\ Depth(content, i, j) \in Int /\ Depth(content, i, j - 1) \in Int
           /\ Depth(content, i, j) >= Depth(content, i, j - 1)
<1> DEFINE opened(k) == {m \in i..k : content[m] = "{"}
           closed(k) == {m \in i..k : content[m] = "}"}
<1>1. /\ Depth(content, i, j) = Cardinality(opened(j)) - Cardinality(closed(j))
      /\ Depth(content, i, j - 1) = Cardinality(opened(j - 1)) - Cardinality(closed(j - 1))
    BY DEF Depth, Quantify
<1>2. i..j = (i..(j - 1)) \cup {j} /\ IsFiniteSet(i..j)
    BY IntervalGrows, Zenon
<1>3. closed(j) = closed(j - 1)
    BY <1>2, Zenon
<1>4. opened(j - 1) \subseteq opened(j) /\ opened(j) \subseteq i..j /\ closed(j) \subseteq i..j
    BY <1>2, Zenon
<1>5. IsFiniteSet(opened(j))
    BY <1>2, <1>4, FS_Subset, Zenon
<1>6. /\ Cardinality(opened(j)) \in Nat /\ Cardinality(opened(j - 1)) \in Nat
      /\ Cardinality(closed(j)) \in Nat
      /\ Cardinality(opened(j - 1)) <= Cardinality(opened(j))
    BY <1>2, <1>4, <1>5, PartIsSmaller, Zenon
<1> QED
    BY <1>1, <1>3, <1>6, LessTaken, Zenon

\* A balanced object ends with a closing brace, so the last one of the text is
\* there or after it.
LEMMA SliceExtracted ==
    ASSUME NEW chars, NEW content \in Seq(chars)
    PROVE  Extracted(content, ParseSlice(content))
<1> DEFINE opens == {i \in DOMAIN content : content[i] = "{"}
           closes == {i \in DOMAIN content : content[i] = "}"}
           first == Min(opens)
           final == Max(closes)
           balanced == {j \in DOMAIN content : j > first /\ Balanced(content, first, j)}
           end == Min(balanced)
           out == ParseSlice(content)
<1>1. /\ Len(content) \in Nat /\ DOMAIN content = 1..Len(content)
      /\ opens \in SUBSET Nat /\ balanced \in SUBSET Nat /\ closes \in SUBSET (0..Len(content))
    <2>1. Len(content) \in Nat /\ DOMAIN content = 1..Len(content)
        OBVIOUS
    <2>2. DOMAIN content \subseteq Nat /\ DOMAIN content \subseteq 0..Len(content)
        BY <2>1
    <2> HIDE DEF first
    <2> QED
        BY <2>1, <2>2, Zenon
<1> SUFFICES ASSUME opens # {}, balanced # {}
             PROVE  /\ out # << >> /\ out[1] = first /\ out[2] >= end
                    /\ (\A k \in (end + 1)..Len(content) : content[k] # "}")
                          => out = <<first, end>>
    BY DEF Extracted
<1>2. first \in opens /\ first \in Nat
    <2> HIDE DEF opens
    <2> QED
        BY <1>1, MinIsLeast
<1>3. end \in balanced
    <2> HIDE DEF balanced
    <2> QED
        BY <1>1, MinIsLeast
<1> HIDE DEF first, end
<1>4. /\ end \in DOMAIN content /\ end \in Nat /\ end > first /\ first < end
      /\ Depth(content, first, end) = 0
      /\ \A k \in first..(end - 1) : Depth(content, first, k) > 0
    BY <1>1, <1>3 DEF Balanced
<1>5. content[end] = "}"
    <2> SUFFICES ASSUME content[end] # "}" PROVE FALSE
        OBVIOUS
    <2>1. /\ Depth(content, first, end) \in Int /\ Depth(content, first, end - 1) \in Int
          /\ Depth(content, first, end) >= Depth(content, first, end - 1)
        BY <1>2, <1>4, DepthFalls, Zenon
    <2>2. end - 1 \in first..(end - 1)
        BY <1>2, <1>4, IntervalGrows, Zenon
    <2> QED
        BY <1>4, <2>1, <2>2, StillPositive, Zenon
<1>6. end \in closes
    BY <1>4, <1>5
<1>7. final \in closes /\ \A k \in closes : k <= final
    <2> HIDE DEF closes
    <2> QED
        BY <1>1, <1>6, MaxIsGreatest
<1> HIDE DEF final
<1>8. content[final] = "}"
    BY <1>7, Zenon
<1>9. /\ final \in Nat /\ first <= final /\ end <= final
      /\ final = end \/ final \in (end + 1)..Len(content)
    <2>1. final \in 1..Len(content) /\ end <= final
        BY <1>1, <1>6, <1>7, Zenon
    <2>2. first \in Nat /\ end \in Nat /\ first < end /\ Len(content) \in Nat
        BY <1>1, <1>2, <1>4, Zenon
    <2> HIDE DEF opens, closes, balanced, out
    <2> QED
        BY <2>1, <2>2
<1>10. out = <<first, final>>
    <2>1. ~(final < first)
        <3>1. first \in Nat /\ final \in Nat /\ first <= final
            BY <1>2, <1>9, Zenon
        <3> HIDE DEF opens, closes, balanced, out
        <3> QED
            BY <3>1
    <2> QED
        BY <1>2, <1>6, <2>1, Zenon DEF ParseSlice, first, final
<1>11. (\A k \in (end + 1)..Len(content) : content[k] # "}") => final = end
    BY <1>8, <1>9, Zenon
<1>12. out # << >> /\ out[1] = first /\ out[2] >= end
    <2>1. /\ <<first, final>> # << >>
          /\ <<first, final>>[1] = first /\ <<first, final>>[2] = final
        OBVIOUS
    <2> QED
        BY <1>9, <1>10, <2>1, Zenon
<1> HIDE DEF out
<1> QED
    BY <1>10, <1>11, <1>12, Zenon

----------------------------------------------------------------------------
\* from_env

\* The values of the settings, those the process may give, and the lines of
\* the file that name a key.
Settings == {Unset, Blank, Bad, "a", "b", "c"}
Processes == [Keys -> {Unset, Blank, "a"}]
Naming(file, key) == {i \in DOMAIN file : file[i].key = key}

\* A line of the file names a variable with a value it can be set to, or none.
LEMMA LineNames ==
    ASSUME NEW line \in FileLines
    PROVE  /\ line.key \in Keys =>
                  line = [key |-> line.key, value |-> line.value]
                  /\ line.value \in Settings \ {Unset}
           /\ line = Skipped \/ line = Nameless => line.key \notin Keys
<1>1. Keys = {"TWITCH_CHANNEL", "STREAM_POLL_SECS", "STT_MODEL", "TWITCH_BOT_USERNAME"}
    BY DEF Keys, Kind
<1>2. Skipped.key \notin Keys /\ Nameless.key \notin Keys
    BY <1>1 DEF Skipped, Nameless
<1>3. ASSUME line \in [key : Keys, value : {Blank, Bad, "b", "c"}]
      PROVE  line.value \in Settings \ {Unset}
             /\ line = [key |-> line.key, value |-> line.value]
    BY <1>3 DEF Settings, Unset, Blank, Bad
<1> QED
    BY <1>2, <1>3 DEF FileLines

\* A turn of the loop leaves a variable, or sets one that was not set.
LEMMA LoadTurn ==
    ASSUME NEW env \in [Keys -> Settings], NEW line \in FileLines
    PROVE  /\ LoadLine(env, line) \in [Keys -> Settings]
           /\ \A k \in Keys :
                 LoadLine(env, line)[k] = IF line.key = k /\ env[k] = Unset THEN line.value
                                          ELSE env[k]
<1>1. line.key \in Keys => line.value \in Settings
    BY LineNames
<1>2. CASE line.key \in Keys /\ env[line.key] = Unset
    <2>1. LoadLine(env, line) = [env EXCEPT ![line.key] = line.value]
        BY <1>2 DEF LoadLine
    <2> QED
        BY <1>1, <1>2, <2>1
<1>3. CASE ~(line.key \in Keys /\ env[line.key] = Unset)
    <2>1. LoadLine(env, line) = env
        BY <1>3 DEF LoadLine
    <2> QED
        BY <1>3, <2>1
<1> QED
    BY <1>2, <1>3

\* The loop of load_dotenv has a run, and it ends with what is returned.
LEMMA LoadingLines ==
    ASSUME NEW env \in [Keys -> Settings], NEW file \in Seq(FileLines)
    PROVE  \E h : /\ h[0] = env
                  /\ \A i \in 1..Len(file) : h[i] = LoadLine(h[i - 1], file[i])
                  /\ LoadDotenv(env, file) = h[Len(file)]
<1> DEFINE n == Len(file)
           T == [Keys -> Settings]
           step == [p \in T \X (1..n) |-> LoadLine(p[1], file[p[2]])]
           At(g, i) == IF i = 0 THEN env ELSE LoadLine(g[i - 1], file[i])
           Def(g) == [i \in 0..n |-> At(g, i)]
           h == CHOOSE g : g = Def(g)
<1>1. n \in Nat /\ \A i \in 1..n : file[i] \in FileLines
    OBVIOUS
<1>2. ASSUME NEW p \in T \X (1..n) PROVE LoadLine(p[1], file[p[2]]) \in T
    <2>1. p[1] \in T /\ file[p[2]] \in FileLines
        BY <1>1
    <2> QED
        BY <2>1, LoadTurn, Zenon
<1>3. step \in [T \X (1..n) -> T]
    BY <1>2, Zenon
<1>4. \A acc \in T, i \in 1..n : step[<<acc, i>>] = LoadLine(acc, file[i])
    OBVIOUS
<1>5. env \in T
    OBVIOUS
<1> HIDE DEF step, n, T
<1>6. PICK f : Loops(f, n, T, env, step)
    BY <1>1, <1>3, <1>5, LoopExists
<1>7. f \in [0..n -> T] /\ f[0] = env
    BY <1>6 DEF Loops
<1>8. ASSUME NEW i \in 0..n PROVE f[i] = At(f, i)
    <2>1. CASE i = 0
        BY <1>7, <2>1
    <2>2. CASE i # 0
        <3>1. i \in 1..n /\ i - 1 \in 0..n /\ f[i] = step[<<f[i - 1], i>>]
            BY <1>1, <1>6, <2>2 DEF Loops
        <3>2. f[i - 1] \in T
            BY <1>7, <3>1
        <3> QED
            BY <1>4, <2>2, <3>1, <3>2, Zenon
    <2> QED
        BY <2>1, <2>2
<1>9. f = Def(f)
    <2> HIDE DEF At
    <2> QED
        BY <1>7, <1>8
<1>10. h = Def(h)
    BY <1>9, Zenon
<1>11. LoadDotenv(env, file) = h[n]
    BY DEF LoadDotenv, n
<1> HIDE DEF h
<1>12. \A i \in 0..n : h[i] = At(h, i)
    <2>1. \A i \in 0..n : Def(h)[i] = At(h, i)
        BY Zenon
    <2> HIDE DEF Def, At
    <2> QED
        BY <1>10, <2>1, Zenon
<1>13. h[0] = env /\ \A i \in 1..n : h[i] = LoadLine(h[i - 1], file[i])
    <2>1. 0 \in 0..n /\ \A i \in 1..n : i \in 0..n /\ i # 0
        BY <1>1
    <2> QED
        BY <1>12, <2>1, Zenon
<1> QED
    BY <1>11, <1>13, Zenon DEF n

\* After the first i lines a variable is what the process has, else what the
\* first of them that names it says, else unset.
LoadedInv(process, file, i, env) ==
    /\ env \in [Keys -> Settings]
    /\ \A k \in Keys :
          IF process[k] # Unset THEN env[k] = process[k]
          ELSE \/ env[k] = Unset /\ \A m \in Naming(file, k) : m > i
               \/ /\ env[k] # Unset
                  /\ \E m \in Naming(file, k) :
                        /\ m <= i /\ env[k] = file[m].value
                        /\ \A l \in Naming(file, k) : m <= l

\* A turn of the loop keeps that.
LEMMA LoadedStep ==
    ASSUME NEW process \in Processes, NEW file \in Seq(FileLines),
           NEW i \in DOMAIN file, NEW env, LoadedInv(process, file, i - 1, env)
    PROVE  LoadedInv(process, file, i, LoadLine(env, file[i]))
<1> DEFINE then == LoadLine(env, file[i])
           line == file[i]
<1>1. /\ env \in [Keys -> Settings] /\ line \in FileLines /\ i \in Nat
      /\ \A k \in Keys : Naming(file, k) \in SUBSET Nat
    BY DEF LoadedInv, Naming
<1>2. /\ then \in [Keys -> Settings]
      /\ \A k \in Keys : then[k] = IF line.key = k /\ env[k] = Unset THEN line.value
                                   ELSE env[k]
    BY <1>1, LoadTurn, Zenon
<1> SUFFICES LoadedInv(process, file, i, then)
    OBVIOUS
<1> HIDE DEF then
<1>3. ASSUME NEW k \in Keys
      PROVE  IF process[k] # Unset THEN then[k] = process[k]
             ELSE \/ then[k] = Unset /\ \A m \in Naming(file, k) : m > i
                  \/ /\ then[k] # Unset
                     /\ \E m \in Naming(file, k) :
                           /\ m <= i /\ then[k] = file[m].value
                           /\ \A l \in Naming(file, k) : m <= l
    <2> DEFINE names == Naming(file, k)
    <2>1. i \in names <=> line.key = k
        BY DEF Naming
    <2>2. names \in SUBSET Nat
        BY <1>1
    <2>3. then[k] = IF line.key = k /\ env[k] = Unset THEN line.value ELSE env[k]
        BY <1>2
    <2>4. IF process[k] # Unset THEN env[k] = process[k]
          ELSE \/ env[k] = Unset /\ \A m \in names : m > i - 1
               \/ /\ env[k] # Unset
                  /\ \E m \in names :
                        /\ m <= i - 1 /\ env[k] = file[m].value
                        /\ \A l \in names : m <= l
        BY DEF LoadedInv
    <2> SUFFICES IF process[k] # Unset THEN then[k] = process[k]
                 ELSE \/ then[k] = Unset /\ \A m \in names : m > i
                      \/ /\ then[k] # Unset
                         /\ \E m \in names :
                               /\ m <= i /\ then[k] = file[m].value
                               /\ \A l \in names : m <= l
        OBVIOUS
    <2> HIDE DEF names
    <2>5. CASE process[k] # Unset
        BY <2>3, <2>4, <2>5, Zenon
    <2>6. CASE process[k] = Unset /\ env[k] # Unset
        <3>1. PICK m \in names : /\ m <= i - 1 /\ env[k] = file[m].value
                                 /\ \A l \in names : m <= l
            BY <2>4, <2>6, Zenon
        <3>2. m <= i
            BY <1>1, <2>2, <3>1
        <3> QED
            BY <2>3, <2>6, <3>1, <3>2, Zenon
    <2>7. CASE process[k] = Unset /\ env[k] = Unset /\ line.key # k
        <3>1. \A m \in names : m > i
            <4>1. \A m \in names : m > i - 1 /\ m # i /\ m \in Nat
                BY <2>1, <2>2, <2>4, <2>7, Zenon
            <4> HIDE DEF line
            <4> QED
                BY <1>1, <4>1
        <3> QED
            BY <2>3, <2>7, <3>1, Zenon
    <2>8. CASE process[k] = Unset /\ env[k] = Unset /\ line.key = k
        <3>1. \A m \in names : m > i - 1 /\ m \in Nat
            BY <2>2, <2>4, <2>8, Zenon
        <3>2. i <= i /\ \A m \in names : i <= m
            BY <1>1, <3>1
        <3>3. line.value # Unset
            BY <1>1, <2>8, LineNames, Zenon
        <3> QED
            BY <2>1, <2>3, <2>8, <3>2, <3>3, Zenon
    <2> QED
        BY <2>5, <2>6, <2>7, <2>8
<1> QED
    BY <1>2, <1>3 DEF LoadedInv


\* The environment that is read is what is set, by the process or the file.
LEMMA GivenLoaded ==
    ASSUME NEW process \in Processes, NEW file \in Seq(FileLines)
    PROVE  /\ LoadDotenv(process, file) \in [Keys -> Settings]
           /\ \A k \in Keys : LoadDotenv(process, file)[k] = Given(process, file, k)
<1> DEFINE n == Len(file)
           loaded == LoadDotenv(process, file)
<1>1. n \in Nat /\ DOMAIN file = 1..n
    OBVIOUS
<1>2. process \in [Keys -> Settings]
    BY DEF Processes, Settings
<1>3. PICK h : /\ h[0] = process
               /\ \A i \in 1..n : h[i] = LoadLine(h[i - 1], file[i])
               /\ loaded = h[n]
    BY <1>2, LoadingLines
<1> HIDE DEF n, loaded
<1> DEFINE S == {i \in Nat : i <= n => LoadedInv(process, file, i, h[i])}
<1>4. \A k \in Keys : Naming(file, k) \in SUBSET (1..n)
    BY <1>1 DEF Naming
<1>5. 0 \in S
    <2>1. \A k \in Keys : \A m \in Naming(file, k) : m > 0
        BY <1>1, <1>4
    <2>2. LoadedInv(process, file, 0, process)
        BY <1>2, <2>1 DEF LoadedInv
    <2> QED
        BY <1>3, <2>2, Zenon
<1>6. ASSUME NEW i \in Nat, i \in S PROVE i + 1 \in S
    <2> SUFFICES ASSUME i + 1 <= n PROVE LoadedInv(process, file, i + 1, h[i + 1])
        OBVIOUS
    <2>1. i + 1 \in 1..n /\ (i + 1) - 1 = i /\ i <= n
        BY <1>1
    <2>2. LoadedInv(process, file, i, h[i])
        BY <1>6, <2>1, Zenon
    <2>3. h[i + 1] = LoadLine(h[i], file[i + 1])
        BY <1>3, <2>1, Zenon
    <2>4. LoadedInv(process, file, i + 1, LoadLine(h[i], file[i + 1]))
        BY <1>1, <2>1, <2>2, LoadedStep, Zenon
    <2> QED
        BY <2>3, <2>4, Zenon
<1>7. LoadedInv(process, file, n, loaded)
    <2>1. Nat \subseteq S
        <3> HIDE DEF S
        <3> QED
            BY <1>5, <1>6, SetInduction
    <2>2. n \in S /\ n <= n
        BY <1>1, <2>1
    <2> QED
        BY <1>3, <2>2, Zenon
<1> HIDE DEF S
<1>8. ASSUME NEW k \in Keys PROVE loaded[k] = Given(process, file, k)
    <2> DEFINE names == Naming(file, k)
    <2>1. Given(process, file, k) = IF process[k] # Unset THEN process[k]
                                    ELSE IF names # {} THEN file[Min(names)].value
                                    ELSE Unset
        BY DEF Given, Naming
    <2>2. names \in SUBSET Nat /\ \A m \in names : ~(m > n)
        BY <1>1, <1>4
    <2>3. IF process[k] # Unset THEN loaded[k] = process[k]
          ELSE \/ loaded[k] = Unset /\ \A m \in names : m > n
               \/ /\ loaded[k] # Unset
                  /\ \E m \in names :
                        /\ m <= n /\ loaded[k] = file[m].value
                        /\ \A l \in names : m <= l
        BY <1>7 DEF LoadedInv
    <2> HIDE DEF names
    <2>4. ASSUME NEW m \in names, \A l \in names : m <= l PROVE Min(names) = m
        <3>1. Min(names) \in names /\ \A l \in names : Min(names) <= l
            BY <2>2, <2>4, MinIsLeast
        <3>2. m \in Nat /\ Min(names) \in Nat /\ m <= Min(names) /\ Min(names) <= m
            BY <2>2, <2>4, <3>1, Zenon
        <3> QED
            BY <3>2
    <2>5. CASE process[k] # Unset
        BY <2>1, <2>3, <2>5, Zenon
    <2>6. CASE process[k] = Unset /\ \A m \in names : m > n
        <3>1. names = {}
            BY <2>2, <2>6, Zenon
        <3> QED
            BY <2>1, <2>3, <2>6, <3>1, Zenon
    <2>7. CASE process[k] = Unset /\ ~(\A m \in names : m > n)
        <3>1. PICK m \in names : loaded[k] = file[m].value /\ \A l \in names : m <= l
            BY <2>3, <2>7, Zenon
        <3>2. Min(names) = m /\ names # {}
            BY <2>4, <3>1, Zenon
        <3> QED
            BY <2>1, <2>7, <3>1, <3>2, Zenon
    <2> QED
        BY <2>5, <2>6, <2>7, Zenon
<1>9. loaded \in [Keys -> Settings]
    BY <1>7 DEF LoadedInv
<1> QED
    BY <1>8, <1>9 DEF loaded

\* The environment is read as documented, or the program does not start.
LEMMA EnvConfigured ==
    ASSUME NEW process \in Processes, NEW file \in Seq(FileLines)
    PROVE  Configured(process, file, FromEnv(process, file))
<1> DEFINE env == LoadDotenv(process, file)
           out == FromEnv(process, file)
           given == [k \in Keys |-> Given(process, file, k)]
           failing == {i \in DOMAIN Order : Fails(Kind[Order[i]], env[Order[i]])}
<1>1. Keys = {"TWITCH_CHANNEL", "STREAM_POLL_SECS", "STT_MODEL", "TWITCH_BOT_USERNAME"}
    BY DEF Keys, Kind
<1>2. env \in [Keys -> Settings] /\ given = env
    BY GivenLoaded
<1>3. LoadPanics(file) <=> Nameless \in ToSet(file)
    BY DEF LoadPanics, ToSet
<1>4. out = IF LoadPanics(file) THEN [outcome |-> "panic"]
            ELSE IF failing # {} THEN [outcome |-> "error", key |-> Order[Min(failing)]]
            ELSE [outcome |-> "config", field |-> [k \in Keys |-> Read(Kind[k], env[k])]]
    BY Zenon DEF FromEnv
<1> HIDE DEF env, out, given
<1>5. DOMAIN Order = 1..4
    BY DEF Order
<1>6. /\ 1 \in failing <=> env["TWITCH_CHANNEL"] \in {Unset, Blank, Bad}
      /\ 2 \in failing <=> env["STREAM_POLL_SECS"] \in {Blank, Bad}
      /\ 3 \notin failing /\ 4 \notin failing
    BY <1>5 DEF Order, Kind, Fails
<1>7. failing \in SUBSET {1, 2}
    BY <1>5, <1>6
<1> HIDE DEF failing
<1>8. /\ 1 \in failing => failing # {} /\ Min(failing) = 1
      /\ 1 \notin failing /\ 2 \in failing => failing # {} /\ Min(failing) = 2
      /\ 1 \notin failing /\ 2 \notin failing => failing = {}
    <2>1. failing # {} => /\ Min(failing) \in failing
                          /\ \A m \in failing : Min(failing) <= m
        BY <1>7, MinIsLeast
    <2>2. failing # {} => Min(failing) \in {1, 2}
        BY <1>7, <2>1, Zenon
    <2> HIDE DEF env, out, given
    <2> QED
        BY <1>7, <2>1, <2>2
<1>9. Order[1] = "TWITCH_CHANNEL" /\ Order[2] = "STREAM_POLL_SECS"
    BY DEF Order
<1> DEFINE field == [k \in Keys |-> Read(Kind[k], env[k])]
<1>10. /\ \A k \in Keys : env[k] \notin {Unset, Blank} => field[k] = env[k]
       /\ field["TWITCH_BOT_USERNAME"] = Nothing
             <=> env["TWITCH_BOT_USERNAME"] \in {Unset, Blank}
       /\ field["STT_MODEL"] = Default <=> env["STT_MODEL"] = Unset
    BY <1>1, <1>2 DEF Read, Kind, Settings, Unset, Blank, Bad, Nothing, Default
<1> HIDE DEF field
<1>11. CASE LoadPanics(file)
    <2>1. out.outcome = "panic"
        BY <1>4, <1>11
    <2> QED
        BY <1>3, <1>11, <2>1, Zenon DEF Configured, out
<1>12. CASE ~LoadPanics(file) /\ 1 \in failing
    <2>1. out = [outcome |-> "error", key |-> "TWITCH_CHANNEL"]
        BY <1>4, <1>8, <1>9, <1>12
    <2> QED
        BY <1>2, <1>3, <1>6, <1>12, <2>1, Zenon DEF Configured, out, given
<1>13. CASE ~LoadPanics(file) /\ 1 \notin failing /\ 2 \in failing
    <2>1. out = [outcome |-> "error", key |-> "STREAM_POLL_SECS"]
        BY <1>4, <1>8, <1>9, <1>13
    <2> QED
        BY <1>2, <1>3, <1>6, <1>13, <2>1, Zenon DEF Configured, out, given
<1>14. CASE ~LoadPanics(file) /\ 1 \notin failing /\ 2 \notin failing
    <2>1. out.outcome = "config" /\ out.field = field
        BY <1>4, <1>8, <1>14 DEF field
    <2> QED
        BY <1>2, <1>3, <1>6, <1>10, <1>14, <2>1, Zenon DEF Configured, out, given
<1> QED
    BY <1>11, <1>12, <1>13, <1>14, Zenon

----------------------------------------------------------------------------
\* normalize_channel

\* The pieces a channel is written with, and what trimming may leave of two.
Pieces == {"https://", "http://", "www.", "twitch.tv/", Login, "/", "?", " ",
           "http:", "twitch.tv"}

\* The place of the first separator, or 0.
LEMMA FirstSeparator ==
    ASSUME NEW text \in Seq(Pieces)
    PROVE  LET first == SelectInSeq(text, LAMBDA p : p \in Separators)
           IN  IF \A k \in 1..Len(text) : text[k] \notin Separators THEN first = 0
               ELSE /\ first \in 1..Len(text) /\ text[first] \in Separators
                    /\ \A k \in 1..Len(text) : k < first => text[k] \notin Separators
<1> DEFINE rest == {text[k] : k \in 1..Len(text)} \ Separators
           first == SelectInSeq(text, LAMBDA p : p \in Separators)
           same == SelectInSeq(text, LAMBDA p : p \notin rest)
<1>1. \A k \in 1..Len(text) : text[k] \in Separators <=> text[k] \notin rest
    OBVIOUS
<1>2. first = same
    <2> HIDE DEF rest
    <2>1. {k \in 1..Len(text) : text[k] \in Separators}
          = {k \in 1..Len(text) : text[k] \notin rest}
        BY <1>1, Zenon
    <2> QED
        BY <2>1, Zenon DEF SelectInSeq
<1>3. IF \A k \in 1..Len(text) : text[k] \in rest THEN same = 0
      ELSE /\ same \in 1..Len(text) /\ text[same] \notin rest
           /\ \A k \in 1..Len(text) : k < same => text[k] \in rest
    BY FirstNotIn, Zenon
<1> HIDE DEF rest, first, same
<1>4. IF \A k \in 1..Len(text) : text[k] \notin Separators THEN first = 0
      ELSE /\ first \in 1..Len(text) /\ text[first] \in Separators
           /\ \A k \in 1..Len(text) : k < first => text[k] \notin Separators
    BY <1>1, <1>2, <1>3, Zenon
<1> QED
    BY <1>4, Zenon DEF first

\* What is left of a separator.
LEMMA BeforeIs ==
    ASSUME NEW sep \in Separators
    PROVE  /\ BeforeSeparator(sep) \in {<< >>, <<"http:">>, <<"twitch.tv">>}
           /\ sep \in {"/", "?"} => BeforeSeparator(sep) = << >>
<1>1. CASE sep \in {"/", "?"}
    <2>1. BeforeSeparator(sep) = << >>
        BY <1>1 DEF BeforeSeparator
    <2> QED
        BY <2>1
<1>2. CASE sep \in {"https://", "http://"}
    <2>1. BeforeSeparator(sep) = <<"http:">>
        BY <1>2 DEF BeforeSeparator
    <2> QED
        BY <1>2, <2>1
<1>3. CASE sep = "twitch.tv/"
    <2>1. BeforeSeparator(sep) = <<"twitch.tv">>
        BY <1>3 DEF BeforeSeparator
    <2> QED
        BY <1>3, <2>1
<1> QED
    BY <1>1, <1>2, <1>3 DEF Separators

\* No separator is left, and what has none is kept.
LEMMA FirstParted ==
    ASSUME NEW text \in Seq(Pieces)
    PROVE  /\ FirstPart(text) \in Seq(Pieces)
           /\ \A i \in 1..Len(FirstPart(text)) : FirstPart(text)[i] \notin Separators
           /\ (\A k \in 1..Len(text) : text[k] \notin Separators) => FirstPart(text) = text
           /\ Len(text) = 2 /\ text[1] = Login /\ text[2] \in {"/", "?"} =>
                 FirstPart(text) = <<Login>>
<1> DEFINE first == SelectInSeq(text, LAMBDA p : p \in Separators)
           out == FirstPart(text)
<1>1. out = IF first = 0 THEN text ELSE Take(text, first - 1) \o BeforeSeparator(text[first])
    BY Zenon DEF FirstPart
<1>2. IF \A k \in 1..Len(text) : text[k] \notin Separators THEN first = 0
      ELSE /\ first \in 1..Len(text) /\ text[first] \in Separators
           /\ \A k \in 1..Len(text) : k < first => text[k] \notin Separators
    BY FirstSeparator, Zenon
<1> SUFFICES /\ out \in Seq(Pieces)
             /\ \A i \in 1..Len(out) : out[i] \notin Separators
             /\ (\A k \in 1..Len(text) : text[k] \notin Separators) => out = text
             /\ Len(text) = 2 /\ text[1] = Login /\ text[2] \in {"/", "?"} =>
                   out = <<Login>>
    OBVIOUS
<1> HIDE DEF first, out
<1>3. CASE \A k \in 1..Len(text) : text[k] \notin Separators
    <2>1. out = text
        BY <1>1, <1>2, <1>3, Zenon
    <2>2. Len(text) = 2 /\ text[2] \in {"/", "?"} => text[2] \in Separators /\ 2 \in 1..Len(text)
        BY DEF Separators
    <2> QED
        BY <1>3, <2>1, <2>2, Zenon
<1>4. CASE ~(\A k \in 1..Len(text) : text[k] \notin Separators)
    <2> DEFINE head == Take(text, first - 1)
               tail == BeforeSeparator(text[first])
    <2>1. /\ first \in 1..Len(text) /\ text[first] \in Separators
          /\ \A k \in 1..Len(text) : k < first => text[k] \notin Separators
        BY <1>2, <1>4, Zenon
    <2>2. Len(text) \in Nat /\ first \in Nat /\ first # 0 /\ first - 1 \in Nat /\ first <= Len(text)
          /\ first - 1 < Len(text)
        BY <2>1
    <2>3. out = head \o tail
        BY <1>1, <2>2, Zenon
    <2>4. head \in Seq(Pieces) /\ Len(head) = first - 1 /\ Within(head, text, 0)
        BY <2>2, Taken, Zenon
    <2>5. /\ tail \in Seq(Pieces) /\ Len(tail) \in {0, 1}
          /\ \A i \in 1..Len(tail) : tail[i] \notin Separators
          /\ text[first] \in {"/", "?"} => tail = << >>
        <3>1. tail \in {<< >>, <<"http:">>, <<"twitch.tv">>}
              /\ (text[first] \in {"/", "?"} => tail = << >>)
            BY <2>1, BeforeIs
        <3> HIDE DEF tail
        <3>2. << >> \in Seq(Pieces) /\ Len(<< >>) = 0
            OBVIOUS
        <3>3. "http:" \in Pieces \ Separators /\ "twitch.tv" \in Pieces \ Separators
            BY DEF Pieces, Separators
        <3>4. ASSUME NEW c \in Pieces \ Separators
              PROVE  /\ <<c>> \in Seq(Pieces) /\ Len(<<c>>) = 1
                     /\ <<c>>[1] \notin Separators
            BY OneIs, Zenon
        <3>5. 1..0 = {} /\ 1..1 = {1}
            OBVIOUS
        <3> QED
            BY <3>1, <3>2, <3>3, <3>4, <3>5, Zenon
    <2> HIDE DEF head, tail
    <2>6. ASSUME NEW i \in 1..Len(head) PROVE head[i] \notin Separators
        <3>1. i \in 1..Len(text) /\ 0 + i = i /\ i < first
            BY <2>2, <2>4
        <3>2. head[i] = text[i]
            BY <2>4, <3>1, Zenon DEF Within
        <3> QED
            BY <2>1, <3>1, <3>2, Zenon
    <2>7. /\ out \in Seq(Pieces) /\ Len(out) = Len(head) + Len(tail)
          /\ \A i \in 1..(Len(head) + Len(tail)) :
                out[i] = IF i <= Len(head) THEN head[i] ELSE tail[i - Len(head)]
        BY <2>3, <2>4, <2>5, ConcatProperties, Zenon
    <2>8. ASSUME NEW i \in 1..Len(out) PROVE out[i] \notin Separators
        <3>1. Len(head) \in Nat /\ Len(tail) \in Nat
            BY <2>4, <2>5
        <3>2. \/ i <= Len(head) /\ i \in 1..Len(head)
              \/ ~(i <= Len(head)) /\ i - Len(head) \in 1..Len(tail)
            BY <2>7, <3>1
        <3> QED
            BY <2>5, <2>6, <2>7, <3>2, Zenon
    <2>9. ASSUME Len(text) = 2, text[1] = Login, text[2] \in {"/", "?"} PROVE out = <<Login>>
        <3>1. Login \notin Separators
            BY DEF Login, Separators
        <3>2. first = 2
            BY <2>1, <2>2, <2>9, <3>1
        <3>3. Len(head) = 1
            BY <2>4, <3>2
        <3>4. tail = << >>
            BY <2>5, <2>9, <3>2, Zenon
        <3>5. out = head
            BY <2>3, <2>4, <3>4, ConcatEmptySeq, Zenon
        <3>6. head[1] = Login
            BY <2>4, <2>9, <3>2 DEF Within
        <3>7. Login \in Pieces
            BY DEF Pieces
        <3> QED
            BY <2>4, <3>3, <3>6, <3>5, <3>7, OneIs, Zenon
    <2> QED
        BY <1>4, <2>7, <2>8, <2>9, Zenon
<1> QED
    BY <1>3, <1>4

\* The pieces of a text, from the left, and as normalize_channel takes them
\* off.
InOrder(s, w, h, l, k, b) == s \o w \o h \o l \o (k \o b)
Nested(s, w, h, l, k, b) == (s \o (w \o (h \o (l \o k)))) \o b

\* They may be put together in any order of brackets.
LEMMA Reassociated ==
    ASSUME NEW S
    PROVE  \A s, w, h, l, k, b \in Seq(S) : InOrder(s, w, h, l, k, b) = Nested(s, w, h, l, k, b)
<1> DEFINE Cat(x, y) == x \o y
<1>1. ASSUME NEW x \in Seq(S), NEW y \in Seq(S), NEW z \in Seq(S)
      PROVE  Cat(Cat(x, y), z) = Cat(x, Cat(y, z))
    BY ConcatAssociative
<1>2. ASSUME NEW x \in Seq(S), NEW y \in Seq(S)
      PROVE  Cat(x, y) \in Seq(S)
    BY ConcatProperties
<1> SUFFICES ASSUME NEW s \in Seq(S), NEW w \in Seq(S), NEW h \in Seq(S),
                    NEW l \in Seq(S), NEW k \in Seq(S), NEW b \in Seq(S)
             PROVE  Cat(Cat(Cat(Cat(s, w), h), l), Cat(k, b))
                    = Cat(Cat(s, Cat(w, Cat(h, Cat(l, k)))), b)
    BY Zenon DEF InOrder, Nested
<1> HIDE DEF Cat
<1>3. /\ Cat(s, w) \in Seq(S) /\ Cat(k, b) \in Seq(S) /\ Cat(l, k) \in Seq(S)
      /\ Cat(Cat(s, w), h) \in Seq(S) /\ Cat(h, Cat(l, k)) \in Seq(S)
      /\ Cat(Cat(Cat(s, w), h), l) \in Seq(S) /\ Cat(w, Cat(h, Cat(l, k))) \in Seq(S)
    BY <1>2, Zenon
<1>4. Cat(Cat(Cat(Cat(s, w), h), l), Cat(k, b)) = Cat(Cat(Cat(Cat(Cat(s, w), h), l), k), b)
    BY <1>1, <1>3
<1>5. Cat(Cat(Cat(Cat(s, w), h), l), k) = Cat(Cat(Cat(s, w), h), Cat(l, k))
    BY <1>1, <1>3
<1>6. Cat(Cat(Cat(s, w), h), Cat(l, k)) = Cat(Cat(s, w), Cat(h, Cat(l, k)))
    BY <1>1, <1>3
<1>7. Cat(Cat(s, w), Cat(h, Cat(l, k))) = Cat(s, Cat(w, Cat(h, Cat(l, k))))
    BY <1>1, <1>3
<1> QED
    BY <1>4, <1>5, <1>6, <1>7, Zenon

\* Nothing, or one of a set of pieces.
Optional(option, set) == option \in Seq(set) /\ Len(option) <= 1

\* The forms the documentation writes it in.
LEMMA OptionalIs ==
    ASSUME NEW set
    PROVE  Optional(<< >>, set) /\ \A c \in set : Optional(<<c>>, set)
<1>1. << >> \in Seq(set) /\ Len(<< >>) = 0
    OBVIOUS
<1>2. 0 <= 1 /\ 1 <= 1
    OBVIOUS
<1> QED
    BY <1>1, <1>2, OneIs, Zenon DEF Optional

\* What that is of a larger set.
LEMMA OptionalLen ==
    ASSUME NEW S, NEW set \in SUBSET S, NEW option, Optional(option, set)
    PROVE  \/ option = << >>
           \/ option \in Seq(S) /\ Single(option) /\ option[1] \in set
<1>1. option \in Seq(set) /\ Len(option) <= 1
    BY DEF Optional
<1>2. option \in Seq(S)
    BY <1>1, SeqMonotonic, Zenon
<1>3. Len(option) \in Nat
    BY <1>1, LenProperties, Zenon
<1>4. Len(option) = 0 \/ Len(option) = 1
    <2>1. \A n \in Nat : n <= 1 => n = 0 \/ n = 1
        OBVIOUS
    <2> QED
        BY <1>1, <1>3, <2>1, Zenon
<1>5. option # << >> => option[1] \in set
    <2>1. ASSUME NEW n \in Nat \ {0} PROVE 1 \in 1..n
        OBVIOUS
    <2> QED
        BY <1>1, <2>1, EmptySeq, ElementOfSeq, Zenon
<1>6. option = << >> \/ (Len(option) = 1 /\ option[1] \in set)
    <2>1. Len(option) = 0 => option = << >>
        <3>1. 0 \notin Nat \ {0}
            OBVIOUS
        <3> QED
            BY <1>1, <3>1, EmptySeq, Zenon
    <2> QED
        BY <1>4, <1>5, <2>1, Zenon
<1> QED
    BY <1>2, <1>6, Zenon DEF Single

\* An optional piece before a text that does not start with it is taken off.
LEMMA OptionStripped ==
    ASSUME NEW S, NEW text \in Seq(S), text # << >>, NEW set \in SUBSET S,
           NEW option, Optional(option, set), NEW whole, Joined(whole, option, text)
    PROVE  /\ whole \in Seq(S) /\ whole # << >>
           /\ \/ whole = text
              \/ /\ whole[1] \in set
                 /\ StripPrefix(whole, whole[1]) = text
<1>1. CASE option = << >>
    <2>1. option \in Seq(S)
        BY <1>1, EmptySeq, Zenon
    <2>2. whole = text
        BY <1>1, <2>1, JoinedNothing, Zenon
    <2> QED
        BY <2>2, Zenon
<1>2. CASE option \in Seq(S) /\ Single(option) /\ option[1] \in set
    <2>1. whole \in Seq(S) /\ whole # << >> /\ whole[1] = option[1]
        BY <1>2, JoinedOne
    <2>2. StripPrefix(whole, option[1]) = text
        BY <1>2, StripsOff
    <2> QED
        BY <1>2, <2>1, <2>2, Zenon
<1> QED
    BY <1>1, <1>2, OptionalLen, Zenon

\* The pieces with no blank around them, and what may be before a login and
\* after it.
Solid == Pieces \ {" "}
Schemes == {"https://", "http://"}
Www == {"www."}
Host == {"twitch.tv/"}
Ends == {"/", "?"}
Spaces == {" "}

\* None of them is a blank, and the login is none of the others.
LEMMA SolidIs ==
    /\ Login \in Solid /\ Solid \subseteq Pieces
    /\ Schemes \in SUBSET Solid /\ Www \in SUBSET Solid /\ Host \in SUBSET Solid
    /\ Ends \in SUBSET Solid /\ Spaces \in SUBSET Pieces
    /\ Login \notin Schemes /\ Login \notin Www /\ Login \notin Host
    /\ \A c \in Solid : c \notin Spaces
BY DEF Login, Pieces, Solid, Schemes, Www, Host, Ends, Spaces

\* An optional piece before another one is taken off with its own prefix.
LEMMA PieceStripped ==
    ASSUME NEW text \in Seq(Solid), text # << >>, NEW set \in SUBSET Solid,
           NEW piece, \A c : c \in set <=> c = piece, text[1] \notin set,
           NEW option, Optional(option, set), NEW whole, Joined(whole, option, text)
    PROVE  /\ whole \in Seq(Solid) /\ whole # << >>
           /\ whole[1] = piece \/ whole[1] = text[1]
           /\ StripPrefix(whole, piece) = text
<1>1. /\ whole \in Seq(Solid) /\ whole # << >>
      /\ \/ whole = text
         \/ whole[1] \in set /\ StripPrefix(whole, whole[1]) = text
    BY OptionStripped
<1>2. StripPrefix(text, piece) = text
    BY Stripped, Zenon
<1> QED
    BY <1>1, <1>2, Zenon

\* A scheme is taken off with one of the two prefixes.
LEMMA SchemeStripped ==
    ASSUME NEW text \in Seq(Solid), text # << >>, text[1] \notin Schemes,
           NEW option, Optional(option, Schemes),
           NEW whole, Joined(whole, option, text)
    PROVE  /\ whole \in Seq(Solid) /\ whole # << >>
           /\ StripPrefix(StripPrefix(whole, "https://"), "http://") = text
<1>1. /\ whole \in Seq(Solid) /\ whole # << >>
      /\ \/ whole = text
         \/ whole[1] \in Schemes /\ StripPrefix(whole, whole[1]) = text
    BY SolidIs, OptionStripped
<1>2. /\ text[1] # "https://" /\ text[1] # "http://"
      /\ whole[1] \in Schemes => whole[1] = "https://" \/ whole[1] = "http://"
    BY Zenon DEF Schemes
<1>3. StripPrefix(text, "https://") = text /\ StripPrefix(text, "http://") = text
    BY <1>2, Stripped, Zenon
<1>4. whole[1] # "https://" => StripPrefix(whole, "https://") = whole
    BY <1>1, Stripped, Zenon
<1>5. "http://" # "https://"
    OBVIOUS
<1> QED
    BY <1>1, <1>3, <1>4, <1>5, <1>2, Zenon

\* The text that is the login alone.
TheLogin(login) == login = <<Login>>

\* It is a text of one piece, which is no blank.
LEMMA LoginIs ==
    ASSUME NEW login, TheLogin(login)
    PROVE  /\ login \in Seq(Solid) /\ login # << >> /\ Single(login)
           /\ login[1] = Login
BY SolidIs, OneIs DEF Single, TheLogin

\* The login is what is before the separator that follows it.
LEMMA LoginParted ==
    ASSUME NEW login, TheLogin(login), NEW kept, Optional(kept, Ends),
           NEW text, Joined(text, login, kept)
    PROVE  /\ text \in Seq(Solid) /\ text # << >> /\ text[1] = Login
           /\ FirstPart(text) = <<Login>>
<1>1. login \in Seq(Solid) /\ login # << >> /\ Single(login) /\ login[1] = Login
    BY LoginIs, Zenon
<1>2. \/ kept = << >>
      \/ kept \in Seq(Solid) /\ Single(kept) /\ kept[1] \in Ends
    BY SolidIs, OptionalLen, Zenon
<1>3. Login \notin Separators
    BY DEF Login, Separators
<1>4. ASSUME text \in Seq(Solid) PROVE text \in Seq(Pieces)
    BY <1>4, SolidIs, SeqMonotonic, Zenon
<1>5. CASE kept = << >>
    <2>1. kept \in Seq(Solid)
        BY <1>5, EmptySeq, Zenon
    <2>2. text = login
        BY <1>1, <1>5, <2>1, JoinedNothing, Zenon
    <2>3. \A k \in 1..Len(login) : login[k] \notin Separators
        BY <1>1, <1>3 DEF Single
    <2>4. FirstPart(text) = text
        BY <1>1, <1>4, <2>2, <2>3, FirstParted, Zenon
    <2> QED
        BY <1>1, <2>2, <2>4, Zenon DEF TheLogin
<1>6. CASE kept \in Seq(Solid) /\ Single(kept) /\ kept[1] \in Ends
    <2>1. /\ text \in Seq(Solid) /\ Len(text) = 1 + Len(kept) /\ text # << >>
          /\ text[1] = login[1]
          /\ \A i \in 1..Len(kept) : text[1 + i] = kept[i]
        BY <1>1, <1>6, JoinedOne
    <2>2. Len(text) = 2 /\ text[2] = kept[1]
        <3>1. Len(kept) = 1
            BY <1>6, Zenon DEF Single
        <3>2. 1 \in 1..1 /\ 1 + 1 = 2
            OBVIOUS
        <3> QED
            BY <2>1, <3>1, <3>2, Zenon
    <2>3. text[1] = Login /\ text[2] \in {"/", "?"}
        BY <1>1, <1>6, <2>1, <2>2, Zenon DEF Ends
    <2>4. FirstPart(text) = <<Login>>
        BY <1>4, <2>1, <2>2, <2>3, FirstParted, Zenon
    <2> QED
        BY <1>1, <2>1, <2>4, Zenon
<1> QED
    BY <1>2, <1>5, <1>6, Zenon

\* A blank after a text that has none is trimmed.
LEMMA BlankTrimmed ==
    ASSUME NEW text \in Seq(Solid), text # << >>, NEW blank, Optional(blank, Spaces),
           NEW whole, Joined(whole, text, blank)
    PROVE  Trim(whole, Spaces) = text
<1>1. text \in Seq(Pieces)
    BY SolidIs, SeqMonotonic, Zenon
<1>2. Len(text) \in Nat \ {0}
    BY <1>1, EmptySeq
<1>3. ASSUME NEW i \in 1..Len(text) PROVE text[i] \notin Spaces
    <2>1. text[i] \in Solid
        BY ElementOfSeq, Zenon
    <2> QED
        BY <2>1, SolidIs, Zenon
<1>4. 1 \in 1..Len(text) /\ Len(text) \in 1..Len(text) /\ 1 <= Len(text)
    BY <1>2
<1>5. \/ blank = << >>
      \/ blank \in Seq(Pieces) /\ Single(blank) /\ blank[1] \in Spaces
    BY SolidIs, OptionalLen, Zenon
<1>6. CASE blank = << >>
    <2>1. blank \in Seq(Pieces)
        BY <1>6, EmptySeq, Zenon
    <2>2. whole = text
        BY <1>1, <1>6, <2>1, JoinedNothing, Zenon
    <2> QED
        BY <1>1, <1>3, <1>4, <2>2, TrimKeeps, Zenon
<1>7. CASE blank \in Seq(Pieces) /\ Single(blank) /\ blank[1] \in Spaces
    <2>1. /\ whole \in Seq(Pieces) /\ Len(whole) = Len(text) + Len(blank)
          /\ \A i \in 1..Len(text) : whole[i] = text[i]
          /\ \A i \in 1..Len(blank) : whole[Len(text) + i] = blank[i]
        BY <1>1, <1>7, JoinedIs
    <2>2. Len(whole) = Len(text) + 1 /\ whole[Len(text) + 1] \in Spaces
        BY <1>7, <2>1 DEF Single
    <2>3. /\ 1 \in 1..Len(whole) /\ Len(text) \in 1..Len(whole)
          /\ \A k \in 1..Len(whole) : 1 <= k /\ (k # Len(text) + 1 => k <= Len(text))
        BY <1>2, <2>2
    <2>4. whole[1] \notin Spaces /\ whole[Len(text)] \notin Spaces
        BY <1>3, <1>4, <2>1, Zenon
    <2>5. ASSUME NEW k \in 1..Len(whole), whole[k] \notin Spaces
          PROVE  1 <= k /\ k <= Len(text)
        BY <2>2, <2>3, <2>5, Zenon
    <2>6. Trim(whole, Spaces) = SubSeq(whole, 1, Len(text))
        BY <1>4, <2>1, <2>3, <2>4, <2>5, TrimsTo
    <2>7. SubSeq(whole, 1, Len(text)) = SubSeq(text, 1, Len(text))
        BY <1>1, <1>4, <1>7, SubSeqOfConcat1, Zenon DEF Joined
    <2> QED
        BY <1>1, <2>6, <2>7, SubSeqFull, Zenon
<1> QED
    BY <1>5, <1>6, <1>7, Zenon

\* The forms a channel is written in: what is before the login is taken off,
\* and with it what is after.
Written(scheme, www, host, login, kept, blank) ==
    /\ Optional(scheme, Schemes) /\ Optional(www, Www) /\ Optional(host, Host)
    /\ TheLogin(login) /\ Optional(kept, Ends) /\ Optional(blank, Spaces)

\* What is left of such a form is the login.
LEMMA PartsNormalized ==
    ASSUME NEW scheme, NEW www, NEW host, NEW login, NEW kept, NEW blank,
           Written(scheme, www, host, login, kept, blank)
    PROVE  NormalizeChannel(Nested(scheme, www, host, login, kept, blank)) = <<Login>>
<1> DEFINE k1 == login \o kept
           k2 == host \o k1
           k3 == www \o k2
           k0 == scheme \o k3
           raw == k0 \o blank
<1>1. /\ Joined(k1, login, kept) /\ Joined(k2, host, k1) /\ Joined(k3, www, k2)
      /\ Joined(k0, scheme, k3) /\ Joined(raw, k0, blank)
    BY Zenon DEF Joined
<1> SUFFICES NormalizeChannel(raw) = <<Login>>
    BY Zenon DEF Nested
<1> HIDE DEF k1, k2, k3, k0, raw
<1>2. /\ Optional(scheme, Schemes) /\ Optional(www, Www) /\ Optional(host, Host)
      /\ TheLogin(login) /\ Optional(kept, Ends) /\ Optional(blank, Spaces)
    BY Zenon DEF Written
<1>3. k1 \in Seq(Solid) /\ k1 # << >> /\ k1[1] = Login /\ FirstPart(k1) = <<Login>>
    BY <1>1, <1>2, LoginParted, Zenon
<1>4. /\ \A c : c \in Host <=> c = "twitch.tv/"
      /\ \A c : c \in Www <=> c = "www."
      /\ "twitch.tv/" \notin Www /\ "www." \notin Schemes /\ "twitch.tv/" \notin Schemes
    BY DEF Host, Www, Schemes
<1>5. /\ k2 \in Seq(Solid) /\ k2 # << >>
      /\ k2[1] = "twitch.tv/" \/ k2[1] = k1[1]
      /\ StripPrefix(k2, "twitch.tv/") = k1
    BY <1>1, <1>2, <1>3, <1>4, SolidIs, PieceStripped
<1>6. /\ k3 \in Seq(Solid) /\ k3 # << >>
      /\ k3[1] = "www." \/ k3[1] = k2[1]
      /\ StripPrefix(k3, "www.") = k2
    <2>1. k2[1] \notin Www
        BY <1>3, <1>4, <1>5, SolidIs, Zenon
    <2> QED
        BY <1>1, <1>2, <1>4, <1>5, <2>1, SolidIs, PieceStripped
<1>7. /\ k0 \in Seq(Solid) /\ k0 # << >>
      /\ StripPrefix(StripPrefix(k0, "https://"), "http://") = k3
    <2>1. k3[1] \notin Schemes
        BY <1>3, <1>4, <1>5, <1>6, SolidIs, Zenon
    <2> QED
        BY <1>1, <1>2, <1>6, <2>1, SolidIs, SchemeStripped
<1>8. Trim(raw, Spaces) = k0
    BY <1>1, <1>2, <1>7, BlankTrimmed
<1>9. Trim(<<Login>>, Spaces) = <<Login>>
    <2> DEFINE name == <<Login>>
    <2>1. TheLogin(name)
        BY Zenon DEF TheLogin
    <2> SUFFICES Trim(name, Spaces) = name
        OBVIOUS
    <2> HIDE DEF name
    <2>2. name \in Seq(Solid) /\ Len(name) = 1 /\ name[1] \notin Spaces
        BY <2>1, LoginIs, SolidIs, Zenon DEF Single
    <2> QED
        BY <2>2, TrimKeeps, Zenon
<1>10. Trim(raw, {" "}) = k0 /\ Trim(<<Login>>, {" "}) = <<Login>>
    BY <1>8, <1>9, Zenon DEF Spaces
<1> QED
    BY <1>3, <1>5, <1>6, <1>7, <1>10, Zenon DEF NormalizeChannel

\* What the documentation puts together.
Shown(scheme, www, host, rest) == scheme \o www \o host \o <<Login>> \o rest

\* Each documented form is put together so.
LEMMA OfForms ==
    ASSUME NEW A, NEW B, NEW C, NEW D, NEW raw \in Forms(A, B, C, D)
    PROVE  \E a \in A, b \in B, c \in C, d \in D : raw = Shown(a, b, c, d)
BY DEF Forms, Shown

\* The documented forms are written so.
LEMMA DocumentedWritten ==
    ASSUME NEW raw \in Documented
    PROVE  \E scheme, www, host, login, kept, blank :
              /\ Written(scheme, www, host, login, kept, blank)
              /\ raw = InOrder(scheme, www, host, login, kept, blank)
<1> DEFINE A == {<< >>, <<"https://">>, <<"http://">>}
           B == {<< >>, <<"www.">>}
           C == {<< >>, <<"twitch.tv/">>}
           D == {<< >>, <<"/">>, <<"?">>, <<" ">>}
<1>1. raw \in Forms(A, B, C, D)
    BY Zenon DEF Documented
<1>2. /\ Optional(<< >>, Schemes) /\ Optional(<<"https://">>, Schemes)
      /\ Optional(<<"http://">>, Schemes) /\ Optional(<< >>, Www) /\ Optional(<<"www.">>, Www)
      /\ Optional(<< >>, Host) /\ Optional(<<"twitch.tv/">>, Host)
    BY OptionalIs, Zenon DEF Schemes, Www, Host
<1>3. /\ Optional(<< >>, Ends) /\ Optional(<<"/">>, Ends) /\ Optional(<<"?">>, Ends)
      /\ Optional(<< >>, Spaces) /\ Optional(<<" ">>, Spaces)
    BY OptionalIs, Zenon DEF Ends, Spaces
<1>4. ASSUME NEW rest \in D
      PROVE  \E kept, blank : /\ Optional(kept, Ends) /\ Optional(blank, Spaces)
                              /\ rest = kept \o blank
    <2>1. \A c : <<c>> \in Seq({c}) /\ << >> \in Seq({c})
        BY OneIs, EmptySeq, Zenon
    <2>2. \A c : <<c>> \o << >> = <<c>> /\ << >> \o <<c>> = <<c>> /\ << >> \o << >> = << >>
        BY <2>1, ConcatEmptySeq, Zenon
    <2> QED
        BY <1>3, <2>2, Zenon
<1>5. TheLogin(<<Login>>)
    BY Zenon DEF TheLogin
<1>6. \A a \in A, b \in B, c \in C :
          Optional(a, Schemes) /\ Optional(b, Www) /\ Optional(c, Host)
    BY <1>2, Zenon
<1> HIDE DEF A, B, C, D
<1>7. PICK scheme \in A, www \in B, host \in C, rest \in D :
          raw = Shown(scheme, www, host, rest)
    BY <1>1, OfForms
<1>8. PICK kept, blank : /\ Optional(kept, Ends) /\ Optional(blank, Spaces)
                         /\ rest = kept \o blank
    BY <1>4, Zenon
<1>9. Optional(scheme, Schemes) /\ Optional(www, Www) /\ Optional(host, Host)
    BY <1>6, Zenon
<1>10. Written(scheme, www, host, <<Login>>, kept, blank)
    BY <1>5, <1>8, <1>9, Zenon DEF Written
<1>11. raw = InOrder(scheme, www, host, <<Login>>, kept, blank)
    BY <1>7, <1>8, Zenon DEF InOrder, Shown
<1> QED
    BY <1>10, <1>11, Zenon

\* A channel in a documented form is its login.
LEMMA DocumentedNormalized ==
    ASSUME NEW raw \in Documented
    PROVE  NormalizeChannel(raw) = <<Login>>
<1>1. PICK scheme, www, host, login, kept, blank :
          /\ Written(scheme, www, host, login, kept, blank)
          /\ raw = InOrder(scheme, www, host, login, kept, blank)
    BY DocumentedWritten, Zenon
<1>2. /\ Optional(scheme, Schemes) /\ Optional(www, Www) /\ Optional(host, Host)
      /\ TheLogin(login) /\ Optional(kept, Ends) /\ Optional(blank, Spaces)
    BY <1>1, Zenon DEF Written
<1>3. ASSUME NEW option, NEW set \in SUBSET Pieces, Optional(option, set)
      PROVE  option \in Seq(Pieces)
    BY <1>3, OptionalLen, EmptySeq, Zenon
<1>4. /\ Schemes \in SUBSET Pieces /\ Www \in SUBSET Pieces /\ Host \in SUBSET Pieces
      /\ Ends \in SUBSET Pieces /\ Spaces \in SUBSET Pieces /\ Login \in Pieces
    BY SolidIs, Zenon
<1>5. /\ scheme \in Seq(Pieces) /\ www \in Seq(Pieces) /\ host \in Seq(Pieces)
      /\ kept \in Seq(Pieces) /\ blank \in Seq(Pieces)
    BY <1>2, <1>3, <1>4, Zenon
<1>6. login \in Seq(Pieces)
    BY <1>2, <1>4, OneIs, Zenon DEF TheLogin
<1>7. InOrder(scheme, www, host, login, kept, blank)
      = Nested(scheme, www, host, login, kept, blank)
    BY <1>5, <1>6, Reassociated
<1> QED
    BY <1>1, <1>7, PartsNormalized, Zenon

\* What is returned has no separator, and is the login in a documented form.
LEMMA ChannelNormalized ==
    ASSUME NEW raw \in Seq(Pieces)
    PROVE  Normalized(raw, NormalizeChannel(raw))
<1> DEFINE trimmed == Trim(raw, {" "})
           http == StripPrefix(trimmed, "https://")
           bare == StripPrefix(http, "http://")
           host == StripPrefix(bare, "www.")
           path == StripPrefix(host, "twitch.tv/")
           first == FirstPart(path)
           out == Trim(first, {" "})
<1>1. NormalizeChannel(raw) = out
    BY Zenon DEF NormalizeChannel
<1>2. trimmed \in Seq(Pieces)
    BY Trimmed, Zenon
<1>3. path \in Seq(Pieces)
    BY <1>2, Stripped, Zenon
<1> HIDE DEF path
<1>4. first \in Seq(Pieces) /\ \A i \in 1..Len(first) : first[i] \notin Separators
    BY <1>3, FirstParted, Zenon
<1> HIDE DEF first
<1>5. out \in Seq(Pieces) /\ \E off : Within(out, first, off)
    BY <1>4, Trimmed, Zenon
<1> HIDE DEF out
<1>6. ASSUME NEW i \in DOMAIN out PROVE out[i] \notin Separators
    <2>1. PICK off : Within(out, first, off)
        BY <1>5
    <2>2. off \in Nat /\ off + Len(out) <= Len(first) /\ i \in 1..Len(out)
          /\ Len(first) \in Nat /\ Len(out) \in Nat
        BY <1>4, <1>5, <2>1 DEF Within
    <2>3. off + i \in 1..Len(first)
        BY <2>2
    <2>4. out[i] = first[off + i]
        BY <2>1, <2>2, Zenon DEF Within
    <2> QED
        BY <1>4, <2>3, <2>4, Zenon
<1> QED
    BY <1>1, <1>6, DocumentedNormalized, Zenon DEF Normalized

----------------------------------------------------------------------------
\* sanitize: the mentions

\* The two characters that make a mention.
IsAt(c) == c = "@"
IsAll(c) == c = "all"

\* A mention is the one before the other.
LEMMA MentionIs ==
    ASSUME NEW line
    PROVE  /\ \A i : IsMention(line, i) <=> IsAt(line[i]) /\ i < Len(line) /\ IsAll(line[i + 1])
           /\ \A c : IsAt(c) => ~IsAll(c)
BY Zenon DEF IsMention, IsAt, IsAll

\* A mention whose "@" is doubled.
Doubled(line) ==
    \E i \in 1..(Len(line) - 2) : IsAt(line[i]) /\ IsAt(line[i + 1]) /\ IsAll(line[i + 2])

\* A turn of the loop drops a character or keeps it.
Kept(line, rest, i) == IF IsMention(line, i) THEN rest ELSE Append(rest, line[i])

\* The loop has a run, and it ends with what is returned.
LEMMA KeepingChars ==
    ASSUME NEW S, NEW line \in Seq(S)
    PROVE  \E h : /\ h[0] = << >>
                  /\ \A i \in 1..Len(line) : h[i] = Kept(line, h[i - 1], i)
                  /\ DropMentions(line) = h[Len(line)]
<1> DEFINE n == Len(line)
           T == Seq(S)
           step == [p \in T \X (1..n) |-> Kept(line, p[1], p[2])]
           At(g, i) == IF i = 0 THEN << >> ELSE Kept(line, g[i - 1], i)
           Def(g) == [i \in 0..n |-> At(g, i)]
           h == CHOOSE g : g = Def(g)
<1>1. n \in Nat /\ \A i \in 1..n : line[i] \in S
    OBVIOUS
<1>2. ASSUME NEW p \in T \X (1..n) PROVE Kept(line, p[1], p[2]) \in T
    <2>1. p[1] \in T /\ line[p[2]] \in S
        BY <1>1
    <2>2. Append(p[1], line[p[2]]) \in T
        BY <2>1
    <2> QED
        BY <2>1, <2>2, Zenon DEF Kept
<1>3. step \in [T \X (1..n) -> T]
    BY <1>2, Zenon
<1>4. \A acc \in T, i \in 1..n : step[<<acc, i>>] = Kept(line, acc, i)
    OBVIOUS
<1>5. << >> \in T
    OBVIOUS
<1> HIDE DEF step, n, T
<1>6. PICK f : Loops(f, n, T, << >>, step)
    BY <1>1, <1>3, <1>5, LoopExists
<1>7. f \in [0..n -> T] /\ f[0] = << >>
    BY <1>6 DEF Loops
<1>8. ASSUME NEW i \in 0..n PROVE f[i] = At(f, i)
    <2>1. CASE i = 0
        BY <1>7, <2>1
    <2>2. CASE i # 0
        <3>1. i \in 1..n /\ i - 1 \in 0..n /\ f[i] = step[<<f[i - 1], i>>]
            BY <1>1, <1>6, <2>2 DEF Loops
        <3>2. f[i - 1] \in T
            BY <1>7, <3>1
        <3> QED
            BY <1>4, <2>2, <3>1, <3>2, Zenon
    <2> QED
        BY <2>1, <2>2
<1>9. f = Def(f)
    <2> HIDE DEF At
    <2> QED
        BY <1>7, <1>8
<1>10. h = Def(h)
    BY <1>9, Zenon
<1>11. DropMentions(line) = h[n]
    BY DEF DropMentions, n, Kept
<1> HIDE DEF h
<1>12. \A i \in 0..n : h[i] = At(h, i)
    <2>1. \A i \in 0..n : Def(h)[i] = At(h, i)
        BY Zenon
    <2> HIDE DEF Def, At
    <2> QED
        BY <1>10, <2>1, Zenon
<1>13. h[0] = << >> /\ \A i \in 1..n : h[i] = Kept(line, h[i - 1], i)
    <2>1. 0 \in 0..n /\ \A i \in 1..n : i \in 0..n /\ i # 0
        BY <1>1
    <2> QED
        BY <1>12, <2>1, Zenon
<1> QED
    BY <1>11, <1>13, Zenon DEF n

\* What is kept of the first i characters: only characters of the line; a
\* mention only if one is doubled, and if it may come to end with half of one
\* the line has the rest of it twice; it starts as the line does, or with a
\* name; and it is the line if there is no mention in it.
KeptInv(S, line, i, acc) ==
    /\ acc \in Seq(S) /\ Len(acc) <= i
    /\ \A k \in 1..Len(acc) : \E j \in 1..i : acc[k] = line[j]
    /\ \A k \in 1..(Len(acc) - 1) : IsAt(acc[k]) /\ IsAll(acc[k + 1]) => Doubled(line)
    /\ Len(acc) > 0 /\ IsAt(acc[Len(acc)]) =>
          \/ IsAt(line[i]) /\ ~IsMention(line, i)
          \/ i > 1 /\ IsAt(line[i - 1]) /\ IsMention(line, i)
    /\ i > 0 /\ Len(acc) = 0 => IsMention(line, i)
    /\ Len(acc) > 0 => acc[1] = line[1] \/ IsAll(acc[1])
    /\ (\A j \in 1..Len(line) : ~IsAt(line[j])) =>
          Len(acc) = i /\ \A k \in 1..i : acc[k] = line[k]

\* A turn of the loop keeps that.
LEMMA KeptStep ==
    ASSUME NEW S, NEW line \in Seq(S), NEW i \in 1..Len(line), NEW acc,
           KeptInv(S, line, i - 1, acc)
    PROVE  KeptInv(S, line, i, Kept(line, acc, i))
<1>1. /\ acc \in Seq(S) /\ Len(acc) <= i - 1
      /\ \A k \in 1..Len(acc) : \E j \in 1..(i - 1) : acc[k] = line[j]
    BY DEF KeptInv
<1>2. \A k \in 1..(Len(acc) - 1) : IsAt(acc[k]) /\ IsAll(acc[k + 1]) => Doubled(line)
    BY Zenon DEF KeptInv
<1>3. Len(acc) > 0 /\ IsAt(acc[Len(acc)]) =>
          \/ IsAt(line[i - 1]) /\ ~IsMention(line, i - 1)
          \/ i - 1 > 1 /\ IsAt(line[i - 1 - 1]) /\ IsMention(line, i - 1)
    BY Zenon DEF KeptInv
<1>4. /\ i - 1 > 0 /\ Len(acc) = 0 => IsMention(line, i - 1)
      /\ Len(acc) > 0 => acc[1] = line[1] \/ IsAll(acc[1])
    BY Zenon DEF KeptInv
<1>5. (\A j \in 1..Len(line) : ~IsAt(line[j])) =>
          Len(acc) = i - 1 /\ \A k \in 1..(i - 1) : acc[k] = line[k]
    BY Zenon DEF KeptInv
<1>6. /\ i \in Nat /\ i > 0 /\ Len(line) \in Nat /\ i <= Len(line) /\ Len(acc) \in Nat
      /\ i - 1 + 1 = i /\ i - 1 - 1 + 1 = i - 1 /\ i \in 1..i
    BY <1>1
<1>7. CASE IsMention(line, i)
    <2>1. Kept(line, acc, i) = acc
        BY <1>7, Zenon DEF Kept
    <2>2. IsAt(line[i]) /\ ~IsAll(line[i])
        BY <1>7, MentionIs, Zenon
    <2>3. ~IsMention(line, i - 1)
        BY <1>6, <2>2, MentionIs, Zenon
    <2>4. Len(acc) > 0 /\ IsAt(acc[Len(acc)]) => i > 1 /\ IsAt(line[i - 1])
        <3>1. ASSUME Len(acc) > 0 PROVE i > 1
            BY <1>1, <1>6, <3>1
        <3> QED
            BY <1>3, <2>3, <3>1, Zenon
    <2>5. ~(\A j \in 1..Len(line) : ~IsAt(line[j]))
        BY <2>2, Zenon
    <2>6. Len(acc) <= i /\ \A j \in 1..(i - 1) : j \in 1..i
        BY <1>1, <1>6
    <2> QED
        BY <1>1, <1>2, <1>4, <1>7, <2>1, <2>4, <2>5, <2>6, Zenon DEF KeptInv
<1>8. CASE ~IsMention(line, i)
    <2> DEFINE c == line[i]
               then == Append(acc, c)
    <2>1. Kept(line, acc, i) = then
        BY <1>8, Zenon DEF Kept
    <2>2. c \in S
        OBVIOUS
    <2>3. /\ then \in Seq(S) /\ Len(then) = Len(acc) + 1
          /\ \A k \in 1..Len(acc) : then[k] = acc[k]
          /\ then[Len(acc) + 1] = c
        BY <1>1, <2>2, AppendProperties
    <2> SUFFICES KeptInv(S, line, i, then)
        BY <2>1, Zenon
    <2> HIDE DEF then
    <2>4. ASSUME NEW k \in 1..Len(then) PROVE \E j \in 1..i : then[k] = line[j]
        <3>1. CASE k = Len(acc) + 1
            BY <1>6, <2>3, <3>1
        <3>2. CASE k # Len(acc) + 1
            <4>1. k \in 1..Len(acc) /\ \A j \in 1..(i - 1) : j \in 1..i
                BY <1>6, <2>3, <3>2
            <4> QED
                BY <1>1, <2>3, <4>1, Zenon
        <3> QED
            BY <3>1, <3>2
    <2>5. ASSUME NEW k \in 1..(Len(then) - 1), IsAt(then[k]), IsAll(then[k + 1])
          PROVE  Doubled(line)
        <3>1. CASE k = Len(acc)
            <4>1. Len(acc) > 0 /\ k \in 1..Len(acc) /\ k + 1 = Len(acc) + 1
                BY <1>6, <2>3, <3>1
            <4>2. IsAt(acc[Len(acc)]) /\ IsAll(line[i])
                BY <2>3, <2>5, <3>1, <4>1, Zenon
            <4>3. i - 1 < Len(line)
                BY <1>6
            <4>4. ~(IsAt(line[i - 1]) /\ ~IsMention(line, i - 1))
                BY <1>6, <4>2, <4>3, MentionIs, Zenon
            <4>5. i - 1 > 1 /\ IsAt(line[i - 1 - 1]) /\ IsMention(line, i - 1)
                BY <1>3, <4>1, <4>2, <4>4, Zenon
            <4>6. /\ i - 1 - 1 \in 1..(Len(line) - 2) /\ (i - 1 - 1) + 1 = i - 1
                  /\ (i - 1 - 1) + 2 = i
                BY <1>6, <4>5
            <4>7. IsAt(line[i - 1])
                BY <4>5, MentionIs, Zenon
            <4> QED
                BY <4>2, <4>5, <4>6, <4>7, Zenon DEF Doubled
        <3>2. CASE k # Len(acc)
            <4>1. k \in 1..(Len(acc) - 1) /\ k \in 1..Len(acc) /\ k + 1 \in 1..Len(acc)
                BY <1>6, <2>3, <3>2
            <4> QED
                BY <1>2, <2>3, <2>5, <4>1, Zenon
        <3> QED
            BY <3>1, <3>2
    <2>6. IsAt(then[Len(then)]) => IsAt(line[i])
        BY <2>3, Zenon
    <2>7. then[1] = line[1] \/ IsAll(then[1])
        <3>1. CASE Len(acc) > 0
            <4>1. 1 \in 1..Len(acc)
                BY <1>6, <3>1
            <4> QED
                BY <1>4, <2>3, <3>1, <4>1, Zenon
        <3>2. CASE Len(acc) = 0 /\ i = 1
            BY <2>3, <3>2
        <3>3. CASE Len(acc) = 0 /\ i - 1 > 0
            <4>1. IsMention(line, i - 1)
                BY <1>4, <3>3, Zenon
            <4>2. IsAll(line[i])
                BY <1>6, <4>1, MentionIs, Zenon
            <4>3. then[1] = line[i]
                BY <2>3, <3>3
            <4> QED
                BY <4>2, <4>3, Zenon
        <3> QED
            BY <1>6, <3>1, <3>2, <3>3
    <2>8. ASSUME \A j \in 1..Len(line) : ~IsAt(line[j])
          PROVE  Len(then) = i /\ \A k \in 1..i : then[k] = line[k]
        <3>1. Len(acc) = i - 1 /\ \A k \in 1..(i - 1) : acc[k] = line[k]
            BY <1>5, <2>8, Zenon
        <3>2. ASSUME NEW k \in 1..i PROVE then[k] = line[k]
            <4>1. CASE k = i
                BY <1>6, <2>3, <3>1, <4>1
            <4>2. CASE k # i
                <5>1. k \in 1..(i - 1)
                    BY <1>6, <4>2
                <5> QED
                    BY <2>3, <3>1, <5>1, Zenon
            <4> QED
                BY <4>1, <4>2
        <3> QED
            BY <1>6, <2>3, <3>1, <3>2
    <2>9. Len(then) <= i /\ Len(then) > 0
        BY <1>1, <1>6, <2>3
    <2>10. ~(Len(then) = 0)
        BY <2>9
    <2> QED
        BY <1>8, <2>3, <2>4, <2>5, <2>6, <2>7, <2>8, <2>9, <2>10, Zenon DEF KeptInv
<1> QED
    BY <1>7, <1>8

\* What the removal of mentions keeps of a line.
LEMMA MentionsDropped ==
    ASSUME NEW S, NEW line \in Seq(S)
    PROVE  KeptInv(S, line, Len(line), DropMentions(line))
<1> DEFINE n == Len(line)
<1>1. PICK h : /\ h[0] = << >>
               /\ \A i \in 1..n : h[i] = Kept(line, h[i - 1], i)
               /\ DropMentions(line) = h[n]
    BY KeepingChars, Zenon
<1>2. n \in Nat
    OBVIOUS
<1> DEFINE ok == {i \in Nat : i <= n => KeptInv(S, line, i, h[i])}
<1>3. 0 \in ok
    <2>1. KeptInv(S, line, 0, << >>)
        BY DEF KeptInv
    <2> QED
        BY <1>1, <2>1, Zenon
<1>4. ASSUME NEW i \in Nat, i \in ok PROVE i + 1 \in ok
    <2>1. ASSUME i + 1 <= n PROVE KeptInv(S, line, i + 1, h[i + 1])
        <3>1. i <= n /\ i + 1 \in 1..Len(line) /\ (i + 1) - 1 = i
            BY <1>2, <2>1
        <3>2. KeptInv(S, line, (i + 1) - 1, h[i])
            BY <1>4, <3>1, Zenon
        <3>3. h[i + 1] = Kept(line, h[i], i + 1)
            BY <1>1, <3>1, Zenon
        <3> QED
            BY <3>1, <3>2, <3>3, KeptStep, Zenon
    <2>2. i + 1 \in Nat
        OBVIOUS
    <2> QED
        BY <2>1, <2>2, Zenon
<1> HIDE DEF ok
<1>5. n \in ok
    BY <1>2, <1>3, <1>4, SetInduction
<1>6. n <= n
    BY <1>2
<1> QED
    BY <1>1, <1>2, <1>5, <1>6, Zenon DEF ok

----------------------------------------------------------------------------
\* sanitize: the first line

\* A piece of a text: a separator is at most its last character.
PieceOf(S, text, seps, piece, off) ==
    /\ piece \in Seq(S) /\ Len(piece) > 0 /\ Within(piece, text, off)
    /\ \A k \in 1..(Len(piece) - 1) : piece[k] \notin seps

\* The last of a sequence is replaced.
Replaced(p, v) == [p EXCEPT ![Len(p)] = v]

\* Its other elements, its length and its type stay.
LEMMA LastReplaced ==
    ASSUME NEW T, NEW p \in Seq(T), NEW v \in T, Len(p) > 0
    PROVE  /\ Replaced(p, v) \in Seq(T) /\ Len(Replaced(p, v)) = Len(p)
           /\ Replaced(p, v)[Len(p)] = v
           /\ \A m \in 1..Len(p) : m # Len(p) => Replaced(p, v)[m] = p[m]
<1> DEFINE i == Len(p)
           then == [p EXCEPT ![i] = v]
<1>1. i \in 1..Len(p)
    OBVIOUS
<1> HIDE DEF i
<1>2. /\ then \in Seq(T) /\ Len(then) = Len(p)
      /\ \A j \in 1..Len(p) : then[j] = IF j = i THEN v ELSE p[j]
    BY <1>1, ExceptSeq
<1>3. Replaced(p, v) = then
    BY Zenon DEF Replaced, i
<1> HIDE DEF then
<1> QED
    BY <1>1, <1>2, <1>3, Zenon DEF i

\* There is nothing to replace in nothing.
LEMMA NothingReplaced ==
    ASSUME NEW T, NEW p \in Seq(T), NEW v, ~(Len(p) > 0)
    PROVE  Replaced(p, v) \in Seq(T)
<1>1. p = << >>
    OBVIOUS
<1>2. [p EXCEPT ![Len(p)] = v] = << >>
    BY <1>1
<1> QED
    BY <1>2, EmptySeq, Zenon DEF Replaced

\* A turn of the loop starts a piece or makes the last one longer.
Grown(text, seps, pieces, i) ==
    IF i = 1 \/ text[i - 1] \in seps THEN Append(pieces, <<text[i]>>)
    ELSE Replaced(pieces, Append(pieces[Len(pieces)], text[i]))

\* The loop has a run, and it ends with what is returned.
LEMMA SplittingText ==
    ASSUME NEW S, NEW text \in Seq(S), NEW seps
    PROVE  \E h : /\ h[0] = << >>
                  /\ \A i \in 1..Len(text) : h[i] = Grown(text, seps, h[i - 1], i)
                  /\ SplitInclusive(text, seps) = h[Len(text)]
<1> DEFINE n == Len(text)
           T == Seq(Seq(S))
           step == [p \in T \X (1..n) |-> Grown(text, seps, p[1], p[2])]
           At(g, i) == IF i = 0 THEN << >> ELSE Grown(text, seps, g[i - 1], i)
           Def(g) == [i \in 0..n |-> At(g, i)]
           h == CHOOSE g : g = Def(g)
<1>1. n \in Nat /\ \A i \in 1..n : text[i] \in S
    OBVIOUS
<1>2. ASSUME NEW pieces \in T, NEW i \in 1..n PROVE Grown(text, seps, pieces, i) \in T
    <2>1. text[i] \in S
        BY <1>1
    <2>2. Append(pieces, <<text[i]>>) \in T
        <3>1. <<text[i]>> \in Seq(S)
            BY <2>1, OneIs, Zenon
        <3> QED
            BY <3>1, AppendProperties, Zenon
    <2>3. Len(pieces) > 0 => Append(pieces[Len(pieces)], text[i]) \in Seq(S)
        <3>1. Len(pieces) > 0 => pieces[Len(pieces)] \in Seq(S)
            OBVIOUS
        <3> QED
            BY <2>1, <3>1, AppendProperties, Zenon
    <2>4. Replaced(pieces, Append(pieces[Len(pieces)], text[i])) \in T
        BY <2>3, LastReplaced, NothingReplaced, Zenon
    <2> QED
        BY <2>2, <2>4, Zenon DEF Grown
<1>3. step \in [T \X (1..n) -> T]
    <2>1. ASSUME NEW p \in T \X (1..n) PROVE Grown(text, seps, p[1], p[2]) \in T
        <3>1. p[1] \in T /\ p[2] \in 1..n
            OBVIOUS
        <3> QED
            BY <1>2, <3>1, Zenon
    <2> QED
        BY <2>1, Zenon
<1>4. \A acc \in T, i \in 1..n : step[<<acc, i>>] = Grown(text, seps, acc, i)
    OBVIOUS
<1>5. << >> \in T
    OBVIOUS
<1> HIDE DEF step, n, T
<1>6. PICK f : Loops(f, n, T, << >>, step)
    BY <1>1, <1>3, <1>5, LoopExists
<1>7. f \in [0..n -> T] /\ f[0] = << >>
    BY <1>6 DEF Loops
<1>8. ASSUME NEW i \in 0..n PROVE f[i] = At(f, i)
    <2>1. CASE i = 0
        BY <1>7, <2>1
    <2>2. CASE i # 0
        <3>1. i \in 1..n /\ i - 1 \in 0..n /\ f[i] = step[<<f[i - 1], i>>]
            BY <1>1, <1>6, <2>2 DEF Loops
        <3>2. f[i - 1] \in T
            BY <1>7, <3>1
        <3> QED
            BY <1>4, <2>2, <3>1, <3>2, Zenon
    <2> QED
        BY <2>1, <2>2
<1>9. f = Def(f)
    <2> HIDE DEF At
    <2> QED
        BY <1>7, <1>8
<1>10. h = Def(h)
    BY <1>9, Zenon
<1>11. SplitInclusive(text, seps) = h[n]
    BY DEF SplitInclusive, n, Grown, Replaced
<1> HIDE DEF h
<1>12. \A i \in 0..n : h[i] = At(h, i)
    <2>1. \A i \in 0..n : Def(h)[i] = At(h, i)
        BY Zenon
    <2> HIDE DEF Def, At
    <2> QED
        BY <1>10, <2>1, Zenon
<1>13. h[0] = << >> /\ \A i \in 1..n : h[i] = Grown(text, seps, h[i - 1], i)
    <2>1. 0 \in 0..n /\ \A i \in 1..n : i \in 0..n /\ i # 0
        BY <1>1
    <2> QED
        BY <1>12, <2>1, Zenon
<1> QED
    BY <1>11, <1>13, Zenon DEF n

\* A piece is started with a character.
LEMMA PieceStarts ==
    ASSUME NEW S, NEW text \in Seq(S), NEW seps, NEW i \in 1..Len(text)
    PROVE  PieceOf(S, text, seps, <<text[i]>>, i - 1) /\ Len(<<text[i]>>) = 1
<1> DEFINE one == <<text[i]>>
<1>1. one \in Seq(S) /\ Len(one) = 1 /\ one[1] = text[i]
    OBVIOUS
<1> SUFFICES PieceOf(S, text, seps, one, i - 1) /\ Len(one) = 1
    OBVIOUS
<1> HIDE DEF one
<1>2. i - 1 \in Nat /\ (i - 1) + 1 = i /\ i <= Len(text) /\ \A k \in 1..1 : (i - 1) + k = i /\ k = 1
    OBVIOUS
<1>3. Within(one, text, i - 1)
    BY <1>1, <1>2 DEF Within
<1>4. Len(one) > 0 /\ 1..(Len(one) - 1) = {}
    BY <1>1
<1> QED
    BY <1>1, <1>3, <1>4, Zenon DEF PieceOf

\* A piece that does not end with a separator is made longer by what follows.
LEMMA PieceGrows ==
    ASSUME NEW S, NEW text \in Seq(S), NEW seps, NEW i \in 1..Len(text),
           NEW piece, NEW off \in Nat, PieceOf(S, text, seps, piece, off),
           off + Len(piece) = i - 1, text[i - 1] \notin seps
    PROVE  /\ PieceOf(S, text, seps, Append(piece, text[i]), off)
           /\ Len(Append(piece, text[i])) = Len(piece) + 1
<1> DEFINE then == Append(piece, text[i])
<1>1. /\ piece \in Seq(S) /\ Len(piece) > 0 /\ off + Len(piece) <= Len(text)
      /\ \A k \in 1..Len(piece) : piece[k] = text[off + k]
      /\ \A k \in 1..(Len(piece) - 1) : piece[k] \notin seps
    BY DEF PieceOf, Within
<1>2. text[i] \in S /\ Len(piece) \in Nat /\ Len(text) \in Nat /\ i \in Nat
    BY <1>1
<1>3. /\ then \in Seq(S) /\ Len(then) = Len(piece) + 1
      /\ \A k \in 1..Len(piece) : then[k] = piece[k]
      /\ then[Len(piece) + 1] = text[i]
    BY <1>1, <1>2, AppendProperties
<1> SUFFICES PieceOf(S, text, seps, then, off) /\ Len(then) = Len(piece) + 1
    OBVIOUS
<1> HIDE DEF then
<1>4. ASSUME NEW k \in 1..Len(then) PROVE then[k] = text[off + k]
    <2>1. CASE k = Len(piece) + 1
        <3>1. off + k = i
            BY <1>2, <2>1
        <3> QED
            BY <1>3, <2>1, <3>1, Zenon
    <2>2. CASE k # Len(piece) + 1
        <3>1. k \in 1..Len(piece)
            BY <1>2, <1>3, <2>2
        <3> QED
            BY <1>1, <1>3, <3>1, Zenon
    <2> QED
        BY <2>1, <2>2
<1>5. ASSUME NEW k \in 1..(Len(then) - 1) PROVE then[k] \notin seps
    <2>1. k \in 1..Len(piece)
        BY <1>2, <1>3
    <2>2. CASE k = Len(piece)
        <3>1. off + k = i - 1
            BY <1>2, <2>2
        <3> QED
            BY <1>1, <1>3, <2>1, <3>1, Zenon
    <2>3. CASE k # Len(piece)
        <3>1. k \in 1..(Len(piece) - 1)
            BY <1>2, <2>1, <2>3
        <3> QED
            BY <1>1, <1>3, <2>1, <3>1, Zenon
    <2> QED
        BY <2>2, <2>3
<1>6. off + Len(then) <= Len(text) /\ Len(then) > 0
    BY <1>2, <1>3
<1>7. Within(then, text, off)
    BY <1>4, <1>6, Zenon DEF Within
<1> QED
    BY <1>3, <1>5, <1>6, <1>7, Zenon DEF PieceOf

\* After i characters: each piece is one of the text, the last ends there, and
\* there is only one if there is no separator.
SplitInv(S, text, seps, i, pieces) ==
    /\ pieces \in Seq(Seq(S))
    /\ \A m \in 1..Len(pieces) : \E off \in Nat : PieceOf(S, text, seps, pieces[m], off)
    /\ i > 0 => /\ Len(pieces) > 0
                /\ \E off \in Nat : /\ PieceOf(S, text, seps, pieces[Len(pieces)], off)
                                    /\ off + Len(pieces[Len(pieces)]) = i
    /\ i = 0 => Len(pieces) = 0
    /\ (\A k \in 1..Len(text) : text[k] \notin seps) /\ i > 0 =>
          Len(pieces) = 1 /\ Len(pieces[1]) = i

\* A turn of the loop keeps that.
LEMMA SplitStep ==
    ASSUME NEW S, NEW text \in Seq(S), NEW seps, NEW i \in 1..Len(text), NEW pieces,
           SplitInv(S, text, seps, i - 1, pieces)
    PROVE  SplitInv(S, text, seps, i, Grown(text, seps, pieces, i))
<1> DEFINE n == Len(pieces)
<1>1. /\ pieces \in Seq(Seq(S))
      /\ \A m \in 1..n : \E off \in Nat : PieceOf(S, text, seps, pieces[m], off)
      /\ i - 1 = 0 => n = 0
    BY Zenon DEF SplitInv
<1>2. i - 1 > 0 => /\ n > 0
                   /\ \E off \in Nat : /\ PieceOf(S, text, seps, pieces[n], off)
                                       /\ off + Len(pieces[n]) = i - 1
    BY Zenon DEF SplitInv
<1>3. (\A k \in 1..Len(text) : text[k] \notin seps) /\ i - 1 > 0 =>
          n = 1 /\ Len(pieces[1]) = i - 1
    BY Zenon DEF SplitInv
<1>4. n \in Nat /\ i \in Nat /\ i > 0 /\ ~(i = 0) /\ (i - 1) + 1 = i /\ i - 1 \in Nat
      /\ (i # 1 => i - 1 > 0 /\ i - 1 \in 1..Len(text))
    BY <1>1
<1>5. CASE i = 1 \/ text[i - 1] \in seps
    <2> DEFINE one == <<text[i]>>
               then == Append(pieces, one)
    <2>1. Grown(text, seps, pieces, i) = then
        BY <1>5, Zenon DEF Grown
    <2>2. PieceOf(S, text, seps, one, i - 1) /\ Len(one) = 1
        BY PieceStarts
    <2> HIDE DEF one
    <2>3. one \in Seq(S)
        BY <2>2 DEF PieceOf
    <2>4. /\ then \in Seq(Seq(S)) /\ Len(then) = n + 1
          /\ \A m \in 1..n : then[m] = pieces[m]
          /\ then[n + 1] = one
        BY <1>1, <2>3, AppendProperties
    <2> SUFFICES SplitInv(S, text, seps, i, then)
        BY <2>1, Zenon
    <2> HIDE DEF then, n
    <2>5. ASSUME NEW m \in 1..Len(then)
          PROVE  \E off \in Nat : PieceOf(S, text, seps, then[m], off)
        <3>1. CASE m = n + 1
            BY <1>4, <2>2, <2>4, <3>1, Zenon
        <3>2. CASE m # n + 1
            <4>1. m \in 1..n
                BY <1>4, <2>4, <3>2
            <4> QED
                BY <1>1, <2>4, <4>1, Zenon
        <3> QED
            BY <3>1, <3>2
    <2>6. Len(then) > 0 /\ then[Len(then)] = one /\ (i - 1) + Len(one) = i
        BY <1>4, <2>2, <2>4
    <2>7. ASSUME \A k \in 1..Len(text) : text[k] \notin seps
          PROVE  Len(then) = 1 /\ Len(then[1]) = i
        <3>1. i = 1
            BY <1>4, <1>5, <2>7, Zenon
        <3>2. n = 0
            BY <1>1, <3>1
        <3> QED
            BY <2>2, <2>4, <3>1, <3>2
    <2> QED
        BY <1>4, <2>2, <2>4, <2>5, <2>6, <2>7, Zenon DEF SplitInv
<1>6. CASE ~(i = 1 \/ text[i - 1] \in seps)
    <2> DEFINE v == Append(pieces[n], text[i])
               then == Replaced(pieces, v)
    <2>1. Grown(text, seps, pieces, i) = then
        BY <1>6, Zenon DEF Grown
    <2>2. n > 0 /\ i - 1 > 0
        BY <1>2, <1>4, <1>6, Zenon
    <2>3. PICK off \in Nat : /\ PieceOf(S, text, seps, pieces[n], off)
                             /\ off + Len(pieces[n]) = i - 1
        BY <1>2, <2>2, Zenon
    <2>4. /\ PieceOf(S, text, seps, v, off)
          /\ Len(v) = Len(pieces[n]) + 1
        BY <1>6, <2>3, PieceGrows
    <2> SUFFICES SplitInv(S, text, seps, i, then)
        BY <2>1, Zenon
    <2> HIDE DEF v
    <2>5. v \in Seq(S)
        BY <2>4 DEF PieceOf
    <2>6. /\ then \in Seq(Seq(S)) /\ Len(then) = n /\ then[n] = v
          /\ \A m \in 1..n : m # n => then[m] = pieces[m]
        BY <1>1, <2>2, <2>5, LastReplaced, Zenon
    <2> HIDE DEF then, n
    <2>7. ASSUME NEW m \in 1..Len(then)
          PROVE  \E o \in Nat : PieceOf(S, text, seps, then[m], o)
        BY <1>1, <2>3, <2>4, <2>6, Zenon
    <2>8. off + Len(v) = i
        <3>1. Len(pieces[n]) \in Nat
            <4>1. pieces[n] \in Seq(S)
                BY <2>3 DEF PieceOf
            <4> QED
                BY <4>1, LenProperties, Zenon
        <3> QED
            BY <1>4, <2>3, <2>4, <3>1
    <2>9. ASSUME \A k \in 1..Len(text) : text[k] \notin seps
          PROVE  Len(then) = 1 /\ Len(then[1]) = i
        <3>1. n = 1 /\ Len(pieces[1]) = i - 1
            BY <1>3, <2>2, <2>9, Zenon
        <3> QED
            BY <1>4, <2>4, <2>6, <3>1
    <2> QED
        BY <1>4, <2>2, <2>4, <2>6, <2>7, <2>8, <2>9, Zenon DEF SplitInv
<1> QED
    BY <1>5, <1>6

\* The pieces a text is split into.
LEMMA TextSplit ==
    ASSUME NEW S, NEW text \in Seq(S), NEW seps
    PROVE  SplitInv(S, text, seps, Len(text), SplitInclusive(text, seps))
<1> DEFINE n == Len(text)
<1>1. PICK h : /\ h[0] = << >>
               /\ \A i \in 1..n : h[i] = Grown(text, seps, h[i - 1], i)
               /\ SplitInclusive(text, seps) = h[n]
    BY SplittingText, Zenon
<1>2. n \in Nat
    OBVIOUS
<1> DEFINE ok == {i \in Nat : i <= n => SplitInv(S, text, seps, i, h[i])}
<1>3. 0 \in ok
    <2>1. SplitInv(S, text, seps, 0, << >>)
        BY DEF SplitInv
    <2> QED
        BY <1>1, <2>1, Zenon
<1>4. ASSUME NEW i \in Nat, i \in ok PROVE i + 1 \in ok
    <2>1. ASSUME i + 1 <= n PROVE SplitInv(S, text, seps, i + 1, h[i + 1])
        <3>1. i <= n /\ i + 1 \in 1..Len(text) /\ (i + 1) - 1 = i
            BY <1>2, <2>1
        <3>2. SplitInv(S, text, seps, (i + 1) - 1, h[i])
            BY <1>4, <3>1, Zenon
        <3>3. h[i + 1] = Grown(text, seps, h[i], i + 1)
            BY <1>1, <3>1, Zenon
        <3> QED
            BY <3>1, <3>2, <3>3, SplitStep, Zenon
    <2>2. i + 1 \in Nat
        OBVIOUS
    <2> QED
        BY <2>1, <2>2, Zenon
<1> HIDE DEF ok
<1>5. n \in ok
    BY <1>2, <1>3, <1>4, SetInduction
<1>6. n <= n
    BY <1>2
<1> QED
    BY <1>1, <1>2, <1>5, <1>6, Zenon DEF ok

\* A single piece as long as the text is the text.
LEMMA OneLine ==
    ASSUME NEW S, NEW text \in Seq(S), NEW seps, NEW lines, Len(text) > 0,
           SplitInv(S, text, seps, Len(text), lines),
           Len(lines) = 1, Len(lines[1]) = Len(text)
    PROVE  lines[1] = text
<1>1. PICK off \in Nat : /\ PieceOf(S, text, seps, lines[Len(lines)], off)
                         /\ off + Len(lines[Len(lines)]) = Len(text)
    BY Zenon DEF SplitInv
<1> DEFINE line == lines[1]
<1>2. PieceOf(S, text, seps, line, off) /\ off + Len(line) = Len(text) /\ Len(line) = Len(text)
    BY <1>1
<1> SUFFICES line = text
    OBVIOUS
<1> HIDE DEF line
<1>3. /\ line \in Seq(S) /\ Len(text) \in Nat
      /\ \A k \in 1..Len(line) : line[k] = text[off + k]
    BY <1>2 DEF PieceOf, Within
<1>4. off = 0 /\ \A k \in 1..Len(line) : 0 + k = k
    BY <1>2, <1>3
<1>5. \A k \in 1..Len(line) : line[k] = text[k]
    BY <1>3, <1>4, Zenon
<1> QED
    BY <1>2, <1>3, <1>5, SeqEqual, Zenon

\* What a line is trimmed to has no line break: there is one at most at its
\* end, and that is white space.
LEMMA LineTrimmed ==
    ASSUME NEW S, NEW text \in Seq(S), NEW seps, NEW blanks, seps \subseteq blanks,
           NEW piece, NEW off \in Nat, PieceOf(S, text, seps, piece, off)
    PROVE  /\ Trim(piece, blanks) \in Seq(S) /\ \E o : Within(Trim(piece, blanks), text, o)
           /\ \A k \in 1..Len(Trim(piece, blanks)) : Trim(piece, blanks)[k] \notin seps
           /\ Trim(piece, blanks) # << >> => Trim(piece, blanks)[1] \notin blanks
<1> DEFINE out == Trim(piece, blanks)
<1>1. /\ piece \in Seq(S) /\ Within(piece, text, off)
      /\ \A k \in 1..(Len(piece) - 1) : piece[k] \notin seps
    BY DEF PieceOf
<1>2. /\ out \in Seq(S) /\ Len(out) <= Len(piece)
      /\ \E o : Within(out, piece, o)
      /\ out # << >> => out[1] \notin blanks /\ out[Len(out)] \notin blanks
    BY <1>1, Trimmed, Zenon
<1> SUFFICES /\ out \in Seq(S) /\ \E o : Within(out, text, o)
             /\ \A k \in 1..Len(out) : out[k] \notin seps
             /\ out # << >> => out[1] \notin blanks
    OBVIOUS
<1> HIDE DEF out
<1>3. PICK o : Within(out, piece, o)
    BY <1>2
<1>4. Within(out, text, off + o)
    BY <1>1, <1>2, <1>3, WithinWithin, Zenon
<1>5. ASSUME NEW k \in 1..Len(out) PROVE out[k] \notin seps
    <2>1. /\ o \in Nat /\ o + Len(out) <= Len(piece)
          /\ \A j \in 1..Len(out) : out[j] = piece[o + j]
        BY <1>3 DEF Within
    <2>2. Len(out) \in Nat /\ Len(piece) \in Nat
        BY <1>1, <1>2, LenProperties, Zenon
    <2>3. CASE k = Len(out)
        <3>1. out # << >>
            BY <1>2, <2>3
        <3> QED
            BY <1>2, <2>3, <3>1, Zenon
    <2>4. CASE k # Len(out)
        <3>1. o + k \in 1..(Len(piece) - 1)
            BY <2>1, <2>2, <2>4
        <3> QED
            BY <1>1, <2>1, <3>1, Zenon
    <2> QED
        BY <2>3, <2>4
<1> QED
    BY <1>2, <1>4, <1>5, Zenon

\* The first line that is not blank: no line break is in it, no white space
\* before it, and a reply of one line is that line.
LEMMA FirstLineIs ==
    ASSUME NEW S, NEW reply \in Seq(S)
    PROVE  /\ FirstLine(reply) \in Seq(S) /\ \E off : Within(FirstLine(reply), reply, off)
           /\ \A k \in 1..Len(FirstLine(reply)) : FirstLine(reply)[k] # "newline"
           /\ FirstLine(reply) # << >> => FirstLine(reply)[1] \notin White
           /\ (\A k \in 1..Len(reply) : reply[k] # "newline")
                 => FirstLine(reply) = Trim(reply, White)
<1> DEFINE seps == {"newline"}
           lines == SplitInclusive(reply, seps)
           full == {k \in DOMAIN lines : Trim(lines[k], White) # << >>}
           first == FirstLine(reply)
<1>1. first = IF full = {} THEN << >> ELSE Trim(lines[Min(full)], White)
    BY Zenon DEF FirstLine
<1>2. SplitInv(S, reply, seps, Len(reply), lines)
    BY TextSplit, Zenon
<1>3. seps \subseteq White /\ \A c : c \notin seps <=> c # "newline"
    BY DEF White
<1> SUFFICES /\ first \in Seq(S) /\ \E off : Within(first, reply, off)
             /\ \A k \in 1..Len(first) : first[k] \notin seps
             /\ first # << >> => first[1] \notin White
             /\ (\A k \in 1..Len(reply) : reply[k] \notin seps) => first = Trim(reply, White)
    BY <1>3, Zenon
<1> HIDE DEF seps, first, lines
<1>4. /\ lines \in Seq(Seq(S))
      /\ \A m \in 1..Len(lines) : \E off \in Nat : PieceOf(S, reply, seps, lines[m], off)
    BY <1>2, Zenon DEF SplitInv
<1>5. Len(lines) \in Nat /\ full \in SUBSET Nat /\ DOMAIN lines = 1..Len(lines)
    BY <1>4
<1>6. \A k : k \in full <=> k \in 1..Len(lines) /\ Trim(lines[k], White) # << >>
    BY <1>5, Zenon
<1> HIDE DEF full
<1>7. CASE full = {}
    <2>1. first = << >>
        BY <1>1, <1>7
    <2>2. << >> \in Seq(S) /\ Within(<< >>, reply, 0) /\ 1..Len(<< >>) = {}
        BY DEF Within
    <2> QED
        <3>1. ASSUME \A k \in 1..Len(reply) : reply[k] \notin seps
              PROVE  Trim(reply, White) = << >>
            <4>1. CASE Len(reply) > 0
                <5>1. Len(lines) = 1 /\ Len(lines[1]) = Len(reply)
                    BY <1>2, <3>1, <4>1, Zenon DEF SplitInv
                <5>2. lines[1] = reply
                    BY <1>2, <4>1, <5>1, OneLine
                <5>3. 1 \in 1..Len(lines)
                    BY <5>1
                <5> QED
                    BY <1>6, <1>7, <5>2, <5>3, Zenon
            <4>2. CASE ~(Len(reply) > 0)
                <5>1. reply = << >>
                    BY <4>2
                <5> QED
                    BY <5>1, TrimKeeps, Zenon
            <4> QED
                BY <4>1, <4>2
        <3> QED
            BY <2>1, <2>2, <3>1, Zenon
<1>8. CASE full # {}
    <2> DEFINE m == Min(full)
    <2>1. m \in full
        BY <1>5, <1>8, MinIsLeast, Zenon
    <2> HIDE DEF m
    <2>2. first = Trim(lines[m], White) /\ m \in 1..Len(lines)
        BY <1>1, <1>6, <1>8, <2>1, Zenon DEF m
    <2>3. PICK off \in Nat : PieceOf(S, reply, seps, lines[m], off)
        BY <1>4, <2>2, Zenon
    <2>4. /\ Trim(lines[m], White) \in Seq(S)
          /\ \E o : Within(Trim(lines[m], White), reply, o)
          /\ \A k \in 1..Len(Trim(lines[m], White)) : Trim(lines[m], White)[k] \notin seps
          /\ Trim(lines[m], White) # << >> => Trim(lines[m], White)[1] \notin White
        BY <1>3, <2>3, LineTrimmed, Zenon
    <2>5. ASSUME \A k \in 1..Len(reply) : reply[k] \notin seps PROVE lines[m] = reply
        <3>1. Len(reply) > 0
            <4>1. Len(reply) \in Nat /\ (Len(reply) = 0 => Len(lines) = 0)
                BY <1>2, LenProperties, Zenon DEF SplitInv
            <4>2. Len(lines) # 0
                BY <1>5, <2>2
            <4> QED
                BY <4>1, <4>2
        <3>2. Len(lines) = 1 /\ Len(lines[1]) = Len(reply)
            BY <1>2, <2>5, <3>1, Zenon DEF SplitInv
        <3>3. m = 1
            BY <2>2, <3>2
        <3> QED
            BY <1>2, <3>1, <3>2, <3>3, OneLine
    <2> QED
        BY <2>2, <2>4, <2>5, Zenon
<1> QED
    BY <1>7, <1>8

\* What is in a part of a text is in a place of the text.
LEMMA CharOfText ==
    ASSUME NEW S, NEW text \in Seq(S), NEW part \in Seq(S), NEW off,
           Within(part, text, off)
    PROVE  \A k \in 1..Len(part) : off + k \in 1..Len(text) /\ part[k] = text[off + k]
<1>1. /\ off \in Nat /\ off + Len(part) <= Len(text)
      /\ \A j \in 1..Len(part) : part[j] = text[off + j]
    BY DEF Within
<1>2. Len(part) \in Nat /\ Len(text) \in Nat
    OBVIOUS
<1> QED
    BY <1>1, <1>2

\* A doubled mention in a part of a text is one in the text.
LEMMA DoubledWithin ==
    ASSUME NEW S, NEW text \in Seq(S), NEW part \in Seq(S), NEW off,
           Within(part, text, off), Doubled(part)
    PROVE  Doubled(text)
<1>1. PICK i \in 1..(Len(part) - 2) :
          IsAt(part[i]) /\ IsAt(part[i + 1]) /\ IsAll(part[i + 2])
    BY DEF Doubled
<1>2. /\ off \in Nat /\ off + Len(part) <= Len(text)
      /\ \A j \in 1..Len(part) : part[j] = text[off + j]
    BY DEF Within
<1>3. Len(part) \in Nat /\ Len(text) \in Nat
    OBVIOUS
<1>4. /\ i \in 1..Len(part) /\ i + 1 \in 1..Len(part) /\ i + 2 \in 1..Len(part)
      /\ off + (i + 1) = (off + i) + 1 /\ off + (i + 2) = (off + i) + 2
      /\ off + i \in 1..(Len(text) - 2)
    BY <1>2, <1>3
<1>5. /\ part[i] = text[off + i] /\ part[i + 1] = text[(off + i) + 1]
      /\ part[i + 2] = text[(off + i) + 2]
    BY <1>2, <1>4
<1>6. IsAt(text[off + i]) /\ IsAt(text[(off + i) + 1]) /\ IsAll(text[(off + i) + 2])
    BY <1>1, <1>5, Zenon
<1> QED
    BY <1>4, <1>6, Zenon DEF Doubled

\* What is posted of a reply.
LEMMA ReplySanitized ==
    ASSUME NEW S, NEW reply \in Seq(S), NEW max \in Nat
    PROVE  Sanitized(reply, max, Sanitize(reply, max))
<1> DEFINE first == FirstLine(reply)
           line == TrimLeft(first, Prefix)
           kept == DropMentions(line)
           cut == Take(kept, max)
           out == Trim(cut, White)
<1>1. Sanitize(reply, max) = out
    BY Zenon DEF Sanitize
<1>2. /\ first \in Seq(S) /\ \E off : Within(first, reply, off)
      /\ \A k \in 1..Len(first) : first[k] # "newline"
      /\ first # << >> => first[1] \notin White
      /\ (\A k \in 1..Len(reply) : reply[k] # "newline") => first = Trim(reply, White)
    BY FirstLineIs, Zenon
<1> HIDE DEF first
<1>3. /\ line \in Seq(S) /\ Len(line) <= Len(first)
      /\ \E off : Within(line, first, off)
      /\ line # << >> => line[1] \notin Prefix
      /\ (first # << >> => first[1] \notin Prefix) => line = first
    BY <1>2, TrimmedLeft, Zenon
<1>4. TabAfterCommand(first) <=> line # << >> /\ Head(line) = "tab"
    BY Zenon DEF TabAfterCommand
<1> HIDE DEF line
<1>5. KeptInv(S, line, Len(line), kept)
    BY <1>3, MentionsDropped, Zenon
<1> HIDE DEF kept
<1>6. /\ kept \in Seq(S) /\ Len(kept) <= Len(line)
      /\ \A k \in 1..Len(kept) : \E j \in 1..Len(line) : kept[k] = line[j]
      /\ \A k \in 1..(Len(kept) - 1) : IsAt(kept[k]) /\ IsAll(kept[k + 1]) => Doubled(line)
      /\ Len(kept) > 0 => kept[1] = line[1] \/ IsAll(kept[1])
      /\ (\A j \in 1..Len(line) : ~IsAt(line[j])) =>
            Len(kept) = Len(line) /\ \A k \in 1..Len(line) : kept[k] = line[k]
    BY <1>5, Zenon DEF KeptInv
<1>7. /\ cut \in Seq(S) /\ Len(cut) <= max /\ Within(cut, kept, 0)
      /\ Len(kept) <= max => cut = kept
    BY <1>6, Taken, Zenon
<1> HIDE DEF cut
<1>8. /\ out \in Seq(S) /\ Len(out) <= Len(cut)
      /\ \E off : Within(out, cut, off)
      /\ out # << >> => out[1] \notin White /\ out[Len(out)] \notin White
      /\ cut # << >> /\ cut[1] \notin White => out # << >> /\ out[1] = cut[1]
    BY <1>7, Trimmed
<1>9. out = Trim(cut, White)
    OBVIOUS
<1> HIDE DEF out
<1>10. Len(out) <= max
    BY <1>7, <1>8
<1>11. out \in Seq(S) /\ kept \in Seq(S) /\ line \in Seq(S) /\ first \in Seq(S)
    BY <1>2, <1>3, <1>6, <1>8, Zenon
<1>12. out = Trim(out, White)
    BY <1>8, TrimKeeps, Zenon
<1>13. PICK off : Within(out, kept, off)
    <2>1. PICK o : Within(out, cut, o)
        BY <1>8
    <2> QED
        BY <1>6, <1>7, <1>8, <2>1, WithinWithin, Zenon
<1>14. ASSUME NEW k \in 1..Len(out) PROVE out[k] # "newline"
    <2>1. off + k \in 1..Len(kept) /\ out[k] = kept[off + k]
        BY <1>11, <1>13, CharOfText
    <2>2. PICK j \in 1..Len(line) : kept[off + k] = line[j]
        BY <1>6, <2>1, Zenon
    <2>3. PICK o : Within(line, first, o)
        BY <1>3
    <2>4. o + j \in 1..Len(first) /\ line[j] = first[o + j]
        BY <1>11, <2>3, CharOfText
    <2> QED
        BY <1>2, <2>1, <2>2, <2>4, Zenon
<1>15. ASSUME NEW k \in 1..(Len(out) - 1), IsAt(out[k]), IsAll(out[k + 1])
       PROVE  Doubled(reply)
    <2>1. Len(out) \in Nat /\ Len(kept) \in Nat
        BY <1>6, <1>8, LenProperties, Zenon
    <2>2. k \in 1..Len(out) /\ k + 1 \in 1..Len(out)
        BY <2>1
    <2>3. /\ off + k \in 1..Len(kept) /\ out[k] = kept[off + k]
          /\ off + (k + 1) \in 1..Len(kept) /\ out[k + 1] = kept[off + (k + 1)]
        BY <1>11, <1>13, <2>2, CharOfText
    <2>4. off \in Nat
        BY <1>13 DEF Within
    <2>5. off + k \in 1..(Len(kept) - 1) /\ off + (k + 1) = (off + k) + 1
        BY <2>1, <2>2, <2>3, <2>4
    <2>6. Doubled(line)
        BY <1>6, <1>15, <2>3, <2>5, Zenon
    <2>7. Doubled(first)
        BY <1>2, <1>3, <2>6, DoubledWithin, Zenon
    <2> QED
        BY <1>2, <2>7, DoubledWithin, Zenon
<1>16. ASSUME out # << >>, out[1] \in Prefix PROVE TabAfterCommand(first)
    <2>1. 1 \in 1..Len(out) /\ 1 \in 1..Len(cut) /\ 1 \in 1..Len(kept) /\ 1 \in 1..Len(line)
          /\ cut # << >> /\ line # << >> /\ Len(kept) > 0
        <3>1. Len(out) \in Nat /\ Len(cut) \in Nat /\ Len(kept) \in Nat /\ Len(line) \in Nat
              /\ Len(out) # 0 /\ Len(cut) <= Len(kept)
            <4>1. Len(cut) <= Len(kept)
                BY <1>6, <1>7 DEF Within
            <4>2. Len(out) # 0
                BY <1>8, <1>16
            <4> QED
                BY <1>3, <1>6, <1>7, <1>8, <4>1, <4>2, LenProperties, Zenon
        <3>2. /\ 1 \in 1..Len(out) /\ 1 \in 1..Len(cut) /\ 1 \in 1..Len(kept) /\ 1 \in 1..Len(line)
              /\ Len(kept) > 0 /\ Len(cut) # 0 /\ Len(line) # 0
            BY <1>6, <1>8, <3>1
        <3> QED
            BY <1>3, <1>7, <3>2
    <2>2. cut[1] = kept[1]
        <3>1. 0 + 1 = 1
            OBVIOUS
        <3>2. cut \in Seq(S) /\ Within(cut, kept, 0)
            BY <1>7, Zenon
        <3> QED
            BY <1>11, <3>2, <2>1, <3>1, CharOfText
    <2>3. \A c : c \in White <=> c = " " \/ c = "tab" \/ c = "newline"
        BY Zenon DEF White
    <2>4. \A c : c \in Prefix <=> c = "/" \/ c = " "
        BY Zenon DEF Prefix
    <2>5. \A c : IsAll(c) => c \notin White /\ c \notin Prefix
        BY Zenon DEF IsAll, White, Prefix
    <2>6. line[1] # "newline"
        <3>1. PICK o : Within(line, first, o)
            BY <1>3
        <3>2. o + 1 \in 1..Len(first) /\ line[1] = first[o + 1]
            BY <1>11, <2>1, <3>1, CharOfText
        <3> QED
            BY <1>2, <3>2, Zenon
    <2>7. kept[1] = line[1] \/ IsAll(kept[1])
        BY <1>6, <2>1, Zenon
    <2>8. line[1] \notin Prefix
        BY <1>3, <2>1, Zenon
    <2>9. line[1] = "tab"
        <3>1. SUFFICES ASSUME line[1] # "tab" PROVE FALSE
            OBVIOUS
        <3>2. line[1] \notin White
            BY <2>3, <2>4, <2>6, <2>8, <3>1, Zenon
        <3>3. kept[1] \notin White /\ kept[1] \notin Prefix
            BY <2>5, <2>7, <2>8, <3>2, Zenon
        <3>4. out[1] = cut[1]
            BY <1>8, <2>1, <2>2, <3>3, Zenon
        <3> QED
            BY <1>16, <2>2, <3>3, <3>4, Zenon
    <2>10. Head(line) = line[1]
        BY <1>3, <2>1
    <2> QED
        BY <1>4, <2>1, <2>9, <2>10, Zenon
<1>17. ASSUME \A i \in DOMAIN reply : reply[i] \in {"x", " ", "all"}, Len(reply) <= max
       PROVE  out = Trim(reply, White)
    <2>1. DOMAIN reply = 1..Len(reply) /\ Len(reply) \in Nat
        OBVIOUS
    <2>2. \A i \in 1..Len(reply) : reply[i] = "x" \/ reply[i] = " " \/ reply[i] = "all"
        BY <1>17, <2>1, Zenon
    <2>3. \A i \in 1..Len(reply) : reply[i] # "newline" /\ reply[i] # "/" /\ reply[i] # "@"
        BY <2>2, Zenon
    <2>4. first = Trim(reply, White)
        BY <1>2, <2>3, Zenon
    <2>5. PICK o : Within(first, reply, o)
        BY <1>2
    <2>6. ASSUME NEW k \in 1..Len(first) PROVE first[k] # "/" /\ ~IsAt(first[k])
        <3>1. o + k \in 1..Len(reply) /\ first[k] = reply[o + k]
            BY <1>11, <2>5, CharOfText
        <3> QED
            BY <2>3, <3>1, Zenon DEF IsAt
    <2>7. first # << >> => first[1] \notin Prefix
        <3>1. ASSUME first # << >> PROVE 1 \in 1..Len(first)
            BY <1>2, <3>1
        <3>2. first # << >> => first[1] # " " /\ first[1] # "/"
            BY <1>2, <2>6, <3>1, Zenon DEF White
        <3> QED
            BY <3>2, Zenon DEF Prefix
    <2>8. line = first
        BY <1>3, <2>7, Zenon
    <2>9. Len(kept) = Len(line) /\ \A k \in 1..Len(line) : kept[k] = line[k]
        BY <1>6, <2>6, <2>8, Zenon
    <2>10. kept = first
        <3>1. \A k \in 1..Len(kept) : kept[k] = first[k]
            BY <2>8, <2>9, Zenon
        <3>2. Len(kept) = Len(first)
            BY <2>8, <2>9, Zenon
        <3> QED
            BY <1>2, <1>6, <3>1, <3>2, SeqEqual, Zenon
    <2>11. Len(first) <= Len(reply)
        BY <2>4, Trimmed, Zenon
    <2>12. Len(kept) <= max
        <3>1. Len(first) \in Nat
            BY <1>2, LenProperties, Zenon
        <3>2. Len(kept) = Len(first)
            BY <2>10, Zenon
        <3>3. Len(reply) <= max
            BY <1>17, Zenon
        <3> QED
            BY <2>1, <2>11, <3>1, <3>2, <3>3
    <2>13. cut = first
        BY <1>7, <2>10, <2>12, Zenon
    <2>14. Trim(first, White) = first
        <3>1. first # << >> => first[1] \notin White /\ first[Len(first)] \notin White
            BY <2>4, Trimmed, Zenon
        <3> QED
            BY <1>2, <3>1, TrimKeeps, Zenon
    <2> QED
        BY <1>9, <2>4, <2>13, <2>14, Zenon
<1>18. (\E i \in 1..(Len(out) - 1) : out[i] = "@" /\ out[i + 1] = "all")
           => \E i \in 1..(Len(reply) - 2) :
                  reply[i] = "@" /\ reply[i + 1] = "@" /\ reply[i + 2] = "all"
    BY <1>15, Zenon DEF IsAt, IsAll, Doubled
<1>19. \A i \in DOMAIN out : out[i] # "newline"
    <2>1. DOMAIN out = 1..Len(out)
        BY <1>8, LenProperties, Zenon
    <2> QED
        BY <1>14, <2>1, Zenon
<1>20. out # << >> /\ Head(out) \in Prefix => TabAfterCommand(FirstLine(reply))
    <2>1. out # << >> => Head(out) = out[1]
        BY <1>8
    <2> QED
        BY <1>16, <2>1, Zenon DEF first
<1> QED
    BY <1>1, <1>10, <1>12, <1>17, <1>18, <1>19, <1>20, Zenon DEF Sanitized

----------------------------------------------------------------------------
\* chunk_text: pieces laid out over a text

\* The pieces cover the beginning of a text, the k-th ending at e[k].
Laid(S, text, pieces, e) ==
    /\ pieces \in Seq(Seq(S)) /\ e \in [Nat -> Nat] /\ e[0] = 0
    /\ \A k \in 1..Len(pieces) :
          Within(pieces[k], text, e[k - 1]) /\ e[k] = e[k - 1] + Len(pieces[k])

\* One more piece, of the given size, ends so much later than the n-th.
After(e, n, size) == [e EXCEPT ![n + 1] = e[n] + size]

\* The other ends stay.
LEMMA EndsAfter ==
    ASSUME NEW e \in [Nat -> Nat], NEW n \in Nat, NEW size \in Nat
    PROVE  /\ After(e, n, size) \in [Nat -> Nat]
           /\ After(e, n, size)[n + 1] = e[n] + size
           /\ \A k \in Nat : k # n + 1 => After(e, n, size)[k] = e[k]
BY DEF After

\* A piece that begins where the last ends can be added.
LEMMA LaidAppended ==
    ASSUME NEW S, NEW text, NEW pieces, NEW e, Laid(S, text, pieces, e),
           NEW piece \in Seq(S), Within(piece, text, e[Len(pieces)])
    PROVE  Laid(S, text, Append(pieces, piece), After(e, Len(pieces), Len(piece)))
<1> DEFINE n == Len(pieces)
           then == Append(pieces, piece)
           f == After(e, n, Len(piece))
<1>1. /\ pieces \in Seq(Seq(S)) /\ e \in [Nat -> Nat] /\ e[0] = 0
      /\ \A k \in 1..n : Within(pieces[k], text, e[k - 1]) /\ e[k] = e[k - 1] + Len(pieces[k])
    BY Zenon DEF Laid
<1>2. n \in Nat /\ Len(piece) \in Nat
    BY <1>1, LenProperties, Zenon
<1>3. /\ then \in Seq(Seq(S)) /\ Len(then) = n + 1 /\ then[n + 1] = piece
      /\ \A k \in 1..n : then[k] = pieces[k]
    BY <1>1, AppendProperties
<1> HIDE DEF n
<1>4. /\ f \in [Nat -> Nat] /\ f[n + 1] = e[n] + Len(piece)
      /\ \A k \in Nat : k # n + 1 => f[k] = e[k]
    BY <1>1, <1>2, EndsAfter, Zenon
<1>5. Within(piece, text, e[n])
    BY Zenon DEF n
<1> SUFFICES Laid(S, text, then, f)
    BY Zenon DEF n
<1> HIDE DEF then, f
<1>6. ASSUME NEW k \in 1..Len(then)
      PROVE  Within(then[k], text, f[k - 1]) /\ f[k] = f[k - 1] + Len(then[k])
    <2>1. k \in Nat /\ k - 1 \in Nat /\ k - 1 # n + 1 /\ (k - 1) + 1 = k
        BY <1>2, <1>3
    <2>2. f[k - 1] = e[k - 1]
        BY <1>4, <2>1, Zenon
    <2>3. CASE k = n + 1
        <3>1. k - 1 = n
            BY <1>2, <2>3
        <3> QED
            BY <1>3, <1>4, <1>5, <2>2, <2>3, <3>1, Zenon
    <2>4. CASE k # n + 1
        <3>1. k \in 1..n
            BY <1>2, <1>3, <2>4
        <3> QED
            BY <1>1, <1>3, <1>4, <2>1, <2>2, <2>4, <3>1, Zenon
    <2> QED
        BY <2>3, <2>4
<1>7. f[0] = 0
    <2>1. 0 \in Nat /\ 0 # n + 1
        BY <1>2
    <2> QED
        BY <1>1, <1>4, <2>1, Zenon
<1> QED
    BY <1>3, <1>4, <1>6, <1>7, Zenon DEF Laid

\* The last piece can be replaced by one that begins where it does.
LEMMA LaidReplaced ==
    ASSUME NEW S, NEW text, NEW pieces, NEW e, Laid(S, text, pieces, e),
           NEW piece \in Seq(S), NEW n \in Nat, Len(pieces) = n + 1,
           Within(piece, text, e[n])
    PROVE  Laid(S, text, Replaced(pieces, piece), After(e, n, Len(piece)))
<1> DEFINE then == Replaced(pieces, piece)
           f == After(e, n, Len(piece))
<1>1. /\ pieces \in Seq(Seq(S)) /\ e \in [Nat -> Nat] /\ e[0] = 0
      /\ \A k \in 1..(n + 1) :
            Within(pieces[k], text, e[k - 1]) /\ e[k] = e[k - 1] + Len(pieces[k])
    BY Zenon DEF Laid
<1>2. n \in Nat /\ Len(piece) \in Nat /\ Len(pieces) > 0
    OBVIOUS
<1>3. /\ then \in Seq(Seq(S)) /\ Len(then) = n + 1 /\ then[n + 1] = piece
      /\ \A k \in 1..(n + 1) : k # n + 1 => then[k] = pieces[k]
    <2> DEFINE m == Len(pieces)
    <2>1. /\ then \in Seq(Seq(S)) /\ Len(then) = m /\ then[m] = piece
          /\ \A k \in 1..m : k # m => then[k] = pieces[k]
        <3>1. pieces \in Seq(Seq(S)) /\ Len(pieces) > 0
            BY <1>1, <1>2, Zenon
        <3> QED
            BY <3>1, LastReplaced
    <2>2. m = n + 1
        OBVIOUS
    <2> HIDE DEF then, m
    <2> QED
        BY <2>1, <2>2, Zenon
<1>4. /\ f \in [Nat -> Nat] /\ f[n + 1] = e[n] + Len(piece)
      /\ \A k \in Nat : k # n + 1 => f[k] = e[k]
    BY <1>1, <1>2, EndsAfter, Zenon
<1> HIDE DEF then, f
<1>5. ASSUME NEW k \in 1..Len(then)
      PROVE  Within(then[k], text, f[k - 1]) /\ f[k] = f[k - 1] + Len(then[k])
    <2>1. k \in Nat /\ k \in 1..(n + 1) /\ k - 1 \in Nat /\ k - 1 # n + 1
        BY <1>2, <1>3
    <2>2. f[k - 1] = e[k - 1]
        BY <1>4, <2>1, Zenon
    <2>3. CASE k = n + 1
        <3>1. k - 1 = n
            BY <1>2, <2>3
        <3> QED
            BY <1>3, <1>4, <2>2, <2>3, <3>1, Zenon
    <2>4. CASE k # n + 1
        BY <1>1, <1>3, <1>4, <2>1, <2>2, <2>4, Zenon
    <2> QED
        BY <2>3, <2>4
<1>6. f[0] = 0
    <2>1. 0 \in Nat /\ 0 # n + 1
        BY <1>2
    <2> QED
        BY <1>1, <1>4, <2>1, Zenon
<1> QED
    BY <1>3, <1>4, <1>5, <1>6, Zenon DEF Laid, then, f

\* Every piece ends in the text and not before it begins.
LEMMA LaidEnds ==
    ASSUME NEW S, NEW text \in Seq(S), NEW pieces, NEW e, Laid(S, text, pieces, e)
    PROVE  /\ \A k \in 0..Len(pieces) : e[k] \in 0..Len(text)
           /\ \A k \in 1..Len(pieces) : e[k - 1] <= e[k]
<1>1. /\ pieces \in Seq(Seq(S)) /\ e \in [Nat -> Nat] /\ e[0] = 0
      /\ \A k \in 1..Len(pieces) :
            Within(pieces[k], text, e[k - 1]) /\ e[k] = e[k - 1] + Len(pieces[k])
    BY Zenon DEF Laid
<1>2. Len(text) \in Nat /\ Len(pieces) \in Nat
    BY <1>1, LenProperties, Zenon
<1>3. ASSUME NEW k \in 1..Len(pieces) PROVE e[k] \in 0..Len(text) /\ e[k - 1] <= e[k]
    <2>1. pieces[k] \in Seq(S)
        BY <1>1
    <2>2. Len(pieces[k]) \in Nat
        BY <2>1, LenProperties, Zenon
    <2>3. e[k - 1] \in Nat /\ e[k - 1] + Len(pieces[k]) <= Len(text)
        BY <1>1 DEF Within
    <2>4. e[k] = e[k - 1] + Len(pieces[k])
        BY <1>1
    <2> QED
        BY <1>2, <2>2, <2>3, <2>4
<1> QED
    BY <1>1, <1>2, <1>3

\* Putting sequences together is a loop over them.
LEMMA Flattening ==
    ASSUME NEW S, NEW pieces \in Seq(Seq(S)), Len(pieces) > 0
    PROVE  \E h : /\ h[1] = pieces[1]
                  /\ \A i \in 2..Len(pieces) : h[i] = h[i - 1] \o pieces[i]
                  /\ FlattenSeq(pieces) = h[Len(pieces)]
<1> DEFINE n == Len(pieces)
           T == Seq(S)
           Grow(s, i) == s \o pieces[i]
           step == [p \in T \X (1..n) |-> Grow(p[1], p[2])]
           At(g, i) == IF i = 1 THEN pieces[i] ELSE g[i - 1] \o pieces[i]
           Def(g) == [i \in 1..n |-> At(g, i)]
           h == CHOOSE g : g = Def(g)
<1>1. n \in Nat /\ n # 0 /\ \A i \in 1..n : pieces[i] \in T
    OBVIOUS
<1>2. ASSUME NEW s \in T, NEW i \in 1..n PROVE Grow(s, i) \in T
    BY <1>1, ConcatProperties
<1>3. step \in [T \X (1..n) -> T]
    <2>1. ASSUME NEW p \in T \X (1..n) PROVE Grow(p[1], p[2]) \in T
        <3>1. p[1] \in T /\ p[2] \in 1..n
            OBVIOUS
        <3> QED
            BY <1>2, <3>1, Zenon
    <2> QED
        BY <2>1, Zenon
<1>4. \A s \in T, i \in 1..n : step[<<s, i>>] = Grow(s, i)
    OBVIOUS
<1>5. << >> \in T
    OBVIOUS
<1> HIDE DEF step, n
<1>6. PICK f : Loops(f, n, T, << >>, step)
    BY <1>1, <1>3, <1>5, LoopExists
<1>7. f \in [0..n -> T] /\ f[0] = << >>
    BY <1>6 DEF Loops
<1> DEFINE g == [i \in 1..n |-> f[i]]
<1>8. ASSUME NEW i \in 1..n PROVE f[i] = At(g, i)
    <2>1. i - 1 \in 0..n /\ f[i] = step[<<f[i - 1], i>>]
        BY <1>1, <1>6 DEF Loops
    <2>2. f[i - 1] \in T
        BY <1>7, <2>1
    <2>3. f[i] = f[i - 1] \o pieces[i]
        BY <1>4, <2>1, <2>2, Zenon
    <2>4. CASE i = 1
        <3>1. f[i - 1] = << >>
            BY <1>7, <2>4
        <3> QED
            BY <1>1, <2>3, <2>4, <3>1, ConcatEmptySeq
    <2>5. CASE i # 1
        <3>1. i - 1 \in 1..n
            BY <1>1, <2>5
        <3>2. g[i - 1] = f[i - 1]
            BY <3>1
        <3> HIDE DEF g
        <3> QED
            BY <2>3, <2>5, <3>2, Zenon
    <2> QED
        BY <2>4, <2>5
<1>9. g = Def(g)
    <2> HIDE DEF At
    <2>1. \A i \in 1..n : g[i] = f[i]
        OBVIOUS
    <2> QED
        BY <1>8, <2>1
<1>10. h = Def(h)
    <2> HIDE DEF g
    <2> QED
        BY <1>9, Zenon
<1>11. FlattenSeq(pieces) = h[n]
    BY <1>1 DEF FlattenSeq, n
<1> HIDE DEF h, g
<1>12. \A i \in 1..n : h[i] = At(h, i)
    <2>1. \A i \in 1..n : Def(h)[i] = At(h, i)
        BY Zenon
    <2> HIDE DEF Def, At
    <2> QED
        BY <1>10, <2>1, Zenon
<1>13. h[1] = pieces[1] /\ \A i \in 2..n : h[i] = h[i - 1] \o pieces[i]
    <2>1. 1 \in 1..n /\ \A i \in 2..n : i \in 1..n /\ i # 1
        BY <1>1
    <2> QED
        BY <1>12, <2>1, Zenon
<1> QED
    BY <1>11, <1>13, Zenon DEF n

\* What they are put together to has their elements.
LEMMA FlattenedIs ==
    ASSUME NEW S, NEW pieces \in Seq(Seq(S))
    PROVE  FlattenSeq(pieces) \in Seq(S)
<1>1. CASE ~(Len(pieces) > 0)
    <2>1. pieces = << >> /\ Len(pieces) = 0
        BY <1>1
    <2> QED
        BY <2>1, EmptySeq, Zenon DEF FlattenSeq
<1>2. CASE Len(pieces) > 0
    <2> DEFINE n == Len(pieces)
    <2>1. PICK h : /\ h[1] = pieces[1]
                   /\ \A i \in 2..n : h[i] = h[i - 1] \o pieces[i]
                   /\ FlattenSeq(pieces) = h[n]
        BY <1>2, Flattening, Zenon
    <2>2. n \in Nat /\ n # 0 /\ \A i \in 1..n : pieces[i] \in Seq(S)
        BY <1>2
    <2> DEFINE ok == {i \in Nat : i \in 1..n => h[i] \in Seq(S)}
    <2> HIDE DEF n
    <2>3. 0 \in ok
        OBVIOUS
    <2>4. ASSUME NEW i \in Nat, i \in ok PROVE i + 1 \in ok
        <3>1. CASE i = 0
            <4>1. i + 1 = 1 /\ 1 \in 1..n /\ 1 \in Nat
                BY <2>2, <3>1
            <4> QED
                BY <2>1, <2>2, <4>1, Zenon
        <3>2. CASE i # 0 /\ i + 1 \in 1..n
            <4>1. i \in 1..n /\ i + 1 \in 2..n /\ (i + 1) - 1 = i /\ i + 1 \in Nat
                BY <2>2, <3>2
            <4>2. h[i] \in Seq(S) /\ pieces[i + 1] \in Seq(S)
                BY <2>2, <2>4, <3>2, <4>1, Zenon
            <4>3. h[i + 1] = h[i] \o pieces[i + 1]
                BY <2>1, <4>1, Zenon
            <4>4. h[i] \o pieces[i + 1] \in Seq(S)
                BY <4>2, ConcatProperties, Zenon
            <4> QED
                BY <4>1, <4>3, <4>4, Zenon
        <3>3. CASE i + 1 \notin 1..n
            BY <3>3
        <3> QED
            BY <3>1, <3>2, <3>3
    <2> HIDE DEF ok
    <2>5. n \in ok
        BY <2>2, <2>3, <2>4, SetInduction
    <2>6. n \in 1..n
        BY <2>2
    <2> QED
        BY <2>1, <2>5, <2>6, Zenon DEF ok
<1> QED
    BY <1>1, <1>2

\* The beginning of a text is made longer by what follows it.
LEMMA BeginningGrows ==
    ASSUME NEW S, NEW text \in Seq(S), NEW piece \in Seq(S), NEW off,
           Within(piece, text, off)
    PROVE  SubSeq(text, 1, off) \o piece = SubSeq(text, 1, off + Len(piece))
<1> DEFINE s == SubSeq(text, 1, off)
           t == SubSeq(text, 1, off + Len(piece))
           u == s \o piece
<1>1. /\ off \in Nat /\ off + Len(piece) <= Len(text)
      /\ \A k \in 1..Len(piece) : piece[k] = text[off + k]
    BY DEF Within
<1>2. Len(text) \in Nat /\ Len(piece) \in Nat /\ \A k \in 1..Len(text) : text[k] \in S
    OBVIOUS
<1>3. /\ s \in Seq(S) /\ Len(s) = off
      /\ \A k \in 1..off : s[k] = text[k]
    <2>1. 1 \in Int /\ off \in Int /\ \A k \in 1..off : k \in 1..Len(text)
        BY <1>1, <1>2
    <2> QED
        BY <1>1, <1>2, <2>1, SubSeqProperties
<1>4. /\ t \in Seq(S) /\ Len(t) = off + Len(piece)
      /\ \A k \in 1..(off + Len(piece)) : t[k] = text[k]
    <2>1. 1 \in Int /\ off + Len(piece) \in Int
          /\ \A k \in 1..(off + Len(piece)) : k \in 1..Len(text)
        BY <1>1, <1>2
    <2> QED
        BY <1>1, <1>2, <2>1, SubSeqProperties
<1> HIDE DEF s, t
<1>5. /\ u \in Seq(S) /\ Len(u) = off + Len(piece)
      /\ \A k \in 1..off : u[k] = s[k]
      /\ \A k \in 1..Len(piece) : u[off + k] = piece[k]
    <2>1. Joined(u, s, piece)
        BY Zenon DEF Joined
    <2> HIDE DEF u
    <2>2. /\ u \in Seq(S) /\ Len(u) = Len(s) + Len(piece)
          /\ \A k \in 1..Len(s) : u[k] = s[k]
          /\ \A k \in 1..Len(piece) : u[Len(s) + k] = piece[k]
        BY <1>3, <2>1, JoinedIs
    <2> QED
        BY <1>3, <2>2, Zenon
<1> HIDE DEF u
<1>6. ASSUME NEW k \in 1..Len(u) PROVE u[k] = t[k]
    <2>1. k \in 1..(off + Len(piece))
        BY <1>5
    <2>2. CASE k <= off
        <3>1. k \in 1..off
            BY <1>1, <2>2
        <3> QED
            BY <1>3, <1>4, <1>5, <2>1, <3>1, Zenon
    <2>3. CASE ~(k <= off)
        <3>1. k - off \in 1..Len(piece) /\ off + (k - off) = k
            BY <1>1, <1>2, <2>1, <2>3
        <3>2. u[k] = piece[k - off] /\ piece[k - off] = text[k]
            BY <1>1, <1>5, <3>1
        <3> QED
            BY <1>4, <2>1, <3>2, Zenon
    <2> QED
        BY <2>2, <2>3
<1>7. u = t
    BY <1>4, <1>5, <1>6, SeqEqual, Zenon
<1> QED
    BY <1>7, Zenon DEF u, s, t

\* Pieces that cover the beginning of a text make it up.
LEMMA LaidFlattened ==
    ASSUME NEW S, NEW text \in Seq(S), NEW pieces, NEW e, Laid(S, text, pieces, e),
           Len(pieces) > 0
    PROVE  FlattenSeq(pieces) = SubSeq(text, 1, e[Len(pieces)])
<1> DEFINE n == Len(pieces)
           Upto(i) == SubSeq(text, 1, e[i])
<1>1. /\ pieces \in Seq(Seq(S)) /\ e[0] = 0
      /\ \A k \in 1..n : Within(pieces[k], text, e[k - 1]) /\ e[k] = e[k - 1] + Len(pieces[k])
    BY Zenon DEF Laid
<1>2. PICK h : /\ h[1] = pieces[1]
               /\ \A i \in 2..n : h[i] = h[i - 1] \o pieces[i]
               /\ FlattenSeq(pieces) = h[n]
    BY <1>1, Flattening, Zenon
<1>3. n \in Nat /\ n # 0 /\ \A i \in 1..n : pieces[i] \in Seq(S)
    BY <1>1
<1>4. ASSUME NEW i \in 1..n PROVE Upto(i) = Upto(i - 1) \o pieces[i]
    <2>1. pieces[i] \in Seq(S) /\ Within(pieces[i], text, e[i - 1])
          /\ e[i] = e[i - 1] + Len(pieces[i])
        BY <1>1, <1>3, Zenon
    <2>2. SubSeq(text, 1, e[i - 1]) \o pieces[i] = SubSeq(text, 1, e[i - 1] + Len(pieces[i]))
        BY <2>1, BeginningGrows, Zenon
    <2> QED
        BY <2>1, <2>2, Zenon
<1>5. Upto(0) = << >>
    BY <1>1
<1> HIDE DEF Upto, n
<1> DEFINE ok == {i \in Nat : i \in 1..n => h[i] = Upto(i)}
<1>6. 0 \in ok
    OBVIOUS
<1>7. ASSUME NEW i \in Nat, i \in ok PROVE i + 1 \in ok
    <2>1. CASE i = 0
        <3>1. i + 1 = 1 /\ 1 \in 1..n /\ 1 - 1 = 0 /\ 1 \in Nat
            BY <1>3, <2>1
        <3>2. Upto(1) = << >> \o pieces[1]
            BY <1>4, <1>5, <3>1, Zenon
        <3>3. << >> \o pieces[1] = pieces[1]
            BY <1>3, <3>1, ConcatEmptySeq
        <3> QED
            BY <1>2, <3>1, <3>2, <3>3, Zenon
    <2>2. CASE i # 0 /\ i + 1 \in 1..n
        <3>1. i \in 1..n /\ i + 1 \in 2..n /\ (i + 1) - 1 = i /\ i + 1 \in Nat
            BY <1>3, <2>2
        <3>2. h[i] = Upto(i)
            BY <1>7, <3>1, Zenon
        <3>3. h[i + 1] = h[i] \o pieces[i + 1]
            BY <1>2, <3>1, Zenon
        <3>4. Upto(i + 1) = Upto(i) \o pieces[i + 1]
            BY <1>4, <2>2, <3>1, Zenon
        <3> QED
            BY <3>1, <3>2, <3>3, <3>4, Zenon
    <2>3. CASE i + 1 \notin 1..n
        BY <2>3
    <2> QED
        BY <2>1, <2>2, <2>3
<1> HIDE DEF ok
<1>8. n \in ok
    BY <1>3, <1>6, <1>7, SetInduction
<1>9. n \in 1..n
    BY <1>3
<1>10. h[n] = Upto(n)
    BY <1>8, <1>9, Zenon DEF ok
<1> QED
    BY <1>2, <1>10, Zenon DEF Upto, n

\* So do the first of them.
LEMMA LaidBeginning ==
    ASSUME NEW S, NEW text \in Seq(S), NEW pieces, NEW e, Laid(S, text, pieces, e),
           NEW k \in 1..Len(pieces)
    PROVE  /\ FlattenSeq(SubSeq(pieces, 1, k)) = SubSeq(text, 1, e[k])
           /\ Len(FlattenSeq(SubSeq(pieces, 1, k))) = e[k]
<1> DEFINE part == SubSeq(pieces, 1, k)
<1>1. /\ pieces \in Seq(Seq(S)) /\ e \in [Nat -> Nat] /\ e[0] = 0
      /\ \A i \in 1..Len(pieces) :
            Within(pieces[i], text, e[i - 1]) /\ e[i] = e[i - 1] + Len(pieces[i])
    BY Zenon DEF Laid
<1>2. Len(pieces) \in Nat /\ k \in Nat /\ k > 0 /\ 1 \in 1..Len(pieces) /\ 1 <= k
    <2>1. Len(pieces) \in Nat
        BY <1>1, LenProperties, Zenon
    <2> QED
        BY <2>1
<1>3. /\ part \in Seq(Seq(S)) /\ Len(part) = k
      /\ \A i \in 1..k : part[i] = pieces[i]
    <2>1. /\ part \in Seq(Seq(S)) /\ Len(part) = k - 1 + 1
          /\ \A i \in 1..(k - 1 + 1) : part[i] = pieces[1 + i - 1]
        BY <1>1, <1>2, PartIs, Zenon
    <2>2. k - 1 + 1 = k /\ \A i \in 1..k : 1 + i - 1 = i
        BY <1>2
    <2> HIDE DEF part
    <2> QED
        BY <2>1, <2>2
<1> HIDE DEF part
<1>4. \A i \in 1..k : i \in 1..Len(pieces)
    BY <1>2
<1>5. Laid(S, text, part, e)
    BY <1>1, <1>3, <1>4, Zenon DEF Laid
<1>6. FlattenSeq(part) = SubSeq(text, 1, e[k])
    BY <1>2, <1>3, <1>5, LaidFlattened, Zenon
<1>7. e[k] \in 0..Len(text)
    <2>1. k \in 0..Len(pieces)
        BY <1>2
    <2> QED
        BY <2>1, LaidEnds
<1>8. Len(SubSeq(text, 1, e[k])) = e[k]
    <2> DEFINE m == e[k]
    <2>1. m \in Nat /\ 1 \in Int /\ m \in Int /\ \A i \in 1..m : text[i] \in S
        BY <1>7
    <2> HIDE DEF m
    <2>2. Len(SubSeq(text, 1, m)) = IF 1 <= m THEN m - 1 + 1 ELSE 0
        BY <2>1, SubSeqProperties
    <2>3. Len(SubSeq(text, 1, m)) = m
        BY <2>1, <2>2
    <2> QED
        BY <2>3, Zenon DEF m
<1> QED
    BY <1>6, <1>8, Zenon DEF part

----------------------------------------------------------------------------
\* chunk_text: the words

\* The words of the first i characters: each ends, but for the last, with a
\* blank, and has no other.
Parted(S, text, seps, pieces, e, i) ==
    /\ Laid(S, text, pieces, e) /\ e[Len(pieces)] = i
    /\ \A k \in 1..Len(pieces) : PieceOf(S, text, seps, pieces[k], e[k - 1])
    /\ \A k \in 1..(Len(pieces) - 1) : text[e[k]] \in seps

\* A turn of the loop keeps that.
LEMMA PartedStep ==
    ASSUME NEW S, NEW text \in Seq(S), NEW seps, NEW i \in 1..Len(text), NEW pieces, NEW e,
           Parted(S, text, seps, pieces, e, i - 1)
    PROVE  \E f : Parted(S, text, seps, Grown(text, seps, pieces, i), f, i)
<1> DEFINE n == Len(pieces)
<1>1. /\ Laid(S, text, pieces, e) /\ e[n] = i - 1
      /\ \A k \in 1..n : PieceOf(S, text, seps, pieces[k], e[k - 1])
      /\ \A k \in 1..(n - 1) : text[e[k]] \in seps
    BY Zenon DEF Parted
<1>2. /\ pieces \in Seq(Seq(S)) /\ e \in [Nat -> Nat] /\ e[0] = 0
      /\ \A k \in 1..n : Within(pieces[k], text, e[k - 1]) /\ e[k] = e[k - 1] + Len(pieces[k])
    BY <1>1, Zenon DEF Laid
<1>3. n \in Nat /\ i \in Nat /\ i - 1 \in Nat /\ (i - 1) + 1 = i
    BY <1>2
<1>4. CASE i = 1 \/ text[i - 1] \in seps
    <2> DEFINE one == <<text[i]>>
               then == Append(pieces, one)
               f == After(e, n, Len(one))
    <2>1. Grown(text, seps, pieces, i) = then
        BY <1>4, Zenon DEF Grown
    <2>2. PieceOf(S, text, seps, one, i - 1) /\ Len(one) = 1
        BY PieceStarts
    <2> HIDE DEF one
    <2>3. one \in Seq(S) /\ Within(one, text, e[n])
        BY <1>1, <2>2, Zenon DEF PieceOf
    <2>4. Laid(S, text, then, f)
        BY <1>1, <2>3, LaidAppended, Zenon
    <2>5. /\ Len(then) = n + 1 /\ then[n + 1] = one
          /\ \A k \in 1..n : then[k] = pieces[k]
        BY <1>2, <2>3, AppendProperties
    <2> HIDE DEF n, then
    <2>6. f[n + 1] = e[n] + 1 /\ \A k \in Nat : k # n + 1 => f[k] = e[k]
        <3>1. Len(one) \in Nat
            BY <2>2
        <3>2. f[n + 1] = e[n] + Len(one) /\ \A k \in Nat : k # n + 1 => f[k] = e[k]
            BY <1>2, <1>3, <3>1, EndsAfter, Zenon
        <3> QED
            BY <2>2, <3>2, Zenon
    <2> HIDE DEF f
    <2>7. f[Len(then)] = i
        BY <1>1, <1>3, <2>5, <2>6
    <2>8. ASSUME NEW k \in 1..Len(then)
          PROVE  PieceOf(S, text, seps, then[k], f[k - 1])
        <3>1. k - 1 \in Nat /\ k - 1 # n + 1
            BY <1>3, <2>5
        <3>2. f[k - 1] = e[k - 1]
            BY <2>6, <3>1, Zenon
        <3>3. CASE k = n + 1
            <4>1. k - 1 = n
                BY <1>3, <3>3
            <4> QED
                BY <1>1, <2>2, <2>5, <3>2, <3>3, <4>1, Zenon
        <3>4. CASE k # n + 1
            <4>1. k \in 1..n
                BY <1>3, <2>5, <3>4
            <4> QED
                BY <1>1, <2>5, <3>2, <4>1, Zenon
        <3> QED
            BY <3>3, <3>4
    <2>9. ASSUME NEW k \in 1..(Len(then) - 1) PROVE text[f[k]] \in seps
        <3>1. k \in Nat /\ k \in 1..n /\ k # n + 1
            BY <1>3, <2>5
        <3>2. f[k] = e[k]
            BY <2>6, <3>1, Zenon
        <3>3. CASE k = n
            <4>1. i # 1
                <5>1. /\ e[k] = e[k - 1] + Len(pieces[k])
                      /\ PieceOf(S, text, seps, pieces[k], e[k - 1])
                    BY <1>1, <1>2, <3>1, Zenon
                <5>2. e[k - 1] \in Nat /\ pieces[k] \in Seq(S) /\ Len(pieces[k]) > 0
                    BY <5>1, Zenon DEF PieceOf, Within
                <5>3. Len(pieces[k]) \in Nat
                    BY <5>2, LenProperties, Zenon
                <5>4. e[k] # 0
                    BY <5>1, <5>2, <5>3
                <5> QED
                    BY <1>1, <3>3, <5>4
            <4> QED
                BY <1>1, <1>4, <3>2, <3>3, <4>1, Zenon
        <3>4. CASE k # n
            <4>1. k \in 1..(n - 1)
                BY <1>3, <3>1, <3>4
            <4> QED
                BY <1>1, <3>2, <4>1, Zenon
        <3> QED
            BY <3>3, <3>4
    <2>10. Parted(S, text, seps, then, f, i)
        BY <2>4, <2>7, <2>8, <2>9, Zenon DEF Parted
    <2> QED
        BY <2>1, <2>10, Zenon
<1>5. CASE ~(i = 1 \/ text[i - 1] \in seps)
    <2>1. n # 0
        BY <1>1, <1>2, <1>3, <1>5
    <2> DEFINE m == n - 1
    <2>2. m \in Nat /\ n = m + 1 /\ n \in 1..n /\ n - 1 = m
        BY <1>3, <2>1
    <2> DEFINE v == Append(pieces[n], text[i])
               then == Replaced(pieces, v)
               f == After(e, m, Len(v))
    <2>3. Grown(text, seps, pieces, i) = then
        BY <1>5, Zenon DEF Grown
    <2>4. /\ PieceOf(S, text, seps, pieces[n], e[m]) /\ e[n] = e[m] + Len(pieces[n])
          /\ e[m] \in Nat
        BY <1>1, <1>2, <2>2
    <2> HIDE DEF m
    <2>5. /\ PieceOf(S, text, seps, v, e[m])
          /\ Len(v) = Len(pieces[n]) + 1
        <3>1. e[m] + Len(pieces[n]) = i - 1
            BY <1>1, <2>4, Zenon
        <3> QED
            BY <1>5, <2>4, <3>1, PieceGrows
    <2> HIDE DEF v
    <2>6. v \in Seq(S) /\ Within(v, text, e[m])
        BY <2>5, Zenon DEF PieceOf
    <2>7. Laid(S, text, then, f)
        BY <1>1, <2>2, <2>6, LaidReplaced, Zenon
    <2>8. /\ Len(then) = n /\ then[n] = v
          /\ \A k \in 1..n : k # n => then[k] = pieces[k]
        <3>1. Len(pieces) > 0
            BY <1>3, <2>1
        <3> QED
            BY <1>2, <2>6, <3>1, LastReplaced
    <2> HIDE DEF n, then
    <2>9. f[m + 1] = e[m] + Len(v) /\ \A k \in Nat : k # m + 1 => f[k] = e[k]
        <3>1. Len(v) \in Nat
            BY <2>6, LenProperties, Zenon
        <3> QED
            BY <1>2, <2>2, <3>1, EndsAfter, Zenon
    <2> HIDE DEF f
    <2>10. f[Len(then)] = i
        <3>1. f[n] = e[m] + Len(v)
            BY <2>2, <2>9, Zenon
        <3>2. Len(pieces[n]) \in Nat
            <4>1. pieces[n] \in Seq(S)
                BY <2>4, Zenon DEF PieceOf
            <4> QED
                BY <4>1, LenProperties, Zenon
        <3>3. e[m] + (Len(pieces[n]) + 1) = (e[m] + Len(pieces[n])) + 1
            BY <2>4, <3>2
        <3> QED
            BY <1>1, <1>3, <2>4, <2>5, <2>8, <3>1, <3>3, Zenon
    <2>11. ASSUME NEW k \in 1..Len(then)
           PROVE  PieceOf(S, text, seps, then[k], f[k - 1])
        <3>1. k \in 1..n /\ k - 1 \in Nat /\ k - 1 # m + 1
            BY <1>3, <2>2, <2>8
        <3>2. f[k - 1] = e[k - 1]
            BY <2>9, <3>1, Zenon
        <3> QED
            BY <1>1, <2>2, <2>5, <2>8, <3>1, <3>2, Zenon
    <2>12. ASSUME NEW k \in 1..(Len(then) - 1) PROVE text[f[k]] \in seps
        <3>1. k \in 1..(n - 1) /\ k \in Nat /\ k # m + 1
            BY <1>3, <2>2, <2>8
        <3> QED
            BY <1>1, <2>9, <3>1, Zenon
    <2>13. Parted(S, text, seps, then, f, i)
        BY <2>7, <2>10, <2>11, <2>12, Zenon DEF Parted
    <2> QED
        BY <2>3, <2>13, Zenon
<1> QED
    BY <1>4, <1>5

\* So the whole text is parted into its words.
LEMMA TextParted ==
    ASSUME NEW S, NEW text \in Seq(S), NEW seps
    PROVE  \E e : Parted(S, text, seps, SplitInclusive(text, seps), e, Len(text))
<1> DEFINE n == Len(text)
<1>1. PICK h : /\ h[0] = << >>
               /\ \A i \in 1..n : h[i] = Grown(text, seps, h[i - 1], i)
               /\ SplitInclusive(text, seps) = h[n]
    BY SplittingText, Zenon
<1>2. n \in Nat
    OBVIOUS
<1> DEFINE ok == {i \in Nat : i <= n => \E e : Parted(S, text, seps, h[i], e, i)}
<1>3. 0 \in ok
    <2> DEFINE e == [i \in Nat |-> 0]
    <2>1. Parted(S, text, seps, << >>, e, 0)
        BY DEF Parted, Laid
    <2> QED
        BY <1>1, <2>1, Zenon
<1>4. ASSUME NEW i \in Nat, i \in ok PROVE i + 1 \in ok
    <2>1. ASSUME i + 1 <= n PROVE \E e : Parted(S, text, seps, h[i + 1], e, i + 1)
        <3>1. i <= n /\ i + 1 \in 1..Len(text) /\ (i + 1) - 1 = i
            BY <1>2, <2>1
        <3>2. PICK e : Parted(S, text, seps, h[i], e, (i + 1) - 1)
            BY <1>4, <3>1, Zenon
        <3>3. h[i + 1] = Grown(text, seps, h[i], i + 1)
            BY <1>1, <3>1, Zenon
        <3> QED
            BY <3>1, <3>2, <3>3, PartedStep, Zenon
    <2>2. i + 1 \in Nat
        OBVIOUS
    <2> QED
        BY <2>1, <2>2, Zenon
<1> HIDE DEF ok
<1>5. n \in ok
    BY <1>2, <1>3, <1>4, SetInduction
<1>6. n <= n
    BY <1>2
<1> QED
    BY <1>1, <1>2, <1>5, <1>6, Zenon DEF ok

\* A word is between two places where the text can be cut, with none inside.
WordBetween(text, a, b) ==
    /\ a = 0 \/ a \in WordEnds(text)
    /\ b \in WordEnds(text) /\ a < b
    /\ \A i \in (a + 1)..(b - 1) : i \notin WordEnds(text)

\* It is the word at each of its places.
LEMMA WordAtIs ==
    ASSUME NEW S, NEW text \in Seq(S), NEW a \in Nat, NEW b \in Nat,
           WordBetween(text, a, b), NEW i \in (a + 1)..b
    PROVE  WordAt(text, i).start = a + 1 /\ WordAt(text, i).size = b - a
<1> DEFINE ends == WordEnds(text)
           before == {e \in ends : e < i}
           later == {e \in ends : e >= i}
           start == IF before = {} THEN 1 ELSE Max(before) + 1
<1>1. ends \subseteq 1..Len(text) /\ Len(text) \in Nat
    BY DEF WordEnds
<1>2. /\ a = 0 \/ a \in ends
      /\ b \in ends /\ a < b
      /\ \A j \in (a + 1)..(b - 1) : j \notin ends
    BY DEF WordBetween
<1>3. WordAt(text, i) = [start |-> start, size |-> Min(later) - start + 1]
    BY Zenon DEF WordAt
<1> HIDE DEF ends
<1>4. \A e \in ends : (e < i => e <= a) /\ (e >= i => e >= b)
    <2>1. ASSUME NEW e \in ends PROVE ~(e \in (a + 1)..(b - 1))
        BY <1>2, <2>1
    <2>2. ASSUME NEW e \in ends PROVE (e < i => e <= a) /\ (e >= i => e >= b)
        <3>1. e \in Nat /\ i \in Nat /\ a < i /\ i <= b
            BY <1>1
        <3>2. ~(e \in (a + 1)..(b - 1))
            BY <2>1
        <3> QED
            BY <3>1, <3>2
    <2> QED
        BY <2>2
<1>5. start = a + 1
    <2>1. CASE a = 0
        <3>1. before = {}
            <4>1. \A e \in ends : e > 0
                BY <1>1
            <4>2. \A e \in ends : ~(e < i)
                BY <1>1, <1>4, <2>1, <4>1
            <4> QED
                BY <4>2
        <3> QED
            BY <2>1, <3>1
    <2>2. CASE a # 0
        <3>1. a \in ends /\ a < i
            BY <1>2, <2>2
        <3>2. a \in before /\ before \in SUBSET (0..Len(text))
            <4>1. \A e \in ends : e \in 0..Len(text)
                BY <1>1
            <4>2. before \subseteq 0..Len(text)
                BY <4>1
            <4> QED
                BY <3>1, <4>2
        <3>3. Max(before) \in before /\ \A e \in before : e <= Max(before)
            <4> DEFINE set == before
            <4>1. set \in SUBSET (0..Len(text)) /\ set # {}
                BY <3>2
            <4> HIDE DEF set
            <4>2. Max(set) \in set /\ \A e \in set : e <= Max(set)
                BY <1>1, <4>1, MaxIsGreatest
            <4> QED
                BY <4>2, Zenon DEF set
        <3>4. Max(before) = a
            <4> DEFINE top == Max(before)
            <4>1. top \in ends /\ top < i /\ a <= top
                BY <3>2, <3>3
            <4> HIDE DEF top
            <4>2. top <= a /\ top \in Nat
                BY <1>1, <1>4, <4>1
            <4>3. top = a
                BY <4>1, <4>2
            <4> QED
                BY <4>3 DEF top
        <3> QED
            BY <3>2, <3>4
    <2> QED
        BY <2>1, <2>2
<1>6. Min(later) = b
    <2>1. b \in later /\ later \in SUBSET Nat
        <3>1. \A e \in ends : e \in Nat
            BY <1>1
        <3>2. later \subseteq Nat
            BY <3>1
        <3>3. b >= i /\ b \in ends
            BY <1>2
        <3> QED
            BY <3>2, <3>3
    <2>2. \A e \in later : e >= b
        BY <1>4
    <2> DEFINE least == Min(later)
    <2> HIDE DEF later
    <2>3. least \in later /\ \A m \in later : least <= m
        BY <2>1, MinIsLeast
    <2> HIDE DEF least
    <2>4. least = b
        <3>1. least \in Nat /\ least <= b /\ least >= b
            BY <2>1, <2>2, <2>3
        <3> QED
            BY <3>1
    <2> QED
        BY <2>4 DEF least
<1> HIDE DEF start, later
<1>7. b - (a + 1) + 1 = b - a
    OBVIOUS
<1> QED
    BY <1>3, <1>5, <1>6, <1>7

\* So are the words of a text.
LEMMA PartedWords ==
    ASSUME NEW S, NEW text \in Seq(S), NEW words, NEW e,
           Parted(S, text, Blanks, words, e, Len(text)), NEW k \in 1..Len(words)
    PROVE  /\ e[k - 1] \in Nat /\ e[k] \in Nat /\ WordBetween(text, e[k - 1], e[k])
           /\ words[k] \in Seq(S) /\ Within(words[k], text, e[k - 1])
           /\ e[k] = e[k - 1] + Len(words[k]) /\ Len(words[k]) > 0
<1> DEFINE n == Len(words)
           ends == WordEnds(text)
<1>1. /\ Laid(S, text, words, e) /\ e[n] = Len(text)
      /\ \A i \in 1..n : PieceOf(S, text, Blanks, words[i], e[i - 1])
      /\ \A i \in 1..(n - 1) : text[e[i]] \in Blanks
    BY Zenon DEF Parted
<1>2. /\ words \in Seq(Seq(S)) /\ e \in [Nat -> Nat] /\ e[0] = 0
      /\ \A i \in 1..n : Within(words[i], text, e[i - 1]) /\ e[i] = e[i - 1] + Len(words[i])
    BY <1>1, Zenon DEF Laid
<1>3. n \in Nat /\ Len(text) \in Nat /\ k \in Nat /\ k - 1 \in Nat /\ k \in 1..n
    <2>1. n \in Nat /\ Len(text) \in Nat
        BY <1>2, LenProperties, Zenon
    <2> QED
        BY <2>1
<1>4. /\ words[k] \in Seq(S) /\ Len(words[k]) > 0 /\ Within(words[k], text, e[k - 1])
      /\ \A j \in 1..(Len(words[k]) - 1) : words[k][j] \notin Blanks
    BY <1>1, <1>3, Zenon DEF PieceOf
<1>5. /\ e[k - 1] \in Nat /\ e[k - 1] + Len(words[k]) <= Len(text)
      /\ \A j \in 1..Len(words[k]) : words[k][j] = text[e[k - 1] + j]
    BY <1>4, Zenon DEF Within
<1>6. e[k] = e[k - 1] + Len(words[k])
    BY <1>2, <1>3, Zenon
<1>7. Len(words[k]) \in Nat
    BY <1>4, LenProperties, Zenon
<1>8. \A j : j \in ends <=> j \in 1..Len(text) /\ (text[j] \in Blanks \/ j = Len(text))
    BY DEF WordEnds
<1>9. ASSUME NEW i \in 1..n PROVE e[i] \in ends
    <2>1. e[i] \in 1..Len(text)
        <3>1. e[i] = e[i - 1] + Len(words[i]) /\ PieceOf(S, text, Blanks, words[i], e[i - 1])
            BY <1>1, <1>2, Zenon
        <3>2. /\ e[i - 1] \in Nat /\ words[i] \in Seq(S) /\ Len(words[i]) > 0
              /\ e[i - 1] + Len(words[i]) <= Len(text)
            BY <3>1, Zenon DEF PieceOf, Within
        <3>3. Len(words[i]) \in Nat
            BY <3>2, LenProperties, Zenon
        <3> QED
            BY <1>3, <3>1, <3>2, <3>3
    <2>2. CASE i = n
        BY <1>1, <1>8, <2>1, <2>2, Zenon
    <2>3. CASE i # n
        <3>1. i \in 1..(n - 1)
            BY <1>3, <2>3
        <3> QED
            BY <1>1, <1>8, <2>1, <3>1, Zenon
    <2> QED
        BY <2>2, <2>3
<1> HIDE DEF ends
<1>10. e[k - 1] = 0 \/ e[k - 1] \in ends
    <2>1. CASE k = 1
        BY <1>2, <2>1
    <2>2. CASE k # 1
        <3>1. k - 1 \in 1..n
            BY <1>3, <2>2
        <3> QED
            BY <1>9, <3>1, Zenon
    <2> QED
        BY <2>1, <2>2
<1>11. ASSUME NEW i \in (e[k - 1] + 1)..(e[k] - 1) PROVE i \notin ends
    <2> DEFINE a == e[k - 1]
               j == i - a
    <2>1. a \in Nat /\ e[k] \in Nat /\ e[k] = a + Len(words[k]) /\ e[k] <= Len(text)
        BY <1>5, <1>6, <1>7
    <2>2. i \in (a + 1)..(e[k] - 1)
        OBVIOUS
    <2> HIDE DEF a
    <2>3. /\ j \in 1..(Len(words[k]) - 1) /\ j \in 1..Len(words[k]) /\ a + j = i
          /\ i # Len(text)
        BY <1>3, <1>7, <2>1, <2>2
    <2> HIDE DEF j
    <2>4. words[k][j] = text[a + j] /\ words[k][j] \notin Blanks
        BY <1>4, <1>5, <2>3, Zenon DEF a
    <2> QED
        BY <1>8, <2>3, <2>4, Zenon
<1>12. e[k - 1] < e[k] /\ e[k] \in Nat
    BY <1>4, <1>5, <1>6, <1>7
<1>13. WordBetween(text, e[k - 1], e[k])
    BY <1>3, <1>9, <1>10, <1>11, <1>12, Zenon DEF WordBetween, ends
<1> QED
    BY <1>4, <1>5, <1>6, <1>12, <1>13, Zenon

----------------------------------------------------------------------------
\* chunk_text: the pieces put out

\* What may be put out: where a piece of that size ends in the text, no word is
\* split that fits in a piece, and what comes next had no room.
Fits(text, max, end, size) ==
    LET next == WordAt(text, end + 1)
    IN  /\ end \in WordEnds(text) \/ next.size > max
        /\ size + (IF next.start <= end THEN 1 ELSE next.size) > max

\* The pieces that were put out and the current one cover the first n
\* characters.
Built(S, text, max, out, cur, n) ==
    /\ cur \in Seq(S) /\ Len(cur) <= max
    /\ \E e : /\ Laid(S, text, out, e) /\ Within(cur, text, e[Len(out)])
              /\ e[Len(out)] + Len(cur) = n
              /\ \A k \in 1..Len(out) :
                    Len(out[k]) \in 1..max /\ Fits(text, max, e[k], Len(out[k]))

\* Two parts of a text of which one begins where the other ends are one.
LEMMA WithinJoined ==
    ASSUME NEW S, NEW text \in Seq(S), NEW p \in Seq(S), NEW q \in Seq(S), NEW off,
           Within(p, text, off), Within(q, text, off + Len(p))
    PROVE  /\ Within(p \o q, text, off) /\ p \o q \in Seq(S)
           /\ Len(p \o q) = Len(p) + Len(q)
<1> DEFINE u == p \o q
<1>1. /\ off \in Nat /\ \A k \in 1..Len(p) : p[k] = text[off + k]
      /\ (off + Len(p)) + Len(q) <= Len(text)
      /\ \A k \in 1..Len(q) : q[k] = text[(off + Len(p)) + k]
    BY Zenon DEF Within
<1>2. Len(p) \in Nat /\ Len(q) \in Nat /\ Len(text) \in Nat
    OBVIOUS
<1>3. Joined(u, p, q)
    BY Zenon DEF Joined
<1> HIDE DEF u
<1>4. /\ u \in Seq(S) /\ Len(u) = Len(p) + Len(q)
      /\ \A k \in 1..Len(p) : u[k] = p[k]
      /\ \A k \in 1..Len(q) : u[Len(p) + k] = q[k]
    BY <1>3, JoinedIs
<1>5. ASSUME NEW k \in 1..Len(u) PROVE u[k] = text[off + k]
    <2>1. CASE k <= Len(p)
        <3>1. k \in 1..Len(p)
            BY <1>2, <2>1
        <3> QED
            BY <1>1, <1>4, <3>1, Zenon
    <2>2. CASE ~(k <= Len(p))
        <3> DEFINE j == k - Len(p)
        <3>1. j \in 1..Len(q) /\ Len(p) + j = k /\ (off + Len(p)) + j = off + k
            BY <1>1, <1>2, <1>4, <2>2
        <3> HIDE DEF j
        <3> QED
            BY <1>1, <1>4, <3>1, Zenon
    <2> QED
        BY <2>1, <2>2
<1>6. off + Len(u) <= Len(text)
    BY <1>1, <1>2, <1>4
<1>7. Within(u, text, off)
    BY <1>1, <1>5, <1>6, Zenon DEF Within
<1> QED
    BY <1>4, <1>7, Zenon DEF u

\* Pieces that cover the first n characters, all but the last as they should.
Covers(S, text, max, pieces, f, n) ==
    /\ Laid(S, text, pieces, f) /\ f[Len(pieces)] = n
    /\ \A k \in 1..Len(pieces) : Len(pieces[k]) \in 1..max
    /\ \A k \in 1..(Len(pieces) - 1) : Fits(text, max, f[k], Len(pieces[k]))

\* A current piece that is not empty makes such pieces when it is put out.
LEMMA PutOut ==
    ASSUME NEW S, NEW text, NEW max \in Nat, NEW out, NEW cur, NEW n,
           Built(S, text, max, out, cur, n), Len(cur) > 0
    PROVE  \E f : Covers(S, text, max, Append(out, cur), f, n)
<1> DEFINE m == Len(out)
           then == Append(out, cur)
<1>1. cur \in Seq(S) /\ Len(cur) <= max
    BY Zenon DEF Built
<1>2. PICK e : /\ Laid(S, text, out, e) /\ Within(cur, text, e[m])
               /\ e[m] + Len(cur) = n
               /\ \A k \in 1..m :
                     Len(out[k]) \in 1..max /\ Fits(text, max, e[k], Len(out[k]))
    BY Zenon DEF Built
<1> DEFINE f == After(e, m, Len(cur))
<1>3. out \in Seq(Seq(S)) /\ e \in [Nat -> Nat]
    BY <1>2, Zenon DEF Laid
<1>4. m \in Nat /\ Len(cur) \in Nat
    BY <1>1, <1>3, LenProperties, Zenon
<1>5. Laid(S, text, then, f)
    BY <1>1, <1>2, LaidAppended, Zenon
<1>6. /\ Len(then) = m + 1 /\ then[m + 1] = cur
      /\ \A k \in 1..m : then[k] = out[k]
    BY <1>1, <1>3, AppendProperties
<1>7. f[m + 1] = e[m] + Len(cur) /\ \A k \in Nat : k # m + 1 => f[k] = e[k]
    BY <1>3, <1>4, EndsAfter, Zenon
<1> SUFFICES Covers(S, text, max, then, f, n)
    BY Zenon
<1> HIDE DEF m, then, f
<1>8. f[Len(then)] = n
    BY <1>2, <1>6, <1>7, Zenon
<1>9. ASSUME NEW k \in 1..Len(then) PROVE Len(then[k]) \in 1..max
    <2>1. CASE k = m + 1
        <3>1. Len(cur) \in 1..max
            BY <1>1, <1>4
        <3> QED
            BY <1>6, <2>1, <3>1, Zenon
    <2>2. CASE k # m + 1
        <3>1. k \in 1..m
            BY <1>4, <1>6, <2>2
        <3> QED
            BY <1>2, <1>6, <3>1, Zenon
    <2> QED
        BY <2>1, <2>2
<1>10. ASSUME NEW k \in 1..(Len(then) - 1) PROVE Fits(text, max, f[k], Len(then[k]))
    <2>1. k \in 1..m /\ k \in Nat /\ k # m + 1
        BY <1>4, <1>6
    <2> QED
        BY <1>2, <1>6, <1>7, <2>1, Zenon
<1> QED
    BY <1>5, <1>8, <1>9, <1>10, Zenon DEF Covers

\* If it may be put out, nothing is current then.
LEMMA BuiltPushed ==
    ASSUME NEW S, NEW text \in Seq(S), NEW max \in Nat, NEW out, NEW cur, NEW n,
           Built(S, text, max, out, cur, n), Len(cur) > 0, Fits(text, max, n, Len(cur))
    PROVE  Built(S, text, max, Append(out, cur), << >>, n)
<1> DEFINE then == Append(out, cur)
           m == Len(out)
<1>1. PICK f : Covers(S, text, max, then, f, n)
    BY PutOut, Zenon
<1>2. /\ Laid(S, text, then, f) /\ f[Len(then)] = n
      /\ \A k \in 1..Len(then) : Len(then[k]) \in 1..max
      /\ \A k \in 1..(Len(then) - 1) : Fits(text, max, f[k], Len(then[k]))
    BY <1>1, Zenon DEF Covers
<1>3. Len(then) = m + 1 /\ m \in Nat /\ then[m + 1] = cur
    <2>1. cur \in Seq(S) /\ \E e : Laid(S, text, out, e)
        BY Zenon DEF Built
    <2>2. out \in Seq(Seq(S))
        BY <2>1, Zenon DEF Laid
    <2> QED
        BY <2>1, <2>2, AppendProperties
<1> HIDE DEF then, m
<1>4. ASSUME NEW k \in 1..Len(then) PROVE Fits(text, max, f[k], Len(then[k]))
    <2>1. CASE k = m + 1
        BY <1>2, <1>3, <2>1, Zenon
    <2>2. CASE k # m + 1
        <3>1. k \in 1..(Len(then) - 1)
            BY <1>3, <2>2
        <3> QED
            BY <1>2, <3>1, Zenon
    <2> QED
        BY <2>1, <2>2
<1>5. n \in 0..Len(text)
    <2>1. Len(then) \in 0..Len(then)
        BY <1>3
    <2> QED
        BY <1>2, <2>1, LaidEnds
<1>6. /\ << >> \in Seq(S) /\ Len(<< >>) = 0 /\ Within(<< >>, text, n)
      /\ n + 0 = n /\ 0 <= max
    BY <1>5 DEF Within
<1>7. Built(S, text, max, then, << >>, n)
    BY <1>2, <1>4, <1>6, Zenon DEF Built
<1> QED
    BY <1>7, Zenon DEF then

\* What has room makes the current piece longer.
LEMMA BuiltLonger ==
    ASSUME NEW S, NEW text \in Seq(S), NEW max \in Nat, NEW out, NEW cur, NEW n,
           Built(S, text, max, out, cur, n),
           NEW piece \in Seq(S), Within(piece, text, n), Len(cur) + Len(piece) <= max
    PROVE  /\ Built(S, text, max, out, cur \o piece, n + Len(piece))
           /\ Len(cur \o piece) = Len(cur) + Len(piece)
<1> DEFINE m == Len(out)
           u == cur \o piece
<1>1. cur \in Seq(S) /\ Len(cur) <= max
    BY Zenon DEF Built
<1>2. PICK e : /\ Laid(S, text, out, e) /\ Within(cur, text, e[m])
               /\ e[m] + Len(cur) = n
               /\ \A k \in 1..m :
                     Len(out[k]) \in 1..max /\ Fits(text, max, e[k], Len(out[k]))
    BY Zenon DEF Built
<1>3. /\ Within(u, text, e[m]) /\ u \in Seq(S)
      /\ Len(u) = Len(cur) + Len(piece)
    <2>1. Within(piece, text, e[m] + Len(cur)) /\ Within(cur, text, e[m]) /\ cur \in Seq(S)
        BY <1>1, <1>2, Zenon
    <2> QED
        BY <2>1, WithinJoined
<1>4. Len(cur) \in Nat /\ Len(piece) \in Nat /\ e[m] \in Nat
    BY <1>1, <1>2 DEF Within
<1> HIDE DEF u
<1>5. e[m] + Len(u) = n + Len(piece) /\ Len(u) <= max
    BY <1>2, <1>3, <1>4
<1>6. Built(S, text, max, out, u, n + Len(piece))
    BY <1>2, <1>3, <1>5, Zenon DEF Built
<1> QED
    BY <1>3, <1>6, Zenon DEF u

\* The state of the loops of chunk_text, after the first n characters.
Accs(S) == [out : Seq(Seq(S)), cur : Seq(S)]
Held(S, text, max, acc, n) ==
    acc \in Accs(S) /\ Built(S, text, max, acc.out, acc.cur, n)

\* An assignment to the second of two fields.
LEMMA FieldAssigned ==
    ASSUME NEW A, NEW B, NEW acc \in [out : A, cur : B], NEW v
    PROVE  /\ acc.out \in A /\ acc.cur \in B
           /\ [acc EXCEPT !.cur = v] = [out |-> acc.out, cur |-> v]
OBVIOUS

\* Its parts, and what an assignment to one of them makes of it.
LEMMA AccIs ==
    ASSUME NEW S, NEW acc \in Accs(S)
    PROVE  /\ acc.out \in Seq(Seq(S)) /\ acc.cur \in Seq(S)
           /\ \A v : [acc EXCEPT !.cur = v] = [out |-> acc.out, cur |-> v]
<1>1. acc \in [out : Seq(Seq(S)), cur : Seq(S)]
    BY Zenon DEF Accs
<1> QED
    BY <1>1, FieldAssigned, Zenon

\* A state is put together from its parts.
LEMMA AccOf ==
    ASSUME NEW S, NEW out \in Seq(Seq(S)), NEW cur \in Seq(S)
    PROVE  /\ [out |-> out, cur |-> cur] \in Accs(S)
           /\ [out |-> out, cur |-> cur].out = out
           /\ [out |-> out, cur |-> cur].cur = cur
BY DEF Accs

\* Adding a piece and flushing give a state.
LEMMA AddIsAcc ==
    ASSUME NEW S, NEW acc \in Accs(S), NEW piece \in Seq(S), NEW max
    PROVE  Add(acc, piece, max) \in Accs(S) /\ Flush(acc) \in Accs(S)
<1>1. /\ acc.out \in Seq(Seq(S)) /\ acc.cur \in Seq(S)
      /\ [acc EXCEPT !.cur = @ \o piece] = [out |-> acc.out, cur |-> acc.cur \o piece]
    BY AccIs, Zenon
<1>2. Append(acc.out, acc.cur) \in Seq(Seq(S)) /\ acc.cur \o piece \in Seq(S)
      /\ << >> \in Seq(S)
    <2> DEFINE out == acc.out
               cur == acc.cur
    <2>1. out \in Seq(Seq(S)) /\ cur \in Seq(S)
        BY <1>1, Zenon
    <2> HIDE DEF out, cur
    <2>2. Append(out, cur) \in Seq(Seq(S)) /\ cur \o piece \in Seq(S)
        BY <2>1, AppendProperties, ConcatProperties, Zenon
    <2>3. << >> \in Seq(S)
        OBVIOUS
    <2> QED
        BY <2>2, <2>3, Zenon DEF out, cur
<1> DEFINE longer == [acc EXCEPT !.cur = @ \o piece]
           pushed == [out |-> Append(acc.out, acc.cur), cur |-> piece]
           flushed == [out |-> Append(acc.out, acc.cur), cur |-> << >>]
<1>3. longer \in Accs(S) /\ pushed \in Accs(S) /\ flushed \in Accs(S)
    <2>1. longer \in Accs(S)
        <3>1. [out |-> acc.out, cur |-> acc.cur \o piece] \in Accs(S)
            BY <1>1, <1>2, AccOf, Zenon
        <3> QED
            BY <1>1, <3>1, Zenon
    <2>2. pushed \in Accs(S)
        BY <1>2, AccOf, Zenon
    <2>3. flushed \in Accs(S)
        BY <1>2, AccOf, Zenon
    <2> QED
        BY <2>1, <2>2, <2>3, Zenon
<1>4. /\ Add(acc, piece, max) = pushed \/ Add(acc, piece, max) = longer
      /\ Flush(acc) = acc \/ Flush(acc) = flushed
    BY Zenon DEF Add, Flush
<1> HIDE DEF longer, pushed, flushed
<1> QED
    BY <1>3, <1>4, Zenon

\* What is added is current; what it pushes out may be put out.
LEMMA AddHeld ==
    ASSUME NEW S, NEW text \in Seq(S), NEW max \in Nat, NEW n, NEW acc,
           Held(S, text, max, acc, n),
           NEW piece \in Seq(S), Within(piece, text, n), Len(piece) \in 1..max,
           Len(acc.cur) + Len(piece) > max => Fits(text, max, n, Len(acc.cur))
    PROVE  /\ Held(S, text, max, Add(acc, piece, max), n + Len(piece))
           /\ Len(Add(acc, piece, max).cur) > 0
<1> DEFINE out == acc.out
           cur == acc.cur
<1>1. acc \in Accs(S) /\ Built(S, text, max, out, cur, n)
    BY Zenon DEF Held
<1>2. /\ out \in Seq(Seq(S)) /\ cur \in Seq(S)
      /\ [acc EXCEPT !.cur = @ \o piece] = [out |-> out, cur |-> cur \o piece]
    BY <1>1, AccIs, Zenon
<1>3. Len(cur) \in Nat /\ Len(piece) \in Nat /\ Len(piece) > 0 /\ Len(piece) <= max
    BY <1>2, LenProperties
<1>4. CASE Len(cur) + Len(piece) > max
    <2> DEFINE then == [out |-> Append(out, cur), cur |-> piece]
               pushed == Append(out, cur)
    <2>1. Add(acc, piece, max) = then
        BY <1>4, Zenon DEF Add
    <2>2. Fits(text, max, n, Len(cur)) /\ Len(cur) > 0
        BY <1>3, <1>4
    <2>3. Built(S, text, max, pushed, << >>, n)
        BY <1>1, <2>2, BuiltPushed, Zenon
    <2>4. pushed \in Seq(Seq(S))
        BY <1>2, AppendProperties, Zenon
    <2> HIDE DEF pushed
    <2>5. Len(<< >>) + Len(piece) <= max
        BY <1>3
    <2>6. Built(S, text, max, pushed, << >> \o piece, n + Len(piece))
        BY <2>3, <2>5, BuiltLonger, Zenon
    <2>7. << >> \o piece = piece
        BY ConcatEmptySeq, Zenon
    <2>8. then \in Accs(S) /\ then.out = pushed /\ then.cur = piece
        BY <2>4, AccOf, Zenon DEF pushed
    <2> HIDE DEF then
    <2> QED
        BY <1>3, <2>1, <2>6, <2>7, <2>8, Zenon DEF Held
<1>5. CASE ~(Len(cur) + Len(piece) > max)
    <2> DEFINE u == cur \o piece
               then == [out |-> out, cur |-> u]
    <2>1. Add(acc, piece, max) = then
        BY <1>2, <1>5, Zenon DEF Add
    <2>2. Len(cur) + Len(piece) <= max
        BY <1>3, <1>5
    <2>3. Built(S, text, max, out, u, n + Len(piece)) /\ Len(u) = Len(cur) + Len(piece)
        BY <1>1, <2>2, BuiltLonger
    <2>4. u \in Seq(S)
        BY <1>2, ConcatProperties, Zenon
    <2> HIDE DEF u
    <2>5. then \in Accs(S) /\ then.out = out /\ then.cur = u
        BY <1>2, <2>4, AccOf, Zenon
    <2> HIDE DEF then
    <2>6. Len(u) > 0
        BY <1>3, <2>3
    <2> QED
        BY <2>1, <2>3, <2>5, <2>6, Zenon DEF Held
<1> QED
    BY <1>4, <1>5

\* Flushing leaves nothing current.
LEMMA FlushHeld ==
    ASSUME NEW S, NEW text \in Seq(S), NEW max \in Nat, NEW n, NEW acc,
           Held(S, text, max, acc, n),
           Len(acc.cur) > 0 => Fits(text, max, n, Len(acc.cur))
    PROVE  Held(S, text, max, Flush(acc), n) /\ Len(Flush(acc).cur) = 0
<1> DEFINE out == acc.out
           cur == acc.cur
<1>1. acc \in Accs(S) /\ Built(S, text, max, out, cur, n)
    BY Zenon DEF Held
<1>2. out \in Seq(Seq(S)) /\ cur \in Seq(S) /\ << >> \in Seq(S) /\ Len(<< >>) = 0
    <2>1. out \in Seq(Seq(S)) /\ cur \in Seq(S)
        BY <1>1, AccIs, Zenon
    <2>2. << >> \in Seq(S) /\ Len(<< >>) = 0
        OBVIOUS
    <2> QED
        BY <2>1, <2>2, Zenon
<1>3. CASE cur = << >>
    <2>1. Flush(acc) = acc /\ Len(cur) = 0
        BY <1>2, <1>3, Zenon DEF Flush
    <2> QED
        BY <2>1, Zenon
<1>4. CASE cur # << >>
    <2> DEFINE pushed == Append(out, cur)
               then == [out |-> pushed, cur |-> << >>]
    <2>1. Flush(acc) = then
        BY <1>4, Zenon DEF Flush
    <2>2. Len(cur) > 0
        BY <1>2, <1>4
    <2>3. Built(S, text, max, pushed, << >>, n)
        BY <1>1, <2>2, BuiltPushed, Zenon
    <2>4. pushed \in Seq(Seq(S))
        BY <1>2, AppendProperties, Zenon
    <2> HIDE DEF pushed
    <2>5. then \in Accs(S) /\ then.out = pushed /\ then.cur = << >>
        BY <1>2, <2>4, AccOf, Zenon
    <2> HIDE DEF then
    <2> QED
        BY <1>2, <2>1, <2>3, <2>5, Zenon DEF Held
<1> QED
    BY <1>3, <1>4

\* A loop that flushes and then adds the characters of a word.
SpreadRun(acc, word, max, h) ==
    /\ h[0] = Flush(acc)
    /\ \A i \in 1..Len(word) : h[i] = Add(h[i - 1], <<word[i]>>, max)
    /\ AddWord(acc, word, max) = h[Len(word)]

\* A word longer than a piece is spread by such a loop.
LEMMA Spreading ==
    ASSUME NEW S, NEW acc \in Accs(S), NEW word \in Seq(S), NEW max, Len(word) > max
    PROVE  \E h : SpreadRun(acc, word, max, h)
<1> DEFINE n == Len(word)
           T == Accs(S)
           base == Flush(acc)
           Grow(a, i) == Add(a, <<word[i]>>, max)
           step == [p \in T \X (1..n) |-> Grow(p[1], p[2])]
           At(g, i) == IF i = 0 THEN base ELSE Grow(g[i - 1], i)
           Def(g) == [i \in 0..n |-> At(g, i)]
           h == CHOOSE g : g = Def(g)
<1>1. n \in Nat /\ \A i \in 1..n : word[i] \in S
    OBVIOUS
<1>2. ASSUME NEW a \in T, NEW i \in 1..n PROVE Grow(a, i) \in T
    <2>1. <<word[i]>> \in Seq(S)
        BY <1>1, OneIs, Zenon
    <2> QED
        BY <2>1, AddIsAcc, Zenon
<1>3. step \in [T \X (1..n) -> T]
    <2>1. ASSUME NEW p \in T \X (1..n) PROVE Grow(p[1], p[2]) \in T
        <3>1. p[1] \in T /\ p[2] \in 1..n
            OBVIOUS
        <3> QED
            BY <1>2, <3>1, Zenon
    <2> QED
        BY <2>1, Zenon
<1>4. \A a \in T, i \in 1..n : step[<<a, i>>] = Grow(a, i)
    OBVIOUS
<1>5. base \in T
    BY EmptySeq, AddIsAcc, Zenon
<1> HIDE DEF step, n, T
<1>6. PICK f : Loops(f, n, T, base, step)
    BY <1>1, <1>3, <1>5, LoopExists
<1>7. f \in [0..n -> T] /\ f[0] = base
    BY <1>6 DEF Loops
<1>8. ASSUME NEW i \in 0..n PROVE f[i] = At(f, i)
    <2>1. CASE i = 0
        BY <1>7, <2>1
    <2>2. CASE i # 0
        <3>1. i \in 1..n /\ i - 1 \in 0..n /\ f[i] = step[<<f[i - 1], i>>]
            BY <1>1, <1>6, <2>2 DEF Loops
        <3>2. f[i - 1] \in T
            BY <1>7, <3>1
        <3> QED
            BY <1>4, <2>2, <3>1, <3>2, Zenon
    <2> QED
        BY <2>1, <2>2
<1>9. f = Def(f)
    <2> HIDE DEF At
    <2> QED
        BY <1>7, <1>8
<1>10. h = Def(h)
    BY <1>9, Zenon
<1>11. AddWord(acc, word, max) = h[n]
    BY Zenon DEF AddWord, n
<1> HIDE DEF h
<1>12. \A i \in 0..n : h[i] = At(h, i)
    <2>1. \A i \in 0..n : Def(h)[i] = At(h, i)
        BY Zenon
    <2> HIDE DEF Def, At
    <2> QED
        BY <1>10, <2>1, Zenon
<1>13. h[0] = base /\ \A i \in 1..n : h[i] = Grow(h[i - 1], i)
    <2>1. 0 \in 0..n /\ \A i \in 1..n : i \in 0..n /\ i # 0
        BY <1>1
    <2> QED
        BY <1>12, <2>1, Zenon
<1> QED
    BY <1>11, <1>13, Zenon DEF n, SpreadRun

\* What is held after n characters ends there.
LEMMA HeldEnds ==
    ASSUME NEW S, NEW text \in Seq(S), NEW max \in Nat, NEW n, NEW acc,
           Held(S, text, max, acc, n)
    PROVE  /\ acc.out \in Seq(Seq(S)) /\ acc.cur \in Seq(S)
           /\ Len(acc.cur) \in 0..max /\ n \in Nat /\ Len(acc.cur) <= n
<1> DEFINE cur == acc.cur
           out == acc.out
<1>1. acc \in Accs(S) /\ Built(S, text, max, out, cur, n)
    BY Zenon DEF Held
<1>2. out \in Seq(Seq(S)) /\ cur \in Seq(S)
    BY <1>1, AccIs, Zenon
<1>3. PICK e : Within(cur, text, e[Len(out)]) /\ e[Len(out)] + Len(cur) = n
    BY <1>1, Zenon DEF Built
<1>4. Len(cur) <= max /\ e[Len(out)] \in Nat
    BY <1>1, <1>3, Zenon DEF Built, Within
<1>5. Len(cur) \in Nat
    BY <1>2, LenProperties, Zenon
<1> HIDE DEF cur, out
<1>6. Len(cur) \in 0..max /\ n \in Nat /\ Len(cur) <= n
    BY <1>3, <1>4, <1>5
<1> QED
    BY <1>2, <1>6, Zenon DEF cur, out

\* Before a word for which there is no room, the current piece may be put out.
LEMMA FitsBefore ==
    ASSUME NEW S, NEW text \in Seq(S), NEW max \in Nat, NEW n \in Nat, NEW size \in Nat,
           NEW b \in Nat, WordBetween(text, n, b), n > 0, size + (b - n) > max
    PROVE  Fits(text, max, n, size)
<1>1. n \in WordEnds(text) /\ n < b
    BY DEF WordBetween
<1>2. n + 1 \in (n + 1)..b
    BY <1>1
<1> DEFINE next == WordAt(text, n + 1)
<1>3. next.start = n + 1 /\ next.size = b - n
    BY <1>2, WordAtIs
<1> HIDE DEF next
<1>4. ~(next.start <= n) /\ size + next.size > max
    BY <1>3
<1>5. size + (IF next.start <= n THEN 1 ELSE next.size) > max
    BY <1>4, Zenon
<1> QED
    BY <1>1, <1>5, Zenon DEF Fits, next

\* Inside a word that fits in no piece, a full piece may be put out.
LEMMA FitsInside ==
    ASSUME NEW S, NEW text \in Seq(S), NEW max \in Nat, NEW a \in Nat, NEW b \in Nat,
           WordBetween(text, a, b), b - a > max, NEW n \in Nat, a < n, n < b,
           NEW size \in Nat, size + 1 > max
    PROVE  Fits(text, max, n, size)
<1>1. n + 1 \in (a + 1)..b
    OBVIOUS
<1> DEFINE next == WordAt(text, n + 1)
<1>2. next.start = a + 1 /\ next.size = b - a
    BY <1>1, WordAtIs
<1> HIDE DEF next
<1>3. next.start <= n /\ next.size > max
    BY <1>2
<1>4. size + (IF next.start <= n THEN 1 ELSE next.size) > max
    BY <1>3, Zenon
<1> QED
    BY <1>3, <1>4, Zenon DEF Fits, next

\* A word is held when it is added, whole or character by character.
LEMMA AddWordHeld ==
    ASSUME NEW S, NEW text \in Seq(S), NEW max \in Nat, max >= 1, NEW n \in Nat, NEW acc,
           Held(S, text, max, acc, n),
           NEW word \in Seq(S), Len(word) > 0, Within(word, text, n),
           WordBetween(text, n, n + Len(word))
    PROVE  /\ Held(S, text, max, AddWord(acc, word, max), n + Len(word))
           /\ Len(AddWord(acc, word, max).cur) > 0
<1> DEFINE m == Len(word)
<1>1. /\ acc \in Accs(S) /\ Len(acc.cur) \in 0..max /\ Len(acc.cur) <= n
    BY HeldEnds, Zenon DEF Held
<1>2. m \in Nat /\ m > 0 /\ Len(acc.cur) \in Nat
    BY <1>1, LenProperties
<1>3. CASE ~(m > max)
    <2>1. AddWord(acc, word, max) = Add(acc, word, max)
        BY <1>3, Zenon DEF AddWord
    <2>2. m \in 1..max
        BY <1>2, <1>3
    <2>3. ASSUME Len(acc.cur) + m > max PROVE Fits(text, max, n, Len(acc.cur))
        <3> DEFINE b == n + m
                   size == Len(acc.cur)
        <3>1. n > 0 /\ b \in Nat /\ size + (b - n) > max /\ size \in Nat
            BY <1>1, <1>2, <1>3, <2>3
        <3>2. WordBetween(text, n, b)
            OBVIOUS
        <3> HIDE DEF b, size
        <3>3. Fits(text, max, n, size)
            BY <3>1, <3>2, FitsBefore
        <3> QED
            BY <3>3, Zenon DEF size
    <2> QED
        BY <2>1, <2>2, <2>3, AddHeld, Zenon
<1>4. CASE m > max
    <2>1. PICK h : SpreadRun(acc, word, max, h)
        BY <1>1, <1>4, Spreading, Zenon
    <2> DEFINE Ok(i) == i <= m => /\ Held(S, text, max, h[i], n + i)
                                  /\ i = 0 => Len(h[i].cur) = 0
                                  /\ i > 0 => Len(h[i].cur) > 0
               ok == {i \in Nat : Ok(i)}
    <2>2. 0 \in ok
        <3>1. ASSUME Len(acc.cur) > 0 PROVE Fits(text, max, n, Len(acc.cur))
            <4> DEFINE b == n + m
                       size == Len(acc.cur)
            <4>1. n > 0 /\ b \in Nat /\ size + (b - n) > max /\ size \in Nat
                BY <1>1, <1>2, <1>4, <3>1
            <4>2. WordBetween(text, n, b)
                OBVIOUS
            <4> HIDE DEF b, size
            <4>3. Fits(text, max, n, size)
                BY <4>1, <4>2, FitsBefore
            <4> QED
                BY <4>3, Zenon DEF size
        <3>2. Held(S, text, max, h[0], n) /\ Len(h[0].cur) = 0
            <4>1. Held(S, text, max, Flush(acc), n) /\ Len(Flush(acc).cur) = 0
                BY <3>1, FlushHeld
            <4>2. h[0] = Flush(acc)
                BY <2>1, Zenon DEF SpreadRun
            <4> QED
                BY <4>1, <4>2, Zenon
        <3>3. n + 0 = n /\ ~(0 > 0) /\ 0 \in Nat
            OBVIOUS
        <3> QED
            BY <3>2, <3>3, Zenon
    <2>3. ASSUME NEW i \in Nat, i \in ok PROVE i + 1 \in ok
        <3> SUFFICES ASSUME i + 1 <= m PROVE Ok(i + 1)
            OBVIOUS
        <3> DEFINE piece == <<word[i + 1]>>
                   a == h[i]
                   size == Len(a.cur)
        <3>1. /\ i <= m /\ i + 1 \in 1..m /\ (i + 1) - 1 = i /\ n + i \in Nat
              /\ (n + i) + 1 = n + (i + 1) /\ i + 1 > 0 /\ ~(i + 1 = 0)
            BY <1>2
        <3>2. Held(S, text, max, a, n + i) /\ (i = 0 => size = 0)
            BY <2>3, <3>1, Zenon
        <3>3. h[i + 1] = Add(a, piece, max)
            BY <2>1, <3>1, Zenon DEF SpreadRun
        <3>4. word[i + 1] \in S /\ word[i + 1] = text[n + (i + 1)]
            <4>1. word[i + 1] \in S
                BY <3>1
            <4> QED
                BY <3>1, <4>1, Zenon DEF Within
        <3>5. piece \in Seq(S) /\ Len(piece) = 1 /\ piece[1] = word[i + 1]
            BY <3>4
        <3>6. size \in Nat
            BY <3>1, <3>2, HeldEnds, LenProperties, Zenon
        <3> HIDE DEF a, piece, size
        <3>7. Within(piece, text, n + i)
            <4>1. n + m <= Len(text) /\ Len(text) \in Nat
                BY Zenon, LenProperties DEF Within
            <4>2. (n + i) + 1 <= Len(text)
                BY <1>2, <3>1, <4>1
            <4>3. \A k \in 1..1 : k = 1
                OBVIOUS
            <4> QED
                BY <3>1, <3>4, <3>5, <4>2, <4>3, Zenon DEF Within
        <3>8. ASSUME size + 1 > max PROVE Fits(text, max, n + i, size)
            <4> DEFINE b == n + m
                       p == n + i
            <4>1. i # 0
                BY <3>2, <3>8
            <4>2. b \in Nat /\ p \in Nat /\ n < p /\ p < b /\ b - n > max
                BY <1>2, <1>4, <3>1, <4>1
            <4>3. WordBetween(text, n, b)
                OBVIOUS
            <4> HIDE DEF b, p
            <4>4. Fits(text, max, p, size)
                BY <3>6, <3>8, <4>2, <4>3, FitsInside
            <4> QED
                BY <4>4, Zenon DEF p
        <3>9. Len(piece) \in 1..max
            BY <3>5
        <3>10. /\ Held(S, text, max, Add(a, piece, max), (n + i) + Len(piece))
               /\ Len(Add(a, piece, max).cur) > 0
            <4>1. Len(a.cur) + Len(piece) > max => Fits(text, max, n + i, Len(a.cur))
                BY <3>5, <3>8, Zenon DEF size
            <4> QED
                BY <3>2, <3>5, <3>7, <3>9, <4>1, AddHeld, Zenon
        <3> QED
            BY <3>1, <3>3, <3>5, <3>10, Zenon
    <2>4. m \in ok
        <3> HIDE DEF ok
        <3>1. Nat \subseteq ok
            BY <2>2, <2>3, SetInduction, Zenon
        <3> QED
            BY <1>2, <3>1, Zenon
    <2>5. m <= m
        BY <1>2
    <2> QED
        BY <1>2, <2>1, <2>4, <2>5, Zenon DEF SpreadRun
<1> QED
    BY <1>3, <1>4

\* Adding a word gives a state.
LEMMA AddWordIsAcc ==
    ASSUME NEW S, NEW acc \in Accs(S), NEW word \in Seq(S), NEW max
    PROVE  AddWord(acc, word, max) \in Accs(S)
<1> DEFINE m == Len(word)
<1>1. m \in Nat /\ \A i \in 1..m : <<word[i]>> \in Seq(S)
    OBVIOUS
<1>2. CASE ~(m > max)
    <2>1. AddWord(acc, word, max) = Add(acc, word, max)
        BY <1>2, Zenon DEF AddWord
    <2> QED
        BY <2>1, AddIsAcc, Zenon
<1>3. CASE m > max
    <2>1. PICK h : SpreadRun(acc, word, max, h)
        BY <1>3, Spreading, Zenon
    <2> DEFINE ok == {i \in Nat : i <= m => h[i] \in Accs(S)}
    <2>2. 0 \in ok
        <3>1. h[0] \in Accs(S) /\ 0 \in Nat
            BY <2>1, EmptySeq, AddIsAcc, Zenon DEF SpreadRun
        <3> QED
            BY <3>1, Zenon
    <2>3. ASSUME NEW i \in Nat, i \in ok PROVE i + 1 \in ok
        <3> SUFFICES ASSUME i + 1 <= m PROVE h[i + 1] \in Accs(S)
            OBVIOUS
        <3>1. i <= m /\ i + 1 \in 1..m /\ (i + 1) - 1 = i
            BY <1>1
        <3>2. h[i + 1] = Add(h[i], <<word[i + 1]>>, max) /\ h[i] \in Accs(S)
            BY <2>1, <2>3, <3>1, Zenon DEF SpreadRun
        <3> QED
            BY <1>1, <3>1, <3>2, AddIsAcc, Zenon
    <2>4. m \in ok
        <3> HIDE DEF ok
        <3>1. Nat \subseteq ok
            BY <2>2, <2>3, SetInduction, Zenon
        <3> QED
            BY <1>1, <3>1, Zenon
    <2>5. m <= m
        BY <1>1
    <2> QED
        BY <2>1, <2>4, <2>5, Zenon DEF SpreadRun
<1> QED
    BY <1>2, <1>3

\* Nothing held yet.
NoPieces == [out |-> << >>, cur |-> << >>]

\* A loop over words that puts out these chunks.
ChunkRun(words, max, chunks, h) ==
    /\ h[0] = NoPieces
    /\ \A k \in 1..Len(words) : h[k] = AddWord(h[k - 1], words[k], max)
    /\ LET out == Flush(h[Len(words)]).out
       IN  chunks = IF out = << >> THEN << << >> >> ELSE out

\* A text is chunked by a loop over its words.
LEMMA Chunking ==
    ASSUME NEW S, NEW text, NEW limit, Words(text) \in Seq(Seq(S))
    PROVE  \E h : ChunkRun(Words(text), Max({limit, 1}), ChunkText(text, limit), h)
<1> DEFINE words == Words(text)
           max == Max({limit, 1})
           n == Len(words)
           T == Accs(S)
           base == NoPieces
           Grow(a, i) == AddWord(a, words[i], max)
           step == [p \in T \X (1..n) |-> Grow(p[1], p[2])]
           At(g, i) == IF i = 0 THEN base ELSE Grow(g[i - 1], i)
           Def(g) == [i \in 0..n |-> At(g, i)]
           h == CHOOSE g : g = Def(g)
           out == Flush(h[n]).out
<1>1. n \in Nat /\ \A i \in 1..n : words[i] \in Seq(S)
    OBVIOUS
<1>2. ASSUME NEW a \in T, NEW i \in 1..n PROVE Grow(a, i) \in T
    BY <1>1, AddWordIsAcc, Zenon
<1>3. step \in [T \X (1..n) -> T]
    <2>1. ASSUME NEW p \in T \X (1..n) PROVE Grow(p[1], p[2]) \in T
        <3>1. p[1] \in T /\ p[2] \in 1..n
            OBVIOUS
        <3> QED
            BY <1>2, <3>1, Zenon
    <2> QED
        BY <2>1, Zenon
<1>4. \A a \in T, i \in 1..n : step[<<a, i>>] = Grow(a, i)
    OBVIOUS
<1>5. base \in T
    BY AccOf, EmptySeq, Zenon DEF NoPieces
<1>6. ChunkText(text, limit) = IF out = << >> THEN << << >> >> ELSE out
    BY Zenon DEF ChunkText, NoPieces
<1> HIDE DEF step, n, T, words, max
<1>7. PICK f : Loops(f, n, T, base, step)
    BY <1>1, <1>3, <1>5, LoopExists
<1>8. f \in [0..n -> T] /\ f[0] = base
    BY <1>7 DEF Loops
<1>9. ASSUME NEW i \in 0..n PROVE f[i] = At(f, i)
    <2>1. CASE i = 0
        BY <1>8, <2>1
    <2>2. CASE i # 0
        <3>1. i \in 1..n /\ i - 1 \in 0..n /\ f[i] = step[<<f[i - 1], i>>]
            BY <1>1, <1>7, <2>2 DEF Loops
        <3>2. f[i - 1] \in T
            BY <1>8, <3>1
        <3> QED
            BY <1>4, <2>2, <3>1, <3>2, Zenon
    <2> QED
        BY <2>1, <2>2
<1>10. f = Def(f)
    <2> HIDE DEF At
    <2> QED
        BY <1>8, <1>9
<1>11. h = Def(h)
    BY <1>10, Zenon
<1> HIDE DEF h
<1>12. \A i \in 0..n : h[i] = At(h, i)
    <2>1. \A i \in 0..n : Def(h)[i] = At(h, i)
        BY Zenon
    <2> HIDE DEF Def, At
    <2> QED
        BY <1>11, <2>1, Zenon
<1>13. h[0] = base /\ \A i \in 1..n : h[i] = Grow(h[i - 1], i)
    <2>1. 0 \in 0..n /\ \A i \in 1..n : i \in 0..n /\ i # 0
        BY <1>1
    <2> QED
        BY <1>12, <2>1, Zenon
<1> QED
    BY <1>6, <1>13, Zenon DEF n, words, max, ChunkRun

\* Nothing of the text is held at first.
LEMMA NothingHeld ==
    ASSUME NEW S, NEW text \in Seq(S), NEW max \in Nat
    PROVE  Held(S, text, max, NoPieces, 0)
<1> DEFINE e == [k \in Nat |-> 0]
<1>1. /\ << >> \in Seq(Seq(S)) /\ << >> \in Seq(S) /\ Len(<< >>) = 0
      /\ 1..0 = {} /\ 0 \in Nat /\ 0 <= max /\ 0 + 0 = 0
    OBVIOUS
<1>2. e \in [Nat -> Nat] /\ e[0] = 0
    OBVIOUS
<1> HIDE DEF e
<1>3. NoPieces \in Accs(S) /\ NoPieces.out = << >> /\ NoPieces.cur = << >>
    BY <1>1, AccOf, Zenon DEF NoPieces
<1>4. 0 + 0 <= Len(text)
    BY LenProperties
<1>5. Laid(S, text, << >>, e)
    BY <1>1, <1>2, Zenon DEF Laid
<1>6. Within(<< >>, text, 0)
    BY <1>1, <1>4, Zenon DEF Within
<1>7. Built(S, text, max, << >>, << >>, 0)
    BY <1>1, <1>2, <1>5, <1>6, Zenon DEF Built
<1> QED
    BY <1>3, <1>7, Zenon DEF Held

\* The limit that chunk_text uses.
LEMMA LimitIs ==
    ASSUME NEW limit \in Nat
    PROVE  /\ Max({limit, 1}) \in Nat /\ Max({limit, 1}) >= 1
           /\ limit >= 1 => Max({limit, 1}) = limit
<1> DEFINE both == {limit, 1}
           n == limit + 1
<1>1. n \in Nat /\ both \in SUBSET (0..n) /\ both # {}
    BY SMT
<1>2. \A m \in Nat : m \in both <=> m = limit \/ m = 1
    OBVIOUS
<1>3. limit \in both /\ 1 \in both /\ both \subseteq Nat
    OBVIOUS
<1> HIDE DEF both, n
<1>4. Max(both) \in both /\ \A m \in both : m <= Max(both)
    BY <1>1, MaxIsGreatest, Zenon
<1>5. Max(both) \in Nat
    BY <1>3, <1>4, Zenon
<1>6. Max(both) = limit \/ Max(both) = 1
    BY <1>2, <1>4, <1>5, Zenon
<1>7. limit <= Max(both) /\ 1 <= Max(both)
    BY <1>3, <1>4, Zenon
<1> SUFFICES Max(both) \in Nat /\ Max(both) >= 1 /\ (limit >= 1 => Max(both) = limit)
    BY Zenon DEF both
<1> QED
    BY <1>5, <1>6, <1>7

\* chunk_text's pieces cover the text as they should; an empty text is one
\* empty piece.
LEMMA TextChunked ==
    ASSUME NEW S, NEW text \in Seq(S), NEW limit \in Nat
    PROVE  \/ text = << >> /\ ChunkText(text, limit) = << << >> >>
           \/ /\ Len(ChunkText(text, limit)) > 0
              /\ \E f : Covers(S, text, Max({limit, 1}), ChunkText(text, limit), f, Len(text))
<1> DEFINE words == Words(text)
           max == Max({limit, 1})
           n == Len(words)
           chunks == ChunkText(text, limit)
<1>1. PICK e : Parted(S, text, Blanks, words, e, Len(text))
    BY TextParted, Zenon DEF Words
<1>2. /\ words \in Seq(Seq(S)) /\ e[0] = 0 /\ e[n] = Len(text)
    BY <1>1, Zenon DEF Parted, Laid
<1>3. max \in Nat /\ max >= 1
    BY LimitIs, Zenon
<1>4. PICK h : ChunkRun(words, max, chunks, h)
    BY <1>2, Chunking, Zenon
<1>5. n \in Nat /\ Len(text) \in Nat
    BY <1>2, LenProperties, Zenon
<1> HIDE DEF words, max, chunks
<1>6. ASSUME NEW k \in 1..n
      PROVE  /\ e[k - 1] \in Nat /\ e[k] \in Nat /\ WordBetween(text, e[k - 1], e[k])
             /\ words[k] \in Seq(S) /\ Within(words[k], text, e[k - 1])
             /\ e[k] = e[k - 1] + Len(words[k]) /\ Len(words[k]) > 0
    BY <1>1, PartedWords
<1> DEFINE Ok(k) == k <= n => /\ Held(S, text, max, h[k], e[k])
                              /\ k > 0 => Len(h[k].cur) > 0
           ok == {k \in Nat : Ok(k)}
<1>7. 0 \in ok
    <2>1. Held(S, text, max, h[0], e[0])
        BY <1>2, <1>3, <1>4, NothingHeld, Zenon DEF ChunkRun
    <2>2. ~(0 > 0) /\ 0 \in Nat
        OBVIOUS
    <2> QED
        BY <2>1, <2>2, Zenon
<1>8. ASSUME NEW k \in Nat, k \in ok PROVE k + 1 \in ok
    <2> SUFFICES ASSUME k + 1 <= n PROVE Ok(k + 1)
        OBVIOUS
    <2> DEFINE word == words[k + 1]
               from == e[k]
    <2>1. k <= n /\ k + 1 \in 1..n /\ (k + 1) - 1 = k
        BY <1>5
    <2>2. Held(S, text, max, h[k], from)
        BY <1>8, <2>1, Zenon
    <2>3. /\ from \in Nat /\ WordBetween(text, from, e[k + 1])
          /\ word \in Seq(S) /\ Within(word, text, from)
          /\ e[k + 1] = from + Len(word) /\ Len(word) > 0
        BY <1>6, <2>1, Zenon
    <2>4. h[k + 1] = AddWord(h[k], word, max)
        BY <1>4, <2>1, Zenon DEF ChunkRun
    <2> HIDE DEF word, from
    <2>5. /\ Held(S, text, max, AddWord(h[k], word, max), from + Len(word))
          /\ Len(AddWord(h[k], word, max).cur) > 0
        <3>1. WordBetween(text, from, from + Len(word))
            BY <2>3, Zenon
        <3> QED
            BY <1>3, <2>2, <2>3, <3>1, AddWordHeld, Zenon
    <2> QED
        BY <2>3, <2>4, <2>5, Zenon
<1> DEFINE last == h[n]
           pieces == last.out
           cur == last.cur
<1>9. Held(S, text, max, last, Len(text)) /\ (n > 0 => Len(cur) > 0)
    <2>1. n \in ok
        <3> HIDE DEF ok
        <3>1. Nat \subseteq ok
            BY <1>7, <1>8, SetInduction, Zenon
        <3> QED
            BY <1>5, <3>1, Zenon
    <2>2. n <= n
        BY <1>5
    <2> QED
        BY <1>2, <2>1, <2>2, Zenon
<1>10. CASE n = 0
    <2>1. last = NoPieces /\ Len(text) = 0
        BY <1>2, <1>4, <1>10, Zenon DEF ChunkRun
    <2>2. text = << >>
        BY <2>1
    <2>3. NoPieces.out = << >> /\ NoPieces.cur = << >>
        BY DEF NoPieces
    <2>4. Flush(last).out = << >>
        BY <2>1, <2>3, Zenon DEF Flush
    <2>5. chunks = << << >> >>
        BY <1>4, <1>10, <2>4, Zenon DEF ChunkRun
    <2> QED
        BY <2>2, <2>5, Zenon DEF chunks
<1>11. CASE n # 0
    <2>1. Len(cur) > 0
        BY <1>5, <1>9, <1>11
    <2>2. Built(S, text, max, pieces, cur, Len(text)) /\ last \in Accs(S)
        BY <1>9, Zenon DEF Held
    <2>3. pieces \in Seq(Seq(S)) /\ cur \in Seq(S)
        BY <2>2, AccIs, Zenon
    <2> DEFINE all == Append(pieces, cur)
    <2>4. \E f : Covers(S, text, max, all, f, Len(text))
        BY <1>3, <2>1, <2>2, PutOut
    <2>5. Len(all) > 0 /\ all # << >>
        BY <2>3
    <2>6. Flush(last).out = all
        <3>1. cur # << >>
            BY <2>1
        <3>2. Flush(last) = [out |-> all, cur |-> << >>]
            BY <3>1, Zenon DEF Flush
        <3> HIDE DEF all
        <3> QED
            BY <3>2
    <2> HIDE DEF all
    <2>7. chunks = all
        BY <1>4, <2>5, <2>6, Zenon DEF ChunkRun
    <2> QED
        BY <2>4, <2>5, <2>7, Zenon DEF chunks, max
<1> QED
    BY <1>10, <1>11

\* Pieces that cover a text as they should are those that Splits describes.
LEMMA CoversSplits ==
    ASSUME NEW S, NEW text \in Seq(S), NEW max, NEW out, NEW f,
           Covers(S, text, max, out, f, Len(text)), Len(out) > 0
    PROVE  Splits(text, max, out)
<1> DEFINE n == Len(out)
           End(k) == Len(FlattenSeq(SubSeq(out, 1, k)))
<1>1. /\ Laid(S, text, out, f) /\ f[n] = Len(text)
      /\ \A k \in 1..n : Len(out[k]) \in 1..max
      /\ \A k \in 1..(n - 1) : Fits(text, max, f[k], Len(out[k]))
    BY Zenon DEF Covers
<1>2. out \in Seq(Seq(S)) /\ n \in Nat
    BY <1>1, LenProperties, Zenon DEF Laid
<1>3. FlattenSeq(out) = text
    <2>1. FlattenSeq(out) = SubSeq(text, 1, Len(text))
        BY <1>1, LaidFlattened, Zenon
    <2> QED
        BY <2>1, SubSeqFull, Zenon
<1>4. ASSUME NEW k \in 1..(n - 1)
      PROVE  LET next == WordAt(text, End(k) + 1)
             IN  /\ End(k) \in WordEnds(text) \/ next.size > max
                 /\ Len(out[k]) + (IF next.start <= End(k) THEN 1 ELSE next.size) > max
    <2>1. k \in 1..n
        BY <1>2
    <2>2. End(k) = f[k]
        <3>1. k \in 1..Len(out) /\ Laid(S, text, out, f)
            BY <1>1, <2>1, Zenon
        <3>2. Len(FlattenSeq(SubSeq(out, 1, k))) = f[k]
            BY <3>1, LaidBeginning
        <3> QED
            BY <3>2, Zenon
    <2> HIDE DEF End
    <2> QED
        BY <1>1, <2>2, Zenon DEF Fits
<1>5. DOMAIN out = 1..n
    BY <1>2, LenProperties, Zenon
<1> QED
    BY <1>1, <1>3, <1>4, <1>5, Zenon DEF Splits

\* What chunk_text returns is the text, in pieces within the limit.
LEMMA ChunksLaid ==
    ASSUME NEW S, NEW text \in Seq(S), NEW limit \in Nat, limit >= 1
    PROVE  LET chunks == ChunkText(text, limit)
           IN  /\ chunks \in Seq(Seq(S)) /\ Len(chunks) > 0
               /\ \A k \in 1..Len(chunks) : Len(chunks[k]) <= limit
               /\ \E f : Laid(S, text, chunks, f) /\ f[Len(chunks)] = Len(text)
<1> DEFINE chunks == ChunkText(text, limit)
<1>1. Max({limit, 1}) = limit
    BY LimitIs, Zenon
<1>2. CASE text = << >> /\ chunks = << << >> >>
    <2> DEFINE e == [k \in Nat |-> 0]
               one == << << >> >>
    <2>1. e \in [Nat -> Nat] /\ \A k \in Nat : e[k] = 0
        OBVIOUS
    <2>2. /\ one \in Seq(Seq(S)) /\ Len(one) = 1 /\ one[1] = << >>
          /\ Len(<< >>) = 0 /\ 1..0 = {} /\ 0 + 0 <= 0 /\ 0 + 0 = 0
          /\ \A k \in 1..1 : k = 1 /\ k \in Nat
          /\ 1 - 1 = 0 /\ 0 \in Nat /\ 1 \in Nat /\ 1 > 0 /\ 0 <= limit
        OBVIOUS
    <2> HIDE DEF e, one
    <2>3. Within(<< >>, << >>, 0)
        BY <2>2, Zenon DEF Within
    <2>4. Laid(S, << >>, one, e)
        BY <2>1, <2>2, <2>3, Zenon DEF Laid
    <2>5. e[1] = 0
        BY <2>1, <2>2, Zenon
    <2>6. chunks = one
        BY <1>2, Zenon DEF one
    <2> HIDE DEF chunks
    <2> SUFFICES /\ chunks \in Seq(Seq(S)) /\ Len(chunks) > 0
                 /\ \A k \in 1..Len(chunks) : Len(chunks[k]) <= limit
                 /\ \E f : Laid(S, text, chunks, f) /\ f[Len(chunks)] = Len(text)
        BY Zenon DEF chunks
    <2> QED
        BY <1>2, <2>2, <2>4, <2>5, <2>6, Zenon
<1>3. CASE Len(chunks) > 0 /\ \E f : Covers(S, text, Max({limit, 1}), chunks, f, Len(text))
    <2>1. PICK f : Covers(S, text, limit, chunks, f, Len(text))
        BY <1>1, <1>3, Zenon
    <2>2. /\ Laid(S, text, chunks, f) /\ f[Len(chunks)] = Len(text)
          /\ \A k \in 1..Len(chunks) : Len(chunks[k]) \in 1..limit
        BY <2>1, Zenon DEF Covers
    <2>3. chunks \in Seq(Seq(S))
        BY <2>2, Zenon DEF Laid
    <2>4. \A k \in 1..limit : k <= limit
        OBVIOUS
    <2> QED
        BY <1>3, <2>2, <2>3, <2>4, Zenon
<1> QED
    BY <1>2, <1>3, TextChunked, Zenon

\* So the answer is what Chunked asks for, whatever the limit.
LEMMA ChunksChunked ==
    ASSUME NEW S, NEW text \in Seq(S), NEW limit \in Nat
    PROVE  Chunked(text, limit, ChunkText(text, limit))
<1> DEFINE chunks == ChunkText(text, limit)
           max == Max({limit, 1})
<1>1. CASE text = << >> /\ chunks = << << >> >>
    BY <1>1, Zenon DEF Chunked
<1>2. CASE Len(chunks) > 0 /\ \E f : Covers(S, text, max, chunks, f, Len(text))
    <2>1. Splits(text, max, chunks)
        BY <1>2, CoversSplits, Zenon
    <2> QED
        BY <2>1, Zenon DEF Chunked
<1> QED
    BY <1>1, <1>2, TextChunked, Zenon

\* A text cut to a length is no longer than it.
LEMMA TextTruncated ==
    ASSUME NEW S, NEW text \in Seq(S), NEW max \in Nat \ {0}
    PROVE  Len(TruncateChars(text, max)) <= max
<1>1. CASE Len(text) <= max
    BY <1>1, Zenon DEF TruncateChars
<1>2. CASE ~(Len(text) <= max)
    <2> DEFINE part == Take(text, max - 1)
               cut == Append(part, Ellipsis)
    <2>1. max - 1 \in Nat
        OBVIOUS
    <2>2. part \in Seq(S) /\ Len(part) <= max - 1
        BY <2>1, Taken, Zenon
    <2> HIDE DEF part
    <2>3. Len(cut) = Len(part) + 1
        BY <2>2
    <2>4. Len(part) \in Nat
        BY <2>2, LenProperties, Zenon
    <2> HIDE DEF cut
    <2>5. Len(cut) <= max
        BY <2>2, <2>3, <2>4
    <2>6. TruncateChars(text, max) = cut
        BY <1>2, Zenon DEF TruncateChars, cut, part
    <2> QED
        BY <2>5, <2>6, Zenon
<1> QED
    BY <1>1, <1>2

----------------------------------------------------------------------------
\* An insight as a message

\* A field is in every set of fields that has it, with its name and its value.
LEMMA FieldIs ==
    ASSUME NEW R, NEW name, NEW present \in BOOLEAN, NEW value,
           NEW field, field = [name |-> name, value |-> value], field \in R
    PROVE  /\ Field(name, present, value) \in Seq(R)
           /\ field.name = name /\ field.value = value
<1>1. <<field>> \in Seq(R) /\ << >> \in Seq(R)
    OBVIOUS
<1>2. Field(name, present, value) = <<field>> \/ Field(name, present, value) = << >>
    BY Zenon DEF Field
<1>3. Field(name, present, value) \in Seq(R)
    BY <1>1, <1>2, Zenon
<1>4. field.name = name /\ field.value = value
    OBVIOUS
<1> QED
    BY <1>3, <1>4, Zenon

\* No field is longer than Discord allows, but for the mood.
FieldsFit(fields) ==
    \A i \in DOMAIN fields : fields[i].name # "mood" => Len(fields[i].value) <= FieldLimit

\* The fields of an insight are so.
LEMMA FieldsWithin ==
    ASSUME NEW S, NEW T, NEW insight,
           insight.topics \in Seq(Seq(S)), insight.moments \in Seq(Seq(T))
    PROVE  FieldsFit(Fields(insight))
<1> DEFINE topics == TruncateChars(FlattenSeq(insight.topics), FieldLimit)
           moments == TruncateChars(FlattenSeq(insight.moments), FieldLimit)
           mood == insight.mood
           has1 == insight.topics # << >>
           has2 == mood # << >>
           has3 == insight.moments # << >>
           field1 == [name |-> "topics", value |-> topics]
           field2 == [name |-> "mood", value |-> mood]
           field3 == [name |-> "moments", value |-> moments]
           R == {field1, field2, field3}
           part1 == Field("topics", has1, topics)
           part2 == Field("mood", has2, mood)
           part3 == Field("moments", has3, moments)
           fields == part1 \o part2 \o part3
<1>1. FieldLimit \in Nat \ {0}
    BY EmbedsAssumption
<1>2. Len(topics) <= FieldLimit /\ Len(moments) <= FieldLimit
    BY <1>1, FlattenedIs, TextTruncated, Zenon
<1>3. has1 \in BOOLEAN /\ has2 \in BOOLEAN /\ has3 \in BOOLEAN
    OBVIOUS
<1>4. field1 \in R /\ field2 \in R /\ field3 \in R
    OBVIOUS
<1>5. \A field \in R : field = field1 \/ field = field2 \/ field = field3
    OBVIOUS
<1>6. Fields(insight) = fields
    BY Zenon DEF Fields
<1>7. field2.name = "mood"
    OBVIOUS
<1> HIDE DEF topics, moments, mood, has1, has2, has3, R
<1>8. part1 \in Seq(R) /\ field1.value = topics
    BY <1>3, <1>4, FieldIs, Zenon
<1>9. part2 \in Seq(R)
    BY <1>3, <1>4, FieldIs, Zenon
<1>10. part3 \in Seq(R) /\ field3.value = moments
    BY <1>3, <1>4, FieldIs, Zenon
<1> HIDE DEF part1, part2, part3, field1, field2, field3
<1>11. fields \in Seq(R)
    <2>1. part1 \o part2 \in Seq(R)
        BY <1>8, <1>9, ConcatProperties, Zenon
    <2> QED
        BY <1>10, <2>1, ConcatProperties, Zenon
<1> HIDE DEF fields
<1>12. ASSUME NEW i \in DOMAIN fields, fields[i].name # "mood"
       PROVE  Len(fields[i].value) <= FieldLimit
    <2>1. fields[i] \in R
        BY <1>11
    <2> QED
        BY <1>2, <1>5, <1>8, <1>10, <1>12, <1>7, <2>1, Zenon
<1> QED
    BY <1>6, <1>12, Zenon DEF FieldsFit

\* The message of an insight presents it.
LEMMA InsightPresented ==
    ASSUME NEW S, NEW insight, insight.summary \in Seq(S), FieldsFit(Fields(insight))
    PROVE  Presented(insight, InsightPayload(insight))
<1> DEFINE summary == insight.summary
           chunks == ChunkText(summary, DescLimit)
           n == Len(chunks)
           both == {MaxEmbeds, n}
           m == Min(both)
           Embed(k) == [description |-> chunks[k],
                        fields |-> IF k = 1 THEN Fields(insight) ELSE << >>]
           out == [k \in 1..m |-> Embed(k)]
           texts == [k \in DOMAIN out |-> out[k].description]
           part == SubSeq(chunks, 1, m)
           shown == FlattenSeq(texts)
<1>1. summary \in Seq(S) /\ Len(summary) \in Nat
    BY LenProperties, Zenon
<1>2. DescLimit \in Nat /\ DescLimit >= 1 /\ MaxEmbeds \in Nat /\ MaxEmbeds >= 1
    BY EmbedsAssumption
<1>3. /\ chunks \in Seq(Seq(S)) /\ n > 0
      /\ \A k \in 1..n : Len(chunks[k]) <= DescLimit
      /\ \E f : Laid(S, summary, chunks, f) /\ f[n] = Len(summary)
    BY <1>1, <1>2, ChunksLaid, Zenon
<1>4. PICK f : Laid(S, summary, chunks, f) /\ f[n] = Len(summary)
    BY <1>3, Zenon
<1>5. n \in Nat
    BY <1>3, LenProperties, Zenon
<1>6. out = InsightPayload(insight)
    BY Zenon DEF InsightPayload
<1> HIDE DEF summary, chunks, n
<1>7. m \in 1..MaxEmbeds /\ m \in 1..n /\ (m < MaxEmbeds => m = n)
    <2>1. both \in SUBSET Nat /\ both # {}
        BY <1>2, <1>5
    <2>2. MaxEmbeds \in both /\ n \in both /\ \A k \in both : k = MaxEmbeds \/ k = n
        OBVIOUS
    <2> HIDE DEF both
    <2>3. m \in both /\ \A k \in both : m <= k
        BY <2>1, MinIsLeast, Zenon
    <2>4. (m = MaxEmbeds \/ m = n) /\ m <= MaxEmbeds /\ m <= n
        BY <2>2, <2>3, Zenon
    <2> HIDE DEF m
    <2> QED
        BY <1>2, <1>3, <1>5, <2>4
<1> HIDE DEF m
<1>8. /\ DOMAIN out = 1..m /\ Len(out) = m
      /\ \A k \in 1..m : out[k] = Embed(k)
    <2>1. m \in Nat
        BY <1>7
    <2> HIDE DEF Embed
    <2> QED
        BY <2>1
<1>9. \A k \in 1..m : Embed(k).description = chunks[k]
    OBVIOUS
<1>10. Embed(1).fields = Fields(insight)
    OBVIOUS
<1> HIDE DEF out, Embed
<1>11. \A k \in 1..m : out[k].description = chunks[k]
    BY <1>8, <1>9, Zenon
<1>12. out[1].fields = Fields(insight)
    <2>1. 1 \in 1..m
        BY <1>7
    <2> QED
        BY <1>8, <1>10, <2>1, Zenon
<1>13. texts = part
    <2>1. m \in Nat /\ 1 \in 1..n /\ 1 <= m /\ m - 1 + 1 = m
          /\ \A k \in 1..m : 1 + k - 1 = k
        BY <1>5, <1>7
    <2>2. /\ part \in Seq(Seq(S)) /\ Len(part) = m - 1 + 1
          /\ \A k \in 1..(m - 1 + 1) : part[k] = chunks[1 + k - 1]
        <3>1. 1 \in 1..Len(chunks) /\ m \in 1..Len(chunks) /\ 1 <= m
            BY <1>7, <2>1, Zenon DEF n
        <3> QED
            BY <1>3, <3>1, PartIs, Zenon
    <2> HIDE DEF part
    <2>3. part \in [1..m -> Seq(S)]
        BY <2>1, <2>2
    <2>4. \A k \in 1..m : part[k] = out[k].description
        BY <1>11, <2>1, <2>2
    <2>5. part = [k \in 1..m |-> out[k].description]
        BY <2>3, <2>4
    <2> QED
        BY <1>8, <2>5, Zenon
<1>14. /\ shown = SubSeq(summary, 1, f[m]) /\ Len(shown) = f[m]
       /\ f[m] \in 0..Len(summary)
    <2>1. FlattenSeq(part) = SubSeq(summary, 1, f[m]) /\ Len(FlattenSeq(part)) = f[m]
        BY <1>1, <1>4, <1>7, LaidBeginning DEF n
    <2>2. m \in 0..n
        BY <1>5, <1>7
    <2>3. f[m] \in 0..Len(summary)
        BY <1>1, <1>4, <2>2, LaidEnds DEF n
    <2> QED
        BY <1>13, <2>1, <2>3, Zenon
<1>15. shown \in Seq(S)
    <2>1. part \in Seq(Seq(S))
        <3>1. m \in Int /\ 1 \in Int
            BY <1>7
        <3>2. \A k \in 1..m : chunks[k] \in Seq(S)
            BY <1>3, <1>5, <1>7 DEF n
        <3> QED
            BY <3>1, <3>2, SubSeqProperties, Zenon
    <2> QED
        BY <1>13, <2>1, FlattenedIs, Zenon
<1> HIDE DEF texts, part, shown
<1>16. IsPrefix(shown, summary)
    <2>1. SubSeq(shown, 1, Len(shown)) = shown
        BY <1>15, SubSeqFull, Zenon
    <2>2. Len(shown) <= Len(summary)
        BY <1>1, <1>14
    <2> QED
        BY <1>14, <2>1, <2>2, Zenon DEF IsPrefix
<1>17. ASSUME Len(out) < MaxEmbeds PROVE shown = summary
    <2>1. f[m] = Len(summary)
        BY <1>4, <1>7, <1>8, <1>17, Zenon
    <2>2. SubSeq(summary, 1, Len(summary)) = summary
        BY <1>1, SubSeqFull, Zenon
    <2> QED
        BY <1>14, <2>1, <2>2, Zenon
<1>18. \A k \in DOMAIN out : Len(out[k].description) <= DescLimit
    <2>1. \A k \in 1..m : k \in 1..n
        BY <1>5, <1>7
    <2> QED
        BY <1>3, <1>8, <1>11, <2>1, Zenon
<1>19. \A i \in DOMAIN out[1].fields :
           out[1].fields[i].name # "mood" => Len(out[1].fields[i].value) <= FieldLimit
    BY <1>12, Zenon DEF FieldsFit
<1>20. Presented(insight, out)
    <2>1. ShownText(out) = shown
        BY Zenon DEF ShownText, shown, texts
    <2> QED
        BY <1>7, <1>8, <1>16, <1>17, <1>18, <1>19, <2>1, Zenon DEF Presented, summary
<1> QED
    BY <1>6, <1>20, Zenon DEF out

----------------------------------------------------------------------------
\* The calls

\* An input up to a bound is a sequence.
LEMMA InputIsSeq ==
    ASSUME NEW set, NEW n \in Int, NEW s \in UpTo(set, n)
    PROVE  s \in Seq(set)
<1>1. PICK k \in 0..n : s \in [1..k -> set]
    BY DEF UpTo
<1>2. k \in Nat
    BY <1>1
<1> QED
    BY <1>1, <1>2

\* The replies and the channels that are tried.
Replied == UpTo({"x", "/", " ", "tab", "newline", "@", "all"}, MaxText - 1)
Channels == UpTo({"https://", "http://", "www.", "twitch.tv/", Login, "/", "?", " "},
                 MaxText - 1)

\* The insights that are tried.
LEMMA InsightIs ==
    ASSUME NEW insight \in Insights
    PROVE  /\ insight.topics \in Seq(Seq({"t"})) /\ insight.moments \in Seq(Seq({"k"}))
           /\ insight.summary \in Seq({"x", " "})
<1>1. /\ insight.topics \in UpTo({<<"t">>, <<"t", "t">>}, 2)
      /\ insight.moments \in UpTo({<<"k", "k">>}, 2)
      /\ insight.summary \in UpTo({"x", " "}, MaxText)
    <2> DEFINE A == UpTo({<<"t">>, <<"t", "t">>}, 2)
               B == {<< >>, <<"m">>, [i \in 1..FieldLimit + 1 |-> "m"]}
               C == UpTo({<<"k", "k">>}, 2)
               D == UpTo({"x", " "}, MaxText)
    <2>1. insight \in [topics : A, mood : B, moments : C, summary : D]
        BY Zenon DEF Insights
    <2> HIDE DEF A, B, C, D
    <2>2. insight.topics \in A /\ insight.moments \in C /\ insight.summary \in D
        BY <2>1
    <2> QED
        BY <2>2, Zenon DEF A, C, D
<1> DEFINE A == {<<"t">>, <<"t", "t">>}
           C == {<<"k", "k">>}
           D == {"x", " "}
<1>2. A \subseteq Seq({"t"}) /\ C \subseteq Seq({"k"})
    OBVIOUS
<1>3. 2 \in Int /\ MaxText \in Int
    BY EdgesAssumption
<1> HIDE DEF A, C, D
<1>4. insight.topics \in Seq(A) /\ insight.moments \in Seq(C) /\ insight.summary \in Seq(D)
    BY <1>1, <1>3, InputIsSeq, Zenon DEF A, C, D
<1>5. insight.topics \in Seq(Seq({"t"})) /\ insight.moments \in Seq(Seq({"k"}))
    BY <1>2, <1>4, SeqMonotonic, Zenon
<1> QED
    BY <1>4, <1>5, Zenon DEF D

\* A call is of one function and returns what that function does.
LEMMA CallFaithful ==
    ASSUME Next
    PROVE  /\ call'.fn = "chunk_text" =>
                 /\ call'.text \in UpTo({"x", " "}, MaxText)
                 /\ call'.limit \in 0..DescLimit
                 /\ call'.out = ChunkText(call'.text, call'.limit)
           /\ call'.fn = "insight_payload" =>
                 /\ call'.insight \in Insights
                 /\ call'.out = InsightPayload(call'.insight)
           /\ call'.fn = "pick_audio_only" =>
                 /\ call'.lines \in UpTo(Lines, MaxLines)
                 /\ call'.out = PickAudioOnly(call'.lines)
           /\ call'.fn = "sanitize" =>
                 /\ call'.reply \in Replied
                 /\ call'.max \in {2, MaxText}
                 /\ call'.out = Sanitize(call'.reply, call'.max)
           /\ call'.fn = "parse_insight" =>
                 /\ call'.content \in UpTo({"{", "}", "x"}, MaxText)
                 /\ call'.out = ParseSlice(call'.content)
           /\ call'.fn = "from_env" =>
                 /\ call'.process \in [Keys -> {Unset, Blank, "a"}]
                 /\ call'.file \in UpTo(FileLines, MaxFile)
                 /\ call'.out = FromEnv(call'.process, call'.file)
           /\ call'.fn = "normalize_channel" =>
                 /\ call'.raw \in Channels
                 /\ call'.out = NormalizeChannel(call'.raw)
<1>1. ASSUME ChunkTextCall
      PROVE  /\ call'.fn = "chunk_text"
             /\ call'.text \in UpTo({"x", " "}, MaxText)
             /\ call'.limit \in 0..DescLimit
             /\ call'.out = ChunkText(call'.text, call'.limit)
    <2>1. PICK text \in UpTo({"x", " "}, MaxText), limit \in 0..DescLimit :
              call' = [fn |-> "chunk_text", text |-> text, limit |-> limit,
                       out |-> ChunkText(text, limit)]
        BY <1>1 DEF ChunkTextCall
    <2> DEFINE out == ChunkText(text, limit)
    <2>2. call' = [fn |-> "chunk_text", text |-> text, limit |-> limit, out |-> out]
        BY <2>1
    <2> HIDE DEF out
    <2>3. call'.fn = "chunk_text" /\ call'.text = text /\ call'.limit = limit /\ call'.out = out
        BY <2>2
    <2> QED
        BY <2>1, <2>3, Zenon DEF out
<1>2. ASSUME InsightPayloadCall
      PROVE  /\ call'.fn = "insight_payload"
             /\ call'.insight \in Insights
             /\ call'.out = InsightPayload(call'.insight)
    <2>1. PICK insight \in Insights :
              call' = [fn |-> "insight_payload", insight |-> insight,
                       out |-> InsightPayload(insight)]
        BY <1>2 DEF InsightPayloadCall
    <2> DEFINE out == InsightPayload(insight)
    <2>2. call' = [fn |-> "insight_payload", insight |-> insight, out |-> out]
        BY <2>1
    <2> HIDE DEF out
    <2>3. call'.fn = "insight_payload" /\ call'.insight = insight /\ call'.out = out
        BY <2>2
    <2> QED
        BY <2>1, <2>3, Zenon DEF out
<1>3. ASSUME PickAudioOnlyCall
      PROVE  /\ call'.fn = "pick_audio_only"
             /\ call'.lines \in UpTo(Lines, MaxLines)
             /\ call'.out = PickAudioOnly(call'.lines)
    <2>1. PICK lines \in UpTo(Lines, MaxLines) :
              call' = [fn |-> "pick_audio_only", lines |-> lines, out |-> PickAudioOnly(lines)]
        BY <1>3 DEF PickAudioOnlyCall
    <2> DEFINE out == PickAudioOnly(lines)
    <2>2. call' = [fn |-> "pick_audio_only", lines |-> lines, out |-> out]
        BY <2>1
    <2> HIDE DEF out
    <2>3. call'.fn = "pick_audio_only" /\ call'.lines = lines /\ call'.out = out
        BY <2>2
    <2> QED
        BY <2>1, <2>3, Zenon DEF out
<1>4. ASSUME SanitizeCall
      PROVE  /\ call'.fn = "sanitize"
             /\ call'.reply \in Replied
             /\ call'.max \in {2, MaxText}
             /\ call'.out = Sanitize(call'.reply, call'.max)
    <2>1. PICK reply \in Replied, max \in {2, MaxText} :
              call' = [fn |-> "sanitize", reply |-> reply, max |-> max,
                       out |-> Sanitize(reply, max)]
        BY <1>4 DEF SanitizeCall, Replied
    <2> DEFINE out == Sanitize(reply, max)
    <2>2. call' = [fn |-> "sanitize", reply |-> reply, max |-> max, out |-> out]
        BY <2>1
    <2> HIDE DEF out
    <2>3. call'.fn = "sanitize" /\ call'.reply = reply /\ call'.max = max /\ call'.out = out
        BY <2>2
    <2> QED
        BY <2>1, <2>3, Zenon DEF out
<1>5. ASSUME ParseInsightCall
      PROVE  /\ call'.fn = "parse_insight"
             /\ call'.content \in UpTo({"{", "}", "x"}, MaxText)
             /\ call'.out = ParseSlice(call'.content)
    <2>1. PICK content \in UpTo({"{", "}", "x"}, MaxText) :
              call' = [fn |-> "parse_insight", content |-> content, out |-> ParseSlice(content)]
        BY <1>5 DEF ParseInsightCall
    <2> DEFINE out == ParseSlice(content)
    <2>2. call' = [fn |-> "parse_insight", content |-> content, out |-> out]
        BY <2>1
    <2> HIDE DEF out
    <2>3. call'.fn = "parse_insight" /\ call'.content = content /\ call'.out = out
        BY <2>2
    <2> QED
        BY <2>1, <2>3, Zenon DEF out
<1>6. ASSUME FromEnvCall
      PROVE  /\ call'.fn = "from_env"
             /\ call'.process \in [Keys -> {Unset, Blank, "a"}]
             /\ call'.file \in UpTo(FileLines, MaxFile)
             /\ call'.out = FromEnv(call'.process, call'.file)
    <2>1. PICK process \in [Keys -> {Unset, Blank, "a"}], file \in UpTo(FileLines, MaxFile) :
              call' = [fn |-> "from_env", process |-> process, file |-> file,
                       out |-> FromEnv(process, file)]
        BY <1>6 DEF FromEnvCall
    <2> DEFINE out == FromEnv(process, file)
    <2>2. call' = [fn |-> "from_env", process |-> process, file |-> file, out |-> out]
        BY <2>1
    <2> HIDE DEF out
    <2>3. call'.fn = "from_env" /\ call'.process = process /\ call'.file = file /\ call'.out = out
        BY <2>2
    <2> QED
        BY <2>1, <2>3, Zenon DEF out
<1>7. ASSUME NormalizeChannelCall
      PROVE  /\ call'.fn = "normalize_channel"
             /\ call'.raw \in Channels
             /\ call'.out = NormalizeChannel(call'.raw)
    <2>1. PICK raw \in Channels :
              call' = [fn |-> "normalize_channel", raw |-> raw, out |-> NormalizeChannel(raw)]
        BY <1>7 DEF NormalizeChannelCall, Channels
    <2> DEFINE out == NormalizeChannel(raw)
    <2>2. call' = [fn |-> "normalize_channel", raw |-> raw, out |-> out]
        BY <2>1
    <2> HIDE DEF out
    <2>3. call'.fn = "normalize_channel" /\ call'.raw = raw /\ call'.out = out
        BY <2>2
    <2> QED
        BY <2>1, <2>3, Zenon DEF out
<1>8. \/ ChunkTextCall \/ InsightPayloadCall \/ PickAudioOnlyCall \/ SanitizeCall
      \/ ParseInsightCall \/ FromEnvCall \/ NormalizeChannelCall
    BY DEF Next
<1> QED
    BY <1>1, <1>2, <1>3, <1>4, <1>5, <1>6, <1>7, <1>8

\* Of a playlist of any length ffmpeg is given the URL of the first audio_only
\* variant that owns one, that of the last owner where there is no such variant,
\* and nothing only where no variant has a URL; of two tags above one URL the
\* first owns it (hls.rs 106-133).
THEOREM AudioAlwaysPreferred == Spec => []AudioPreferred
<1>1. Init => AudioPreferred
    BY DEF Init, AudioPreferred
<1>2. AudioPreferred /\ [Next]_call => AudioPreferred'
    <2>1. ASSUME Next PROVE AudioPreferred'
        <3>1. ASSUME call'.fn = "pick_audio_only" PROVE PicksRight(call'.lines, call'.out)
            BY <2>1, <3>1, CallFaithful, InputIsSeq, PlaylistPicked, EdgesAssumption
        <3> QED
            BY <3>1 DEF AudioPreferred
    <2> QED
        BY <2>1 DEF AudioPreferred
<1> QED
    BY <1>1, <1>2, PTL DEF Spec

\* The configuration means what the process and a .env file of any length say,
\* and the channel is the login of any documented form (config.rs 80-232).
THEOREM ConfigAlwaysFaithful == Spec => []ConfigFaithful
<1>1. Init => ConfigFaithful
    BY DEF Init, ConfigFaithful
<1>2. ConfigFaithful /\ [Next]_call => ConfigFaithful'
    <2>1. ASSUME Next PROVE ConfigFaithful'
        <3>1. ASSUME call'.fn = "from_env"
              PROVE  Configured(call'.process, call'.file, call'.out)
            <4>1. /\ call'.process \in Processes /\ call'.file \in UpTo(FileLines, MaxFile)
                  /\ call'.out = FromEnv(call'.process, call'.file)
                BY <2>1, <3>1, CallFaithful, Zenon DEF Processes
            <4>2. call'.file \in Seq(FileLines)
                BY <4>1, InputIsSeq, EdgesAssumption
            <4> QED
                BY <4>1, <4>2, EnvConfigured, Zenon
        <3>2. ASSUME call'.fn = "normalize_channel"
              PROVE  Normalized(call'.raw, call'.out)
            <4>1. call'.raw \in Channels /\ call'.out = NormalizeChannel(call'.raw)
                BY <2>1, <3>2, CallFaithful, Zenon
            <4>2. MaxText - 1 \in Int
                BY EdgesAssumption
            <4>3. call'.raw \in Seq(Pieces)
                <5> DEFINE set == {"https://", "http://", "www.", "twitch.tv/", Login,
                                   "/", "?", " "}
                <5>1. call'.raw \in UpTo(set, MaxText - 1)
                    BY <4>1, Zenon DEF Channels
                <5>2. set \subseteq Pieces
                    BY DEF Pieces
                <5> HIDE DEF set
                <5>3. call'.raw \in Seq(set)
                    BY <4>2, <5>1, InputIsSeq, Zenon
                <5> QED
                    BY <5>2, <5>3, SeqMonotonic, Zenon
            <4> QED
                BY <4>1, <4>3, ChannelNormalized, Zenon
        <3> QED
            BY <3>1, <3>2 DEF ConfigFaithful
    <2> QED
        BY <2>1 DEF ConfigFaithful
<1> QED
    BY <1>1, <1>2, PTL DEF Spec

\* What is posted of an answer, and what is parsed of it, is what the two rules
\* allow, for an answer of any length (persona.rs 22-74, analysis.rs 136-147).
THEOREM AnswersAlwaysUsed == Spec => []AnswersUsed
<1>1. Init => AnswersUsed
    BY DEF Init, AnswersUsed
<1>2. AnswersUsed /\ [Next]_call => AnswersUsed'
    <2>1. ASSUME Next PROVE AnswersUsed'
        <3>1. ASSUME call'.fn = "sanitize"
              PROVE  Sanitized(call'.reply, call'.max, call'.out)
            <4> DEFINE set == {"x", "/", " ", "tab", "newline", "@", "all"}
            <4>1. /\ call'.reply \in Replied /\ call'.max \in {2, MaxText}
                  /\ call'.out = Sanitize(call'.reply, call'.max)
                BY <2>1, <3>1, CallFaithful, Zenon
            <4>2. call'.reply \in UpTo(set, MaxText - 1)
                BY <4>1, Zenon DEF Replied
            <4> HIDE DEF set
            <4>3. MaxText - 1 \in Int
                BY EdgesAssumption
            <4>4. call'.reply \in Seq(set)
                BY <4>2, <4>3, InputIsSeq, Zenon
            <4>5. call'.max \in Nat
                BY <4>1, EdgesAssumption
            <4> QED
                BY <4>1, <4>4, <4>5, ReplySanitized, Zenon
        <3>2. ASSUME call'.fn = "parse_insight"
              PROVE  Extracted(call'.content, call'.out)
            <4> DEFINE set == {"{", "}", "x"}
            <4>1. /\ call'.content \in UpTo(set, MaxText)
                  /\ call'.out = ParseSlice(call'.content)
                BY <2>1, <3>2, CallFaithful, Zenon
            <4> HIDE DEF set
            <4>2. MaxText \in Int
                BY EdgesAssumption
            <4>3. call'.content \in Seq(set)
                BY <4>1, <4>2, InputIsSeq, Zenon
            <4> QED
                BY <4>1, <4>3, SliceExtracted, Zenon
        <3> QED
            BY <3>1, <3>2 DEF AnswersUsed
    <2> QED
        BY <2>1 DEF AnswersUsed
<1> QED
    BY <1>1, <1>2, PTL DEF Spec

\* A text of any length is split for any limit without losing a character or
\* breaking a word that fits, and a summary of any length is shown from its
\* beginning, cut only after the last embed a message may have; topics and
\* moments stay within a field, the mood is not bounded (embed.rs 10-49, 88-119).
THEOREM ChunksAlwaysFaithful == Spec => []ChunksFaithful
<1>1. Init => ChunksFaithful
    BY DEF Init, ChunksFaithful
<1>2. ChunksFaithful /\ [Next]_call => ChunksFaithful'
    <2>1. ASSUME Next PROVE ChunksFaithful'
        <3>1. ASSUME call'.fn = "chunk_text"
              PROVE  Chunked(call'.text, call'.limit, call'.out)
            <4> DEFINE set == {"x", " "}
            <4>1. /\ call'.text \in UpTo(set, MaxText) /\ call'.limit \in 0..DescLimit
                  /\ call'.out = ChunkText(call'.text, call'.limit)
                BY <2>1, <3>1, CallFaithful, Zenon
            <4> HIDE DEF set
            <4>2. MaxText \in Int
                BY EdgesAssumption
            <4>3. call'.text \in Seq(set)
                BY <4>1, <4>2, InputIsSeq, Zenon
            <4>4. call'.limit \in Nat
                BY <4>1
            <4> QED
                BY <4>1, <4>3, <4>4, ChunksChunked, Zenon
        <3>2. ASSUME call'.fn = "insight_payload"
              PROVE  Presented(call'.insight, call'.out)
            <4>1. call'.insight \in Insights /\ call'.out = InsightPayload(call'.insight)
                BY <2>1, <3>2, CallFaithful, Zenon
            <4>2. /\ call'.insight.topics \in Seq(Seq({"t"}))
                  /\ call'.insight.moments \in Seq(Seq({"k"}))
                  /\ call'.insight.summary \in Seq({"x", " "})
                BY <4>1, InsightIs, Zenon
            <4>3. FieldsFit(Fields(call'.insight))
                BY <4>2, FieldsWithin, Zenon
            <4> QED
                BY <4>1, <4>2, <4>3, InsightPresented, Zenon
        <3> QED
            BY <3>1, <3>2 DEF ChunksFaithful
    <2> QED
        BY <2>1 DEF ChunksFaithful
<1> QED
    BY <1>1, <1>2, PTL DEF Spec
=============================================================================
