--------------------------- MODULE WatcherProofs ---------------------------
(***************************************************************************)
(* Proofs about the token cache of the supervised Helix client and the     *)
(* backoff of its supervisor, for any lifetimes of tokens, margin and      *)
(* timeout, and any base, cap and number of failures.                      *)
(***************************************************************************)
EXTENDS Watcher, WellFoundedInduction, TLAPS

\* The two extrema of Helix, without the choice they are defined by.
LEMMA FloorIs ==
    ASSUME NEW n \in Int
    PROVE  Floor(n) = IF n >= 0 THEN n ELSE 0
<1> DEFINE m == IF n >= 0 THEN n ELSE 0
<1>1. m \in {n, 0} /\ \A y \in {n, 0} : m >= y
    OBVIOUS
<1>2. \A x \in {n, 0} : (\A y \in {n, 0} : x >= y) => x = m
    OBVIOUS
<1>3. Max({n, 0}) = m
    BY <1>1, <1>2 DEF Max
<1> QED
    BY <1>3 DEF Floor

\* The count of refusals does not saturate below two.
LEMMA SecondRefusal ==
    ASSUME NEW n \in 0..1
    PROVE  Min({2, n + 1}) = n + 1
<1>1. n + 1 \in {2, n + 1} /\ \A y \in {2, n + 1} : n + 1 =< y
    OBVIOUS
<1>2. \A x \in {2, n + 1} : (\A y \in {2, n + 1} : x =< y) => x = n + 1
    OBVIOUS
<1> QED
    BY <1>1, <1>2 DEF Min

\* The inductive invariant.  A token on its way has lost no more of its life
\* than the time the client has waited for it;
Tokens == [granted : Lifetimes, life : Nat]

TokenTypes ==
    /\ call \in {"idle", "token", "issued", "asking"} /\ op \in {"stream", "users"}
    /\ left \in Nat /\ life \in Nat
    /\ waited \in 0..Timeout /\ slow \in 0..Timeout
    /\ source \in {"cache", "twitch"} /\ rejected \in 0..1
    /\ call # "issued" => fresh = None
    /\ call = "issued" => fresh \in Tokens /\ fresh.life >= fresh.granted - waited

\* whether it was withdrawn is recorded;
Flags == revoked \in BOOLEAN

\* a token that was refused is no longer in the cache, nor under way to Helix;
RequestInv ==
    /\ call = "idle" => waited = 0
    /\ call \in {"token", "issued"} => source = "twitch"
    /\ rejected = 1 => left = 0 /\ call # "asking"

\* and of the margin a cached token keeps what its own request did not use up,
\* of which a request made with it takes no more than it lasts.
SpareInv ==
    revoked # TRUE =>
        /\ left > 0 => life + slow >= left + Margin
        /\ call = "asking" /\ source = "cache" => life + slow + waited > Margin

TokenInv == TokenTypes /\ Flags /\ RequestInv /\ SpareInv

\* A client starts without a token (helix.rs:43).
LEMMA TokenStart ==
    ASSUME call = "idle", op = "stream", fresh = None, waited = 0, source = "twitch",
           left = 0, life = 0, slow = 0, revoked = FALSE, rejected = 0
    PROVE  TokenInv
<1>1. 0 \in 0..Timeout
    BY HelixAssumption
<1>2. TokenTypes
    BY <1>1 DEF TokenTypes
<1>3. RequestInv /\ SpareInv
    BY DEF RequestInv, SpareInv
<1>4. Flags
    BY Zenon DEF Flags
<1> QED
    BY <1>2, <1>3, <1>4 DEF TokenInv

\* A call uses the cached token only within its time (helix.rs:48-52).
LEMMA CallKeeps ==
    ASSUME TokenInv, NEW o \in {"stream", "users"}, Call(o)
    PROVE  TokenInv'
<1>1. /\ call = "idle" /\ op' = o /\ waited = 0 /\ fresh = None
      /\ call' = IF left > 0 THEN "asking" ELSE "token"
      /\ UNCHANGED <<left, life, slow, revoked, rejected, fresh, waited>>
    BY DEF Call, token, TokenInv, TokenTypes, RequestInv
<1>2. source' = IF left > 0 THEN "cache" ELSE "twitch"
    BY DEF Call
<1>3. TokenTypes'
    BY <1>1, <1>2 DEF TokenInv, TokenTypes
<1>4. RequestInv'
    BY <1>1, <1>2 DEF TokenInv, TokenTypes, RequestInv
<1>5. SpareInv'
    BY <1>1, <1>2, HelixAssumption DEF TokenInv, TokenTypes, SpareInv
<1>6. Flags'
    BY <1>1, Zenon DEF TokenInv, Flags
<1> QED
    BY <1>3, <1>4, <1>5, <1>6 DEF TokenInv

\* A token is issued with its whole life.
LEMMA IssueKeeps ==
    ASSUME TokenInv, Issue
    PROVE  TokenInv'
<1>1. PICK l \in Lifetimes : fresh' = [granted |-> l, life |-> l]
    BY DEF Issue
<1>2. /\ call = "token" /\ call' = "issued"
      /\ UNCHANGED <<left, life, slow, revoked, rejected, op, waited, source>>
    BY DEF Issue, token
<1>3. l \in Nat /\ waited \in Nat
    BY HelixAssumption DEF TokenInv, TokenTypes
<1>4. fresh' \in Tokens /\ fresh'.life >= fresh'.granted - waited
    BY <1>1, <1>3 DEF Tokens
<1>5. TokenTypes'
    BY <1>2, <1>4 DEF TokenInv, TokenTypes
<1>6. RequestInv' /\ SpareInv'
    BY <1>2 DEF TokenInv, RequestInv, SpareInv
<1>7. Flags'
    BY <1>2, Zenon DEF TokenInv, Flags
<1> QED
    BY <1>5, <1>6, <1>7 DEF TokenInv

\* What is stored expires a margin early, of which the answer that brought it
\* has used up what it took (helix.rs:69-71).
LEMMA ReceiveKeeps ==
    ASSUME TokenInv, Receive
    PROVE  TokenInv'
<1>1. /\ call = "issued" /\ call' = "asking" /\ left' = Expiry(fresh.granted)
      /\ life' = fresh.life /\ slow' = waited /\ fresh' = None /\ waited' = 0
      /\ revoked' = FALSE /\ rejected' = 0 /\ UNCHANGED <<op, source>>
    BY DEF Receive
<1>2. fresh \in Tokens /\ fresh.life >= fresh.granted - waited
    BY <1>1 DEF TokenInv, TokenTypes
<1>3. fresh.granted \in Nat /\ fresh.life \in Nat
    BY <1>2, HelixAssumption DEF Tokens
<1>4. left' = IF fresh.granted - Margin >= 0 THEN fresh.granted - Margin ELSE 0
    <2>1. fresh.granted - Margin \in Int
        BY <1>3, HelixAssumption
    <2> QED
        BY <1>1, <2>1, FloorIs DEF Expiry
<1>5. left' \in Nat /\ 0 \in 0..Timeout
    BY <1>3, <1>4, HelixAssumption
<1>6. TokenTypes'
    BY <1>1, <1>3, <1>5 DEF TokenInv, TokenTypes
<1>7. RequestInv' /\ source = "twitch"
    BY <1>1 DEF TokenInv, RequestInv
<1>8. SpareInv'
    BY <1>1, <1>2, <1>3, <1>4, <1>7, HelixAssumption DEF TokenInv, TokenTypes, SpareInv
<1>9. Flags'
    BY <1>1, Zenon DEF TokenInv, Flags
<1> QED
    BY <1>6, <1>7, <1>8, <1>9 DEF TokenInv

\* A failed request leaves the cache alone.
LEMMA FailsKeeps ==
    ASSUME TokenInv, Fails
    PROVE  TokenInv'
<1>1. /\ call' = "idle" /\ fresh' = None /\ waited' = 0
      /\ UNCHANGED <<left, life, slow, revoked, rejected, op, source>>
    BY DEF Fails, token
<1>2. 0 \in 0..Timeout
    BY HelixAssumption
<1>3. TokenTypes'
    BY <1>1, <1>2 DEF TokenInv, TokenTypes
<1>4. RequestInv' /\ SpareInv'
    BY <1>1 DEF TokenInv, RequestInv, SpareInv
<1>5. Flags'
    BY <1>1, Zenon DEF TokenInv, Flags
<1> QED
    BY <1>3, <1>4, <1>5 DEF TokenInv

\* A withdrawn token is told apart in history only.
LEMMA RevokeKeeps ==
    ASSUME TokenInv, Revoke
    PROVE  TokenInv'
<1>1. /\ life' = 0 /\ revoked' = TRUE
      /\ UNCHANGED <<call, op, fresh, waited, source, left, slow, rejected>>
    BY DEF Revoke, request
<1>2. TokenTypes'
    BY <1>1 DEF TokenInv, TokenTypes
<1>3. RequestInv' /\ SpareInv'
    BY <1>1 DEF TokenInv, RequestInv, SpareInv
<1>4. Flags'
    BY <1>1, Zenon DEF TokenInv, Flags
<1> QED
    BY <1>2, <1>3, <1>4 DEF TokenInv

\* A new client forgets the token.
LEMMA NewClientKeeps ==
    ASSUME NewClient
    PROVE  TokenInv'
<1>1. 0 \in 0..Timeout
    BY HelixAssumption
<1>2. TokenTypes'
    BY <1>1 DEF NewClient, TokenTypes
<1>3. RequestInv' /\ SpareInv'
    BY DEF NewClient, RequestInv, SpareInv
<1>4. Flags'
    BY Zenon DEF NewClient, Flags
<1> QED
    BY <1>2, <1>3, <1>4 DEF TokenInv

\* A refusal of get_stream clears the token, a first and only time
\* (helix.rs:86-89).
LEMMA AnswerKeeps ==
    ASSUME TokenInv, Answer
    PROVE  TokenInv'
<1>1. /\ call = "asking" /\ call' = "idle" /\ waited' = 0
      /\ UNCHANGED <<op, fresh, source, life, slow, revoked>>
    BY DEF Answer
<1>2. rejected = 0
    BY <1>1 DEF TokenInv, TokenTypes, RequestInv
<1>3. Min({2, rejected + 1}) = 1
    BY <1>2, SecondRefusal
<1>4. \/ left' = left /\ rejected' = 0
      \/ left' = 0 /\ rejected' = 1
    BY <1>2, <1>3 DEF Answer, Refused
<1>5. TokenTypes'
    BY <1>1, <1>4, HelixAssumption DEF TokenInv, TokenTypes
<1>6. RequestInv'
    BY <1>1, <1>4 DEF TokenInv, RequestInv
<1>7. SpareInv'
    BY <1>1, <1>4 DEF TokenInv, SpareInv
<1>8. Flags'
    BY <1>1, Zenon DEF TokenInv, Flags
<1> QED
    BY <1>5, <1>6, <1>7, <1>8 DEF TokenInv

\* Time passes alike for the cached token, its life, a token on its way and
\* whoever waits.
LEMMA AgesKeeps ==
    ASSUME TokenInv, Ages
    PROVE  TokenInv'
<1>1. /\ call # "idle" => waited < Timeout
      /\ life' = Floor(life - 1) /\ left' = Floor(left - 1)
      /\ fresh' = [fresh EXCEPT !.life = Floor(@ - 1)]
      /\ waited' = IF call = "idle" THEN 0 ELSE waited + 1
      /\ UNCHANGED <<call, op, source, slow, revoked, rejected>>
    BY DEF Ages
<1>2. /\ left' = IF left >= 1 THEN left - 1 ELSE 0
      /\ life' = IF life >= 1 THEN life - 1 ELSE 0
    BY <1>1, FloorIs DEF TokenInv, TokenTypes
<1>3. waited' \in 0..Timeout /\ waited \in Nat
    BY <1>1, HelixAssumption DEF TokenInv, TokenTypes
<1>4. ASSUME call = "issued"
      PROVE  fresh' \in Tokens /\ fresh'.life >= fresh'.granted - waited'
    <2>1. fresh \in Tokens /\ fresh.life >= fresh.granted - waited
        BY <1>4 DEF TokenInv, TokenTypes
    <2>2. fresh.granted \in Nat /\ fresh.granted \in Lifetimes /\ fresh.life \in Nat
        BY <2>1, HelixAssumption DEF Tokens
    <2>3. Floor(fresh.life - 1) = IF fresh.life >= 1 THEN fresh.life - 1 ELSE 0
        BY <2>2, FloorIs
    <2>4. fresh' = [granted |-> fresh.granted, life |-> Floor(fresh.life - 1)]
        BY <1>1, <2>1 DEF Tokens
    <2>5. waited' = waited + 1
        BY <1>1, <1>4
    <2> QED
        BY <1>3, <2>1, <2>2, <2>3, <2>4, <2>5 DEF Tokens
<1>5. ASSUME call # "issued" PROVE fresh' = None
    <2>1. fresh = None
        BY <1>5 DEF TokenInv, TokenTypes
    <2>2. Floor(0 - 1) = 0
        BY FloorIs
    <2> QED
        BY <1>1, <2>1, <2>2 DEF None
<1>6. TokenTypes'
    BY <1>1, <1>2, <1>3, <1>4, <1>5 DEF TokenInv, TokenTypes
<1>7. RequestInv'
    BY <1>1, <1>2 DEF TokenInv, RequestInv
<1>8. SpareInv'
    BY <1>1, <1>2, <1>3, HelixAssumption DEF TokenInv, TokenTypes, SpareInv
<1>9. Flags'
    BY <1>1, Zenon DEF TokenInv, Flags
<1> QED
    BY <1>6, <1>7, <1>8, <1>9 DEF TokenInv

\* The invariant speaks of the client only.
LEMMA Unmoved ==
    ASSUME TokenInv, UNCHANGED helix
    PROVE  TokenInv'
BY Zenon DEF helix, token, request, TokenInv, TokenTypes, Flags, RequestInv, SpareInv

\* Every step of the composition is one of the client's, or leaves it alone.
LEMMA StepKeeps ==
    ASSUME TokenInv, [Next]_vars
    PROVE  TokenInv'
<1>1. CASE Request
    BY <1>1, CallKeeps, IssueKeeps, ReceiveKeeps, AnswerKeeps, FailsKeeps, Zenon DEF Request
<1>2. CASE Withdraw
    BY <1>2, RevokeKeeps DEF Withdraw
<1>3. CASE Exits
    BY <1>3, NewClientKeeps DEF Exits
<1>4. CASE Loop
    BY <1>4, Unmoved DEF Loop
<1>5. CASE Tick
    BY <1>5, AgesKeeps DEF Tick
<1>6. CASE UNCHANGED vars
    BY <1>6, Unmoved DEF vars
<1> QED
    BY <1>1, <1>2, <1>3, <1>4, <1>5, <1>6 DEF Next

\* However calls, panics, slow requests and withdrawals interleave: a token is
\* taken from the cache only within its life unless it was withdrawn; one that
\* is dead when its request ends was withdrawn, or the two requests together
\* took longer than the margin; and no token is refused to get_stream twice
\* (helix.rs:48-51, 69-71, 86-89).
THEOREM CacheAlwaysHonest == Spec => []CacheHonest
<1>1. Init => TokenInv
    BY TokenStart DEF Init, HelixInit
<1>2. TokenInv /\ [Next]_vars => TokenInv'
    BY StepKeeps
<1>3. TokenInv => CacheHonest
    <2> SUFFICES ASSUME TokenInv PROVE CacheHonest
        OBVIOUS
    <2>1. HelixTypeOK /\ rejected <= 1
        <3>1. revoked \in BOOLEAN
            BY Zenon DEF TokenInv, Flags
        <3>2. rejected \in 0..2 /\ rejected <= 1
            BY DEF TokenInv, TokenTypes
        <3> QED
            BY <3>1, <3>2, Zenon DEF TokenInv, TokenTypes, Tokens, HelixTypeOK
    <2>2. revoked # TRUE => left <= life
        BY HelixAssumption DEF TokenInv, TokenTypes, SpareInv
    <2>3. ASSUME revoked # TRUE, call = "asking", source = "cache", life = 0
          PROVE  slow + waited > Margin
        <3>1. life + slow + waited > Margin
            BY <2>3, Zenon DEF TokenInv, SpareInv
        <3>2. slow \in Nat /\ waited \in Nat
            BY HelixAssumption DEF TokenInv, TokenTypes
        <3> QED
            BY <2>3, <3>1, <3>2
    <2>4. revoked \in BOOLEAN
        BY Zenon DEF TokenInv, Flags
    <2> QED
        BY <2>1, <2>2, <2>3, <2>4, Zenon DEF CacheHonest
<1> QED
    BY <1>1, <1>2, <1>3, PTL DEF Spec

-----------------------------------------------------------------------------
(* Powers of two *)

\* Induction on the natural numbers, for a set that a proof defines.
LEMMA SetInduction ==
    ASSUME NEW S, 0 \in S, \A n \in Nat : n \in S => n + 1 \in S
    PROVE  Nat \subseteq S
<1> SUFFICES ASSUME Nat \ S # {} PROVE FALSE
    OBVIOUS
<1> DEFINE rest == Nat \ S
<1>1. rest \subseteq Nat /\ rest # {}
    OBVIOUS
<1> HIDE DEF rest
<1>2. \E n \in rest : \A m \in rest : ~(<<m, n>> \in OpToRel(<, Nat))
    BY <1>1, NatLessThanWellFounded, WFMin, Zenon
<1>3. PICK n \in rest : \A m \in rest : ~(m < n)
    BY <1>1, <1>2 DEF OpToRel
<1>4. n \in Nat /\ n \notin S /\ n # 0
    BY DEF rest
<1>5. n - 1 \in Nat /\ n - 1 < n
    BY <1>4
<1>6. n - 1 \in S
    BY <1>3, <1>5 DEF rest
<1>7. (n - 1) + 1 = n
    BY <1>4
<1>8. n \in S
    BY <1>5, <1>6, <1>7
<1> QED
    BY <1>4, <1>8

\* f has the first n + 1 powers of two.
Powers(n, f) ==
    f \in [0..n -> Nat] /\ f[0] = 1 /\ \A i \in 1..n : f[i] = 2 * f[i - 1]

\* There are such powers up to every n.
LEMMA PowersExist ==
    ASSUME NEW n \in Nat
    PROVE  \E f : Powers(n, f)
<1> DEFINE S == {m \in Nat : \E f : Powers(m, f)}
<1>1. 0 \in S
    <2>1. Powers(0, [i \in 0..0 |-> 1])
        BY DEF Powers
    <2> QED
        BY <2>1, Zenon
<1>2. ASSUME NEW m \in Nat, m \in S PROVE m + 1 \in S
    <2>1. PICK g : Powers(m, g)
        BY <1>2
    <2>2. g \in [0..m -> Nat] /\ g[0] = 1 /\ \A i \in 1..m : g[i] = 2 * g[i - 1]
        BY <2>1 DEF Powers
    <2> DEFINE f == [i \in 0..(m + 1) |-> IF i = m + 1 THEN 2 * g[m] ELSE g[i]]
    <2>3. f \in [0..(m + 1) -> Nat] /\ f[0] = 1
        BY <2>2
    <2>4. ASSUME NEW i \in 1..(m + 1) PROVE f[i] = 2 * f[i - 1]
        <3>1. CASE i = m + 1
            <4>1. f[i] = 2 * g[m] /\ f[i - 1] = g[m]
                BY <3>1
            <4> QED
                BY <4>1
        <3>2. CASE i # m + 1
            <4>1. i \in 1..m /\ f[i] = g[i] /\ f[i - 1] = g[i - 1]
                BY <3>2
            <4> QED
                BY <2>2, <4>1
        <3> QED
            BY <3>1, <3>2
    <2> HIDE DEF f
    <2>5. Powers(m + 1, f)
        BY <2>3, <2>4 DEF Powers
    <2> QED
        BY <2>5
<1> HIDE DEF S
<1>3. n \in S
    BY <1>1, <1>2, SetInduction
<1> QED
    BY <1>3 DEF S

\* Shifted is the last of them.
LEMMA ShiftedIs ==
    ASSUME NEW n \in Nat, NEW f, Powers(n, f)
    PROVE  Shifted(n) = f[n]
<1> DEFINE Def(g) == [i \in 0..n |-> IF i = 0 THEN 1 ELSE 2 * g[i - 1]]
           h == CHOOSE g : g = Def(g)
<1>1. f = Def(f)
    BY DEF Powers
<1>2. h = Def(h)
    BY <1>1, Zenon
<1>3. Shifted(n) = h[n]
    BY DEF Shifted
<1> HIDE DEF h
<1>4. h[0] = 1 /\ \A i \in 1..n : h[i] = 2 * h[i - 1]
    <2>1. \A i \in 0..n : h[i] = Def(h)[i]
        BY <1>2, Zenon
    <2>2. \A i \in 0..n : Def(h)[i] = IF i = 0 THEN 1 ELSE 2 * h[i - 1]
        OBVIOUS
    <2> HIDE DEF Def
    <2>3. 0 \in 0..n /\ \A i \in 1..n : i \in 0..n /\ i # 0
        OBVIOUS
    <2> QED
        BY <2>1, <2>2, <2>3, Zenon
<1> HIDE DEF Def
<1> DEFINE S == {m \in Nat : m <= n => h[m] = f[m]}
<1>5. 0 \in S
    BY <1>4 DEF Powers
<1>6. ASSUME NEW m \in Nat, m \in S PROVE m + 1 \in S
    BY <1>4, <1>6 DEF Powers
<1> HIDE DEF S
<1>7. n \in S
    BY <1>5, <1>6, SetInduction
<1> QED
    BY <1>3, <1>7 DEF S

\* One more shift doubles.
LEMMA ShiftDoubles ==
    ASSUME NEW n \in Nat
    PROVE  Shifted(n) \in Nat /\ Shifted(n + 1) = 2 * Shifted(n)
<1>1. PICK f : Powers(n + 1, f)
    BY PowersExist
<1> DEFINE g == [i \in 0..n |-> f[i]]
<1>2. /\ f \in [0..(n + 1) -> Nat] /\ f[0] = 1
      /\ \A i \in 1..(n + 1) : f[i] = 2 * f[i - 1]
    BY <1>1 DEF Powers
<1>3. Powers(n, g)
    BY <1>2 DEF Powers
<1>4. Shifted(n + 1) = f[n + 1] /\ Shifted(n) = g[n] /\ g[n] = f[n] /\ f[n] \in Nat
    BY <1>1, <1>2, <1>3, ShiftedIs
<1>5. f[n + 1] = 2 * f[n]
    BY <1>2
<1> QED
    BY <1>4, <1>5

\* More shifts never give less.
LEMMA ShiftGrows ==
    ASSUME NEW a \in Nat, NEW b \in Nat, a <= b
    PROVE  Shifted(a) <= Shifted(b)
<1> DEFINE S == {n \in Nat : Shifted(a) <= Shifted(a + n)}
<1>1. 0 \in S
    BY ShiftDoubles
<1>2. ASSUME NEW n \in Nat, n \in S PROVE n + 1 \in S
    <2>1. a + n \in Nat /\ a + (n + 1) = (a + n) + 1
        OBVIOUS
    <2>2. Shifted(a + (n + 1)) = 2 * Shifted(a + n) /\ Shifted(a + n) \in Nat /\ Shifted(a) \in Nat
        BY <2>1, ShiftDoubles
    <2>3. Shifted(a) <= Shifted(a + n)
        BY <1>2
    <2> QED
        BY <2>2, <2>3
<1> HIDE DEF S
<1>3. b - a \in Nat /\ a + (b - a) = b
    OBVIOUS
<1>4. b - a \in S
    BY <1>1, <1>2, <1>3, SetInduction
<1> QED
    BY <1>3, <1>4 DEF S

-----------------------------------------------------------------------------
(* The supervision loop *)

\* The lesser of two.
LEMMA MinIs ==
    ASSUME NEW m \in Int, NEW n \in Int
    PROVE  Min({m, n}) = IF m <= n THEN m ELSE n
<1> DEFINE l == IF m <= n THEN m ELSE n
<1>1. l \in {m, n} /\ \A y \in {m, n} : l <= y
    OBVIOUS
<1>2. \A x \in {m, n} : (\A y \in {m, n} : x <= y) => x = l
    OBVIOUS
<1> QED
    BY <1>1, <1>2 DEF Min

\* What the backoff means to wait after k failures in a row.
Due(k) == Min({MaxDelay, Base * Shifted(k)})

\* It is never more than the maximum, and that once the exponent is capped.
LEMMA DueCapped ==
    ASSUME NEW k \in Nat
    PROVE  /\ Due(k) \in Nat /\ Due(k) <= MaxDelay
           /\ k >= ShiftCap => Due(k) = MaxDelay
<1> DEFINE p == Base * Shifted(k)
           q == Base * Shifted(ShiftCap)
<1>1. Base \in Nat /\ MaxDelay \in Nat /\ ShiftCap \in Nat /\ MaxDelay <= q
    BY BackoffAssumption
<1>2. Shifted(k) \in Nat /\ Shifted(ShiftCap) \in Nat
    BY <1>1, ShiftDoubles
<1>3. p \in Nat /\ q \in Nat
    BY <1>1, <1>2
<1>4. ASSUME k >= ShiftCap PROVE q <= p
    <2>1. Shifted(ShiftCap) <= Shifted(k)
        BY <1>1, <1>4, ShiftGrows
    <2>2. \A x, y, z \in Nat : x <= y => z * x <= z * y
        OBVIOUS
    <2> QED
        BY <1>1, <1>2, <2>1, <2>2
<1> HIDE DEF p, q
<1>5. Due(k) = IF MaxDelay <= p THEN MaxDelay ELSE p
    BY <1>1, <1>3, MinIs DEF Due, p
<1> QED
    BY <1>1, <1>3, <1>4, <1>5

\* The counter says what the failures do, though both saturate.
LEMMA DelayIsDue ==
    ASSUME NEW n \in Nat, NEW k \in Nat,
           n = k \/ (n >= AttemptMax /\ k >= AttemptMax)
    PROVE  RawDelay(n) = Due(k)
<1>0. ShiftCap \in Nat /\ AttemptMax \in Nat /\ ShiftCap <= AttemptMax
    BY BackoffAssumption
<1> DEFINE c == IF n <= ShiftCap THEN n ELSE ShiftCap
<1>1. RawDelay(n) = Due(c)
    <2>1. Min({n, ShiftCap}) = c
        BY <1>0, MinIs
    <2> QED
        BY <2>1, Zenon DEF RawDelay, Due
<1>2. CASE n <= ShiftCap /\ n = k
    BY <1>1, <1>2
<1>3. CASE ~(n <= ShiftCap /\ n = k)
    <2>1. c \in Nat /\ c >= ShiftCap /\ k >= ShiftCap
        BY <1>0, <1>3
    <2> QED
        BY <1>1, <2>1, DueCapped
<1> QED
    BY <1>2, <1>3

\* Inductive: BackoffHonest, and the counter is one ahead of the failures.
BackoffInv ==
    /\ SupervisorTypeOK
    /\ attempt = IF failures < AttemptMax THEN failures + 1 ELSE AttemptMax
    /\ phase = "waiting" =>
          /\ failures >= 0
          /\ 2 * (slept + delay) >= Due(failures) /\ slept + delay <= Due(failures)

\* A run that ends counts, or starts the count over.
LEMMA ExitCounts ==
    ASSUME BackoffInv, Exited
    PROVE  BackoffInv'
<1>0. AttemptMax \in Nat \ {0} /\ MaxDelay \in Nat /\ Healthy \in Nat
    BY BackoffAssumption
<1>1. /\ attempt \in 0..AttemptMax /\ failures \in -1..(AttemptMax + 1)
      /\ attempt = IF failures < AttemptMax THEN failures + 1 ELSE AttemptMax
      /\ uptime \in 0..Healthy
    BY DEF BackoffInv, SupervisorTypeOK
<1>2. UNCHANGED <<uptime, cancelled>>
    BY DEF Exited
<1>3. CASE cancelled
    <2>1. phase' = "ended" /\ UNCHANGED <<attempt, delay, slept, failures>>
        BY <1>3 DEF Exited
    <2> QED
        BY <1>2, <2>1 DEF BackoffInv, SupervisorTypeOK
<1>4. CASE ~cancelled
    <2> DEFINE n == IF uptime >= Healthy THEN 0 ELSE attempt
               k == IF uptime >= Healthy THEN 0 ELSE failures + 1
    <2>1. /\ phase' = "waiting" /\ slept' = 0 /\ attempt' = NextAttempt(n)
          /\ \E d \in 1..RawDelay(n) : 2 * d >= RawDelay(n) /\ delay' = d
          /\ failures' = IF k <= AttemptMax + 1 THEN k ELSE failures
        BY <1>4 DEF Exited
    <2>2. /\ n \in 0..AttemptMax /\ k \in 0..(AttemptMax + 2)
          /\ n = IF k <= AttemptMax THEN k ELSE AttemptMax
          /\ k = AttemptMax + 2 => failures = AttemptMax + 1
        BY <1>0, <1>1
    <2> HIDE DEF n, k
    <2>3. /\ failures' \in 0..(AttemptMax + 1)
          /\ n = failures' \/ (n >= AttemptMax /\ failures' >= AttemptMax)
          /\ attempt' \in 0..AttemptMax
          /\ attempt' = IF failures' < AttemptMax THEN failures' + 1 ELSE AttemptMax
        <3>1. CASE k <= AttemptMax + 1
            <4>1. failures' = k
                BY <2>1, <3>1
            <4> QED
                BY <1>0, <2>1, <2>2, <3>1, <4>1 DEF NextAttempt
        <3>2. CASE ~(k <= AttemptMax + 1)
            <4>1. k = AttemptMax + 2 /\ failures' = AttemptMax + 1 /\ n = AttemptMax
                BY <1>0, <2>1, <2>2, <3>2
            <4> QED
                BY <1>0, <2>1, <4>1 DEF NextAttempt
        <3> QED
            BY <3>1, <3>2
    <2>4. RawDelay(n) = Due(failures') /\ Due(failures') \in Nat /\ Due(failures') <= MaxDelay
        <3>1. n \in Nat /\ failures' \in Nat
            BY <1>0, <2>2, <2>3
        <3> QED
            BY <2>3, <3>1, DelayIsDue, DueCapped
    <2>5. PICK d \in 1..Due(failures') : 2 * d >= Due(failures') /\ delay' = d
        BY <2>1, <2>4
    <2>6. delay' \in 0..MaxDelay /\ slept' \in 0..MaxDelay /\ slept' + delay' = d
        BY <1>0, <2>1, <2>4, <2>5
    <2>7. SupervisorTypeOK'
        BY <1>0, <1>2, <2>1, <2>3, <2>6 DEF BackoffInv, SupervisorTypeOK
    <2> QED
        BY <2>1, <2>3, <2>4, <2>5, <2>6, <2>7 DEF BackoffInv
<1> QED
    BY <1>3, <1>4

\* What is left of the sleep and what has passed of it are together the same.
LEMMA PassesKeeps ==
    ASSUME BackoffInv, Passes
    PROVE  BackoffInv'
<1>0. MaxDelay \in Nat /\ Healthy \in Nat
    BY BackoffAssumption
<1>1. uptime' \in 0..Healthy /\ UNCHANGED <<phase, attempt, cancelled, failures>>
    BY <1>0 DEF BackoffInv, SupervisorTypeOK, Passes
<1>2. CASE phase = "waiting"
    <2>1. delay' = delay - 1 /\ slept' = slept + 1 /\ delay > 0
        BY <1>2 DEF Passes
    <2>2. delay \in Nat /\ slept \in Nat /\ failures \in Nat
        BY <1>2, BackoffAssumption DEF BackoffInv, SupervisorTypeOK
    <2>3. Due(failures) \in Nat /\ Due(failures) <= MaxDelay /\ slept + delay <= Due(failures)
        BY <1>2, <2>2, DueCapped DEF BackoffInv
    <2>4. slept' + delay' = slept + delay /\ delay' \in 0..MaxDelay /\ slept' \in 0..MaxDelay
        BY <1>0, <2>1, <2>2, <2>3
    <2> QED
        BY <1>1, <2>4 DEF BackoffInv, SupervisorTypeOK, Due
<1>3. CASE phase # "waiting"
    <2>1. UNCHANGED <<delay, slept>>
        BY <1>3 DEF Passes
    <2> QED
        BY <1>1, <1>3, <2>1 DEF BackoffInv, SupervisorTypeOK
<1> QED
    BY <1>2, <1>3

\* However often the worker fails, and through every saturation, the wait
\* before its next run is within half and the whole of base * 2^failures,
\* capped; one healthy run starts over (backoff.rs:37-43, supervisor.rs:59-63).
THEOREM BackoffAlwaysHonest == Spec => []BackoffHonest
<1>1. Init => BackoffInv
    <2> SUFFICES ASSUME SupervisorInit PROVE BackoffInv
        BY DEF Init
    <2>1. /\ AttemptMax \in Nat \ {0} /\ MaxDelay \in Nat /\ Healthy \in Nat
        BY BackoffAssumption
    <2>2. SupervisorTypeOK
        <3>1. /\ attempt \in 0..AttemptMax /\ uptime \in 0..Healthy
              /\ delay \in 0..MaxDelay /\ slept \in 0..MaxDelay
              /\ failures \in -1..(AttemptMax + 1)
            BY <2>1 DEF SupervisorInit
        <3> QED
            BY <3>1, Zenon DEF SupervisorInit, SupervisorTypeOK
    <2> QED
        BY <2>1, <2>2 DEF SupervisorInit, BackoffInv
<1>2. ASSUME BackoffInv, [Next]_vars PROVE BackoffInv'
    <2>1. ASSUME UNCHANGED supervisor PROVE BackoffInv'
        BY <1>2, <2>1 DEF supervisor, BackoffInv, SupervisorTypeOK
    <2>2. CASE Exits
        BY <1>2, <2>2, ExitCounts DEF Exits
    <2>3. CASE Tick
        BY <1>2, <2>3, PassesKeeps DEF Tick
    <2>4. CASE Restart \/ WaitCancelled
        <3>1. /\ phase' \in {"running", "ended"} /\ uptime' \in 0..Healthy
              /\ UNCHANGED <<attempt, delay, cancelled, slept, failures>>
            BY <1>2, <2>4, BackoffAssumption
               DEF Restart, WaitCancelled, BackoffInv, SupervisorTypeOK
        <3> QED
            BY <1>2, <3>1 DEF BackoffInv, SupervisorTypeOK
    <2>5. CASE Cancel
        BY <1>2, <2>5 DEF Cancel, BackoffInv, SupervisorTypeOK
    <2> QED
        BY <1>2, <2>1, <2>2, <2>3, <2>4, <2>5 DEF Next, Request, Withdraw, Loop, vars
<1>3. BackoffInv => BackoffHonest
    BY DEF BackoffInv, BackoffHonest, Due
<1> QED
    BY <1>1, <1>2, <1>3, PTL DEF Spec
=============================================================================
