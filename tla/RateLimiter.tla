----------------------------- MODULE RateLimiter -----------------------------
(***************************************************************************)
(* src/src/discord/ratelimit.rs: the token bucket that paces Discord posts *)
(* (acquire, the output worker) and chat replies (try_acquire_at, the      *)
(* interaction engine).  One task owns each bucket.                        *)
(*                                                                         *)
(* Arithmetic is exact: a token is Window units, so that a tick refills    *)
(* the whole number Capacity of units (refill_per_sec is capacity over     *)
(* window_secs).  What f64 rounding can do is end a sleep up to Slack      *)
(* units short; a tick is acquire's shortest sleep, 10 ms.  Time is        *)
(* relative: `elapsed` stops at Window, when the bucket is full anyway.    *)
(***************************************************************************)
EXTENDS Naturals

CONSTANTS
    N,       \* `n`, tokens per window; 0 is raised to 1
    Window,  \* window_secs, in ticks
    Slack,   \* units a sleep may end short of a token
    MaxAge   \* bound: ticks a measured interval lasts

ASSUME RateAssumption ==
    N \in Nat /\ Window \in Nat \ {0} /\ Slack \in Nat /\ MaxAge \in Nat

Capacity == IF N = 0 THEN 1 ELSE N
Token    == Window
Full     == Capacity * Token

VARIABLES
    tokens,   \* units in the bucket
    elapsed,  \* ticks since `last`
    owner,    \* "ready", or "asleep" inside acquire
    \* History: an interval that starts whenever Measure is taken.
    measuring, age, granted

bucket   == <<tokens, elapsed, owner>>
interval == <<measuring, age, granted>>
limiter  == <<bucket, interval>>

RateTypeOK ==
    /\ tokens \in 0..Full
    /\ elapsed \in 0..Window
    /\ owner \in {"ready", "asleep"}
    /\ measuring \in BOOLEAN /\ age \in 0..MaxAge /\ granted \in Nat

\* per_window: the bucket starts full.
RateInit ==
    /\ tokens = Full /\ elapsed = 0 /\ owner = "ready"
    /\ measuring = FALSE /\ age = 0 /\ granted = 0

\* Mutant: the refill is not cut at the capacity.
Refilled_Uncapped == tokens + elapsed * Capacity

\* refill_at: what `tokens` becomes now.
Refilled ==
    LET sum == tokens + elapsed * Capacity
    IN  IF sum > Full THEN Full ELSE sum

\* try_acquire_at succeeds: a whole token is there and is consumed.
Grant ==
    /\ Refilled >= Token
    /\ tokens' = Refilled - Token
    /\ elapsed' = 0
    /\ granted' = IF measuring THEN granted + 1 ELSE granted
    /\ UNCHANGED <<measuring, age>>

\* Mutant: `last` moves on and the refill since then is forgotten.
Deny_DropsRefill ==
    /\ Refilled < Token
    /\ elapsed' = 0
    /\ UNCHANGED <<tokens, interval>>

\* try_acquire_at fails; the refill so far is kept.
Deny ==
    /\ Refilled < Token
    /\ tokens' = Refilled
    /\ elapsed' = 0
    /\ UNCHANGED interval

\* A caller that does not block, or whose acquire succeeds at once.
Acquire == owner = "ready" /\ Grant /\ UNCHANGED owner
GiveUp  == owner = "ready" /\ Deny /\ UNCHANGED owner

\* acquire fails and sleeps for what is missing.
Sleep == owner = "ready" /\ Deny /\ owner' = "asleep"

\* The sleep for the missing part is over, perhaps a rounding error early.
SleepOver ==
    /\ owner = "asleep"
    /\ elapsed >= 1
    /\ tokens + elapsed * Capacity + Slack >= Token

Wake ==
    /\ SleepOver
    /\ \/ Grant /\ owner' = "ready"
       \/ Deny /\ UNCHANGED owner

Tick ==
    /\ elapsed' = IF elapsed = Window THEN Window ELSE elapsed + 1
    /\ measuring' = (measuring /\ age < MaxAge)
    /\ age' = IF measuring' THEN age + 1 ELSE 0
    /\ granted' = IF measuring' THEN granted ELSE 0
    /\ UNCHANGED <<tokens, owner>>

\* An observer starts counting grants.
Measure ==
    /\ ~measuring
    /\ measuring' = TRUE
    /\ UNCHANGED <<bucket, age, granted>>

RateNext == Acquire \/ GiveUp \/ Sleep \/ Wake \/ Tick \/ Measure

\* Time passes and a finished sleep wakes its task.
RateSpec == RateInit /\ [][RateNext]_limiter /\ WF_limiter(Tick) /\ WF_limiter(Wake)

----------------------------------------------------------------------------
\* Over any interval, whenever it starts and however calls fall in it, the
\* tokens granted are at most a full bucket plus what the interval refills.
RateBound == granted * Token <= Full + age * Capacity

\* The inductive form of RateBound: what was granted, what is left and what
\* is still to be refilled come from the initial burst and the interval.
Account ==
    /\ ~measuring => granted = 0
    /\ \/ granted = 0
       \/ granted * Token + tokens + elapsed * Capacity <= Full + age * Capacity

\* acquire() returns: its sleep is long enough, and then it gets the token.
AcquireReturns == owner = "asleep" ~> owner = "ready"
=============================================================================
