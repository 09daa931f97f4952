----------------------------- MODULE Supervisor -----------------------------
(***************************************************************************)
(* The supervision loop of one worker (supervisor.rs:31-78) and its        *)
(* exponential backoff (backoff.rs).  Durations are counted in ticks; the  *)
(* jitter is a free choice of at least half the delay.                     *)
(***************************************************************************)
EXTENDS Integers, FiniteSetsExt

CONSTANTS
  Base,         \* base delay (500 ms)
  MaxDelay,     \* largest delay (30 s)
  ShiftCap,     \* cap of the exponent (16)
  AttemptMax,   \* where attempt saturates (2^32 - 1)
  Healthy       \* HEALTHY_RUNTIME (60 s)

\* 1 << n: 2 to the power of n.
Shifted(n) ==
  LET bit[i \in 0..n] == IF i = 0 THEN 1 ELSE 2 * bit[i - 1] IN bit[n]

\* The exponent is capped where the delay has long reached its maximum.
ASSUME BackoffAssumption ==
  /\ {Base, MaxDelay, ShiftCap, AttemptMax, Healthy} \subseteq Nat \ {0}
  /\ Base <= MaxDelay /\ MaxDelay <= Base * Shifted(ShiftCap)
  /\ ShiftCap <= AttemptMax

VARIABLES
  phase,      \* the loop: worker running, waiting to restart, or ended
  attempt,    \* Backoff.attempt
  delay,      \* what is left of the sleep
  uptime,     \* how long the worker has run, counted up to Healthy
  cancelled,  \* the cancellation token
  slept,      \* history: what has passed of the sleep
  failures    \* history: short runs in a row before this sleep, counted as
              \* far as they make a difference

supervisor == <<phase, attempt, delay, uptime, cancelled, slept, failures>>

SupervisorInit ==
  /\ phase = "running" /\ cancelled = FALSE
  /\ attempt = 0 /\ delay = 0 /\ uptime = 0
  /\ slept = 0 /\ failures = -1

\* Mutant: the counter wraps around.
NextAttempt_Wraps(a) == (a + 1) % (AttemptMax + 1)

NextAttempt(a) == IF a = AttemptMax THEN a ELSE a + 1

RawDelay(a) == Min({MaxDelay, Base * Shifted(Min({a, ShiftCap}))})

\* The worker returned, failed or panicked: all three restart it.
Exited ==
  /\ phase = "running"
  /\ IF cancelled
       THEN phase' = "ended" /\ UNCHANGED <<attempt, delay, slept, failures>>
       ELSE LET n == IF uptime >= Healthy THEN 0 ELSE attempt
                k == IF uptime >= Healthy THEN 0 ELSE failures + 1
            IN /\ phase' = "waiting" /\ slept' = 0
               /\ attempt' = NextAttempt(n)
               /\ \E d \in 1..RawDelay(n) : 2 * d >= RawDelay(n) /\ delay' = d
               /\ failures' = IF k <= AttemptMax + 1 THEN k ELSE failures
  /\ UNCHANGED <<uptime, cancelled>>

\* Mutant: the loop gives up on a worker that keeps failing.
Restart_GivesUp ==
  /\ phase = "waiting" /\ delay = 0
  /\ phase' = IF cancelled \/ attempt = AttemptMax THEN "ended" ELSE "running"
  /\ uptime' = 0
  /\ UNCHANGED <<attempt, delay, cancelled, slept, failures>>

\* The sleep is over; `while` looks at the token again.
Restart ==
  /\ phase = "waiting" /\ delay = 0
  /\ phase' = IF cancelled THEN "ended" ELSE "running"
  /\ uptime' = 0
  /\ UNCHANGED <<attempt, delay, cancelled, slept, failures>>

WaitCancelled ==
  /\ phase = "waiting" /\ cancelled
  /\ phase' = "ended"
  /\ UNCHANGED <<attempt, delay, uptime, cancelled, slept, failures>>

Cancel ==
  /\ ~cancelled /\ cancelled' = TRUE
  /\ UNCHANGED <<phase, attempt, delay, uptime, slept, failures>>

Passes ==
  /\ phase = "waiting" => delay > 0
  /\ uptime' = IF phase = "running" /\ uptime < Healthy THEN uptime + 1 ELSE uptime
  /\ IF phase = "waiting" THEN delay' = delay - 1 /\ slept' = slept + 1
     ELSE UNCHANGED <<delay, slept>>
  /\ UNCHANGED <<phase, attempt, cancelled, failures>>

-----------------------------------------------------------------------------
SupervisorTypeOK ==
  /\ phase \in {"running", "waiting", "ended"} /\ cancelled \in BOOLEAN
  /\ attempt \in 0..AttemptMax /\ uptime \in 0..Healthy
  /\ delay \in 0..MaxDelay /\ slept \in 0..MaxDelay
  /\ failures \in -1..(AttemptMax + 1)

\* However often the worker fails, and through every saturation, the wait
\* before its next run is within half and the whole of base * 2^failures,
\* capped: failures far beyond the counter still wait the maximum, and one
\* healthy run starts over (backoff.rs:37-43, supervisor.rs:59-63).
BackoffHonest ==
  /\ SupervisorTypeOK
  /\ phase = "waiting" =>
       LET due == Min({MaxDelay, Base * Shifted(failures)})
       IN 2 * (slept + delay) >= due /\ slept + delay <= due
=============================================================================
