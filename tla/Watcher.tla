------------------------------ MODULE Watcher -------------------------------
(***************************************************************************)
(* The supervised lifecycle worker and the Helix client it makes for every *)
(* run (twitch/lifecycle.rs:35): the client's requests hold up the worker, *)
(* a panic takes the client with its token along, and time passes for      *)
(* both.  Between two requests the worker sleeps; its other states are in  *)
(* Lifecycle.                                                              *)
(***************************************************************************)
EXTENDS Supervisor, Helix

vars == <<supervisor, helix>>

Init == SupervisorInit /\ HelixInit

Request ==
  /\ phase = "running"
  /\ (\E o \in {"stream", "users"} : Call(o)) \/ Issue \/ Receive \/ Answer \/ Fails
  /\ UNCHANGED supervisor

Withdraw == Revoke /\ UNCHANGED supervisor

\* A panic, at any point of a request or between two, or the return of a
\* worker that has seen the token between two.  The client goes with it.
Exits == Exited /\ NewClient

Loop == (Restart \/ WaitCancelled \/ Cancel) /\ UNCHANGED helix

Tick == Passes /\ Ages

Next == Request \/ Withdraw \/ Exits \/ Loop \/ Tick

(***************************************************************************)
(* Requests end within their timeout (main.rs:33), the sleeping worker     *)
(* races the token against its timer, and time passes.                     *)
(***************************************************************************)
Fairness ==
  /\ WF_vars(phase = "running" /\ (Issue \/ Receive \/ Answer \/ Fails) /\ UNCHANGED supervisor)
  /\ SF_vars(cancelled /\ call = "idle" /\ Exits) /\ WF_vars(Restart /\ UNCHANGED helix)
  /\ WF_vars(WaitCancelled /\ UNCHANGED helix) /\ WF_vars(Tick)

Spec == Init /\ [][Next]_vars /\ Fairness

-----------------------------------------------------------------------------
\* A worker that has failed runs again, however often it has failed, unless
\* the program is stopping; a stopping program ends the loop whatever it and
\* the worker are in the middle of (supervisor.rs:41, 47-58, 69-72).
LoopGoesOnUntilCancelled ==
  /\ phase = "waiting" ~> phase = "running" \/ cancelled
  /\ cancelled ~> phase = "ended"
=============================================================================
