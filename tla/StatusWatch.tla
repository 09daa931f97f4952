----------------------------- MODULE StatusWatch -----------------------------
(***************************************************************************)
(* What the lifecycle worker and the audio worker share, both created in   *)
(* src/src/main.rs: the watch on which the stream's status is published,   *)
(* of which a receiver sees the latest value only, and the token that ends *)
(* the program.                                                            *)
(***************************************************************************)

VARIABLES
    status,   \* the watch's latest value
    shutdown  \* the token is cancelled

Statuses == {"online", "offline"}
StatusOf(isLive) == IF isLive THEN "online" ELSE "offline"
=============================================================================
