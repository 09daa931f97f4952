------------------------------ MODULE MC_Drain ------------------------------
(* A small instance of Drain: one other worker, and the order of main.rs.   *)
EXTENDS Drain

MCHandles == <<"lifecycle", "aggregate", "output">>
=============================================================================
