-------------------------- MODULE MC_CostGovernor --------------------------
(* A small instance of CostGovernor: two of the workers that share it.  Two *)
(* grains make a micro-dollar, so the bill of one grain truncates to        *)
(* nothing and that of five to two.                                         *)
EXTENDS CostGovernor

CONSTANTS aggregate, stt

MCWorkers == {aggregate, stt}
MCBills   == {0, 1, 5}
=============================================================================
