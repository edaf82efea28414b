------------------------------- MODULE MCMetrics -------------------------------
(***************************************************************************)
(* Metrics on small instances.  Ticks are so coarse that the 0.25 s are    *)
(* two, the period of two seconds three, and the 30 s six of them.         *)
(***************************************************************************)
EXTENDS Metrics

===============================================================================
