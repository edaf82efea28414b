-------------------------------- MODULE MCReports --------------------------------
(***************************************************************************)
(* Reports on a small instance: two goroutines, one device that comes and  *)
(* goes, one tick for the second a list is kept and two for ipset.         *)
(***************************************************************************)
EXTENDS Reports

===============================================================================
