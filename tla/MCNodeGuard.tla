------------------------------ MODULE MCNodeGuard ------------------------------
(***************************************************************************)
(* NodeGuard on a small instance.  One request updates, runs or is refused *)
(* while the other updates, runs or probes; a third finds the mutex in no  *)
(* other state than these two leave it in.  Liveness is checked, so the    *)
(* requests are not declared interchangeable.                              *)
(***************************************************************************)
EXTENDS NodeGuard

===============================================================================
