------------------------------ MODULE MCWebClient ------------------------------
(***************************************************************************)
(* WebClient on a small instance.                                          *)
(***************************************************************************)
EXTENDS WebClient

CONSTANTS q1, q2, s1, s2, on, off

===============================================================================
