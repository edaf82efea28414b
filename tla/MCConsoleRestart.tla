---------------------------- MODULE MCConsoleRestart ----------------------------
(***************************************************************************)
(* ConsoleRestart on a small instance.  A restart runs all three kinds of  *)
(* command: for off, for its own service and, to roll back, for the other. *)
(***************************************************************************)
EXTENDS ConsoleRestart, TLC

OneRestart == {"restart_leigod"}

AnyOrder == Permutations(Requests)

===============================================================================
