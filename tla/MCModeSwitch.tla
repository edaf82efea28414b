----------------------------- MODULE MCModeSwitch -----------------------------
(***************************************************************************)
(* ModeSwitch on small instances.  Two requests are enough for any race    *)
(* for actionMu; one tick stands for the 50 s, so that every step may or   *)
(* may not be in time.                                                     *)
(***************************************************************************)
EXTENDS ModeSwitch, TLC

OneOfEach   == {"start_shellcrash", "restart_leigod", "stop_all", "unsupported"}
OnlySwitch  == {"start_shellcrash"}

AnyOrder == Permutations(Requests)

===============================================================================
