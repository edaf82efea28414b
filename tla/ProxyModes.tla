------------------------------ MODULE ProxyModes ------------------------------
(***************************************************************************)
(* The vocabulary of router.go: the two proxy services that may never run  *)
(* together, the modes the mode file names, the actions a browser can ask  *)
(* for, and the test a switch has to pass before it is called successful.  *)
(***************************************************************************)

Services == {"shellcrash", "leigod"}

(* isKnownMode, and the four values readMode returns *)
KnownModes == Services \cup {"off"}
Readings   == KnownModes \cup {"unknown"}

-------------------------------------------------------------------------------
(***************************************************************************)
(* Processes, by the names currentStatus looks for: CrashCore is           *)
(* ShellCrash, the three acc-gw processes (-r daemon, -r web, -r acc) are  *)
(* LeiGod.                                                                 *)
(***************************************************************************)
Processes == {"CrashCore", "daemon", "web", "acc"}

ProcsOf(mode) == CASE mode = "shellcrash" -> {"CrashCore"}
                   [] mode = "leigod"     -> {"daemon", "web", "acc"}
                   [] OTHER               -> {}

Others(mode) == Processes \ ProcsOf(mode)

(* Healthy: the game process is not required, the daemon and web ones are *)
Needed(mode) == ProcsOf(mode) \ {"acc"}

(* What waitForTarget asks of the processes currentStatus saw *)
UpAndAlone(mode, seen) == Needed(mode) \subseteq seen /\ seen \cap Others(mode) = {}

-------------------------------------------------------------------------------
StartActions   == {"start_shellcrash", "start_leigod", "stop_all"}
RestartActions == {"restart_shellcrash", "restart_leigod"}
Supported      == StartActions \cup RestartActions

(* Any other string a request can carry, for which actionTarget gives an error *)
Actions == Supported \cup {"unsupported"}

ActionTarget(action) ==
  CASE action \in {"start_shellcrash", "restart_shellcrash"} -> "shellcrash"
    [] action \in {"start_leigod", "restart_leigod"}         -> "leigod"
    [] OTHER                                                 -> "off"

===============================================================================
