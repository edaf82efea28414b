----------------------------- MODULE ConsoleRestart -----------------------------
(***************************************************************************)
(* ModeSwitch in a console that dies and comes back.  main.go waits for a  *)
(* signal, closes the listener, gives the requests in progress five        *)
(* seconds and returns; procd starts it again.  Everything performAction   *)
(* keeps in memory is gone then, but not the mode command it had started:  *)
(* exec.CommandContext kills a command only from the goroutine that waits  *)
(* for it, so the command outlives the console and goes on alone.          *)
(***************************************************************************)
EXTENDS ModeSwitch

CONSTANT MaxDeaths   \* how often the console dies

ASSUME DeathsAssumption == MaxDeaths \in Nat

VARIABLES
  console,    \* up, closing (after the signal) or down
  deaths,     \* how often it has died
  left,       \* left[n]: the command that the n-th death left behind
  overlapped  \* history: a command was started while one left behind was at work

outside == <<console, deaths, left, overlapped>>
allVars == <<vars, outside>>

Deaths    == 1..MaxDeaths
NoCommand == [goal |-> "off", alive |-> FALSE, todo |-> {}]
Commands  == [goal : KnownModes, alive : BOOLEAN, todo : SUBSET {"stop", "record", "start"}]

ConsoleInit ==
  /\ Init
  /\ console = "up"
  /\ deaths = 0
  /\ left = [n \in Deaths |-> NoCommand]
  /\ overlapped = FALSE

-------------------------------------------------------------------------------
(***************************************************************************)
(* The handlers, as long as there is a console                             *)
(***************************************************************************)
Accepts == console = "up"      \* Shutdown closes the listener first

Accept(r) == Accepts /\ Arrive(r) /\ UNCHANGED outside

LeftAtWork == \E n \in Deaths : left[n].alive

Launch(r) ==
  /\ Exec(r)
  /\ overlapped' = (overlapped \/ (script'[r] = "run" /\ LeftAtWork))
  /\ UNCHANGED <<console, deaths, left>>

Proceed(r) ==
  /\ \/ CommandReturns(r) \/ Scan(r) \/ Check(r) \/ Retry(r) \/ GiveUp(r)
     \/ Status(r) \/ Respond(r) \/ LoseResponse(r)
  /\ UNCHANGED outside

Enter(r)   == Begin(r) /\ UNCHANGED outside
Command(r) == Script(r) /\ UNCHANGED outside

Surroundings ==
  /\ (\E p \in Processes : ProcessUp(p) \/ ProcessLost(p)) \/ Tick
  /\ UNCHANGED outside

-------------------------------------------------------------------------------
(***************************************************************************)
(* The life of the console                                                 *)
(***************************************************************************)
MayDie == deaths < MaxDeaths

Signal ==
  /\ console = "up" /\ MayDie
  /\ console' = "closing"
  /\ UNCHANGED <<vars, deaths, left, overlapped>>

(* The command of r, as it goes on without the console *)
Orphan(r) == [goal |-> Goal(r), alive |-> TRUE, todo |-> todo[r]]

(* The memory of App and of every goroutine is lost *)
Forgets ==
  /\ script' = [r \in Requests |-> "none"]
  /\ todo' = [r \in Requests |-> {}]
  /\ lock' = NoRequest
  /\ last' = NoReport
  /\ pc' = [r \in Requests |-> "idle"]
  /\ action' = [r \in Requests |-> "none"]
  /\ previous' = [r \in Requests |-> "unknown"]
  /\ phase' = [r \in Requests |-> "switch"]
  /\ looksUp' = [r \in Requests |-> FALSE]
  /\ outcome' = [r \in Requests |-> "none"]
  /\ told' = [r \in Requests |-> NoReport]
  /\ ctxLeft' = [r \in Requests |-> 0]
  /\ age' = [r \in Requests |-> 0]

(***************************************************************************)
(* Shutdown returned, or its five seconds are over, or the console was     *)
(* killed.                                                                 *)
(***************************************************************************)
Dies ==
  /\ MayDie
  /\ console' = "down"
  /\ deaths' = deaths + 1
  /\ \/ /\ \A r \in Requests : script[r] # "run"
        /\ UNCHANGED left
     \/ \E r \in Requests : /\ script[r] = "run"
                            /\ left' = [left EXCEPT ![deaths + 1] = Orphan(r)]
  /\ Forgets
  /\ UNCHANGED <<router, overlapped>>

Exit == console = "closing" /\ Dies
Kill == console = "up" /\ Dies

(* procd runs the launcher, and the launcher the console *)
Respawn ==
  /\ console = "down"
  /\ console' = "up"
  /\ UNCHANGED <<vars, deaths, left, overlapped>>

-------------------------------------------------------------------------------
(***************************************************************************)
(* The n-th command left behind: as a command of ModeSwitch, except that   *)
(* nobody waits for it and no context ends it                              *)
(***************************************************************************)
OnlyRouter == UNCHANGED <<command, lock, last, pc, locals, clocks, console, deaths, overlapped>>

LeftStops(n) ==
  /\ left[n].alive /\ "stop" \in left[n].todo
  /\ left' = [left EXCEPT ![n].todo = @ \ {"stop"}]
  /\ running' = running \ Others(left[n].goal)
  /\ starting' = starting \ Others(left[n].goal)
  /\ UNCHANGED modeFile /\ OnlyRouter

LeftRecords(n) ==
  /\ left[n].alive /\ "record" \in left[n].todo
  /\ left' = [left EXCEPT ![n].todo = @ \ {"record"}]
  /\ modeFile' = left[n].goal
  /\ UNCHANGED <<running, starting>> /\ OnlyRouter

LeftStarts(n) ==
  /\ left[n].alive /\ "start" \in left[n].todo /\ "stop" \notin left[n].todo
  /\ left' = [left EXCEPT ![n].todo = @ \ {"start"}]
  /\ starting' = starting \cup (ProcsOf(left[n].goal) \ running)
  /\ UNCHANGED <<modeFile, running>> /\ OnlyRouter

LeftEnds(n) ==
  /\ left[n].alive
  /\ left' = [left EXCEPT ![n] = NoCommand]
  /\ UNCHANGED router /\ OnlyRouter

-------------------------------------------------------------------------------
ConsoleNext ==
  \/ \E r \in Requests : Accept(r) \/ Enter(r) \/ Launch(r) \/ Proceed(r) \/ Command(r)
  \/ Surroundings
  \/ Signal \/ Exit \/ Kill \/ Respawn
  \/ \E n \in Deaths : LeftStops(n) \/ LeftRecords(n) \/ LeftStarts(n) \/ LeftEnds(n)

ConsoleSpec == ConsoleInit /\ [][ConsoleNext]_allVars

-------------------------------------------------------------------------------
(***************************************************************************)
(* Properties                                                              *)
(***************************************************************************)
(* Also a command left behind was given a mode that router-proxy-mode knows. *)
ConsoleTypeOK ==
  /\ Typed
  /\ console \in {"up", "closing", "down"}
  /\ deaths \in 0..MaxDeaths
  /\ left \in [Deaths -> Commands]
  /\ overlapped \in BOOLEAN

(* Mutual exclusion (README, Features) survives the console: whenever it   *)
(* dies and whatever its command does after that, processes of the two     *)
(* services are not up together, nor does a verdict become false, unless   *)
(* an action was started before a command left behind had ended.           *)
ExclusiveAcrossDeaths == overlapped \/ (Exclusive /\ OutcomeHolds)

(* The serial, verified actions README promises, as far as they survive    *)
(* the console: after a death the mode file only ever takes a mode that    *)
(* the interrupted or a later request may bring about, and no request      *)
(* reports a mode that is not in force, even next to a command left behind *)
Strays == {left[n].goal : n \in {d \in Deaths : left[d].alive}}

Interrupted == INSTANCE InterruptedActions WITH
  mode <- modeFile, stage <- Stages, wish <- action, found <- previous, strays <- Strays

ImplementsInterrupted == Interrupted!InterruptedSpec

-------------------------------------------------------------------------------
(***************************************************************************)
(* Why they hold: the inductive invariant                                  *)
(***************************************************************************)
SlotInv == \A n \in Deaths : n > deaths => ~left[n].alive

(* r has not come to a command of its own *)
Quiet(r) ==
  /\ script[r] = "none"
  /\ pc[r] \notin {"wait", "scan", "check", "select"}
  /\ pc[r] = "status" => outcome[r] \notin {"switched", "restored"}

(* A command left behind is the only one, and keeps what it has stopped down *)
LeftInv == \A n \in Deaths : left[n].alive =>
  /\ "stop" \notin left[n].todo => Present \cap Others(left[n].goal) = {}
  /\ \A m \in Deaths \ {n} : ~left[m].alive
  /\ \A r \in Requests : Quiet(r)

ConsoleInv ==
  /\ ConsoleTypeOK /\ HandlerInv /\ SlotInv
  /\ overlapped \/ (RouterInv /\ LeftInv)

===============================================================================
