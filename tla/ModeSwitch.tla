------------------------------ MODULE ModeSwitch ------------------------------
(***************************************************************************)
(* performAction of router.go with what it calls: the requests that queue  *)
(* on actionMu, the mode command each of them runs, the verification loop, *)
(* the automatic rollback and the reply that the HTTP server may or may    *)
(* not still be allowed to write.                                          *)
(*                                                                         *)
(* The mode command (router-proxy-mode) is not part of the repository.  Of *)
(* it we assume only what README calls a mutual-exclusion switch: before   *)
(* it starts a service it takes the processes of the others down, and it   *)
(* exits with status 0 only after that.  It may fail, hang, or skip the    *)
(* rest of its work at any point.                                          *)
(***************************************************************************)
EXTENDS Naturals, ProxyModes

CONSTANTS
  Requests,      \* requests to /api/action that may be in flight together
  NoRequest,     \* nobody holds actionMu
  Asked,         \* the actions browsers ask for
  AutoRollback,  \* auto_rollback of the configuration
  CtxTimeout,    \* the 50 s of the two contexts, in ticks
  WriteTimeout   \* the 50 s of the server's WriteTimeout, in ticks

ASSUME ConstantsAssumption ==
  /\ NoRequest \notin Requests
  /\ Asked \subseteq Actions
  /\ AutoRollback \in BOOLEAN
  /\ CtxTimeout \in Nat
  /\ WriteTimeout \in Nat

VARIABLES
  modeFile,  \* what readMode finds in the mode file
  running,   \* the proxy processes /proc shows
  starting,  \* processes the mode command launched and that are not up yet
  script,    \* script[r]: the mode command r runs: none, run, ok or error
  todo,      \* todo[r]: what that command still means to do
  lock,      \* the request that holds actionMu
  last,      \* App.last: the last action and whether it was successful
  pc,        \* pc[r]: where the goroutine of r is
  action,    \* action[r]: what r asks for
  previous,  \* previous[r]: the mode it found
  phase,     \* phase[r]: which command it is at: stop, switch or rollback
  looksUp,   \* looksUp[r]: what its last scan of /proc said of the goal
  outcome,   \* outcome[r]: how performAction ended, none before
  told,      \* told[r]: last_action of the status inside its reply
  ctxLeft,   \* ctxLeft[r]: ticks until its context expires
  age        \* age[r]: ticks since its header was read, up to WriteTimeout

router  == <<modeFile, running, starting>>
command == <<script, todo>>
locals  == <<action, previous, phase, looksUp, outcome, told>>
clocks  == <<ctxLeft, age>>
vars == <<router, command, lock, last, pc, locals, clocks>>

PcValues == {"idle", "lock", "exec", "wait", "scan", "check", "select", "status", "write"}
Holding  == PcValues \ {"idle", "lock", "write"}
Outcomes == {"none", "rejected", "failed", "restored", "switched"}
NoReport == [action |-> "none", ok |-> FALSE]
Report(a, o) == [action |-> a, ok |-> (o = "switched")]

Target(r) == ActionTarget(action[r])

(* The mode that the current command of r is meant to bring about *)
Goal(r) == CASE phase[r] = "stop"     -> "off"
             [] phase[r] = "rollback" -> previous[r]
             [] OTHER                 -> Target(r)

(***************************************************************************)
(* The router as a service start may find it: any mode file, and no proxy  *)
(* or one of them.                                                         *)
(***************************************************************************)
Init ==
  /\ modeFile \in Readings
  /\ running \in {ProcsOf(m) : m \in KnownModes}
  /\ starting = {}
  /\ script = [r \in Requests |-> "none"]
  /\ todo = [r \in Requests |-> {}]
  /\ lock = NoRequest
  /\ last = NoReport
  /\ pc = [r \in Requests |-> "idle"]
  /\ action = [r \in Requests |-> "none"]
  /\ previous = [r \in Requests |-> "unknown"]
  /\ phase = [r \in Requests |-> "switch"]
  /\ looksUp = [r \in Requests |-> FALSE]
  /\ outcome = [r \in Requests |-> "none"]
  /\ told = [r \in Requests |-> NoReport]
  /\ ctxLeft = [r \in Requests |-> 0]
  /\ age = [r \in Requests |-> 0]

-------------------------------------------------------------------------------
(***************************************************************************)
(* The handler                                                             *)
(***************************************************************************)
Goto(r, label) == pc' = [pc EXCEPT ![r] = label]

Arrive(r) ==
  /\ pc[r] = "idle"
  /\ \E a \in Asked : action' = [action EXCEPT ![r] = a]
  /\ Goto(r, "lock")
  /\ UNCHANGED <<router, command, lock, last, previous, phase, looksUp, outcome, told, clocks>>

(***************************************************************************)
(* actionMu is acquired, the mode in force is read, the action looked up.  *)
(* An unsupported action is answered without touching last; any other gets *)
(* a fresh context, and a restart of the mode in force stops it first.     *)
(***************************************************************************)
EntersAtOnce == TRUE   \* mutant: no mutex

MutexFree == lock = NoRequest

Begin(r) ==
  /\ pc[r] = "lock"
  /\ MutexFree
  /\ lock' = r
  /\ previous' = [previous EXCEPT ![r] = modeFile]
  /\ IF action[r] \in Supported
     THEN /\ Goto(r, "exec")
          /\ ctxLeft' = [ctxLeft EXCEPT ![r] = CtxTimeout]
          /\ phase' = [phase EXCEPT ![r] =
               IF action[r] \in RestartActions /\ modeFile = Target(r) THEN "stop" ELSE "switch"]
          /\ UNCHANGED outcome
     ELSE /\ Goto(r, "status")
          /\ outcome' = [outcome EXCEPT ![r] = "rejected"]
          /\ UNCHANGED <<ctxLeft, phase>>
  /\ UNCHANGED <<router, command, last, action, looksUp, told, age>>

(***************************************************************************)
(* How performAction ends: last is set while actionMu is still held.       *)
(***************************************************************************)
ConcludeForgetful(r, o) ==   \* mutant: failures are not recorded
  /\ outcome' = [outcome EXCEPT ![r] = o]
  /\ last' = IF o = "switched" THEN Report(action[r], o) ELSE last
  /\ Goto(r, "status")

Conclude(r, o) ==
  /\ outcome' = [outcome EXCEPT ![r] = o]
  /\ last' = Report(action[r], o)
  /\ Goto(r, "status")

(* Lines 247-267: only a failed switch is rolled back, and only to a known other mode *)
RollsBackToSame(r) ==    \* mutant: the mode found may be the target
  phase[r] = "switch" /\ AutoRollback /\ previous[r] \in KnownModes

RollsBackAgain(r) ==     \* mutant: a failed rollback is rolled back too
  AutoRollback /\ previous[r] # Target(r) /\ previous[r] \in KnownModes

RollsBackToUnknown(r) == \* mutant: what the mode file says is taken as it is
  phase[r] = "switch" /\ AutoRollback /\ previous[r] # Target(r)

MayRollBack(r) ==
  /\ phase[r] = "switch"
  /\ AutoRollback
  /\ previous[r] # Target(r)
  /\ previous[r] \in KnownModes

(* A command or a verification of r returned an error *)
Fail(r) ==
  \/ /\ MayRollBack(r)
     /\ phase' = [phase EXCEPT ![r] = "rollback"]
     /\ ctxLeft' = [ctxLeft EXCEPT ![r] = CtxTimeout]
     /\ Goto(r, "exec")
     /\ UNCHANGED <<outcome, last>>
  \/ /\ ~MayRollBack(r)
     /\ Conclude(r, "failed")
     /\ UNCHANGED <<phase, ctxLeft>>

(* runModeCommand: exec.CommandContext starts nothing once the context is done *)
Exec(r) ==
  /\ pc[r] = "exec"
  /\ IF ctxLeft[r] = 0
     THEN Fail(r) /\ UNCHANGED command
     ELSE /\ script' = [script EXCEPT ![r] = "run"]
          /\ todo' = [todo EXCEPT ![r] = {"stop", "record", "start"}]
          /\ Goto(r, "wait")
          /\ UNCHANGED <<phase, outcome, last, ctxLeft>>
  /\ UNCHANGED <<router, lock, action, previous, looksUp, told, age>>

(***************************************************************************)
(* CombinedOutput returned.  An expired context makes the command an error *)
(* even if it exited with 0.  After the stop of a restart (and the one     *)
(* second of sleep) comes the switch; otherwise the verification.          *)
(***************************************************************************)
Succeeded(r) == script[r] = "ok" /\ ctxLeft[r] > 0

CommandReturns(r) ==
  /\ pc[r] = "wait"
  /\ script[r] \in {"ok", "error"}
  /\ script' = [script EXCEPT ![r] = "none"]
  /\ todo' = [todo EXCEPT ![r] = {}]
  /\ IF Succeeded(r)
     THEN /\ IF phase[r] = "stop"
             THEN Goto(r, "exec") /\ phase' = [phase EXCEPT ![r] = "switch"]
             ELSE Goto(r, "scan") /\ UNCHANGED phase
          /\ UNCHANGED <<outcome, last, ctxLeft>>
     ELSE Fail(r)
  /\ UNCHANGED <<router, lock, action, previous, looksUp, told, age>>

(* waitForTarget, first half of currentStatus: the processes *)
Scan(r) ==
  /\ pc[r] = "scan"
  /\ looksUp' = [looksUp EXCEPT ![r] = UpAndAlone(Goal(r), running)]
  /\ Goto(r, "check")
  /\ UNCHANGED <<router, command, lock, last, action, previous, phase, outcome, told, clocks>>

(* second half: the mode file, read after the processes, and the verdict; *)
(* the status it was made from goes out of scope                          *)
VerifiedByProcesses(r) == looksUp[r]   \* mutant: the mode file is not compared

Verified(r) == looksUp[r] /\ modeFile = Goal(r)

Check(r) ==
  /\ pc[r] = "check"
  /\ IF Verified(r)
     THEN Conclude(r, IF phase[r] = "rollback" THEN "restored" ELSE "switched")
     ELSE Goto(r, "select") /\ UNCHANGED <<outcome, last>>
  /\ looksUp' = [looksUp EXCEPT ![r] = FALSE]
  /\ UNCHANGED <<router, command, lock, action, previous, phase, told, clocks>>

(* The two cases of the select: the ticker, and ctx.Done *)
Retry(r) ==
  /\ pc[r] = "select"
  /\ Goto(r, "scan")
  /\ UNCHANGED <<router, command, lock, last, locals, clocks>>

GiveUp(r) ==
  /\ pc[r] = "select"
  /\ ctxLeft[r] = 0
  /\ Fail(r)
  /\ UNCHANGED <<router, command, lock, action, previous, looksUp, told, age>>

(* The status of the reply is taken under actionMu; then the deferred cancel *)
(* and unlock run and the locals of performAction are gone                   *)
Status(r) ==
  /\ pc[r] = "status"
  /\ told' = [told EXCEPT ![r] = last]
  /\ lock' = NoRequest
  /\ ctxLeft' = [ctxLeft EXCEPT ![r] = 0]
  /\ Goto(r, "write")
  /\ previous' = [previous EXCEPT ![r] = "unknown"]
  /\ phase' = [phase EXCEPT ![r] = "switch"]
  /\ UNCHANGED <<router, command, last, action, looksUp, outcome, age>>

(***************************************************************************)
(* handleAction writes the result.  The connection's write deadline was    *)
(* set when the header was read: past it nothing reaches the browser.      *)
(***************************************************************************)
Forget(r) ==
  /\ Goto(r, "idle")
  /\ action' = [action EXCEPT ![r] = "none"]
  /\ outcome' = [outcome EXCEPT ![r] = "none"]
  /\ told' = [told EXCEPT ![r] = NoReport]
  /\ age' = [age EXCEPT ![r] = 0]
  /\ UNCHANGED <<router, command, lock, last, previous, phase, looksUp, ctxLeft>>

Respond(r)      == pc[r] = "write" /\ age[r] < WriteTimeout /\ Forget(r)
LoseResponse(r) == pc[r] = "write" /\ age[r] = WriteTimeout /\ Forget(r)

-------------------------------------------------------------------------------
(***************************************************************************)
(* The mode command of r and the processes it controls                     *)
(***************************************************************************)
OnRouter == UNCHANGED <<lock, last, pc, locals, clocks>>

ScriptStops(r) ==
  /\ script[r] = "run" /\ "stop" \in todo[r]
  /\ todo' = [todo EXCEPT ![r] = @ \ {"stop"}]
  /\ running' = running \ Others(Goal(r))
  /\ starting' = starting \ Others(Goal(r))
  /\ UNCHANGED <<modeFile, script>> /\ OnRouter

ScriptRecords(r) ==
  /\ script[r] = "run" /\ "record" \in todo[r]
  /\ todo' = [todo EXCEPT ![r] = @ \ {"record"}]
  /\ modeFile' = Goal(r)
  /\ UNCHANGED <<running, starting, script>> /\ OnRouter

ScriptStarts(r) ==
  /\ script[r] = "run" /\ "start" \in todo[r] /\ "stop" \notin todo[r]
  /\ todo' = [todo EXCEPT ![r] = @ \ {"start"}]
  /\ starting' = starting \cup (ProcsOf(Goal(r)) \ running)
  /\ UNCHANGED <<modeFile, running, script>> /\ OnRouter

ScriptEnds(r, result) ==
  /\ script[r] = "run"
  /\ result = "ok" => "stop" \notin todo[r]
  /\ script' = [script EXCEPT ![r] = result]
  /\ UNCHANGED <<router, todo>> /\ OnRouter

(* exec.CommandContext kills the command when the context is done *)
ScriptIsKilled(r) ==
  /\ script[r] = "run" /\ ctxLeft[r] = 0
  /\ script' = [script EXCEPT ![r] = "error"]
  /\ UNCHANGED <<router, todo>> /\ OnRouter

ProcessUp(p) ==
  /\ p \in starting
  /\ starting' = starting \ {p}
  /\ running' = running \cup {p}
  /\ UNCHANGED <<modeFile, command>> /\ OnRouter

ProcessLost(p) ==
  /\ p \in running \cup starting
  /\ running' = running \ {p}
  /\ starting' = starting \ {p}
  /\ UNCHANGED <<modeFile, command>> /\ OnRouter

(***************************************************************************)
(* One tick of the clock.  A context runs only inside performAction, the   *)
(* write deadline from the moment the request is read.                     *)
(***************************************************************************)
Aging(r) == pc[r] # "idle" /\ age[r] < WriteTimeout

Tick ==
  /\ \E r \in Requests : Aging(r) \/ ctxLeft[r] > 0
  /\ age' = [r \in Requests |-> IF Aging(r) THEN age[r] + 1 ELSE age[r]]
  /\ ctxLeft' = [r \in Requests |-> IF ctxLeft[r] > 0 THEN ctxLeft[r] - 1 ELSE 0]
  /\ UNCHANGED <<router, command, lock, last, pc, locals>>

-------------------------------------------------------------------------------
Handler(r) ==
  \/ Arrive(r)
  \/ Begin(r)
  \/ Exec(r)
  \/ CommandReturns(r)
  \/ Scan(r)
  \/ Check(r)
  \/ Retry(r)
  \/ GiveUp(r)
  \/ Status(r)
  \/ Respond(r)
  \/ LoseResponse(r)

Script(r) ==
  \/ ScriptStops(r)
  \/ ScriptRecords(r)
  \/ ScriptStarts(r)
  \/ \E result \in {"ok", "error"} : ScriptEnds(r, result)
  \/ ScriptIsKilled(r)

Next ==
  \/ \E r \in Requests : Handler(r) \/ Script(r)
  \/ \E p \in Processes : ProcessUp(p) \/ ProcessLost(p)
  \/ Tick

Spec == Init /\ [][Next]_vars

(***************************************************************************)
(* The Go runtime runs every goroutine that can run, and the clock goes    *)
(* on.  sync.Mutex hands over to a waiter that has starved, and select     *)
(* picks at random among its ready cases: strong fairness for both.  Of    *)
(* the command only the kill is assumed to be effective.                   *)
(***************************************************************************)
Steps(r) == Exec(r) \/ CommandReturns(r) \/ Scan(r) \/ Check(r) \/ Retry(r) \/ GiveUp(r)
              \/ Status(r) \/ Respond(r) \/ LoseResponse(r)

Fairness ==
  /\ WF_vars(Tick)
  /\ \A r \in Requests :
       /\ WF_vars(Steps(r))
       /\ WF_vars(ScriptIsKilled(r))
       /\ SF_vars(Begin(r))
       /\ SF_vars(GiveUp(r))

FairSpec == Spec /\ Fairness

-------------------------------------------------------------------------------
(***************************************************************************)
(* Properties                                                              *)
(***************************************************************************)
(* The variables by themselves *)
Typed ==
  /\ modeFile \in Readings
  /\ running \in SUBSET Processes
  /\ starting \in SUBSET Processes
  /\ script \in [Requests -> {"none", "run", "ok", "error"}]
  /\ todo \in [Requests -> SUBSET {"stop", "record", "start"}]
  /\ lock \in Requests \cup {NoRequest}
  /\ last \in [action : Actions \cup {"none"}, ok : BOOLEAN]
  /\ pc \in [Requests -> PcValues]
  /\ action \in [Requests -> Actions \cup {"none"}]
  /\ previous \in [Requests -> Readings]
  /\ phase \in [Requests -> {"stop", "switch", "rollback"}]
  /\ looksUp \in [Requests -> BOOLEAN]
  /\ outcome \in [Requests -> Outcomes]
  /\ told \in [Requests -> [action : Actions \cup {"none"}, ok : BOOLEAN]]
  /\ ctxLeft \in [Requests -> 0..CtxTimeout]
  /\ age \in [Requests -> 0..WriteTimeout]

(* What runModeCommand passes on is a mode router-proxy-mode knows, also   *)
(* when what is rolled back to was read from a file that may say anything. *)
TypeOK == Typed /\ \A r \in Requests : script[r] = "run" => Goal(r) \in KnownModes

(* Forced mutual exclusion (README, Features): whatever requests, failing  *)
(* commands, kills and rollbacks come together, processes of both services *)
(* are never up or on their way up at the same time.                       *)
Present == running \cup starting

Exclusive ==
  ~ (Present \cap ProcsOf("shellcrash") # {} /\ Present \cap ProcsOf("leigod") # {})

(* A verdict is still true when actionMu is about to be released: a        *)
(* request that reports success leaves its target in the mode file and no  *)
(* process of the other service, although the file was read after the      *)
(* processes; a rollback that reports success leaves the mode found.       *)
OutcomeHolds ==
  \A r \in Requests :
    pc[r] = "status" /\ outcome[r] \in {"switched", "restored"} =>
      LET m == IF outcome[r] = "switched" THEN Target(r) ELSE previous[r]
      IN  modeFile = m /\ Present \cap Others(m) = {}

(* The last_action inside a reply is the action the reply is about, with   *)
(* the same success, however many requests were queued behind it.          *)
ReplyMatchesLast ==
  \A r \in Requests :
    pc[r] = "write" /\ outcome[r] # "rejected" => told[r] = Report(action[r], outcome[r])

(* The handler implements the serial, verified actions README promises:    *)
(* queued on actionMu, active inside performAction, done once it returned. *)
Stage(label) == CASE label = "idle"  -> "idle"
                  [] label = "lock"  -> "queued"
                  [] label = "write" -> "done"
                  [] OTHER           -> "active"

Stages == [r \in Requests |-> Stage(pc[r])]

Serial == INSTANCE SerialActions WITH
  mode <- modeFile, stage <- Stages, wish <- action, found <- previous

ImplementsSerial == Serial!Spec

(* Every action is answered or dropped: no request waits for ever, be it   *)
(* for actionMu, for a command that hangs or for a target that stays down. *)
EveryRequestAnswered == \A r \in Requests : pc[r] = "lock" ~> pc[r] = "idle"

(* README, Failures: a target not healthy within 50 seconds shows an error. *)
(* Here: when the verification of a switch gives up, and the request is    *)
(* about to end with its message, that message can still be sent.  If not, *)
(* the page shows the error of a connection that was cut, and not that the *)
(* target was not healthy or the rollback failed.                          *)
VerdictReachesBrowser ==
  [][\A r \in Requests :
       GiveUp(r) /\ outcome'[r] = "failed" => age[r] < WriteTimeout]_vars

-------------------------------------------------------------------------------
(***************************************************************************)
(* Why the safety properties hold: the inductive invariant                 *)
(***************************************************************************)
Alone(r) == Present \cap Others(Goal(r)) = {}

(* Whoever is inside performAction holds actionMu, and nobody else does *)
LockInv == \A r \in Requests : pc[r] \in Holding <=> lock = r

(* A command is at work only while its handler waits for it *)
CommandInv == \A r \in Requests :
  /\ script[r] # "none" => pc[r] = "wait"
  /\ script[r] = "ok" => "stop" \notin todo[r]

(* What the locals of performAction say about each other *)
LocalsInv == \A r \in Requests :
  /\ pc[r] \in {"idle", "lock"} => outcome[r] = "none"
  /\ pc[r] \in {"idle", "lock", "write"} => phase[r] = "switch"
  /\ pc[r] \in Holding \ {"status"} => outcome[r] = "none" /\ action[r] \in Supported
  /\ pc[r] \in {"status", "write"} => outcome[r] # "none"
  /\ phase[r] = "stop" => action[r] \in RestartActions /\ previous[r] = Target(r)
  /\ pc[r] \in {"scan", "check", "select"} => phase[r] # "stop"
  /\ phase[r] = "rollback" => /\ AutoRollback
                              /\ previous[r] \in KnownModes \ {Target(r)}
  /\ pc[r] = "status" /\ outcome[r] # "rejected" => last = Report(action[r], outcome[r])
  /\ pc[r] = "status" /\ outcome[r] = "restored" => phase[r] = "rollback"

(* The console's own side *)
HandlerInv == Typed /\ LockInv /\ CommandInv /\ LocalsInv /\ ReplyMatchesLast

(* From the moment a command has stopped the other service until the       *)
(* handler of that command goes on to another one, it stays stopped        *)
AloneInv == \A r \in Requests :
  /\ script[r] \in {"run", "ok"} /\ "stop" \notin todo[r] => Alone(r)
  /\ pc[r] \in {"scan", "check", "select"} => Alone(r)

RouterInv == AloneInv /\ Exclusive /\ OutcomeHolds

IndInv == HandlerInv /\ RouterInv

===============================================================================
