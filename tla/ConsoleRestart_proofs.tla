------------------------- MODULE ConsoleRestart_proofs -------------------------
(***************************************************************************)
(* Theorems about ConsoleRestart, for any number of requests and deaths,   *)
(* from the two halves of the invariant of ModeSwitch.                     *)
(***************************************************************************)
EXTENDS ConsoleRestart, ModeSwitch_proofs

USE ConstantsAssumption, DeathsAssumption

-------------------------------------------------------------------------------
(* A step that the console of ModeSwitch takes too *)
OfModeSwitch ==
  \/ \E r \in Requests : Accept(r) \/ Enter(r) \/ Launch(r) \/ Proceed(r) \/ Command(r)
  \/ Surroundings

LEMMA OfModeSwitchIsNext == OfModeSwitch => Next /\ UNCHANGED <<console, deaths, left>>
BY DEF OfModeSwitch, Accept, Enter, Launch, Proceed, Command, Surroundings, Next, Handler, outside

(* With the memory gone, the console's side of the invariant is as at the start *)
LEMMA ForgetsHandler ==
  ASSUME HandlerInv, Forgets, UNCHANGED router
  PROVE  HandlerInv'
<1>1. Typed'
  BY DEF Forgets, HandlerInv, Typed, NoReport, PcValues, Outcomes, Readings, router
<1>2. (LockInv /\ CommandInv /\ LocalsInv /\ ReplyMatchesLast)'
  BY DEF Forgets, LockInv, CommandInv, LocalsInv, ReplyMatchesLast, Holding
<1> QED BY <1>1, <1>2 DEF HandlerInv

-------------------------------------------------------------------------------
(***************************************************************************)
(* Type correctness, and the half that survives anything                   *)
(***************************************************************************)
Always == ConsoleTypeOK /\ HandlerInv /\ SlotInv

LEMMA OrphanType ==
  ASSUME HandlerInv, NEW r \in Requests
  PROVE  Orphan(r) \in Commands
<1>1. Goal(r) \in KnownModes
  BY GoalIsKnown DEF HandlerInv
<1> QED BY <1>1 DEF Orphan, Commands, HandlerInv, Typed

LEMMA DiesAlways == Always /\ Dies => Always'
<1> SUFFICES ASSUME Always, Dies PROVE Always'
  OBVIOUS
<1> USE DEF Always, ConsoleTypeOK
<1>1. HandlerInv'
  BY ForgetsHandler DEF Dies
<1>2. /\ deaths' \in 0..MaxDeaths
      /\ console' \in {"up", "closing", "down"} /\ overlapped' \in BOOLEAN
  BY DEF Dies, MayDie
<1>3. left' \in [Deaths -> Commands] /\ SlotInv'
  <2>1. CASE UNCHANGED left
    BY <2>1 DEF Dies, SlotInv, Deaths
  <2>2. CASE \E r \in Requests : left' = [left EXCEPT ![deaths + 1] = Orphan(r)]
    <3>1. PICK r \in Requests : left' = [left EXCEPT ![deaths + 1] = Orphan(r)]
      BY <2>2
    <3>2. Orphan(r) \in Commands
      BY OrphanType
    <3>3. ASSUME NEW n \in Deaths, n > deaths' PROVE ~left'[n].alive
      BY <3>1, <3>3 DEF Dies, SlotInv, Deaths
    <3> QED BY <3>1, <3>2, <3>3 DEF SlotInv
  <2> QED BY <2>1, <2>2 DEF Dies
<1> QED BY <1>1, <1>2, <1>3 DEF HandlerInv

LEMMA DeadCommand == NoCommand \in Commands /\ NoCommand.alive = FALSE
BY DEF NoCommand, Commands, KnownModes

(* What becomes of a command left behind: it does a part of its work, or ends *)
LEMMA LeftMoves ==
  ASSUME ConsoleTypeOK, NEW n \in Deaths,
         LeftStops(n) \/ LeftRecords(n) \/ LeftStarts(n) \/ LeftEnds(n)
  PROVE  \E c \in Commands : /\ left' = [left EXCEPT ![n] = c]
                             /\ c.alive => left[n].alive /\ c.goal = left[n].goal
<1> USE DEF ConsoleTypeOK, Commands
<1>1. ASSUME NEW part \in {"stop", "record", "start"},
             left' = [left EXCEPT ![n].todo = @ \ {part}]
      PROVE  \E c \in Commands : /\ left' = [left EXCEPT ![n] = c]
                                 /\ c.alive => left[n].alive /\ c.goal = left[n].goal
  <2> DEFINE c == [left[n] EXCEPT !.todo = @ \ {part}]
  <2>1. c \in Commands /\ c.alive = left[n].alive /\ c.goal = left[n].goal
    OBVIOUS
  <2>2. left' = [left EXCEPT ![n] = c]
    BY <1>1
  <2> QED BY <2>1, <2>2
<1>2. CASE LeftEnds(n)
  BY <1>2, DeadCommand DEF LeftEnds
<1> QED BY <1>1, <1>2 DEF LeftStops, LeftRecords, LeftStarts

LEMMA LeftAlways ==
  ASSUME Always, NEW n \in Deaths, LeftStops(n) \/ LeftRecords(n) \/ LeftStarts(n) \/ LeftEnds(n)
  PROVE  Always'
<1> USE DEF Always, ConsoleTypeOK, OnlyRouter
<1>1. PICK c \in Commands : left' = [left EXCEPT ![n] = c] /\ (c.alive => left[n].alive)
  BY LeftMoves
<1>2. left' \in [Deaths -> Commands] /\ \A m \in Deaths : left'[m].alive => left[m].alive
  BY <1>1
<1>3. modeFile' \in Readings /\ running' \in SUBSET Processes /\ starting' \in SUBSET Processes
  <2>1. left[n].goal \in KnownModes
    BY DEF Commands
  <2> QED BY <2>1, OwnOrOther
          DEF LeftStops, LeftRecords, LeftStarts, LeftEnds, HandlerInv, Typed, Readings, router
<1>4. UNCHANGED <<command, lock, last, pc, locals, clocks, console, deaths, overlapped>>
  BY DEF LeftStops, LeftRecords, LeftStarts, LeftEnds
<1>5. Typed'
  BY <1>3, <1>4 DEF HandlerInv, Typed, command, locals, clocks
<1>6. (LockInv /\ CommandInv /\ LocalsInv /\ ReplyMatchesLast)'
  BY <1>4
  DEF HandlerInv, LockInv, CommandInv, LocalsInv, ReplyMatchesLast, Target, command, locals
<1>7. SlotInv'
  BY <1>2, <1>4 DEF SlotInv
<1> QED BY <1>2, <1>4, <1>5, <1>6, <1>7 DEF HandlerInv

LEMMA AlwaysStep == Always /\ [ConsoleNext]_allVars => Always'
<1> SUFFICES ASSUME Always, [ConsoleNext]_allVars PROVE Always'
  OBVIOUS
<1> USE DEF Always, ConsoleTypeOK
<1>1. CASE OfModeSwitch
  <2>1. HandlerInv'
    BY <1>1, OfModeSwitchIsNext, HandlerStep
  <2>2. overlapped' \in BOOLEAN
    BY <1>1 DEF OfModeSwitch, Accept, Enter, Launch, Proceed, Command, Surroundings, outside
  <2> QED BY <1>1, <2>1, <2>2, OfModeSwitchIsNext DEF HandlerInv, SlotInv
<1>2. CASE Exit \/ Kill
  BY <1>2, DiesAlways DEF Exit, Kill
<1>3. CASE Signal \/ Respawn \/ UNCHANGED allVars
  <2>1. HandlerInv'
    BY <1>3, HandlerStep DEF Signal, Respawn, allVars
  <2> QED BY <1>3, <2>1 DEF Signal, Respawn, allVars, outside, SlotInv, HandlerInv
<1>4. ASSUME NEW n \in Deaths, LeftStops(n) \/ LeftRecords(n) \/ LeftStarts(n) \/ LeftEnds(n)
      PROVE  Always'
  BY <1>4, LeftAlways
<1> QED BY <1>1, <1>2, <1>3, <1>4 DEF ConsoleNext, OfModeSwitch

LEMMA AlwaysInit == ConsoleInit => Always
<1> SUFFICES ASSUME ConsoleInit PROVE Always
  OBVIOUS
<1>1. HandlerInv
  BY IndInit DEF ConsoleInit, IndInv
<1>2. ConsoleTypeOK
  <2>1. left \in [Deaths -> Commands]
    BY DeadCommand DEF ConsoleInit
  <2>2. deaths \in 0..MaxDeaths
    BY DEF ConsoleInit
  <2> QED BY <1>1, <2>1, <2>2 DEF ConsoleInit, ConsoleTypeOK, HandlerInv
<1>3. SlotInv
  <2>1. \A n \in Deaths : left[n] = NoCommand
    BY DEF ConsoleInit
  <2>2. \A n \in Deaths : left[n].alive = FALSE
    BY <2>1, DeadCommand
  <2> QED BY <2>2 DEF SlotInv
<1> QED BY <1>1, <1>2, <1>3 DEF Always

(* Type correctness in every behaviour with deaths and restarts. *)
THEOREM ConsoleTypeCorrect == ConsoleSpec => []ConsoleTypeOK
BY AlwaysInit, AlwaysStep, PTL DEF ConsoleSpec, Always

(* The status inside a reply is about the action the reply is about, in    *)
(* every life of the console and whatever was left behind.                 *)
THEOREM ReplyAgreesAcrossDeaths == ConsoleSpec => []ReplyMatchesLast
BY AlwaysInit, AlwaysStep, PTL DEF ConsoleSpec, Always, HandlerInv

-------------------------------------------------------------------------------
(***************************************************************************)
(* Mutual exclusion                                                        *)
(***************************************************************************)
(* While a command left behind is at work, the handlers do not touch the router *)
LEMMA HandlersKeepQuiet ==
  ASSUME HandlerInv, \A r \in Requests : Quiet(r), OfModeSwitch, ~overlapped', LeftAtWork
  PROVE  (\A r \in Requests : Quiet(r)') /\ Present' \subseteq Present
<1> USE DEF HandlerInv, Typed, Goto, Quiet
<1>1. ASSUME NEW r \in Requests, Accept(r)
      PROVE  (\A s \in Requests : Quiet(s)') /\ Present' \subseteq Present
  BY <1>1 DEF Accept, Arrive, Present, command, router
<1>2. ASSUME NEW r \in Requests, Enter(r)
      PROVE  (\A s \in Requests : Quiet(s)') /\ Present' \subseteq Present
  BY <1>2 DEF Enter, Begin, Present, command, router
<1>3. ASSUME NEW r \in Requests, Launch(r)
      PROVE  (\A s \in Requests : Quiet(s)') /\ Present' \subseteq Present
  <2>1. ctxLeft[r] = 0
    BY <1>3 DEF Launch, Exec
  <2>2. Fail(r) /\ UNCHANGED command /\ UNCHANGED router
    BY <1>3, <2>1 DEF Launch, Exec
  <2>3. CASE MayRollBack(r)
    BY <2>2, <2>3 DEF Fail, Present, command, router
  <2>4. CASE ~MayRollBack(r)
    BY <2>2, <2>4 DEF Fail, Conclude, Present, command, router
  <2> QED BY <2>3, <2>4
<1>4. ASSUME NEW r \in Requests, Proceed(r)
      PROVE  (\A s \in Requests : Quiet(s)') /\ Present' \subseteq Present
  <2>1. Status(r) \/ Respond(r) \/ LoseResponse(r)
    BY <1>4 DEF Proceed, CommandReturns, Scan, Check, Retry, GiveUp
  <2> QED BY <2>1 DEF Status, Respond, LoseResponse, Forget, Present, command, router
<1>5. ASSUME NEW r \in Requests, Command(r) PROVE FALSE
  BY <1>5 DEF Command, Script, ScriptStops, ScriptRecords, ScriptStarts, ScriptEnds, ScriptIsKilled
<1>6. CASE Surroundings
  BY <1>6 DEF Surroundings, ProcessUp, ProcessLost, Tick, OnRouter, Present, command, router, locals
<1> QED BY <1>1, <1>2, <1>3, <1>4, <1>5, <1>6 DEF OfModeSwitch

(* The command left behind goes about its work; nobody is in a position to mind *)
LEMMA LeftKeepsApart ==
  ASSUME Always, RouterInv, LeftInv, NEW n \in Deaths,
         LeftStops(n) \/ LeftRecords(n) \/ LeftStarts(n) \/ LeftEnds(n)
  PROVE  RouterInv' /\ LeftInv'
<1> USE DEF OnlyRouter
<1>0. left[n].alive /\ UNCHANGED <<command, lock, last, pc, locals, clocks, deaths>>
  BY DEF LeftStops, LeftRecords, LeftStarts, LeftEnds
<1>1. \A r \in Requests : Quiet(r) /\ Quiet(r)'
  BY <1>0 DEF LeftInv, Quiet, command, locals
<1>2. AloneInv' /\ OutcomeHolds'
  BY <1>1 DEF Quiet, AloneInv, OutcomeHolds
<1>3. left \in [Deaths -> Commands]
  BY DEF Always, ConsoleTypeOK
<1>4. \A m \in Deaths \ {n} : ~left'[m].alive
  BY <1>0, <1>3 DEF LeftInv, LeftStops, LeftRecords, LeftStarts, LeftEnds
<1>5. Exclusive' /\ (left'[n].alive /\ "stop" \notin left'[n].todo =>
                       Present' \cap Others(left'[n].goal) = {})
  <2>1. CASE LeftStops(n)
    BY <1>3, <2>1 DEF LeftStops, Exclusive, RouterInv, Present, Commands
  <2>2. CASE LeftRecords(n)
    BY <1>3, <2>2 DEF LeftRecords, LeftInv, Exclusive, RouterInv, Present, Commands
  <2>3. CASE LeftStarts(n)
    <3>1. Present \cap Others(left[n].goal) = {}
      BY <2>3 DEF LeftStarts, LeftInv
    <3>2. Present' \cap Others(left[n].goal) = {} /\ Present' \subseteq Processes
      BY <2>3, <3>1, OwnOrOther DEF LeftStarts, Present, Always, HandlerInv, Typed
    <3>3. Exclusive'
      BY <3>2, AloneIsExclusive DEF Exclusive, Present
    <3>4. left'[n].goal = left[n].goal
      BY <1>3, <2>3 DEF LeftStarts, Commands
    <3> QED BY <3>2, <3>3, <3>4
  <2>4. CASE LeftEnds(n)
    BY <1>3, <2>4, DeadCommand DEF LeftEnds, Exclusive, RouterInv, Present, router
  <2> QED BY <2>1, <2>2, <2>3, <2>4
<1>6. LeftInv'
  BY <1>1, <1>4, <1>5 DEF LeftInv
<1> QED BY <1>2, <1>5, <1>6 DEF RouterInv

(* A death hands the running command over as it is *)
LEMMA DiesApart ==
  ASSUME Always, RouterInv, LeftInv, Dies
  PROVE  RouterInv' /\ LeftInv'
<1>0. Forgets /\ UNCHANGED router /\ left \in [Deaths -> Commands] /\ HandlerInv
  BY DEF Dies, Always, ConsoleTypeOK
<1>1. \A r \in Requests : Quiet(r)'
  BY <1>0 DEF Forgets, Quiet
<1>2. RouterInv'
  <2>1. AloneInv' /\ OutcomeHolds'
    BY <1>1 DEF Quiet, AloneInv, OutcomeHolds
  <2>2. Exclusive'
    BY <1>0 DEF RouterInv, Exclusive, Present, router
  <2> QED BY <2>1, <2>2 DEF RouterInv
<1>3. Present' = Present
  BY <1>0 DEF Present, router
<1>4. CASE UNCHANGED left
  BY <1>1, <1>2, <1>3, <1>4 DEF LeftInv
<1>5. ASSUME NEW r \in Requests, script[r] = "run", left' = [left EXCEPT ![deaths + 1] = Orphan(r)]
      PROVE  LeftInv'
  <2>1. \A n \in Deaths : ~left[n].alive
    BY <1>5 DEF LeftInv, Quiet
  <2>2. \A n \in Deaths : left'[n].alive => n = deaths + 1 /\ left'[n] = Orphan(r)
    BY <1>0, <1>5, <2>1
  <2>3. Orphan(r).goal = Goal(r) /\ Orphan(r).todo = todo[r]
    BY DEF Orphan
  <2>4. "stop" \notin todo[r] => Present \cap Others(Goal(r)) = {}
    BY <1>5 DEF RouterInv, AloneInv, Alone
  <2>5. ASSUME NEW n \in Deaths, left'[n].alive
        PROVE  /\ "stop" \notin left'[n].todo => Present' \cap Others(left'[n].goal) = {}
               /\ \A m \in Deaths \ {n} : ~left'[m].alive
    <3>1. left'[n] = Orphan(r)
      BY <2>2, <2>5
    <3>2. \A m \in Deaths \ {n} : ~left'[m].alive
      BY <2>2, <2>5
    <3> QED BY <3>1, <3>2, <2>3, <2>4, <1>3
  <2> QED BY <1>1, <2>5 DEF LeftInv
<1> QED BY <1>2, <1>4, <1>5 DEF Dies

Apart == overlapped \/ (RouterInv /\ LeftInv)

LEMMA ApartStep == Always /\ Apart /\ [ConsoleNext]_allVars => Apart'
<1> SUFFICES ASSUME Always, ~overlapped, RouterInv, LeftInv, [ConsoleNext]_allVars, ~overlapped'
             PROVE  RouterInv' /\ LeftInv'
  <2>1. (overlapped /\ [ConsoleNext]_allVars) => overlapped'
    BY DEF ConsoleNext, Accept, Enter, Launch, Proceed, Command, Surroundings, Signal, Exit, Kill,
           Dies, Respawn, LeftStops, LeftRecords, LeftStarts, LeftEnds, OnlyRouter, allVars,
           outside
  <2> QED BY <2>1 DEF Apart
<1>1. CASE OfModeSwitch
  <2>1. Next /\ UNCHANGED left
    BY <1>1, OfModeSwitchIsNext
  <2>2. RouterInv'
    BY <2>1, RouterStep DEF Always, IndInv
  <2>3. CASE LeftAtWork
    <3>1. \A r \in Requests : Quiet(r)
      BY <2>3 DEF LeftAtWork, LeftInv
    <3>2. (\A r \in Requests : Quiet(r)') /\ Present' \subseteq Present
      BY <1>1, <2>3, <3>1, HandlersKeepQuiet DEF Always
    <3> QED BY <2>1, <2>2, <3>2 DEF LeftInv
  <2>4. CASE ~LeftAtWork
    BY <2>1, <2>2, <2>4 DEF LeftAtWork, LeftInv
  <2> QED BY <2>3, <2>4
<1>2. CASE Exit \/ Kill
  BY <1>2, DiesApart DEF Exit, Kill
<1>3. CASE Signal \/ Respawn \/ UNCHANGED allVars
  <2>1. UNCHANGED vars /\ UNCHANGED left
    BY <1>3 DEF Signal, Respawn, allVars, outside
  <2>2. RouterInv'
    BY <2>1, RouterStep DEF Always, IndInv
  <2> QED BY <2>1, <2>2 DEF LeftInv, Quiet, Present, vars, router, command, locals
<1>4. ASSUME NEW n \in Deaths, LeftStops(n) \/ LeftRecords(n) \/ LeftStarts(n) \/ LeftEnds(n)
      PROVE  RouterInv' /\ LeftInv'
  BY <1>4, LeftKeepsApart
<1> QED BY <1>1, <1>2, <1>3, <1>4 DEF ConsoleNext, OfModeSwitch

LEMMA ApartInit == ConsoleInit => Apart
<1> SUFFICES ASSUME ConsoleInit PROVE RouterInv /\ LeftInv
  BY DEF Apart
<1>1. RouterInv
  BY IndInit DEF ConsoleInit, IndInv
<1>2. \A n \in Deaths : left[n] = NoCommand
  BY DEF ConsoleInit
<1>3. \A n \in Deaths : left[n].alive = FALSE
  BY <1>2, DeadCommand
<1> QED BY <1>1, <1>3 DEF LeftInv

THEOREM ConsoleInvariance == ConsoleSpec => []ConsoleInv
<1>1. Always /\ Apart <=> ConsoleInv
  BY DEF Always, Apart, ConsoleInv
<1> QED BY <1>1, AlwaysInit, AlwaysStep, ApartInit, ApartStep, PTL DEF ConsoleSpec

(* README: the two services are forced to exclude each other.  It holds    *)
(* across deaths of the console, as long as no action is started while a   *)
(* command left behind is at work.                                         *)
THEOREM ExclusionAcrossDeaths == ConsoleSpec => []ExclusiveAcrossDeaths
<1>1. ConsoleInv => ExclusiveAcrossDeaths
  BY DEF ConsoleInv, RouterInv, ExclusiveAcrossDeaths
<1> QED BY <1>1, ConsoleInvariance, PTL

-------------------------------------------------------------------------------
(***************************************************************************)
(* The console implements InterruptedActions                               *)
(***************************************************************************)
LEMMA SerialIsPart ==
  ASSUME [Serial!Next]_(Serial!vars), Strays' = Strays
  PROVE  [Interrupted!InterruptedNext]_(Interrupted!interruptedVars)
<1>1. CASE UNCHANGED Serial!vars
  BY <1>1 DEF Serial!vars, Interrupted!vars, Interrupted!interruptedVars
<1>2. ASSUME NEW r \in Requests, Serial!Ask(r) PROVE Interrupted!Ask(r)
  BY <1>2
  DEF Serial!Ask, Interrupted!Ask, Serial!Idle, Interrupted!Idle, Serial!Move, Interrupted!Move
<1>3. ASSUME NEW r \in Requests, Serial!Start(r) PROVE Interrupted!Start(r)
  BY <1>3
  DEF Serial!Start, Interrupted!Start, Serial!Queued, Interrupted!Queued, Serial!Active,
      Interrupted!Active, Serial!Move, Interrupted!Move, Serial!Supported, Interrupted!Supported,
      Serial!StartActions, Interrupted!StartActions, Serial!RestartActions,
      Interrupted!RestartActions
<1>4. \A r \in Requests : Serial!MayBecome(r) = Interrupted!MayBecome(r)
                            /\ Serial!Restores(r) = Interrupted!Restores(r)
                            /\ Serial!ActionTarget(action[r]) = Interrupted!ActionTarget(action[r])
  BY DEF Serial!MayBecome, Interrupted!MayBecome, Serial!Restores, Interrupted!Restores,
         Serial!ActionTarget, Interrupted!ActionTarget, Serial!RestartActions,
         Interrupted!RestartActions, Serial!KnownModes, Interrupted!KnownModes, Serial!Services,
         Interrupted!Services
<1>5. ASSUME NEW r \in Requests, Serial!Change(r) PROVE Interrupted!Change(r)
  BY <1>4, <1>5 DEF Serial!Change, Interrupted!Change, Serial!Active, Interrupted!Active
<1>6. ASSUME NEW r \in Requests, NEW o, Serial!Finish(r, o) PROVE Interrupted!Finish(r, o)
  BY <1>4, <1>6 DEF Serial!Finish, Interrupted!Finish, Serial!Active, Interrupted!Active
<1>7. ASSUME NEW r \in Requests, Serial!Release(r) PROVE Interrupted!Release(r)
  BY <1>7
  DEF Serial!Release, Interrupted!Release, Serial!Active, Interrupted!Active, Serial!Move,
      Interrupted!Move
<1>8. ASSUME NEW r \in Requests, Serial!Leave(r) PROVE Interrupted!Leave(r)
  BY <1>8
  DEF Serial!Leave, Interrupted!Leave, Serial!Done, Interrupted!Done, Serial!Move,
      Interrupted!Move
<1> QED
  BY <1>1, <1>2, <1>3, <1>5, <1>6, <1>7, <1>8
  DEF Serial!Next, Interrupted!Next, Interrupted!InterruptedNext

LEMMA LeftRefines ==
  ASSUME Always, NEW n \in Deaths,
         LeftStops(n) \/ LeftRecords(n) \/ LeftStarts(n) \/ LeftEnds(n)
  PROVE  [Interrupted!InterruptedNext]_(Interrupted!interruptedVars)
<1> USE DEF OnlyRouter
<1>0. left \in [Deaths -> Commands] /\ left[n].alive
  BY DEF Always, ConsoleTypeOK, LeftStops, LeftRecords, LeftStarts, LeftEnds
<1>1. UNCHANGED <<Stages, action, previous, outcome>>
  BY DEF LeftStops, LeftRecords, LeftStarts, LeftEnds, Stages, locals
<1>2. Strays' \subseteq Strays
  <2>1. PICK c \in Commands : /\ left' = [left EXCEPT ![n] = c]
                              /\ c.alive => left[n].alive /\ c.goal = left[n].goal
    BY LeftMoves DEF Always
  <2>2. \A m \in Deaths : left'[m].alive => left[m].alive /\ left'[m].goal = left[m].goal
    BY <1>0, <2>1
  <2> QED BY <2>2 DEF Strays
<1>3. CASE modeFile' = modeFile
  BY <1>1, <1>2, <1>3 DEF Interrupted!InterruptedNext, Interrupted!Fade, Interrupted!vars
<1>4. CASE LeftRecords(n)
  <2>1. Strays' = Strays
    <3>1. \A m \in Deaths : left'[m].alive = left[m].alive /\ left'[m].goal = left[m].goal
      BY <1>0, <1>4 DEF LeftRecords, Commands
    <3> QED BY <3>1 DEF Strays
  <2>2. modeFile' \in Strays
    BY <1>0, <1>4 DEF LeftRecords, Strays
  <2> QED BY <1>1, <2>1, <2>2 DEF Interrupted!InterruptedNext, Interrupted!Stray
<1> QED BY <1>3, <1>4 DEF LeftStops, LeftStarts, LeftEnds, router

LEMMA DiesRefines ==
  ASSUME Always, Dies
  PROVE  Interrupted!Interrupt
<1>0. /\ Forgets /\ UNCHANGED router /\ left \in [Deaths -> Commands] /\ HandlerInv
      /\ \A n \in Deaths : n = deaths + 1 => ~left[n].alive
  BY DEF Dies, Always, ConsoleTypeOK, SlotInv
<1>1. Stages' = [r \in Requests |-> "idle"] /\ UNCHANGED modeFile
  BY <1>0 DEF Forgets, Stages, Stage, router
<1>2. CASE UNCHANGED left
  BY <1>0, <1>1, <1>2 DEF Strays, Interrupted!Interrupt, Forgets
<1>3. ASSUME NEW r \in Requests, script[r] = "run", left' = [left EXCEPT ![deaths + 1] = Orphan(r)]
      PROVE  Interrupted!Interrupt
  <2>1. deaths + 1 \in Deaths
    BY DEF Dies, MayDie, Always, ConsoleTypeOK, Deaths
  <2>2. left'[deaths + 1] = Orphan(r) /\ Orphan(r).alive /\ Orphan(r).goal = Goal(r)
    BY <1>0, <1>3, <2>1 DEF Orphan
  <2>3. \A n \in Deaths \ {deaths + 1} : left'[n] = left[n]
    BY <1>0, <1>3
  <2>4. Strays' = Strays \cup {Goal(r)}
    BY <1>0, <2>1, <2>2, <2>3 DEF Strays
  <2>5. Goal(r) \in Interrupted!Pending
    <3>1. pc[r] = "wait" /\ outcome[r] = "none"
      BY <1>0, <1>3 DEF HandlerInv, CommandInv, LocalsInv, Holding, PcValues
    <3>2. Interrupted!Active(r)
      BY <3>1 DEF Interrupted!Active, Stages, Stage
    <3>3. Goal(r) \in Interrupted!MayBecome(r)
      BY <1>0, GoalMayCome
      DEF HandlerInv, Interrupted!MayBecome, Serial!MayBecome, Interrupted!Restores, Serial!Restores,
          Interrupted!ActionTarget, Serial!ActionTarget, Interrupted!RestartActions,
          Serial!RestartActions, Interrupted!KnownModes, Serial!KnownModes, Interrupted!Services,
          Serial!Services
    <3> QED BY <3>1, <3>2, <3>3 DEF Interrupted!Pending
  <2> QED BY <1>0, <1>1, <2>4, <2>5 DEF Interrupted!Interrupt, Forgets
<1> QED BY <1>2, <1>3 DEF Dies

LEMMA InterruptedStep ==
  Always /\ [ConsoleNext]_allVars => [Interrupted!InterruptedNext]_(Interrupted!interruptedVars)
<1> SUFFICES ASSUME Always, [ConsoleNext]_allVars
             PROVE  [Interrupted!InterruptedNext]_(Interrupted!interruptedVars)
  OBVIOUS
<1>1. CASE OfModeSwitch \/ Signal \/ Respawn \/ UNCHANGED allVars
  <2>1. [Next]_vars /\ UNCHANGED left
    BY <1>1, OfModeSwitchIsNext DEF Signal, Respawn, allVars, outside
  <2>2. [Serial!Next]_(Serial!vars)
    BY <2>1, RefineNext DEF Always
  <2>3. Strays' = Strays
    BY <2>1 DEF Strays
  <2> QED BY <2>2, <2>3, SerialIsPart
<1>2. CASE Exit \/ Kill
  BY <1>2, DiesRefines DEF Exit, Kill, Interrupted!InterruptedNext
<1>3. ASSUME NEW n \in Deaths, LeftStops(n) \/ LeftRecords(n) \/ LeftStarts(n) \/ LeftEnds(n)
      PROVE  [Interrupted!InterruptedNext]_(Interrupted!interruptedVars)
  BY <1>3, LeftRefines
<1> QED BY <1>1, <1>2, <1>3 DEF ConsoleNext, OfModeSwitch

LEMMA InterruptedStart == ConsoleInit => Interrupted!InterruptedInit
<1> SUFFICES ASSUME ConsoleInit PROVE Interrupted!InterruptedInit
  OBVIOUS
<1>1. Serial!Init
  BY RefineInit DEF ConsoleInit
<1>2. Strays = {}
  <2>1. \A n \in Deaths : left[n] = NoCommand
    BY DEF ConsoleInit
  <2>2. \A n \in Deaths : left[n].alive = FALSE
    BY <2>1, DeadCommand
  <2> QED BY <2>2 DEF Strays
<1> QED BY <1>1, <1>2
        DEF Interrupted!InterruptedInit, Interrupted!Init, Serial!Init, Interrupted!Readings,
            Serial!Readings, Interrupted!KnownModes, Serial!KnownModes, Interrupted!Services,
            Serial!Services

(* README: all write operations run one after another and are verified     *)
(* when they are done.  With deaths: interrupted ones may still come about *)
(* as strays, and nothing else ever does.                                  *)
THEOREM ConsoleImplementsInterrupted == ConsoleSpec => ImplementsInterrupted
<1>1. ConsoleSpec => Interrupted!InterruptedInit
                       /\ [][Interrupted!InterruptedNext]_(Interrupted!interruptedVars)
  BY InterruptedStart, InterruptedStep, AlwaysInit, AlwaysStep, PTL DEF ConsoleSpec
<1> QED BY <1>1 DEF ImplementsInterrupted, Interrupted!InterruptedSpec

===============================================================================
