--------------------------- MODULE ModeSwitch_proofs ---------------------------
(***************************************************************************)
(* Theorems about ModeSwitch, for any set of requests, any actions asked   *)
(* for, with and without auto_rollback, and any two timeouts.              *)
(***************************************************************************)
EXTENDS ModeSwitch, TLAPS

USE ConstantsAssumption

-------------------------------------------------------------------------------
(***************************************************************************)
(* The vocabulary                                                          *)
(***************************************************************************)
LEMMA TargetIsKnown == \A a : ActionTarget(a) \in KnownModes
BY DEF ActionTarget, KnownModes, Services

LEMMA GoalIsKnown ==
  ASSUME Typed, LocalsInv, NEW r \in Requests
  PROVE  Goal(r) \in KnownModes
BY TargetIsKnown DEF Goal, Target, LocalsInv, KnownModes

(* Starting what a mode needs next to nothing of the others keeps them apart *)
LEMMA AloneIsExclusive ==
  ASSUME NEW m, NEW S \in SUBSET Processes, S \cap Others(m) = {}
  PROVE  ~ (S \cap ProcsOf("shellcrash") # {} /\ S \cap ProcsOf("leigod") # {})
BY DEF Others, ProcsOf

LEMMA OwnOrOther == \A m : ProcsOf(m) \subseteq Processes /\ ProcsOf(m) \cap Others(m) = {}
BY DEF Others, ProcsOf, Processes

-------------------------------------------------------------------------------
(***************************************************************************)
(* Type correctness                                                        *)
(***************************************************************************)
Reports == [action : Actions \cup {"none"}, ok : BOOLEAN]

LEMMA ReportType == \A a \in Actions \cup {"none"} : \A o : Report(a, o) \in Reports
BY DEF Report, Reports

LEMMA FailType ==
  ASSUME Typed, NEW r \in Requests, Fail(r)
  PROVE  /\ pc' \in [Requests -> PcValues]
         /\ phase' \in [Requests -> {"stop", "switch", "rollback"}]
         /\ outcome' \in [Requests -> Outcomes]
         /\ last' \in Reports
         /\ ctxLeft' \in [Requests -> 0..CtxTimeout]
<1> USE DEF Typed, Goto, PcValues, Outcomes
<1>1. CASE MayRollBack(r)
  BY <1>1, SMTT(30) DEF Fail, Reports
<1>2. CASE ~MayRollBack(r)
  <2>1. Conclude(r, "failed") /\ UNCHANGED <<phase, ctxLeft>>
    BY <1>2 DEF Fail
  <2>2. last' \in Reports
    BY <2>1, ReportType DEF Conclude
  <2> QED BY <2>1, <2>2 DEF Conclude
<1> QED BY <1>1, <1>2

THEOREM TypeStep == Typed /\ [Next]_vars => Typed'
<1> SUFFICES ASSUME Typed, [Next]_vars PROVE Typed'
  OBVIOUS
<1> USE DEF Typed
<1>1. ASSUME NEW r \in Requests, Arrive(r) PROVE Typed'
  <2>1. PICK a \in Actions : action' = [action EXCEPT ![r] = a]
    BY <1>1 DEF Arrive
  <2> QED BY <1>1, <2>1 DEF Arrive, Goto, PcValues, router, command, clocks
<1>2. ASSUME NEW r \in Requests, Begin(r) PROVE Typed'
  <2>1. CASE action[r] \in Supported
    <3>1. phase' \in [Requests -> {"stop", "switch", "rollback"}]
      BY <1>2, <2>1 DEF Begin
    <3>2. ctxLeft' \in [Requests -> 0..CtxTimeout]
      BY <1>2, <2>1 DEF Begin
    <3>3. /\ previous' \in [Requests -> Readings]
          /\ lock' \in Requests \cup {NoRequest}
      BY <1>2 DEF Begin
    <3> QED BY <1>2, <2>1, <3>1, <3>2, <3>3 DEF Begin, Goto, PcValues, router, command
  <2>2. CASE action[r] \notin Supported
    BY <1>2, <2>2 DEF Begin, Goto, PcValues, Outcomes, router, command
  <2> QED BY <2>1, <2>2
<1>3. ASSUME NEW r \in Requests, Exec(r) PROVE Typed'
  <2>1. CASE ctxLeft[r] = 0
    BY <1>3, <2>1, FailType DEF Exec, router, command, Reports
  <2>2. CASE ctxLeft[r] # 0
    <3>1. todo' \in [Requests -> SUBSET {"stop", "record", "start"}]
      BY <1>3, <2>2 DEF Exec
    <3> QED BY <1>3, <2>2, <3>1 DEF Exec, Goto, PcValues, router
  <2> QED BY <2>1, <2>2
<1>4. ASSUME NEW r \in Requests, CommandReturns(r) PROVE Typed'
  <2>1. CASE Succeeded(r)
    BY <1>4, <2>1 DEF CommandReturns, Goto, PcValues, router
  <2>2. CASE ~Succeeded(r)
    BY <1>4, <2>2, FailType DEF CommandReturns, router, Reports
  <2> QED BY <2>1, <2>2
<1>5. ASSUME NEW r \in Requests, Scan(r) PROVE Typed'
  BY <1>5 DEF Scan, Goto, PcValues, UpAndAlone, router, command, clocks
<1>6. ASSUME NEW r \in Requests, Check(r) PROVE Typed'
  <2>1. /\ last' \in Reports
        /\ outcome' \in [Requests -> Outcomes]
        /\ pc' \in [Requests -> PcValues]
    <3>1. CASE Verified(r)
      <4>1. PICK o \in {"restored", "switched"} : Conclude(r, o)
        BY <1>6, <3>1 DEF Check
      <4> QED BY <4>1, ReportType DEF Conclude, Goto, PcValues, Outcomes
    <3>2. CASE ~Verified(r)
      BY <1>6, <3>2 DEF Check, Goto, PcValues, Reports
    <3> QED BY <3>1, <3>2
  <2> QED BY <1>6, <2>1 DEF Check, router, command, clocks, Reports
<1>7. ASSUME NEW r \in Requests, Retry(r) PROVE Typed'
  BY <1>7 DEF Retry, Goto, PcValues, router, command, locals, clocks
<1>8. ASSUME NEW r \in Requests, GiveUp(r) PROVE Typed'
  BY <1>8, FailType DEF GiveUp, router, command, Reports
<1>9. ASSUME NEW r \in Requests, Status(r) PROVE Typed'
  BY <1>9 DEF Status, Goto, PcValues, Readings, router, command
<1>10. ASSUME NEW r \in Requests, Forget(r) PROVE Typed'
  BY <1>10 DEF Forget, Goto, PcValues, Outcomes, NoReport, router, command
<1>11. ASSUME NEW r \in Requests, ScriptStops(r) PROVE Typed'
  BY <1>11 DEF ScriptStops, OnRouter, locals, clocks
<1>12. ASSUME NEW r \in Requests, ScriptRecords(r) PROVE Typed'
  BY <1>12, TargetIsKnown
  DEF ScriptRecords, Goal, Target, Readings, KnownModes, OnRouter, locals, clocks
<1>13. ASSUME NEW r \in Requests, ScriptStarts(r) PROVE Typed'
  BY <1>13, OwnOrOther DEF ScriptStarts, OnRouter, locals, clocks
<1>14. ASSUME NEW r \in Requests, NEW x \in {"ok", "error"}, ScriptEnds(r, x) PROVE Typed'
  BY <1>14 DEF ScriptEnds, OnRouter, router, locals, clocks
<1>15. ASSUME NEW r \in Requests, ScriptIsKilled(r) PROVE Typed'
  BY <1>15 DEF ScriptIsKilled, OnRouter, router, locals, clocks
<1>16. ASSUME NEW p \in Processes, ProcessUp(p) \/ ProcessLost(p) PROVE Typed'
  BY <1>16 DEF ProcessUp, ProcessLost, OnRouter, command, locals, clocks
<1>17. CASE Tick
  <2>1. age' \in [Requests -> 0..WriteTimeout]
    BY <1>17 DEF Tick, Aging
  <2>2. ctxLeft' \in [Requests -> 0..CtxTimeout]
    BY <1>17 DEF Tick
  <2> QED BY <1>17, <2>1, <2>2 DEF Tick, router, command, locals
<1>18. CASE UNCHANGED vars
  BY <1>18 DEF vars, router, command, locals, clocks
<1> QED
  BY <1>1, <1>2, <1>3, <1>4, <1>5, <1>6, <1>7, <1>8, <1>9, <1>10, <1>11, <1>12, <1>13,
     <1>14, <1>15, <1>16, <1>17, <1>18
  DEF Next, Handler, Script, Respond, LoseResponse

LEMMA TypeInit == Init => Typed
BY OwnOrOther DEF Init, Typed, NoReport, PcValues, Outcomes, Readings

-------------------------------------------------------------------------------
(***************************************************************************)
(* The inductive invariant                                                 *)
(***************************************************************************)
LEMMA IndInit == Init => IndInv
<1> SUFFICES ASSUME Init PROVE IndInv
  OBVIOUS
<1>1. Typed
  BY TypeInit
<1>2. LockInv /\ CommandInv /\ AloneInv
  BY DEF Init, LockInv, CommandInv, AloneInv, Holding
<1>3. LocalsInv /\ OutcomeHolds /\ ReplyMatchesLast
  BY DEF Init, LocalsInv, OutcomeHolds, ReplyMatchesLast, Holding
<1>4. Exclusive
  BY DEF Init, Exclusive, Present, ProcsOf
<1> QED BY <1>1, <1>2, <1>3, <1>4 DEF IndInv, HandlerInv, RouterInv

(* Only one request at a time is inside performAction or runs a command *)
LEMMA Bystander ==
  ASSUME LockInv, CommandInv, NEW r \in Requests, NEW s \in Requests, s # r, pc[r] \in Holding
  PROVE  pc[s] \notin Holding /\ script[s] = "none"
BY DEF LockInv, CommandInv, Holding, PcValues

(* What one action does to the console's own side.  Only the request that  *)
(* moves has its locals changed.                                           *)
THEOREM HandlerStep == HandlerInv /\ [Next]_vars => HandlerInv'
<1> SUFFICES ASSUME HandlerInv, [Next]_vars PROVE HandlerInv'
  OBVIOUS
<1>0. Typed'
  BY TypeStep DEF HandlerInv
<1> USE <1>0 DEF HandlerInv, Typed, Goto, PcValues
<1>1. ASSUME NEW r \in Requests, Arrive(r) PROVE HandlerInv'
  <2>1. LockInv' /\ CommandInv'
    BY <1>1 DEF Arrive, LockInv, CommandInv, Holding, command
  <2>3. LocalsInv'
    BY <1>1 DEF Arrive, LocalsInv, Holding, Target
  <2>6. ReplyMatchesLast'
    BY <1>1 DEF Arrive, ReplyMatchesLast
  <2> QED BY <2>1, <2>3, <2>6
<1>2. ASSUME NEW r \in Requests, Begin(r) PROVE HandlerInv'
  <2>1. LockInv' /\ CommandInv'
    BY <1>2 DEF Begin, MutexFree, LockInv, CommandInv, Holding, command
  <2>3. LocalsInv'
    BY <1>2 DEF Begin, LocalsInv, Target
  <2>6. ReplyMatchesLast'
    BY <1>2 DEF Begin, ReplyMatchesLast
  <2> QED BY <2>1, <2>3, <2>6
<1>3. ASSUME NEW r \in Requests, Exec(r) PROVE HandlerInv'
  <2>1. LockInv' /\ CommandInv'
    BY <1>3, SMTT(30) DEF Exec, Fail, Conclude, MayRollBack, LockInv, CommandInv, Holding, command
  <2>3. LocalsInv'
    BY <1>3 DEF Exec, Fail, Conclude, MayRollBack, LocalsInv, LockInv, Holding, Target
  <2>6. ReplyMatchesLast'
    BY <1>3 DEF Exec, Fail, Conclude, ReplyMatchesLast
  <2> QED BY <2>1, <2>3, <2>6
<1>4. ASSUME NEW r \in Requests, CommandReturns(r) PROVE HandlerInv'
  <2>1. LockInv' /\ CommandInv'
    BY <1>4 DEF CommandReturns, Succeeded, Fail, Conclude, LockInv, CommandInv, Holding
  <2>3. LocalsInv'
    BY <1>4
    DEF CommandReturns, Succeeded, Fail, Conclude, MayRollBack, LocalsInv, LockInv, Holding,
        Target
  <2>6. ReplyMatchesLast'
    BY <1>4 DEF CommandReturns, Succeeded, Fail, Conclude, ReplyMatchesLast
  <2> QED BY <2>1, <2>3, <2>6
<1>5. ASSUME NEW r \in Requests, Scan(r) PROVE HandlerInv'
  <2>1. LockInv' /\ CommandInv'
    BY <1>5 DEF Scan, LockInv, CommandInv, Holding, command
  <2>3. LocalsInv'
    BY <1>5 DEF Scan, LocalsInv, Holding, Target
  <2>6. ReplyMatchesLast'
    BY <1>5 DEF Scan, ReplyMatchesLast
  <2> QED BY <2>1, <2>3, <2>6
<1>6. ASSUME NEW r \in Requests, Check(r) PROVE HandlerInv'
  <2>1. LockInv' /\ CommandInv'
    BY <1>6 DEF Check, Conclude, LockInv, CommandInv, Holding, command
  <2>3. LocalsInv'
    <3>1. CASE Verified(r)
      BY <1>6, <3>1 DEF Check, Conclude, LocalsInv, LockInv, Holding, Target
    <3>2. CASE ~Verified(r)
      BY <1>6, <3>2 DEF Check, LocalsInv, Holding, Target
    <3> QED BY <3>1, <3>2
  <2>6. ReplyMatchesLast'
    BY <1>6 DEF Check, Conclude, ReplyMatchesLast
  <2> QED BY <2>1, <2>3, <2>6
<1>7. ASSUME NEW r \in Requests, Retry(r) PROVE HandlerInv'
  <2>1. LockInv' /\ CommandInv'
    BY <1>7 DEF Retry, LockInv, CommandInv, Holding, command
  <2>3. LocalsInv'
    BY <1>7 DEF Retry, LocalsInv, Holding, Target, locals
  <2>6. ReplyMatchesLast'
    BY <1>7 DEF Retry, ReplyMatchesLast, locals
  <2> QED BY <2>1, <2>3, <2>6
<1>8. ASSUME NEW r \in Requests, GiveUp(r) PROVE HandlerInv'
  <2>1. LockInv' /\ CommandInv'
    BY <1>8 DEF GiveUp, Fail, Conclude, LockInv, CommandInv, Holding, command
  <2>3. LocalsInv'
    BY <1>8 DEF GiveUp, Fail, Conclude, MayRollBack, LocalsInv, LockInv, Holding, Target
  <2>6. ReplyMatchesLast'
    BY <1>8 DEF GiveUp, Fail, Conclude, ReplyMatchesLast
  <2> QED BY <2>1, <2>3, <2>6
<1>9. ASSUME NEW r \in Requests, Status(r) PROVE HandlerInv'
  <2>1. LockInv' /\ CommandInv'
    BY <1>9 DEF Status, LockInv, CommandInv, Holding, command
  <2>3. LocalsInv'
    BY <1>9 DEF Status, LocalsInv, Holding, Target
  <2>6. ReplyMatchesLast'
    BY <1>9 DEF Status, ReplyMatchesLast, LocalsInv
  <2> QED BY <2>1, <2>3, <2>6
<1>10. ASSUME NEW r \in Requests, Respond(r) \/ LoseResponse(r) PROVE HandlerInv'
  <2>1. LockInv' /\ CommandInv'
    BY <1>10, SMTT(30) DEF Respond, LoseResponse, Forget, LockInv, CommandInv, Holding, command
  <2>3. LocalsInv'
    BY <1>10 DEF Respond, LoseResponse, Forget, LocalsInv, Holding, Target
  <2>6. ReplyMatchesLast'
    BY <1>10, SMTT(30) DEF Respond, LoseResponse, Forget, ReplyMatchesLast, LocalsInv, locals
  <2> QED BY <2>1, <2>3, <2>6
<1>11. ASSUME NEW r \in Requests, ScriptStops(r) PROVE HandlerInv'
  <2>0. pc[r] = "wait" /\ UNCHANGED <<lock, last, pc, locals>>
    BY <1>11 DEF ScriptStops, OnRouter, CommandInv
  <2> USE Bystander DEF Holding
  <2>1. LockInv' /\ CommandInv'
    BY <1>11, <2>0 DEF ScriptStops, LockInv, CommandInv
  <2>3. LocalsInv'
    BY <1>11, <2>0 DEF LocalsInv, Target, locals
  <2>6. ReplyMatchesLast'
    BY <1>11, <2>0 DEF ReplyMatchesLast, locals
  <2> QED BY <2>1, <2>3, <2>6
<1>12. ASSUME NEW r \in Requests, ScriptRecords(r) PROVE HandlerInv'
  <2>0. pc[r] = "wait" /\ UNCHANGED <<lock, last, pc, locals>>
    BY <1>12 DEF ScriptRecords, OnRouter, CommandInv
  <2> USE Bystander DEF Holding
  <2>1. LockInv' /\ CommandInv'
    BY <1>12, <2>0 DEF ScriptRecords, LockInv, CommandInv
  <2>3. LocalsInv'
    BY <1>12, <2>0 DEF LocalsInv, Target, locals
  <2>6. ReplyMatchesLast'
    BY <1>12, <2>0 DEF ReplyMatchesLast, locals
  <2> QED BY <2>1, <2>3, <2>6
<1>13. ASSUME NEW r \in Requests, ScriptStarts(r) PROVE HandlerInv'
  <2>0. pc[r] = "wait" /\ UNCHANGED <<lock, last, pc, locals>>
    BY <1>13 DEF ScriptStarts, OnRouter, CommandInv
  <2> USE Bystander DEF Holding
  <2>1. LockInv' /\ CommandInv'
    BY <1>13, <2>0 DEF ScriptStarts, LockInv, CommandInv
  <2>3. LocalsInv'
    BY <1>13, <2>0 DEF LocalsInv, Target, locals
  <2>6. ReplyMatchesLast'
    BY <1>13, <2>0 DEF ReplyMatchesLast, locals
  <2> QED BY <2>1, <2>3, <2>6
<1>14. ASSUME NEW r \in Requests, NEW x \in {"ok", "error"}, ScriptEnds(r, x) PROVE HandlerInv'
  <2>0. pc[r] = "wait" /\ UNCHANGED <<lock, last, pc, locals>>
    BY <1>14 DEF ScriptEnds, OnRouter, CommandInv
  <2>1. LockInv' /\ CommandInv'
    BY <1>14, <2>0 DEF ScriptEnds, LockInv, CommandInv
  <2>3. LocalsInv'
    BY <1>14, <2>0 DEF LocalsInv, Target, locals
  <2>6. ReplyMatchesLast'
    BY <1>14, <2>0 DEF ReplyMatchesLast, locals
  <2> QED BY <2>1, <2>3, <2>6
<1>15. ASSUME NEW r \in Requests, ScriptIsKilled(r) PROVE HandlerInv'
  <2>0. pc[r] = "wait" /\ UNCHANGED <<lock, last, pc, locals>>
    BY <1>15 DEF ScriptIsKilled, OnRouter, CommandInv
  <2>1. LockInv' /\ CommandInv'
    BY <1>15, <2>0 DEF ScriptIsKilled, LockInv, CommandInv
  <2>3. LocalsInv'
    BY <1>15, <2>0 DEF LocalsInv, Target, locals
  <2>6. ReplyMatchesLast'
    BY <1>15, <2>0 DEF ReplyMatchesLast, locals
  <2> QED BY <2>1, <2>3, <2>6
<1>16. ASSUME NEW p \in Processes, ProcessUp(p) \/ ProcessLost(p) PROVE HandlerInv'
  BY <1>16
  DEF ProcessUp, ProcessLost, OnRouter, LockInv, CommandInv, LocalsInv, ReplyMatchesLast, Target,
      command, locals
<1>17. CASE Tick \/ UNCHANGED vars
  BY <1>17
  DEF Tick, vars, router, command, locals, LockInv, CommandInv, LocalsInv, ReplyMatchesLast, Target
<1> QED
  BY <1>1, <1>2, <1>3, <1>4, <1>5, <1>6, <1>7, <1>8, <1>9, <1>10, <1>11, <1>12, <1>13,
     <1>14, <1>15, <1>16, <1>17
  DEF Next, Handler, Script

(* What one action does to the services.  A request other than the one     *)
(* that moves is not inside performAction and runs no command.             *)
THEOREM RouterStep == IndInv /\ [Next]_vars => RouterInv'
<1> SUFFICES ASSUME IndInv, [Next]_vars PROVE RouterInv'
  OBVIOUS
<1>0. Typed'
  BY TypeStep DEF IndInv, HandlerInv
<1> USE <1>0 DEF IndInv, HandlerInv, RouterInv, Typed, Goto, PcValues
<1>1. ASSUME NEW r \in Requests, Arrive(r) PROVE RouterInv'
  <2>2. AloneInv'
    BY <1>1 DEF Arrive, AloneInv, CommandInv, Alone, Goal, Target, Present, router, command
  <2>4. Exclusive'
    BY <1>1 DEF Arrive, Exclusive, Present, router
  <2>5. OutcomeHolds'
    BY <1>1 DEF Arrive, OutcomeHolds, Target, Present, router
  <2> QED BY <2>2, <2>4, <2>5
<1>2. ASSUME NEW r \in Requests, Begin(r) PROVE RouterInv'
  <2>2. AloneInv'
    BY <1>2 DEF Begin, AloneInv, CommandInv, Alone, Goal, Target, Present, router, command
  <2>4. Exclusive'
    BY <1>2 DEF Begin, Exclusive, Present, router
  <2>5. OutcomeHolds'
    BY <1>2 DEF Begin, OutcomeHolds, Target, Present, router
  <2> QED BY <2>2, <2>4, <2>5
<1>3. ASSUME NEW r \in Requests, Exec(r) PROVE RouterInv'
  <2>2. AloneInv'
    BY <1>3
    DEF Exec, Fail, Conclude, AloneInv, CommandInv, Alone, Goal, Target, Present, router, command
  <2>4. Exclusive'
    BY <1>3 DEF Exec, Exclusive, Present, router
  <2>5. OutcomeHolds'
    BY <1>3 DEF Exec, Fail, Conclude, OutcomeHolds, Target, Present, router
  <2> QED BY <2>2, <2>4, <2>5
<1>4. ASSUME NEW r \in Requests, CommandReturns(r) PROVE RouterInv'
  <2>2. AloneInv'
    BY <1>4
    DEF CommandReturns, Succeeded, Fail, Conclude, AloneInv, CommandInv, Alone, Goal, Target,
        Present, router
  <2>4. Exclusive'
    BY <1>4 DEF CommandReturns, Exclusive, Present, router
  <2>5. OutcomeHolds'
    BY <1>4 DEF CommandReturns, Fail, Conclude, MayRollBack, OutcomeHolds, Target, Present, router
  <2> QED BY <2>2, <2>4, <2>5
<1>5. ASSUME NEW r \in Requests, Scan(r) PROVE RouterInv'
  <2>2. AloneInv'
    BY <1>5 DEF Scan, AloneInv, Alone, Goal, Target, Present, router, command
  <2>4. Exclusive'
    BY <1>5 DEF Scan, Exclusive, Present, router
  <2>5. OutcomeHolds'
    BY <1>5 DEF Scan, OutcomeHolds, Target, Present, router
  <2> QED BY <2>2, <2>4, <2>5
<1>6. ASSUME NEW r \in Requests, Check(r) PROVE RouterInv'
  <2>2. AloneInv'
    <3>1. \A s \in Requests : Alone(s)' = Alone(s)
      BY <1>6 DEF Check, Alone, Goal, Target, Present, router
    <3>2. \A s \in Requests : pc'[s] \in {"scan", "check", "select"} =>
                              pc[s] \in {"scan", "check", "select"}
      BY <1>6 DEF Check, Conclude
    <3> QED BY <1>6, <3>1, <3>2 DEF Check, AloneInv, command
  <2>4. Exclusive'
    BY <1>6 DEF Check, Exclusive, Present, router
  <2>5. OutcomeHolds'
    <3>1. UNCHANGED <<router, lock, action, previous, phase>>
      BY <1>6 DEF Check
    <3>2. ASSUME NEW s \in Requests, s # r, pc'[s] = "status" PROVE FALSE
      <4>1. PICK label \in PcValues : pc' = [pc EXCEPT ![r] = label]
        BY <1>6 DEF Check, Conclude
      <4>2. pc[s] \in Holding /\ pc[r] \in Holding
        BY <1>6, <3>2, <4>1 DEF Check, Holding
      <4> QED BY <3>2, <4>2 DEF LockInv
    <3>3. CASE Verified(r)
      <4>1. /\ Alone(r) /\ phase[r] # "stop" /\ modeFile = Goal(r)
            /\ outcome'[r] = IF phase[r] = "rollback" THEN "restored" ELSE "switched"
        BY <1>6, <3>3 DEF Check, Conclude, Verified, AloneInv, LocalsInv
      <4> QED BY <3>1, <3>2, <4>1 DEF OutcomeHolds, Alone, Goal, Target, Present, router
    <3>4. CASE ~Verified(r)
      BY <1>6, <3>2, <3>4 DEF Check, OutcomeHolds
    <3> QED BY <3>3, <3>4
  <2> QED BY <2>2, <2>4, <2>5
<1>7. ASSUME NEW r \in Requests, Retry(r) PROVE RouterInv'
  <2>2. AloneInv'
    BY <1>7 DEF Retry, AloneInv, Alone, Goal, Target, Present, router, command, locals
  <2>4. Exclusive'
    BY <1>7 DEF Retry, Exclusive, Present, router
  <2>5. OutcomeHolds'
    BY <1>7 DEF Retry, OutcomeHolds, Target, Present, router, locals
  <2> QED BY <2>2, <2>4, <2>5
<1>8. ASSUME NEW r \in Requests, GiveUp(r) PROVE RouterInv'
  <2>2. AloneInv'
    BY <1>8
    DEF GiveUp, Fail, Conclude, AloneInv, CommandInv, Alone, Goal, Target, Present, router,
        command
  <2>4. Exclusive'
    BY <1>8 DEF GiveUp, Exclusive, Present, router
  <2>5. OutcomeHolds'
    BY <1>8 DEF GiveUp, Fail, Conclude, OutcomeHolds, Target, Present, router
  <2> QED BY <2>2, <2>4, <2>5
<1>9. ASSUME NEW r \in Requests, Status(r) PROVE RouterInv'
  <2>2. AloneInv'
    BY <1>9 DEF Status, AloneInv, CommandInv, Alone, Goal, Target, Present, router, command
  <2>4. Exclusive'
    BY <1>9 DEF Status, Exclusive, Present, router
  <2>5. OutcomeHolds'
    BY <1>9 DEF Status, OutcomeHolds, Target, Present, router
  <2> QED BY <2>2, <2>4, <2>5
<1>10. ASSUME NEW r \in Requests, Respond(r) \/ LoseResponse(r) PROVE RouterInv'
  <2>2. AloneInv'
    <3>1. ASSUME NEW s \in Requests, s # r PROVE Goal(s)' = Goal(s) /\ pc'[s] = pc[s]
      BY <1>10, <3>1 DEF Respond, LoseResponse, Forget, Goal, Target
    <3>2. pc'[r] = "idle" /\ script'[r] = "none"
      BY <1>10 DEF Respond, LoseResponse, Forget, CommandInv, command
    <3>3. Present' = Present /\ UNCHANGED command
      BY <1>10 DEF Respond, LoseResponse, Forget, Present, router
    <3>4. ASSUME NEW s \in Requests, s # r PROVE Alone(s)' <=> Alone(s)
      BY <3>1, <3>3, <3>4 DEF Alone
    <3>5. phase' = phase
      BY <1>10 DEF Respond, LoseResponse, Forget
    <3> QED BY <3>1, <3>2, <3>3, <3>4, <3>5, ZenonT(40) DEF AloneInv, command
  <2>4. Exclusive'
    BY <1>10 DEF Respond, LoseResponse, Forget, Exclusive, Present, router
  <2>5. OutcomeHolds'
    <3> SUFFICES ASSUME NEW s \in Requests, pc'[s] = "status", outcome'[s] \in {"switched", "restored"}
                 PROVE  LET m == IF outcome'[s] = "switched" THEN Target(s)' ELSE previous'[s]
                        IN  modeFile' = m /\ Present' \cap Others(m) = {}
      BY DEF OutcomeHolds
    <3>1. s # r
      BY <1>10 DEF Respond, LoseResponse, Forget
    <3>2. pc'[s] = pc[s] /\ outcome'[s] = outcome[s] /\ Target(s)' = Target(s) /\ previous'[s] = previous[s]
      BY <1>10, <3>1 DEF Respond, LoseResponse, Forget, Target
    <3>3. Present' = Present /\ modeFile' = modeFile
      BY <1>10 DEF Respond, LoseResponse, Forget, Present, router
    <3> QED BY <3>2, <3>3 DEF OutcomeHolds
  <2> QED BY <2>2, <2>4, <2>5
<1>11. ASSUME NEW r \in Requests, ScriptStops(r) PROVE RouterInv'
  <2>0. pc[r] = "wait" /\ UNCHANGED <<lock, last, pc, locals>>
    BY <1>11 DEF ScriptStops, OnRouter, CommandInv
  <2> USE Bystander DEF Holding
  <2>2. AloneInv'
    BY <1>11, <2>0 DEF ScriptStops, AloneInv, Alone, Goal, Target, Present, locals
  <2>4. Exclusive'
    BY <1>11, <2>0 DEF ScriptStops, Exclusive, Present
  <2>5. OutcomeHolds'
    BY <1>11, <2>0 DEF OutcomeHolds
  <2> QED BY <2>2, <2>4, <2>5
<1>12. ASSUME NEW r \in Requests, ScriptRecords(r) PROVE RouterInv'
  <2>0. pc[r] = "wait" /\ UNCHANGED <<lock, last, pc, locals>>
    BY <1>12 DEF ScriptRecords, OnRouter, CommandInv
  <2> USE Bystander DEF Holding
  <2>2. AloneInv'
    BY <1>12, <2>0 DEF ScriptRecords, AloneInv, Alone, Goal, Target, Present, locals
  <2>4. Exclusive'
    BY <1>12, <2>0 DEF ScriptRecords, Exclusive, Present
  <2>5. OutcomeHolds'
    BY <1>12, <2>0 DEF OutcomeHolds
  <2> QED BY <2>2, <2>4, <2>5
<1>13. ASSUME NEW r \in Requests, ScriptStarts(r) PROVE RouterInv'
  <2>0. pc[r] = "wait" /\ UNCHANGED <<lock, last, pc, locals>>
    BY <1>13 DEF ScriptStarts, OnRouter, CommandInv
  <2> USE Bystander DEF Holding
  <2>2. AloneInv'
    BY <1>13, <2>0, OwnOrOther, SMTT(30)
    DEF ScriptStarts, AloneInv, Alone, Goal, Target, Present, locals
  <2>4. Exclusive'
    <3>1. Alone(r)
      BY <1>13 DEF ScriptStarts, AloneInv
    <3>2. Present' \cap Others(Goal(r)) = {}
      BY <1>13, <3>1, OwnOrOther DEF ScriptStarts, Alone, Present
    <3> QED BY <3>2, AloneIsExclusive DEF Exclusive, Present
  <2>5. OutcomeHolds'
    BY <1>13, <2>0 DEF OutcomeHolds
  <2> QED BY <2>2, <2>4, <2>5
<1>14. ASSUME NEW r \in Requests, NEW x \in {"ok", "error"}, ScriptEnds(r, x) PROVE RouterInv'
  <2>0. pc[r] = "wait" /\ UNCHANGED <<lock, last, pc, locals>>
    BY <1>14 DEF ScriptEnds, OnRouter, CommandInv
  <2>2. AloneInv'
    BY <1>14, <2>0 DEF ScriptEnds, AloneInv, Alone, Goal, Target, Present, router, locals
  <2>4. Exclusive'
    BY <1>14, <2>0 DEF ScriptEnds, Exclusive, Present, router
  <2>5. OutcomeHolds'
    BY <1>14, <2>0 DEF ScriptEnds, OutcomeHolds, Target, Present, router, locals
  <2> QED BY <2>2, <2>4, <2>5
<1>15. ASSUME NEW r \in Requests, ScriptIsKilled(r) PROVE RouterInv'
  <2>0. pc[r] = "wait" /\ UNCHANGED <<lock, last, pc, locals>>
    BY <1>15 DEF ScriptIsKilled, OnRouter, CommandInv
  <2>2. AloneInv'
    BY <1>15, <2>0 DEF ScriptIsKilled, AloneInv, Alone, Goal, Target, Present, router, locals
  <2>4. Exclusive'
    BY <1>15, <2>0 DEF ScriptIsKilled, Exclusive, Present, router
  <2>5. OutcomeHolds'
    BY <1>15, <2>0 DEF ScriptIsKilled, OutcomeHolds, Target, Present, router, locals
  <2> QED BY <2>2, <2>4, <2>5
<1>16. ASSUME NEW p \in Processes, ProcessUp(p) \/ ProcessLost(p) PROVE RouterInv'
  <2>1. Present' \subseteq Present
    BY <1>16 DEF ProcessUp, ProcessLost, Present
  <2>2. AloneInv'
    BY <1>16, <2>1
    DEF ProcessUp, ProcessLost, OnRouter, AloneInv, Alone, Goal, Target, command, locals
  <2>3. Exclusive' /\ OutcomeHolds'
    BY <1>16, <2>1
    DEF ProcessUp, ProcessLost, OnRouter, Exclusive, OutcomeHolds, Target, locals
  <2> QED BY <2>2, <2>3
<1>17. CASE Tick \/ UNCHANGED vars
  BY <1>17
  DEF Tick, vars, router, command, locals, AloneInv, Alone, Goal, Target, Present, Exclusive,
      OutcomeHolds
<1> QED
  BY <1>1, <1>2, <1>3, <1>4, <1>5, <1>6, <1>7, <1>8, <1>9, <1>10, <1>11, <1>12, <1>13,
     <1>14, <1>15, <1>16, <1>17
  DEF Next, Handler, Script

(* The invariant is kept by every step of a handler, a command, a process or the clock. *)
THEOREM IndStep == IndInv /\ [Next]_vars => IndInv'
BY HandlerStep, RouterStep DEF IndInv

(* The invariant holds in every reachable state. *)
THEOREM Invariance == Spec => []IndInv
BY IndInit, IndStep, PTL DEF Spec

(* Type correctness of every behaviour of performAction and its commands, *)
(* each of which is given a known mode, whatever the mode file said.      *)
THEOREM TypeCorrect == Spec => []TypeOK
<1>1. IndInv => TypeOK
  <2> SUFFICES ASSUME IndInv PROVE TypeOK
    OBVIOUS
  <2>1. Typed /\ LocalsInv
    BY DEF IndInv, HandlerInv
  <2>2. \A r \in Requests : Goal(r) \in KnownModes
    BY <2>1, GoalIsKnown
  <2> QED BY <2>1, <2>2 DEF TypeOK
<1> QED BY <1>1, Invariance, PTL

(* README: the two services are forced to exclude each other. *)
THEOREM MutualExclusion == Spec => []Exclusive
BY Invariance, PTL DEF IndInv, HandlerInv, RouterInv

(* What performAction reports as reached is still so when it releases actionMu. *)
THEOREM VerdictHolds == Spec => []OutcomeHolds
BY Invariance, PTL DEF IndInv, HandlerInv, RouterInv

(* The status inside a reply is about the action the reply is about. *)
THEOREM ReplyAgrees == Spec => []ReplyMatchesLast
BY Invariance, PTL DEF IndInv, HandlerInv, RouterInv

-------------------------------------------------------------------------------
(***************************************************************************)
(* The handler implements SerialActions                                    *)
(***************************************************************************)
LEMMA SameVocabulary ==
  /\ Serial!KnownModes = KnownModes /\ Serial!Readings = Readings
  /\ Serial!Supported = Supported /\ Serial!RestartActions = RestartActions
  /\ \A a : Serial!ActionTarget(a) = ActionTarget(a)
BY
DEF Serial!KnownModes, KnownModes, Serial!Services, Services, Serial!Readings, Readings,
    Serial!Supported, Supported, Serial!StartActions, StartActions, Serial!RestartActions,
    RestartActions, Serial!ActionTarget, ActionTarget

LEMMA RefineInit == Init => Serial!Init
<1> SUFFICES ASSUME Init PROVE Serial!Init
  OBVIOUS
<1>1. Stages = [r \in Requests |-> "idle"]
  BY DEF Init, Stages, Stage
<1> QED BY <1>1, SameVocabulary DEF Init, Serial!Init

(* A request moves from one stage to the next *)
LEMMA StageMoves ==
  ASSUME Typed, NEW r \in Requests, NEW label \in PcValues, Goto(r, label)
  PROVE  Stages' = [Stages EXCEPT ![r] = Stage(label)]
BY DEF Stages, Goto, Typed

LEMMA HoldingIsActive == \A label \in PcValues : Stage(label) = "active" <=> label \in Holding
BY DEF Stage, Holding

LEMMA StaysActive ==
  ASSUME Typed, NEW r \in Requests, pc[r] \in Holding, NEW label \in Holding, Goto(r, label)
  PROVE  Stages' = Stages /\ Stages[r] = "active"
<1>1. Stages[r] = "active"
  BY HoldingIsActive DEF Stages, Holding
<1>2. Stages' = [Stages EXCEPT ![r] = "active"]
  BY StageMoves, HoldingIsActive DEF Holding
<1> QED BY <1>1, <1>2 DEF Stages

(* What a command is meant to bring about is what SerialActions allows the request *)
LEMMA GoalMayCome ==
  ASSUME Typed, LocalsInv, NEW r \in Requests
  PROVE  Goal(r) \in Serial!MayBecome(r)
<1>1. CASE phase[r] = "stop"
  BY <1>1, SameVocabulary DEF Goal, Target, LocalsInv, Serial!MayBecome
<1>2. CASE phase[r] = "rollback"
  BY <1>2, SameVocabulary DEF Goal, LocalsInv, Serial!MayBecome, Serial!Restores
<1>3. CASE phase[r] = "switch"
  BY <1>3, SameVocabulary DEF Goal, Target, Serial!MayBecome
<1> QED BY <1>1, <1>2, <1>3 DEF Typed

(* A command or verification that fails ends the request or goes on to the rollback *)
LEMMA RefineFail ==
  ASSUME HandlerInv, NEW r \in Requests, Fail(r), pc[r] \in {"exec", "wait", "select"},
         UNCHANGED <<modeFile, action, previous>>
  PROVE  [Serial!Next]_(Serial!vars)
<1> USE DEF HandlerInv
<1>1. Stages' = Stages /\ Stages[r] = "active"
  <2>1. PICK label \in {"exec", "status"} : Goto(r, label)
    BY DEF Fail, Conclude
  <2> QED BY <2>1, StaysActive DEF Holding, PcValues
<1>2. CASE MayRollBack(r)
  BY <1>1, <1>2 DEF Fail, Serial!vars
<1>3. CASE ~MayRollBack(r)
  <2>1. Serial!Finish(r, "failed")
    BY <1>1, <1>3 DEF Fail, Conclude, Serial!Finish, Serial!Active, LocalsInv, Holding, PcValues
  <2> QED BY <2>1 DEF Serial!Next
<1> QED BY <1>2, <1>3

LEMMA RefineNext == HandlerInv /\ [Next]_vars => [Serial!Next]_(Serial!vars)
<1> SUFFICES ASSUME HandlerInv, [Next]_vars PROVE [Serial!Next]_(Serial!vars)
  OBVIOUS
<1> USE DEF HandlerInv
<1>1. ASSUME NEW r \in Requests, Arrive(r) PROVE Serial!Ask(r)
  <2>1. Stages' = [Stages EXCEPT ![r] = "queued"] /\ Stages[r] = "idle"
    BY <1>1, StageMoves DEF Arrive, Stages, Stage, PcValues
  <2> QED BY <1>1, <2>1 DEF Arrive, Serial!Ask, Serial!Idle, Serial!Move, router
<1>2. ASSUME NEW r \in Requests, Begin(r) PROVE Serial!Start(r)
  <2>1. \A s \in Requests : ~Serial!Active(s)
    BY <1>2, HoldingIsActive DEF Begin, MutexFree, LockInv, Serial!Active, Stages, Typed
  <2>2. Stages' = [Stages EXCEPT ![r] = "active"]
    <3>1. PICK label \in {"exec", "status"} : Goto(r, label)
      BY <1>2 DEF Begin
    <3> QED BY <3>1, StageMoves, HoldingIsActive DEF Holding, PcValues
  <2>3. outcome' = [outcome EXCEPT ![r] = IF action[r] \in Supported THEN "none" ELSE "rejected"]
    BY <1>2 DEF Begin, LocalsInv, Typed
  <2>4. Serial!Queued(r)
    BY <1>2 DEF Begin, Serial!Queued, Stages, Stage
  <2> QED BY <1>2, <2>1, <2>2, <2>3, <2>4, SameVocabulary
          DEF Begin, Serial!Start, Serial!Move, router
<1>3. ASSUME NEW r \in Requests, Exec(r) PROVE [Serial!Next]_(Serial!vars)
  <2>1. CASE ctxLeft[r] = 0
    BY <1>3, <2>1, RefineFail DEF Exec, router
  <2>2. CASE ctxLeft[r] # 0
    <3>1. Stages' = Stages
      BY <1>3, <2>2, StaysActive DEF Exec, Holding, PcValues
    <3> QED BY <1>3, <2>2, <3>1 DEF Exec, Serial!vars, router
  <2> QED BY <2>1, <2>2
<1>4. ASSUME NEW r \in Requests, CommandReturns(r) PROVE [Serial!Next]_(Serial!vars)
  <2>1. CASE ~Succeeded(r)
    BY <1>4, <2>1, RefineFail DEF CommandReturns, router
  <2>2. CASE Succeeded(r)
    <3>1. PICK label \in {"exec", "scan"} : Goto(r, label)
      BY <1>4, <2>2 DEF CommandReturns
    <3>2. Stages' = Stages
      BY <1>4, <3>1, StaysActive DEF CommandReturns, Holding, PcValues
    <3> QED BY <1>4, <2>2, <3>2 DEF CommandReturns, Serial!vars, router
  <2> QED BY <2>1, <2>2
<1>5. ASSUME NEW r \in Requests, Scan(r) \/ Retry(r) PROVE UNCHANGED Serial!vars
  <2>1. PICK label \in {"scan", "check"} : Goto(r, label)
    BY <1>5 DEF Scan, Retry
  <2>2. Stages' = Stages
    BY <1>5, <2>1, StaysActive DEF Scan, Retry, Holding, PcValues
  <2> QED BY <1>5, <2>2 DEF Scan, Retry, Serial!vars, router, locals
<1>6. ASSUME NEW r \in Requests, Check(r) PROVE [Serial!Next]_(Serial!vars)
  <2>1. PICK label \in {"status", "select"} : Goto(r, label)
    BY <1>6 DEF Check, Conclude
  <2>2. Stages' = Stages /\ Stages[r] = "active"
    BY <1>6, <2>1, StaysActive DEF Check, Holding, PcValues
  <2>3. CASE Verified(r)
    <3>1. CASE phase[r] = "rollback"
      <4>1. modeFile = previous[r] /\ Serial!Restores(r)
        BY <1>6, <2>3, <3>1, SameVocabulary DEF Verified, Goal, LocalsInv, Serial!Restores, Target
      <4>2. Serial!Finish(r, "restored")
        BY <1>6, <2>2, <2>3, <3>1, <4>1
        DEF Check, Conclude, Serial!Finish, Serial!Active, LocalsInv, Holding, PcValues, router
      <4> QED BY <4>2 DEF Serial!Next
    <3>2. CASE phase[r] # "rollback"
      <4>1. modeFile = Target(r)
        BY <1>6, <2>3, <3>2 DEF Verified, Goal, Check, LocalsInv
      <4>2. Serial!Finish(r, "switched")
        BY <1>6, <2>2, <2>3, <3>2, <4>1, SameVocabulary
        DEF Check, Conclude, Serial!Finish, Serial!Active, LocalsInv, Holding, PcValues, router,
            Target
      <4> QED BY <4>2 DEF Serial!Next
    <3> QED BY <3>1, <3>2
  <2>4. CASE ~Verified(r)
    BY <1>6, <2>2, <2>4 DEF Check, Serial!vars, router
  <2> QED BY <2>3, <2>4
<1>7. ASSUME NEW r \in Requests, GiveUp(r) PROVE [Serial!Next]_(Serial!vars)
  BY <1>7, RefineFail DEF GiveUp, router
<1>8. ASSUME NEW r \in Requests, Status(r) PROVE Serial!Release(r)
  BY <1>8, StageMoves
  DEF Status, Serial!Release, Serial!Active, Serial!Move, Stages, Stage, LocalsInv, PcValues,
      router
<1>9. ASSUME NEW r \in Requests, Respond(r) \/ LoseResponse(r) PROVE Serial!Leave(r)
  BY <1>9, StageMoves
  DEF Respond, LoseResponse, Forget, Serial!Leave, Serial!Done, Serial!Move, Stages, Stage,
      PcValues, router
<1>10. ASSUME NEW r \in Requests, ScriptRecords(r) PROVE Serial!Change(r)
  <2>1. pc[r] = "wait"
    BY <1>10 DEF ScriptRecords, CommandInv
  <2>2. Goal(r) \in Serial!MayBecome(r)
    BY GoalMayCome
  <2>3. Serial!Active(r) /\ outcome[r] = "none"
    BY <2>1 DEF Serial!Active, Stages, Stage, LocalsInv, Holding, PcValues
  <2> QED BY <1>10, <2>2, <2>3 DEF ScriptRecords, OnRouter, Serial!Change, Stages, locals
<1>11. ASSUME NEW r \in Requests, NEW x \in {"ok", "error"},
              ScriptStops(r) \/ ScriptStarts(r) \/ ScriptEnds(r, x) \/ ScriptIsKilled(r)
       PROVE  UNCHANGED Serial!vars
  BY <1>11
  DEF ScriptStops, ScriptStarts, ScriptEnds, ScriptIsKilled, OnRouter, Serial!vars, Stages,
      router, locals
<1>12. ASSUME NEW p \in Processes, ProcessUp(p) \/ ProcessLost(p) PROVE UNCHANGED Serial!vars
  BY <1>12 DEF ProcessUp, ProcessLost, OnRouter, Serial!vars, Stages, locals
<1>13. CASE Tick \/ UNCHANGED vars
  BY <1>13 DEF Tick, vars, Serial!vars, Stages, router, locals
<1> QED
  BY <1>1, <1>2, <1>3, <1>4, <1>5, <1>6, <1>7, <1>8, <1>9, <1>10, <1>11, <1>12, <1>13
  DEF Next, Handler, Script, Serial!Next

(* README: all write operations run one after another and are verified when they are done. *)
THEOREM HandlerImplementsSerial == Spec => ImplementsSerial
<1>1. Spec => Serial!Init /\ [][Serial!Next]_(Serial!vars)
  BY RefineInit, RefineNext, Invariance, PTL DEF Spec, IndInv
<1> QED BY <1>1 DEF ImplementsSerial, Serial!Spec

===============================================================================
