---------------------------- MODULE NodeGuard_proofs ----------------------------
(***************************************************************************)
(* Theorems about NodeGuard, for any set of requests.                      *)
(***************************************************************************)
EXTENDS NodeGuard, TLAPS

USE NodeGuardAssumption

(* The invariant initially holds. *)
LEMMA IndInit == Init => IndInv
<1> SUFFICES ASSUME Init PROVE IndInv
  OBVIOUS
<1>1. original \in [Clients -> Tables] /\ crond \in Entries
  BY DEF Init, Blank, Tables, Entries, Others
<1>5. table \in Tables /\ edited \in Others
  BY DEF Init, Tables, Others
<1>2. TypeOK
  BY <1>1, <1>5 DEF Init, TypeOK, PcValues, NodeGuardActions
<1>3. HolderInv
  BY DEF Init, HolderInv, Updating, Rewriting
<1>4. UpdateInv /\ LinesInv /\ EntryInv
  BY DEF Init, UpdateInv, LinesInv, EntryInv, Updating, Rewriting
<1> QED BY <1>2, <1>3, <1>4 DEF IndInv

-------------------------------------------------------------------------------
(***************************************************************************)
(* Types                                                                   *)
(***************************************************************************)
(* The table that an update writes is one that the console can read. *)
LEMMA UpdatedIsTable == \A t \in Tables : \A a : Updated(t, a) \in Tables
BY DEF Updated, Tables, Entries

(* No step of a handler, the goroutine or the surroundings leaves the types. *)
THEOREM TypeStep == TypeOK /\ [Next]_vars => TypeOK'
<1> SUFFICES ASSUME TypeOK, [Next]_vars PROVE TypeOK'
  OBVIOUS
<1>0. Blank \in Tables /\ "run" \in NodeGuardActions
  BY DEF Blank, Tables, Entries, Others, NodeGuardActions
<1> USE <1>0 DEF TypeOK, Goto, PcValues, Updating, Rewriting, scheduler, handlers, others
<1>1. ASSUME NEW c \in Clients, UNCHANGED others,
             PostArrives(c) \/ Conflict(c) \/ Take(c) \/ NotInstalled(c) \/ StartRun(c) \/ StartUpdate(c)
      PROVE  TypeOK'
  <2>1. CASE PostArrives(c)
    BY <1>1, <2>1 DEF PostArrives
  <2>2. CASE Conflict(c)
    BY <1>1, <2>2 DEF Conflict, Drop
  <2>3. CASE Take(c)
    BY <1>1, <2>3 DEF Take
  <2>4. CASE NotInstalled(c)
    BY <1>1, <2>4 DEF NotInstalled, Leave, Drop
  <2>5. CASE StartRun(c)
    BY <1>1, <2>5 DEF StartRun, Drop
  <2>6. CASE StartUpdate(c)
    BY <1>1, <2>6 DEF StartUpdate
  <2> QED BY <1>1, <2>1, <2>2, <2>3, <2>4, <2>5, <2>6
<1>2. ASSUME NEW c \in Clients, UNCHANGED others, ReadTable(c) \/ WriteTable(c) \/ RestartFails(c) \/ Undo(c)
      PROVE  TypeOK'
  <2>1. CASE ReadTable(c)
    BY <1>2, <2>1 DEF ReadTable
  <2>2. CASE WriteTable(c)
    BY <1>2, <2>2, UpdatedIsTable DEF WriteTable
  <2>3. CASE RestartFails(c)
    BY <1>2, <2>3 DEF RestartFails, LeftSomehow, Tables, Entries
  <2>4. CASE Undo(c)
    BY <1>2, <2>4 DEF Undo
  <2> QED BY <1>2, <2>1, <2>2, <2>3, <2>4
<1>3. ASSUME NEW c \in Clients, UNCHANGED others, Unchanged(c) \/ TableFails(c) \/ RestartWorks(c) \/ Again(c)
      PROVE  TypeOK'
  <2>1. PICK result \in {"ok", "error"} : Reply(c, result)
    BY <1>3 DEF Unchanged, TableFails, RestartWorks, Again
  <2>2. table' = table
    BY <1>3 DEF Unchanged, TableFails, RestartWorks, Again
  <2>3. crond' \in Entries \cup {"down"} /\ spoilt' \in BOOLEAN
    BY <1>3 DEF Unchanged, TableFails, RestartWorks, Again, Follows, LeftSomehow, Tables
  <2> QED BY <1>3, <2>1, <2>2, <2>3 DEF Reply, Drop
<1>4. ASSUME NEW c \in Clients, UNCHANGED others,
             GetArrives(c) \/ Scan(c) \/ Probe(c) \/ Unlock(c) \/ Answer(c)
      PROVE  TypeOK'
  BY <1>4 DEF GetArrives, Scan, Probe, Unlock, Answer
<1>5. CASE (RunStarts \/ RunEnds) /\ UNCHANGED others
  BY <1>5 DEF RunStarts, RunEnds
<1>6. ASSUME NEW j \in {"console", "orphan", "cron"}, JobEnds(j), UNCHANGED others PROVE TypeOK'
  BY <1>6 DEF JobEnds
<1>7. CASE (CronFires \/ CronReloads) /\ UNCHANGED others
  BY <1>7 DEF CronFires, CronReloads, Follows, Tables
<1>8. CASE Crash /\ UNCHANGED others
  BY <1>8 DEF Crash
<1>9. CASE UNCHANGED vars
  BY <1>9 DEF vars
<1>10. CASE OthersEdit
  <2>1. PICK other \in Others, layout \in BOOLEAN : table' = [table EXCEPT !.rest = other, !.tidy = layout] /\ edited' = other
    BY <1>10 DEF OthersEdit
  <2>2. table' \in Tables
    BY <2>1 DEF Tables
  <2>3. raced' \in BOOLEAN
    BY <1>10 DEF OthersEdit
  <2> QED BY <1>10, <2>1, <2>2, <2>3 DEF OthersEdit
<1> QED
  BY <1>1, <1>2, <1>3, <1>4, <1>5, <1>6, <1>7, <1>8, <1>9, <1>10 DEF Next, Console, Handle

-------------------------------------------------------------------------------
(***************************************************************************)
(* The mutex                                                               *)
(***************************************************************************)
(* Whoever is past its TryLock, and nobody else, holds nodeGuardMu. *)
THEOREM HolderStep == TypeOK /\ HolderInv /\ [Next]_vars => HolderInv'
<1> SUFFICES ASSUME TypeOK, HolderInv, [Next]_vars PROVE HolderInv'
  OBVIOUS
<1> USE DEF TypeOK, HolderInv, Goto, PcValues, Updating, Rewriting, MutexFree
<1>1. ASSUME NEW c \in Clients,
             PostArrives(c) \/ Conflict(c) \/ GetArrives(c) \/ Scan(c) \/ Answer(c)
      PROVE  HolderInv'
  BY <1>1 DEF PostArrives, Conflict, GetArrives, Scan, Answer
<1>2. ASSUME NEW c \in Clients, Take(c) \/ NotInstalled(c) PROVE HolderInv'
  BY <1>2 DEF Take, Takes, NotInstalled, Leave
<1>3. ASSUME NEW c \in Clients, StartRun(c) PROVE HolderInv'
  BY <1>3 DEF StartRun
<1>4. ASSUME NEW c \in Clients,
             \/ StartUpdate(c) \/ ReadTable(c) \/ WriteTable(c) \/ RestartFails(c) \/ Undo(c)
      PROVE  HolderInv'
  BY <1>4 DEF StartUpdate, ReadTable, WriteTable, RestartFails, Undo
<1>5. ASSUME NEW c \in Clients, Unchanged(c) \/ TableFails(c) \/ RestartWorks(c) \/ Again(c)
      PROVE  HolderInv'
  <2>1. PICK result : Reply(c, result) /\ pc[c] \in Updating
    BY <1>5 DEF Unchanged, TableFails, RestartWorks, Again
  <2> QED BY <2>1 DEF Reply
<1>6. ASSUME NEW c \in Clients, Probe(c) \/ Unlock(c) PROVE HolderInv'
  BY <1>6 DEF Probe, Unlock
<1>7. CASE RunStarts \/ RunEnds
  BY <1>7 DEF RunStarts, RunEnds, handlers
<1>8. ASSUME NEW j \in {"console", "orphan", "cron"}, JobEnds(j) PROVE HolderInv'
  BY <1>8 DEF JobEnds, handlers
<1>9. CASE CronFires \/ CronReloads \/ OthersEdit \/ UNCHANGED vars
  BY <1>9 DEF CronFires, CronReloads, OthersEdit, vars, handlers
<1>10. CASE Crash
  BY <1>10 DEF Crash
<1> QED
  BY <1>1, <1>2, <1>3, <1>4, <1>5, <1>6, <1>7, <1>8, <1>9, <1>10 DEF Next, Console, Handle

-------------------------------------------------------------------------------
(***************************************************************************)
(* The table and crond                                                     *)
(***************************************************************************)
(* crond and the table are apart only from the write of an update to its   *)
(* end, or after an update that was cut short.                             *)
THEOREM UpdateStep == IndInv /\ [Next]_vars => UpdateInv'
<1> SUFFICES ASSUME IndInv, [Next]_vars PROVE UpdateInv'
  OBVIOUS
<1> USE DEF IndInv, TypeOK, UpdateInv, Goto, PcValues, Updating, Rewriting, scheduler
<1>1. ASSUME NEW c \in Clients,
             \/ PostArrives(c) \/ Conflict(c) \/ Take(c) \/ NotInstalled(c) \/ StartRun(c)
             \/ StartUpdate(c) \/ ReadTable(c) \/ GetArrives(c) \/ Scan(c) \/ Probe(c)
             \/ Unlock(c) \/ Answer(c)
      PROVE  UpdateInv'
  <2>1. UNCHANGED <<table, crond, spoilt>>
    BY <1>1
    DEF PostArrives, Conflict, Take, NotInstalled, StartRun, StartUpdate, ReadTable, GetArrives,
        Scan, Probe, Unlock, Answer
  <2>2. \A d \in Clients : pc[d] \in {"restart", "undo", "again"} => pc'[d] = pc[d]
    BY <1>1
    DEF PostArrives, Conflict, Take, Takes, NotInstalled, Leave, StartRun, StartUpdate, ReadTable,
        GetArrives, Scan, Probe, Unlock, Answer
  <2> QED BY <2>1, <2>2
<1>2. ASSUME NEW c \in Clients, WriteTable(c) \/ RestartFails(c) \/ Undo(c) PROVE UpdateInv'
  BY <1>2 DEF WriteTable, RestartFails, Undo
<1>3. ASSUME NEW c \in Clients, RestartWorks(c) \/ Again(c) PROVE UpdateInv'
  BY <1>3 DEF RestartWorks, Again, Follows
<1>4. ASSUME NEW c \in Clients, Unchanged(c) \/ TableFails(c) PROVE UpdateInv'
  <2>1. PICK result : pc[c] \in {"read", "write"} /\ Reply(c, result) /\ UNCHANGED <<table, crond, spoilt>>
    BY <1>4 DEF Unchanged, TableFails
  <2> QED BY <2>1 DEF Reply
<1>5. CASE RunStarts \/ RunEnds \/ CronFires \/ UNCHANGED vars
  BY <1>5 DEF RunStarts, RunEnds, CronFires, vars, handlers
<1>6. ASSUME NEW j \in {"console", "orphan", "cron"}, JobEnds(j) PROVE UpdateInv'
  BY <1>6 DEF JobEnds, handlers
<1>7. CASE CronReloads
  BY <1>7 DEF CronReloads, Follows
<1>8. CASE Crash
  BY <1>8 DEF Crash
<1>9. CASE OthersEdit
  <2>1. table'.guard = table.guard /\ UNCHANGED <<pc, crond, spoilt>>
    BY <1>9 DEF OthersEdit, Tables, handlers
  <2> QED BY <2>1
<1> QED
  BY <1>1, <1>2, <1>3, <1>4, <1>5, <1>6, <1>7, <1>8, <1>9 DEF Next, Console, Handle

(* An update changes the entry it has read only to what was asked for, and *)
(* back: nobody else touches it meanwhile.                                 *)
THEOREM EntryStep == TypeOK /\ HolderInv /\ EntryInv /\ [Next]_vars => EntryInv'
<1> SUFFICES ASSUME TypeOK, HolderInv, EntryInv, [Next]_vars PROVE EntryInv'
  OBVIOUS
<1>0. /\ pc \in [Clients -> PcValues] /\ original \in [Clients -> Tables] /\ table \in Tables
      /\ ask \in [Clients -> NodeGuardActions]
  BY DEF TypeOK
<1>1. ASSUME table'.guard = table.guard,
             \A d \in Clients : pc'[d] \in Updating =>
               pc'[d] = pc[d] /\ ask'[d] = ask[d] /\ original'[d] = original[d]
      PROVE  EntryInv'
  BY <1>1 DEF EntryInv, Updated, Updating, Rewriting
<1>2. ASSUME NEW c \in Clients, pc[c] \in Updating,
             \A d \in Clients \ {c} : pc'[d] = pc[d],
             /\ pc'[c] \in Updating => ask'[c] \in {"enable", "disable"}
             /\ pc'[c] = "write" => table'.guard = original'[c].guard
             /\ pc'[c] = "restart" => table'.guard = Updated(original'[c], ask'[c]).guard
             /\ pc'[c] \in {"undo", "again"} =>
                  table'.guard \in {original'[c].guard, Updated(original'[c], ask'[c]).guard}
      PROVE  EntryInv'
  <2>1. \A d \in Clients \ {c} : pc'[d] \notin Updating
    BY <1>2 DEF HolderInv
  <2> QED BY <1>2, <2>1 DEF EntryInv, Updating, Rewriting
<1>3. ASSUME NEW c \in Clients,
             \/ PostArrives(c) \/ Conflict(c) \/ Take(c) \/ NotInstalled(c) \/ StartRun(c)
             \/ GetArrives(c) \/ Scan(c) \/ Probe(c) \/ Unlock(c) \/ Answer(c)
      PROVE  EntryInv'
  <2>1. table' = table
    BY <1>3 DEF PostArrives, Conflict, Take, NotInstalled, StartRun, GetArrives, Scan, Probe, Unlock,
                Answer, scheduler
  <2>2. original' = original
    BY <1>3 DEF PostArrives, Conflict, Take, NotInstalled, StartRun, GetArrives, Scan, Probe, Unlock,
                Answer
  <2>3. pc'[c] \notin Updating /\ \A d \in Clients \ {c} : pc'[d] = pc[d]
    BY <1>0, <1>3 DEF PostArrives, Conflict, Take, NotInstalled, Leave, StartRun, GetArrives, Scan,
                      Probe, Unlock, Answer, Goto, Updating, Rewriting
  <2>4. \A d \in Clients \ {c} : ask'[d] = ask[d]
    BY <1>0, <1>3 DEF PostArrives, Conflict, Take, NotInstalled, Leave, StartRun, GetArrives, Scan,
                      Probe, Unlock, Answer, Drop
  <2> QED BY <1>1, <2>1, <2>2, <2>3, <2>4
<1>4. ASSUME NEW c \in Clients, StartUpdate(c) PROVE EntryInv'
  <2>1. pc'[c] = "read" /\ ask'[c] \in {"enable", "disable"}
    BY <1>0, <1>4 DEF StartUpdate, Goto, NodeGuardActions
  <2>2. \A d \in Clients \ {c} : pc'[d] = pc[d]
    BY <1>0, <1>4 DEF StartUpdate, Goto
  <2>3. UNCHANGED <<table, original, ask>>
    BY <1>4 DEF StartUpdate, scheduler
  <2> QED BY <2>1, <2>2, <2>3 DEF EntryInv, Updated, Updating, Rewriting
<1>5. ASSUME NEW c \in Clients, ReadTable(c) \/ WriteTable(c) \/ RestartFails(c) \/ Undo(c)
      PROVE  EntryInv'
  <2>1. pc[c] \in Updating /\ ask[c] \in {"enable", "disable"} /\ ask' = ask
    BY <1>5 DEF ReadTable, WriteTable, RestartFails, Undo, EntryInv, Updating, Rewriting
  <2>2. \A d \in Clients \ {c} : pc'[d] = pc[d]
    BY <1>0, <1>5 DEF ReadTable, WriteTable, RestartFails, Undo, Goto
  <2>3. CASE ReadTable(c)
    <3>1. pc'[c] = "write" /\ original'[c] = table /\ table' = table
      BY <1>0, <2>3 DEF ReadTable, Goto, scheduler
    <3> QED BY <1>2, <2>1, <2>2, <3>1
  <2>4. CASE WriteTable(c)
    <3>1. pc'[c] = "restart" /\ original' = original /\ table' = Updated(original[c], ask[c])
      BY <1>0, <2>4 DEF WriteTable, Goto
    <3> QED BY <1>2, <2>1, <2>2, <3>1
  <2>5. CASE RestartFails(c)
    <3>1. pc'[c] = "undo" /\ original' = original /\ table' = table
      BY <1>0, <2>5 DEF RestartFails, Goto
    <3>2. table.guard = Updated(original[c], ask[c]).guard
      BY <2>5 DEF RestartFails, EntryInv
    <3> QED BY <1>2, <2>1, <2>2, <3>1, <3>2
  <2>6. CASE Undo(c)
    <3>1. pc'[c] = "again" /\ original' = original /\ table' \in {original[c], table}
      BY <1>0, <2>6 DEF Undo, Goto
    <3>2. table.guard \in {original[c].guard, Updated(original[c], ask[c]).guard}
      BY <2>6 DEF Undo, EntryInv
    <3> QED BY <1>2, <2>1, <2>2, <3>1, <3>2
  <2> QED BY <1>5, <2>3, <2>4, <2>5, <2>6
<1>6. ASSUME NEW c \in Clients, Unchanged(c) \/ TableFails(c) \/ RestartWorks(c) \/ Again(c)
      PROVE  EntryInv'
  <2>1. PICK result : Reply(c, result) /\ pc[c] \in Updating
    BY <1>6 DEF Unchanged, TableFails, RestartWorks, Again, Updating, Rewriting
  <2>2. pc'[c] = "scan" /\ \A d \in Clients \ {c} : pc'[d] = pc[d]
    BY <1>0, <2>1 DEF Reply, Goto
  <2> QED BY <1>2, <2>1, <2>2 DEF Updating, Rewriting
<1>7. CASE \/ RunStarts \/ RunEnds \/ CronFires \/ CronReloads \/ UNCHANGED vars
           \/ \E j \in {"console", "orphan", "cron"} : JobEnds(j)
  <2>1. UNCHANGED <<pc, ask, original, table>>
    BY <1>7 DEF RunStarts, RunEnds, CronFires, CronReloads, JobEnds, vars, handlers, scheduler
  <2> QED BY <1>1, <2>1
<1>8. CASE Crash
  BY <1>1, <1>8 DEF Crash, Updating, Rewriting
<1>9. CASE OthersEdit
  <2>1. table'.guard = table.guard /\ UNCHANGED <<pc, ask, original>>
    BY <1>0, <1>9 DEF OthersEdit, Tables, handlers
  <2> QED BY <1>1, <2>1
<1> QED
  BY <1>3, <1>4, <1>5, <1>6, <1>7, <1>8, <1>9 DEF Next, Console, Handle

(* What an update is going to write, or to write back, has the lines of    *)
(* others, unless they were changed after it had read the table.           *)
THEOREM LinesStep == TypeOK /\ HolderInv /\ LinesInv /\ [Next]_vars => LinesInv'
<1> SUFFICES ASSUME TypeOK, HolderInv, LinesInv, [Next]_vars PROVE LinesInv'
  OBVIOUS
<1> USE DEF LinesInv
<1>0. pc \in [Clients -> PcValues] /\ original \in [Clients -> Tables] /\ table \in Tables
  BY DEF TypeOK
<1>1. ASSUME UNCHANGED <<table, original, edited, raced>>,
             \A c \in Clients : pc'[c] \in Rewriting => pc[c] \in Rewriting
      PROVE  LinesInv'
  BY <1>1
<1>2. ASSUME NEW c \in Clients, UNCHANGED others,
             \/ PostArrives(c) \/ Conflict(c) \/ Take(c) \/ NotInstalled(c) \/ StartRun(c)
             \/ StartUpdate(c) \/ RestartFails(c) \/ GetArrives(c) \/ Scan(c) \/ Probe(c)
             \/ Unlock(c) \/ Answer(c)
      PROVE  LinesInv'
  <2>1. UNCHANGED <<table, original, edited, raced>>
    BY <1>2
    DEF PostArrives, Conflict, Take, NotInstalled, StartRun, StartUpdate, RestartFails, GetArrives,
        Scan, Probe, Unlock, Answer, scheduler, others
  <2>2. pc'[c] \in Rewriting => pc[c] \in Rewriting
    BY <1>0, <1>2
    DEF PostArrives, Conflict, Take, NotInstalled, Leave, StartRun, StartUpdate, RestartFails,
        GetArrives, Scan, Probe, Unlock, Answer, Goto, Rewriting
  <2>3. \A d \in Clients \ {c} : pc'[d] = pc[d]
    BY <1>0, <1>2
    DEF PostArrives, Conflict, Take, NotInstalled, Leave, StartRun, StartUpdate, RestartFails,
        GetArrives, Scan, Probe, Unlock, Answer, Goto
  <2> QED BY <1>1, <2>1, <2>2, <2>3
<1>3. ASSUME NEW c \in Clients, UNCHANGED others, ReadTable(c) PROVE LinesInv'
  <2>1. /\ table' = table /\ original'[c] = table
        /\ \A d \in Clients \ {c} : pc'[d] = pc[d] /\ original'[d] = original[d]
    BY <1>0, <1>3 DEF ReadTable, Goto, scheduler
  <2> QED BY <1>3, <2>1 DEF others
<1>4. ASSUME NEW c \in Clients, UNCHANGED others, WriteTable(c) \/ Undo(c) PROVE LinesInv'
  <2>1. pc[c] \in Rewriting /\ original' = original
    BY <1>4 DEF WriteTable, Undo, Rewriting
  <2>2. table'.rest \in {original[c].rest, table.rest}
    BY <1>4 DEF WriteTable, Undo, Updated
  <2>3. \A d \in Clients \ {c} : pc'[d] = pc[d]
    BY <1>0, <1>4 DEF WriteTable, Undo, Goto
  <2> QED BY <1>4, <2>1, <2>2, <2>3 DEF others
<1>5. ASSUME NEW c \in Clients, UNCHANGED others,
             Unchanged(c) \/ TableFails(c) \/ RestartWorks(c) \/ Again(c)
      PROVE  LinesInv'
  <2>1. PICK result : Reply(c, result) /\ table' = table
    BY <1>5 DEF Unchanged, TableFails, RestartWorks, Again, scheduler
  <2>2. pc'[c] = "scan" /\ \A d \in Clients \ {c} : pc'[d] = pc[d] /\ original'[d] = original[d]
    BY <1>0, <2>1 DEF Reply, Goto
  <2> QED BY <1>5, <2>1, <2>2 DEF others, Rewriting
<1>6. ASSUME UNCHANGED others,
             \/ RunStarts \/ RunEnds \/ CronFires \/ CronReloads \/ UNCHANGED vars
             \/ \E j \in {"console", "orphan", "cron"} : JobEnds(j)
      PROVE  LinesInv'
  <2>1. UNCHANGED <<table, original, edited, raced, pc>>
    BY <1>6 DEF RunStarts, RunEnds, CronFires, CronReloads, JobEnds, vars, handlers, scheduler, others
  <2> QED BY <1>1, <2>1
<1>7. CASE Crash /\ UNCHANGED others
  BY <1>7 DEF Crash, others, Rewriting
<1>8. CASE OthersEdit
  <2>1. table'.rest = edited'
    BY <1>0, <1>8 DEF OthersEdit, Tables
  <2>2. ~raced' => \A c \in Clients : pc'[c] \notin Rewriting
    BY <1>8 DEF OthersEdit, handlers
  <2> QED BY <2>1, <2>2
<1>9. CASE UNCHANGED vars
  BY <1>6, <1>9 DEF vars
<1> QED
  BY <1>2, <1>3, <1>4, <1>5, <1>6, <1>7, <1>8, <1>9 DEF Next, Console, Handle

-------------------------------------------------------------------------------
(* The inductive invariant holds throughout. *)
THEOREM Invariance == Spec => []IndInv
<1>1. IndInv /\ [Next]_vars => IndInv'
  BY TypeStep, HolderStep, UpdateStep, EntryStep, LinesStep DEF IndInv
<1> QED BY IndInit, <1>1, PTL DEF Spec

(* Every variable stays within its type. *)
THEOREM TypeCorrect == Spec => []TypeOK
BY Invariance, PTL DEF IndInv

(* Two operations on the guard never overlap, though the mutex of a run is *)
(* taken by the handler and released by the goroutine.                     *)
THEOREM OperationsExclude == Spec => []OneOperation
<1>1. IndInv => OneOperation
  BY DEF IndInv, HolderInv, OneOperation, Updating
<1> QED BY <1>1, Invariance, PTL

(* crond follows the table unless an update was cut short. *)
THEOREM CrondFollows == Spec => []InStep
<1>1. IndInv => InStep
  BY DEF IndInv, UpdateInv, InStep, Updating, Rewriting
<1> QED BY <1>1, Invariance, PTL

(* No update, no rollback and no death of the console undoes what somebody *)
(* else wrote in the table, unless that was while an update was under way. *)
THEOREM OthersKeepTheirs == Spec => []LinesSurvive
<1>1. IndInv => LinesSurvive
  BY DEF IndInv, LinesInv, LinesSurvive
<1> QED BY <1>1, Invariance, PTL

-------------------------------------------------------------------------------
(***************************************************************************)
(* The handlers implement the schedule                                     *)
(***************************************************************************)
(* The entry an update began with is the one its handler has read *)
LEMMA BeforeIs ==
  ASSUME HolderInv
  PROVE  /\ (\A c \in Clients : pc[c] \notin Rewriting) => Before = table.guard
         /\ \A c \in Clients : pc[c] \in Rewriting => Before = original[c].guard
BY DEF HolderInv, Before, Updating

LEMMA BeforeBecomes ==
  ASSUME HolderInv'
  PROVE  /\ (\A c \in Clients : pc'[c] \notin Rewriting) => Before' = table'.guard
         /\ \A c \in Clients : pc'[c] \in Rewriting => Before' = original'[c].guard
BY DEF HolderInv, Before, Updating

(* A step in which no update begins, ends or reads the table *)
LEMMA UpdatesStay ==
  ASSUME HolderInv, HolderInv',
         \A d \in Clients : pc'[d] \in Updating <=> pc[d] \in Updating,
         \A d \in Clients : pc'[d] \in Rewriting <=> pc[d] \in Rewriting,
         \A d \in Clients : pc[d] \in Updating => ask'[d] = ask[d] /\ original'[d] = original[d],
         table'.guard = table.guard \/ \E d \in Clients : pc[d] \in Rewriting
  PROVE  Doing' = Doing /\ Before' = Before
<1>1. Doing' = Doing
  BY DEF Doing
<1>2. CASE \E d \in Clients : pc[d] \in Rewriting
  BY <1>1, <1>2, BeforeIs, BeforeBecomes DEF Updating
<1>3. CASE \A d \in Clients : pc[d] \notin Rewriting
  BY <1>1, <1>3, BeforeIs, BeforeBecomes
<1> QED BY <1>1, <1>2, <1>3

(* One update at a time, and none beside a check of the console *)
LEMMA OnlyHolder ==
  ASSUME HolderInv, NEW c \in Clients, pc[c] \in Updating \cup {"stat"}
  PROVE  run = "none" /\ \A d \in Clients \ {c} : pc[d] \notin Updating
BY DEF HolderInv

(* The wish of an update, and what the table says while it changes it *)
LEMMA UpdateWants ==
  ASSUME EntryInv, NEW c \in Clients, pc[c] \in Updating
  PROVE  /\ Doing[c] = ask[c] /\ Doing[c] # "none"
         /\ \A t : Updated(t, ask[c]).guard = Schedule!Wanted(Doing[c])
BY DEF EntryInv, Doing, Updated, Schedule!Wanted

LEMMA ScheduleStarts == Init => Schedule!ScheduleInit
BY DEF Init, Schedule!ScheduleInit, Schedule!Quiet, Doing, Before, Updating, Rewriting

(* An update that ends leaves the entry to the next one *)
LEMMA UpdateEnds ==
  ASSUME IndInv, IndInv', NEW c \in Clients, pc[c] \in Updating, NEW result, Reply(c, result),
         table' = table, LeftSomehow
  PROVE  Schedule!Ends(c, result) /\ \A d \in Clients : pc'[d] \notin Updating
<1>1. pc'[c] = "scan" /\ \A d \in Clients \ {c} : pc'[d] = pc[d] /\ ask'[d] = ask[d]
  BY DEF IndInv, TypeOK, Reply, Goto, Drop
<1>2. \A d \in Clients : pc'[d] \notin Updating
  BY <1>1, OnlyHolder DEF IndInv, Updating, Rewriting
<1>3. Doing' = [Doing EXCEPT ![c] = "none"]
  BY <1>2, OnlyHolder DEF Doing, IndInv
<1>4. Before' = table.guard
  BY <1>2, BeforeBecomes DEF IndInv, Updating
<1>5. Doing[c] # "none"
  BY UpdateWants DEF IndInv
<1> QED BY <1>2, <1>3, <1>4, <1>5 DEF Schedule!Ends, Reply, LeftSomehow

(* Each step of a handler, of the goroutine and of the surroundings is one *)
(* of the schedule, or does not show in it.                                *)
LEMMA ScheduleStep ==
  IndInv /\ IndInv' /\ [Next]_vars => [Schedule!ScheduleNext]_(Schedule!scheduleVars)
<1> SUFFICES ASSUME IndInv, IndInv', [Next]_vars
             PROVE  [Schedule!ScheduleNext]_(Schedule!scheduleVars)
  OBVIOUS
<1> USE DEF IndInv
<1> DEFINE Simulated == [Schedule!ScheduleNext]_(Schedule!scheduleVars)
<1>0. /\ pc \in [Clients -> PcValues] /\ original \in [Clients -> Tables] /\ table \in Tables
      /\ ask \in [Clients -> NodeGuardActions] /\ told \in [Clients -> {"none", "ok", "error"}]
  BY DEF TypeOK
<1>1. ASSUME NEW c \in Clients,
             \/ PostArrives(c) \/ Conflict(c) \/ Take(c) \/ NotInstalled(c) \/ GetArrives(c)
             \/ Scan(c) \/ Probe(c) \/ Unlock(c) \/ Answer(c)
      PROVE  Simulated
  <2>1. pc[c] \notin Updating /\ pc'[c] \notin Updating
    BY <1>0, <1>1 DEF PostArrives, Conflict, Take, Takes, NotInstalled, Leave, GetArrives, Scan,
                      Probe, Unlock, Answer, Goto, Updating, Rewriting
  <2>2. \A d \in Clients \ {c} : pc'[d] = pc[d] /\ ask'[d] = ask[d]
    BY <1>0, <1>1 DEF PostArrives, Conflict, Take, NotInstalled, Leave, GetArrives, Scan, Probe,
                      Unlock, Answer, Goto, Drop
  <2>3. UNCHANGED <<original, run, table, crond, spoilt>>
    BY <1>1 DEF PostArrives, Conflict, Take, NotInstalled, GetArrives, Scan, Probe, Unlock, Answer,
                scheduler
  <2>4. Doing' = Doing /\ Before' = Before
    BY <2>1, <2>2, <2>3, UpdatesStay DEF Updating
  <2>5. told' = told \/ told' = [told EXCEPT ![c] = "none"]
    BY <1>1 DEF PostArrives, Conflict, Take, NotInstalled, GetArrives, Scan, Probe, Unlock, Answer
  <2> QED BY <2>3, <2>4, <2>5 DEF Schedule!Tell, Schedule!ScheduleNext, Schedule!scheduleVars
<1>2. ASSUME NEW c \in Clients, StartRun(c) PROVE Schedule!StartCheck(c)
  <2>1. pc[c] = "stat" /\ pc'[c] = "scan" /\ \A d \in Clients \ {c} : pc'[d] = pc[d] /\ ask'[d] = ask[d]
    BY <1>0, <1>2 DEF StartRun, Goto, Drop
  <2>2. Doing' = Doing /\ Before' = Before
    BY <1>2, <2>1, UpdatesStay DEF StartRun, scheduler, Updating, Rewriting
  <2>3. Schedule!Quiet
    BY <2>1, OnlyHolder DEF Schedule!Quiet, Doing, Updating, Rewriting
  <2> QED BY <1>2, <2>2, <2>3 DEF StartRun, Schedule!StartCheck, scheduler
<1>3. ASSUME NEW c \in Clients, StartUpdate(c) PROVE Schedule!StartUpdate(c)
  <2>1. pc[c] = "stat" /\ pc'[c] = "read" /\ \A d \in Clients \ {c} : pc'[d] = pc[d]
    BY <1>0, <1>3 DEF StartUpdate, Goto
  <2>2. Schedule!Quiet
    BY <2>1, OnlyHolder DEF Schedule!Quiet, Doing, Updating, Rewriting
  <2>3. ask[c] \in {"enable", "disable"} /\ ask' = ask
    BY <1>0, <1>3 DEF StartUpdate, NodeGuardActions
  <2>4. Doing' = [Doing EXCEPT ![c] = ask[c]]
    BY <2>1, <2>3 DEF Doing, Updating, Rewriting
  <2>5. Before = table.guard /\ Before' = table'.guard
    BY <2>1, OnlyHolder, BeforeIs, BeforeBecomes DEF Updating, Rewriting
  <2> QED BY <1>3, <2>2, <2>3, <2>4, <2>5 DEF StartUpdate, Schedule!StartUpdate, scheduler
<1>4. ASSUME NEW c \in Clients, ReadTable(c) PROVE UNCHANGED Schedule!scheduleVars
  <2>1. /\ pc[c] = "read" /\ pc'[c] = "write" /\ original'[c] = table
        /\ \A d \in Clients \ {c} : pc'[d] = pc[d]
    BY <1>0, <1>4 DEF ReadTable, Goto
  <2>2. Doing' = Doing
    BY <1>4, <2>1 DEF ReadTable, Doing, Updating, Rewriting
  <2>3. Before = table.guard /\ Before' = table.guard
    BY <2>1, OnlyHolder, BeforeIs, BeforeBecomes DEF Updating, Rewriting
  <2> QED BY <1>4, <2>2, <2>3 DEF ReadTable, Schedule!scheduleVars, scheduler
<1>5. ASSUME NEW c \in Clients, WriteTable(c) \/ RestartFails(c) \/ Undo(c) PROVE Schedule!Change(c)
  <2>1. /\ pc[c] \in {"write", "restart", "undo"} /\ pc'[c] \in Rewriting
        /\ \A d \in Clients \ {c} : pc'[d] = pc[d]
    BY <1>0, <1>5 DEF WriteTable, RestartFails, Undo, Goto, Rewriting
  <2>2. UNCHANGED <<ask, original, told, run, spoilt>>
    BY <1>5 DEF WriteTable, RestartFails, Undo
  <2>3. Doing' = Doing /\ Before' = Before /\ Before = original[c].guard
    BY <2>1, <2>2, UpdatesStay, BeforeIs DEF Updating, Rewriting
  <2>4. Doing[c] # "none" /\ \A t : Updated(t, ask[c]).guard = Schedule!Wanted(Doing[c])
    BY <2>1, UpdateWants DEF Updating, Rewriting
  <2>5. table'.guard \in {original[c].guard, Updated(original[c], ask[c]).guard}
    BY <1>5 DEF WriteTable, RestartFails, Undo, EntryInv
  <2>6. crond' \in {"down", crond, table.guard}
    BY <1>5 DEF WriteTable, RestartFails, LeftSomehow, Undo
  <2> QED BY <2>2, <2>3, <2>4, <2>5, <2>6 DEF Schedule!Change
<1>6. ASSUME NEW c \in Clients, Unchanged(c) \/ RestartWorks(c) PROVE Schedule!Succeeds(c)
  <2>1. pc[c] \in {"read", "restart"} /\ Reply(c, "ok") /\ table' = table /\ LeftSomehow
    BY <1>6 DEF Unchanged, RestartWorks, Follows, LeftSomehow, scheduler
  <2>2. Schedule!Ends(c, "ok") /\ \A d \in Clients : pc'[d] \notin Updating
    BY <2>1, UpdateEnds DEF Updating, Rewriting
  <2>3. Schedule!Agree'
    BY <2>2 DEF UpdateInv, Schedule!Agree, Updating, Rewriting
  <2>4. table.guard = Updated(IF pc[c] = "read" THEN table ELSE original[c], ask[c]).guard
    BY <1>6 DEF Unchanged, RestartWorks, EntryInv
  <2>5. table.guard = Schedule!Wanted(Doing[c])
    BY <2>1, <2>4, UpdateWants DEF Updating, Rewriting
  <2>6. spoilt' => spoilt
    BY <1>6 DEF Unchanged, RestartWorks, Follows, scheduler
  <2> QED BY <2>2, <2>3, <2>5, <2>6 DEF Schedule!Succeeds
<1>7. ASSUME NEW c \in Clients, TableFails(c) \/ Again(c) PROVE Schedule!Fails(c)
  <2>1. pc[c] \in Updating /\ Reply(c, "error") /\ table' = table /\ LeftSomehow
    BY <1>7 DEF TableFails, Again, Follows, LeftSomehow, scheduler, Updating, Rewriting
  <2>2. Schedule!Ends(c, "error") /\ \A d \in Clients : pc'[d] \notin Updating
    BY <2>1, UpdateEnds
  <2>3. Schedule!Agree'
    BY <2>2 DEF UpdateInv, Schedule!Agree, Updating, Rewriting
  <2> QED BY <2>2, <2>3 DEF Schedule!Fails
<1>8. CASE \/ RunStarts \/ RunEnds \/ CronFires \/ CronReloads \/ UNCHANGED vars
           \/ \E j \in {"console", "orphan", "cron"} : JobEnds(j)
  <2>1. UNCHANGED <<handlers, table>>
    BY <1>8 DEF RunStarts, RunEnds, CronFires, CronReloads, JobEnds, vars, scheduler
  <2>2. Doing' = Doing /\ Before' = Before
    BY <2>1, UpdatesStay DEF handlers
  <2>3. CASE RunEnds
    BY <2>1, <2>2, <2>3 DEF RunEnds, handlers, scheduler, Schedule!EndCheck, Schedule!ScheduleNext
  <2>4. CASE CronReloads
    BY <2>1, <2>2, <2>4
    DEF CronReloads, Follows, handlers, Schedule!Reload, Schedule!ScheduleNext
  <2>5. CASE RunStarts \/ CronFires \/ UNCHANGED vars
             \/ \E j \in {"console", "orphan", "cron"} : JobEnds(j)
    BY <2>1, <2>2, <2>5
    DEF RunStarts, CronFires, JobEnds, vars, handlers, scheduler, Schedule!scheduleVars
  <2> QED BY <1>8, <2>3, <2>4, <2>5
<1>9. CASE OthersEdit
  <2>1. table'.guard = table.guard /\ UNCHANGED <<handlers, run, crond, spoilt>>
    BY <1>0, <1>9 DEF OthersEdit, Tables
  <2>2. Doing' = Doing /\ Before' = Before
    BY <2>1, UpdatesStay DEF handlers
  <2> QED BY <2>1, <2>2 DEF handlers, Schedule!scheduleVars
<1>10. CASE Crash
  <2>1. \A c \in Clients : pc'[c] = "idle"
    BY <1>10 DEF Crash
  <2>2. Doing' = [c \in Clients |-> "none"]
    BY <2>1 DEF Doing, Updating, Rewriting
  <2>3. Before' = table'.guard
    BY <2>1, BeforeBecomes DEF Rewriting
  <2>4. Schedule!Agree'
    BY <2>1 DEF UpdateInv, Schedule!Agree
  <2>5. spoilt' => spoilt \/ ~Schedule!Quiet
    <3>1. ASSUME NEW c \in Clients, pc[c] \in {"restart", "undo", "again"} PROVE ~Schedule!Quiet
      BY <3>1, UpdateWants DEF Schedule!Quiet, Updating, Rewriting
    <3> QED BY <1>10, <3>1 DEF Crash
  <2>6. spoilt' \in BOOLEAN
    BY DEF TypeOK
  <2> QED BY <1>10, <2>2, <2>3, <2>4, <2>5, <2>6 DEF Crash, Schedule!Die, Schedule!ScheduleNext
<1> QED
  BY <1>1, <1>2, <1>3, <1>4, <1>5, <1>6, <1>7, <1>8, <1>9, <1>10
  DEF Next, Console, Handle, Schedule!ScheduleNext

(* The handlers, the goroutine, the rollback and the crashes together are  *)
(* a schedule that one operation at a time switches.                       *)
THEOREM HandlersImplementSchedule == Spec => ImplementsSchedule
<1>1. Spec => Schedule!ScheduleInit /\ [][Schedule!ScheduleNext]_(Schedule!scheduleVars)
  BY Invariance, ScheduleStarts, ScheduleStep, PTL DEF Spec
<1> QED BY <1>1 DEF ImplementsSchedule, Schedule!ScheduleSpec

===============================================================================
