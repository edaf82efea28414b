------------------------------- MODULE NodeGuard -------------------------------
(***************************************************************************)
(* The node guard handlers of nodeguard.go: a check run in a goroutine of  *)
(* its own, the cron table rewritten, reloaded and rolled back, and the    *)
(* status that takes nodeGuardMu for a moment to see whether it is free.   *)
(* Handlers never wait for nodeGuardMu: they TryLock it.                   *)
(*                                                                         *)
(* The guard program and crond are not part of the repository.  Of crond   *)
(* the code relies on this: a restart that succeeds makes it follow the    *)
(* table; one that fails or times out may have done anything.              *)
(***************************************************************************)
EXTENDS Naturals, FiniteSets

CONSTANTS
  Clients,   \* requests in flight together
  Runner,    \* the goroutine of runNodeGuard
  NoHolder   \* nodeGuardMu is free

ASSUME NodeGuardAssumption ==
  /\ Runner \notin Clients
  /\ NoHolder \notin Clients \cup {Runner}

VARIABLES
  pc,           \* pc[c]: where the handler of c is
  ask,          \* ask[c]: the action it was asked for
  original,     \* original[c]: the cron table as its handler read it
  told,         \* told[c]: what its reply is going to say: none, ok or error
  nodeGuardMu,  \* who holds it
  run,          \* the goroutine: none, start or wait
  jobs,         \* the guard processes in /proc: of the console, of one before it, of cron
  table,        \* the cron table: the entry of the guard, whether the text is
                \* laid out as updateNodeGuardCron leaves it, and the other lines
  crond,        \* the entry crond follows, or down
  spoilt,       \* history: the last update was cut short before crond followed
  edited,       \* history: the other lines as somebody else left them last
  raced         \* history: that was while an update was under way

handlers == <<pc, ask, original, told>>
scheduler == <<table, crond, spoilt>>
others == <<edited, raced>>
vars == <<handlers, nodeGuardMu, run, jobs, scheduler, others>>

Rewriting == {"write", "restart", "undo", "again"}
Updating == {"read"} \cup Rewriting
PcValues == {"idle", "try", "stat", "scan", "probe", "unlock", "answer"} \cup Updating

NodeGuardActions == {"run", "enable", "disable"}

(* No entry, the line the console writes, or another line with the command *)
Entries == {"none", "ours", "other"}
Others == {"lines", "more lines"}
Tables == [guard : Entries, tidy : BOOLEAN, rest : Others]

Blank == [guard |-> "none", tidy |-> FALSE, rest |-> "lines"]

Init ==
  /\ pc = [c \in Clients |-> "idle"]
  /\ ask = [c \in Clients |-> "run"]
  /\ original = [c \in Clients |-> Blank]
  /\ told = [c \in Clients |-> "none"]
  /\ nodeGuardMu = NoHolder
  /\ run = "none"
  /\ jobs = {}
  /\ table \in Tables /\ table.rest = Blank.rest
  /\ crond = table.guard
  /\ spoilt = FALSE
  /\ edited = table.rest
  /\ raced = FALSE

Goto(c, label) == pc' = [pc EXCEPT ![c] = label]

MutexFree == nodeGuardMu = NoHolder

-------------------------------------------------------------------------------
(***************************************************************************)
(* handleNodeGuardAction                                                   *)
(***************************************************************************)
PostArrives(c) ==
  /\ pc[c] = "idle"
  /\ \E a \in NodeGuardActions : ask' = [ask EXCEPT ![c] = a]
  /\ Goto(c, "try")
  /\ UNCHANGED <<original, told, nodeGuardMu, run, jobs, scheduler>>

(* What was asked for is of no more use *)
Drop(c) == ask' = [ask EXCEPT ![c] = "run"]

(* Refused with 409, whoever holds the mutex *)
Conflict(c) ==
  /\ pc[c] = "try"
  /\ ~MutexFree
  /\ Goto(c, "idle")
  /\ Drop(c)
  /\ UNCHANGED <<original, told, nodeGuardMu, run, jobs, scheduler>>

TakesAnyway(c) == pc[c] = "try"                 \* mutant: the result of TryLock is ignored

Takes(c) == pc[c] = "try" /\ MutexFree

Take(c) ==
  /\ Takes(c)
  /\ nodeGuardMu' = c
  /\ Goto(c, "stat")
  /\ UNCHANGED <<ask, original, told, run, jobs, scheduler>>

LeaveLocked(c) == Goto(c, "idle") /\ UNCHANGED nodeGuardMu   \* mutant: no Unlock before the 409

Leave(c) == Goto(c, "idle") /\ nodeGuardMu' = NoHolder

(* Both run and enable need the guard program; disable does not *)
NotInstalled(c) ==
  /\ pc[c] = "stat"
  /\ ask[c] # "disable"
  /\ Leave(c)
  /\ Drop(c)
  /\ UNCHANGED <<original, told, run, jobs, scheduler>>

(* The goroutine inherits the mutex, and the handler goes on to the status *)
StartRun(c) ==
  /\ pc[c] = "stat"
  /\ ask[c] = "run"
  /\ nodeGuardMu' = Runner
  /\ run' = "start"
  /\ told' = [told EXCEPT ![c] = "ok"]
  /\ Goto(c, "scan")
  /\ Drop(c)
  /\ UNCHANGED <<original, jobs, scheduler>>

StartUpdate(c) ==
  /\ pc[c] = "stat"
  /\ ask[c] # "run"
  /\ Goto(c, "read")
  /\ UNCHANGED <<ask, original, told, nodeGuardMu, run, jobs, scheduler>>

-------------------------------------------------------------------------------
(***************************************************************************)
(* runNodeGuard                                                            *)
(***************************************************************************)
RunStarts ==
  /\ run = "start"
  /\ run' = "wait"
  /\ jobs' = jobs \cup {"console"}
  /\ UNCHANGED <<handlers, nodeGuardMu, scheduler>>

(* The command could not be started, or its process is gone: it has ended  *)
(* or the five minutes of the context have                                 *)
RunEnds ==
  /\ run = "start" \/ (run = "wait" /\ "console" \notin jobs)
  /\ run' = "none"
  /\ nodeGuardMu' = NoHolder
  /\ UNCHANGED <<handlers, jobs, scheduler>>

-------------------------------------------------------------------------------
(***************************************************************************)
(* setNodeGuardCron                                                        *)
(***************************************************************************)
UpdatedTwice(t, a) ==    \* mutant: the old line is kept
  [guard |-> CASE a = "enable" /\ t.guard = "none" -> "ours"
               [] a = "enable"                     -> "both"
               [] OTHER                            -> "none",
   tidy |-> TRUE,
   rest |-> t.rest]

(* mutant: only the entries of the guard are kept *)
UpdatedAlone(t, a) == [guard |-> IF a = "enable" THEN "ours" ELSE "none", tidy |-> TRUE, rest |-> Blank.rest]

(* mutant: ours is added only when there is no line with the command *)
UpdatedIfMissing(t, a) ==
  [guard |-> CASE a # "enable" -> "none" [] t.guard = "none" -> "ours" [] OTHER -> t.guard,
   tidy |-> TRUE,
   rest |-> t.rest]

(* updateNodeGuardCron: every line with the command goes, ours is added *)
Updated(t, a) == [guard |-> IF a = "enable" THEN "ours" ELSE "none", tidy |-> TRUE, rest |-> t.rest]

(* The mutex is released, and the status for the reply is put together *)
Reply(c, result) ==
  /\ nodeGuardMu' = NoHolder
  /\ Goto(c, "scan")
  /\ original' = [original EXCEPT ![c] = Blank]
  /\ told' = [told EXCEPT ![c] = result]
  /\ Drop(c)
  /\ UNCHANGED <<run, jobs>>

ReadTable(c) ==
  /\ pc[c] = "read"
  /\ Updated(table, ask[c]) # table
  /\ original' = [original EXCEPT ![c] = table]
  /\ Goto(c, "write")
  /\ UNCHANGED <<ask, told, nodeGuardMu, run, jobs, scheduler>>

(* The bytes are equal: a success, with nothing written and no restart *)
Unchanged(c) ==
  /\ pc[c] = "read"
  /\ Updated(table, ask[c]) = table
  /\ Reply(c, "ok")
  /\ UNCHANGED scheduler

WriteTable(c) ==
  /\ pc[c] = "write"
  /\ table' = Updated(original[c], ask[c])
  /\ Goto(c, "restart")
  /\ UNCHANGED <<ask, original, told, nodeGuardMu, run, jobs, crond, spoilt>>

(* The table could not be read, or not be replaced *)
TableFails(c) ==
  /\ pc[c] \in {"read", "write"}
  /\ Reply(c, "error")
  /\ UNCHANGED scheduler

Follows == crond' = table.guard /\ spoilt' = FALSE

RestartWorks(c) ==
  /\ pc[c] = "restart"
  /\ Follows
  /\ Reply(c, "ok")
  /\ UNCHANGED table

(* Stopped and not started, not even stopped, or started and then late *)
LeftSomehow == crond' \in {"down", crond, table.guard}

RestartFails(c) ==
  /\ pc[c] = "restart"
  /\ LeftSomehow
  /\ Goto(c, "undo")
  /\ UNCHANGED <<ask, original, told, nodeGuardMu, run, jobs, table, spoilt>>

UndoOnly(c) ==           \* mutant: no second restart
  /\ pc[c] = "undo"
  /\ table' = original[c]
  /\ Reply(c, "error")
  /\ UNCHANGED <<crond, spoilt>>

(* The table as it was is written back; an error of that is ignored *)
Undo(c) ==
  /\ pc[c] = "undo"
  /\ table' \in {original[c], table}
  /\ Goto(c, "again")
  /\ UNCHANGED <<ask, original, told, nodeGuardMu, run, jobs, crond, spoilt>>

(* And crond restarted; an error of that is ignored too *)
Again(c) ==
  /\ pc[c] = "again"
  /\ Follows \/ (LeftSomehow /\ spoilt' = TRUE)
  /\ Reply(c, "error")
  /\ UNCHANGED table

-------------------------------------------------------------------------------
(***************************************************************************)
(* nodeGuardStatus, of a GET or of the reply to a POST                     *)
(***************************************************************************)
GetArrives(c) ==
  /\ pc[c] = "idle"
  /\ Goto(c, "scan")
  /\ UNCHANGED <<ask, original, told, nodeGuardMu, run, jobs, scheduler>>

(* A guard process in /proc settles it; else the mutex is tried *)
Scan(c) ==
  /\ pc[c] = "scan"
  /\ Goto(c, IF jobs # {} THEN "answer" ELSE "probe")
  /\ UNCHANGED <<ask, original, told, nodeGuardMu, run, jobs, scheduler>>

Probe(c) ==
  /\ pc[c] = "probe"
  /\ IF MutexFree
     THEN nodeGuardMu' = c /\ Goto(c, "unlock")
     ELSE UNCHANGED nodeGuardMu /\ Goto(c, "answer")
  /\ UNCHANGED <<ask, original, told, run, jobs, scheduler>>

Unlock(c) ==
  /\ pc[c] = "unlock"
  /\ nodeGuardMu' = NoHolder
  /\ Goto(c, "answer")
  /\ UNCHANGED <<ask, original, told, run, jobs, scheduler>>

Answer(c) ==
  /\ pc[c] = "answer"
  /\ Goto(c, "idle")
  /\ told' = [told EXCEPT ![c] = "none"]
  /\ UNCHANGED <<ask, original, nodeGuardMu, run, jobs, scheduler>>

-------------------------------------------------------------------------------
(***************************************************************************)
(* Around the console                                                      *)
(***************************************************************************)
JobEnds(j) ==
  /\ j \in jobs
  /\ jobs' = jobs \ {j}
  /\ UNCHANGED <<handlers, nodeGuardMu, run, scheduler>>

CronFires ==
  /\ crond \in {"ours", "other"}
  /\ jobs' = jobs \cup {"cron"}
  /\ UNCHANGED <<handlers, nodeGuardMu, run, scheduler>>

(* crond is restarted by somebody else, or with the router *)
CronReloads ==
  /\ Follows
  /\ UNCHANGED <<handlers, nodeGuardMu, run, jobs, table>>

(* Somebody else replaces other lines of the table, in the console's layout or not *)
OthersEdit ==
  /\ \E other \in Others \ {table.rest}, layout \in BOOLEAN :
       /\ table' = [table EXCEPT !.rest = other, !.tidy = layout]
       /\ edited' = other
  /\ raced' = \E c \in Clients : pc[c] \in Rewriting
  /\ UNCHANGED <<handlers, nodeGuardMu, run, jobs, crond, spoilt>>

(* The console dies and is started again; a guard it had started lives on *)
Crash ==
  /\ pc' = [c \in Clients |-> "idle"]
  /\ ask' = [c \in Clients |-> "run"]
  /\ original' = [c \in Clients |-> Blank]
  /\ told' = [c \in Clients |-> "none"]
  /\ nodeGuardMu' = NoHolder
  /\ run' = "none"
  /\ jobs' = (jobs \ {"console"}) \cup (IF "console" \in jobs THEN {"orphan"} ELSE {})
  /\ spoilt' = (spoilt \/ \E c \in Clients : pc[c] \in {"restart", "undo", "again"})
  /\ UNCHANGED <<table, crond>>

-------------------------------------------------------------------------------
Handle(c) ==
  \/ Conflict(c)
  \/ Take(c)
  \/ NotInstalled(c)
  \/ StartRun(c)
  \/ StartUpdate(c)
  \/ ReadTable(c)
  \/ Unchanged(c)
  \/ WriteTable(c)
  \/ TableFails(c)
  \/ RestartWorks(c)
  \/ RestartFails(c)
  \/ Undo(c)
  \/ Again(c)
  \/ Scan(c)
  \/ Probe(c)
  \/ Unlock(c)
  \/ Answer(c)

Console ==
  \/ \E c \in Clients : PostArrives(c) \/ GetArrives(c) \/ Handle(c)
  \/ RunStarts
  \/ RunEnds
  \/ \E j \in {"console", "orphan", "cron"} : JobEnds(j)
  \/ CronFires
  \/ CronReloads
  \/ Crash

Next == (Console /\ UNCHANGED others) \/ OthersEdit

Spec == Init /\ [][Next]_vars

(* Goroutines are scheduled; the context kills a check after five minutes *)
Fairness ==
  /\ \A c \in Clients : WF_vars(Handle(c) /\ UNCHANGED others)
  /\ WF_vars((RunStarts \/ RunEnds) /\ UNCHANGED others)
  /\ WF_vars(JobEnds("console") /\ UNCHANGED others)

FairSpec == Spec /\ Fairness

-------------------------------------------------------------------------------
(***************************************************************************)
(* Properties                                                              *)
(***************************************************************************)
TypeOK ==
  /\ pc \in [Clients -> PcValues]
  /\ ask \in [Clients -> NodeGuardActions]
  /\ original \in [Clients -> Tables]
  /\ told \in [Clients -> {"none", "ok", "error"}]
  /\ nodeGuardMu \in Clients \cup {Runner, NoHolder}
  /\ run \in {"none", "start", "wait"}
  /\ jobs \in SUBSET {"console", "orphan", "cron"}
  /\ table \in Tables
  /\ crond \in Entries \cup {"down"}
  /\ spoilt \in BOOLEAN
  /\ edited \in Others
  /\ raced \in BOOLEAN

(* Handlers TryLock and hand the mutex over to a goroutine: still no two   *)
(* of the cron updates and the check the console runs are under way at     *)
(* the same time.                                                          *)
OneOperation ==
  /\ \A c, d \in Clients : pc[c] \in Updating /\ pc[d] \in Updating => c = d
  /\ run # "none" => \A c \in Clients : pc[c] \notin Updating

(* crond follows the table outside an update, though restarts fail and are *)
(* rolled back, unless the console died in the update or the restart after *)
(* the rollback failed as well.                                            *)
InStep == (\A c \in Clients : pc[c] \notin Updating) /\ ~spoilt => crond = table.guard

(* No path through the handlers, the goroutine and the probes keeps the    *)
(* mutex for ever: the guard can be operated again.                        *)
MutexReleased == nodeGuardMu # NoHolder ~> nodeGuardMu = NoHolder

(* The lines of others are as they were left, through every update, every   *)
(* rollback ten seconds later and every death of the console, unless they   *)
(* were changed while an update was under way.                              *)
LinesSurvive == ~raced => table.rest = edited

(* How the handlers and the goroutine look from outside *)
Doing == [c \in Clients |-> IF pc[c] \in Updating THEN ask[c] ELSE "none"]

Before == IF nodeGuardMu \in Clients /\ pc[nodeGuardMu] \in Rewriting
          THEN original[nodeGuardMu].guard ELSE table.guard

Schedule == INSTANCE GuardSchedule WITH
  entry <- table.guard, before <- Before, follows <- crond, torn <- spoilt, doing <- Doing, checking <- run # "none"

(* Mutex, goroutine, table, crond and rollback together are a schedule     *)
(* that is switched by one operation at a time: nothing else touches the   *)
(* entry, a success means it is what was asked for and in force, and an    *)
(* error that table and crond still agree, unless one was cut short.       *)
ImplementsSchedule == Schedule!ScheduleSpec

(* The message of a success: the check every 30 minutes is enabled, or     *)
(* paused.  Here: crond then follows such an entry, or does not.           *)
SuccessTakesEffect ==
  [][\A c \in Clients : Unchanged(c) \/ RestartWorks(c) =>
       IF ask[c] = "enable" THEN crond' = "ours" ELSE crond' \notin {"ours", "other"}]_vars

-------------------------------------------------------------------------------
(***************************************************************************)
(* Why they hold: the inductive invariant                                  *)
(***************************************************************************)
(* The mutex belongs to the one who is inside *)
HolderInv ==
  /\ \A c \in Clients : pc[c] \in Updating \cup {"stat", "unlock"} <=> nodeGuardMu = c
  /\ run # "none" <=> nodeGuardMu = Runner

(* The table is as crond has it until the write, and after a complete undo *)
UpdateInv ==
  \/ spoilt
  \/ crond = table.guard
  \/ \E c \in Clients : pc[c] \in {"restart", "undo", "again"}

(* An update has read the entry there was, and changes it only to what was *)
(* asked for and back                                                      *)
EntryInv == \A c \in Clients :
  /\ pc[c] \in Updating => ask[c] \in {"enable", "disable"}
  /\ pc[c] = "write" => table.guard = original[c].guard
  /\ pc[c] = "restart" => table.guard = Updated(original[c], ask[c]).guard
  /\ pc[c] \in {"undo", "again"} =>
       table.guard \in {original[c].guard, Updated(original[c], ask[c]).guard}

(* What an update writes, or writes back, has the lines of others *)
LinesInv ==
  ~raced => /\ table.rest = edited
            /\ \A c \in Clients : pc[c] \in Rewriting => original[c].rest = edited

IndInv == TypeOK /\ HolderInv /\ UpdateInv /\ EntryInv /\ LinesInv

===============================================================================
