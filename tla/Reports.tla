-------------------------------- MODULE Reports --------------------------------
(***************************************************************************)
(* The reports that several browsers and the verification loop ask for at  *)
(* the same time: status (currentStatus), sessions and logs.  What they    *)
(* share is the cache of the registered devices, kept for a second under   *)
(* targetMu while one of them may be waiting two seconds for ipset, and    *)
(* the audit log.                                                          *)
(*                                                                         *)
(* Time is in ticks; a goroutine takes no tick from getting targetMu to    *)
(* looking at the clock, and none past the end of its context.             *)
(***************************************************************************)
EXTENDS AuditLog

CONSTANTS
  Clients,      \* goroutines that make reports
  NoClient,     \* nobody holds targetMu
  Devices,      \* addresses the set target_Game may contain
  TTL,          \* how long a cached list is good: 1 s
  ExecTimeout,  \* how long ipset may take: 2 s
  Patience,     \* how long the controller or logread may take: 4 s and 3 s
  MaxLogLines,  \* how many audit entries a report shows
  MaxRecords    \* bound on the number of audit events

ASSUME ReportsAssumption ==
  /\ NoClient \notin Clients
  /\ TTL \in Nat \ {0} /\ ExecTimeout \in Nat \ {0} /\ Patience \in Nat
  /\ MaxLogLines \in Nat /\ MaxRecords \in Nat

VARIABLES
  members,   \* the set target_Game, kept by LeiGod
  cache,     \* App.targets
  cacheAge,  \* ticks since App.targetAt, up to TTL
  holder,    \* who holds targetMu
  ipset,     \* the ipset command of the holder: none, run or read
  output,    \* what it has read
  ran,       \* ticks since it was started
  pc,        \* pc[c]: where the goroutine of c is
  kind,      \* kind[c]: the report c makes
  seen,      \* seen[c]: the services its status found running
  second,    \* second[c]: this is the call of leigodTargets by leigodSessions
  targets,   \* targets[c]: what leigodTargets returned to it
  shown,     \* shown[c]: the audit entries in its report
  askedAt,   \* history: askedAt[c]: how many events there were when it asked for logs
  spent,     \* spent[c]: ticks in the call it is waiting in
  stable,    \* history: stable[d]: ticks since d came or went, up to Window
  sound      \* history: ticks since ipset failed, up to TTL

device == <<members, stable>>
cached == <<cache, cacheAge, sound>>
runner == <<ipset, output, ran>>
report == <<kind, seen, second, targets, shown, askedAt>>
vars   == <<device, cached, runner, holder, pc, report, spent, auditVars>>

Services == {"shellcrash", "leigod"}
Kinds    == {"status", "auto", "shellcrash", "leigod", "logs"}
Window   == ExecTimeout + TTL

(* Where a goroutine waits for something that takes time *)
Waiting   == {"lock", "exec", "controller", "logread"}
PcValues  == {"idle", "scan", "mode", "table", "held"} \cup Waiting

Init ==
  /\ members \in SUBSET Devices
  /\ cache = {} /\ cacheAge = TTL
  /\ holder = NoClient /\ ipset = "none" /\ output = {} /\ ran = 0
  /\ pc = [c \in Clients |-> "idle"]
  /\ kind = [c \in Clients |-> "status"]
  /\ seen = [c \in Clients |-> {}]
  /\ second = [c \in Clients |-> FALSE]
  /\ targets = [c \in Clients |-> {}]
  /\ shown = [c \in Clients |-> <<>>]
  /\ askedAt = [c \in Clients |-> 0]
  /\ spent = [c \in Clients |-> 0]
  /\ stable = [d \in Devices |-> Window] /\ sound = TTL
  /\ AuditInit

-------------------------------------------------------------------------------
(***************************************************************************)
(* The handlers                                                            *)
(***************************************************************************)
Enter(c, label) == /\ pc' = [pc EXCEPT ![c] = label]
                   /\ spent' = [spent EXCEPT ![c] = 0]

Ask(c) ==
  /\ pc[c] = "idle"
  /\ \E k \in Kinds : kind' = [kind EXCEPT ![c] = k]
  /\ \/ kind'[c] # "logs" /\ Enter(c, "scan") /\ UNCHANGED <<shown, askedAt>>
     \/ /\ kind'[c] = "logs" /\ Enter(c, "logread")
        /\ shown' = [shown EXCEPT ![c] = Snapshot(MaxLogLines)]
        /\ askedAt' = [askedAt EXCEPT ![c] = recorded]
  /\ UNCHANGED <<device, cached, runner, holder, seen, second, targets, auditVars>>

(* currentStatus: the processes first, then leigodTargets *)
Scan(c) ==
  /\ pc[c] = "scan"
  /\ \E found \in SUBSET Services : seen' = [seen EXCEPT ![c] = found]
  /\ Enter(c, "lock")
  /\ UNCHANGED <<device, cached, runner, holder, kind, second, targets, shown, askedAt, auditVars>>

(* The report is done and its goroutine's state is gone *)
Reply(c) ==
  /\ Enter(c, "idle")
  /\ kind' = [kind EXCEPT ![c] = "status"]
  /\ seen' = [seen EXCEPT ![c] = {}]
  /\ second' = [second EXCEPT ![c] = FALSE]
  /\ targets' = [targets EXCEPT ![c] = {}]
  /\ shown' = [shown EXCEPT ![c] = <<>>]
  /\ askedAt' = [askedAt EXCEPT ![c] = 0]
  /\ UNCHANGED <<device, cached, runner, holder, auditVars>>

(***************************************************************************)
(* currentStatus reads the mode last.  sessions goes on with the service   *)
(* asked for, or that of the mode, if the status found it running.         *)
(***************************************************************************)
Mode(c) ==
  /\ pc[c] = "mode"
  /\ \E mode \in Services \cup {"off", "unknown"} :
       LET service == IF kind[c] = "auto" THEN mode ELSE kind[c]
       IN  \/ service \notin seen[c] /\ Reply(c)
           \/ /\ service \in seen[c]
              /\ \/ service = "shellcrash" /\ Enter(c, "controller") /\ UNCHANGED second
                 \/ /\ service = "leigod" /\ Enter(c, "lock")
                    /\ second' = [second EXCEPT ![c] = TRUE]
              /\ targets' = [targets EXCEPT ![c] = {}]
              /\ UNCHANGED <<device, cached, runner, holder, kind, seen, shown, askedAt, auditVars>>

(* The controller and logread answer or fail, at the latest when their context expires *)
Answers(c) == pc[c] \in {"controller", "logread"} /\ Reply(c)

(* leigodSessions: without devices no table is read; reading it changes nothing *)
Table(c) == pc[c] = "table" /\ Reply(c)

-------------------------------------------------------------------------------
(***************************************************************************)
(* leigodTargets                                                           *)
(***************************************************************************)
FreshTooLong == cacheAge <= TTL   \* mutant

Fresh == cacheAge < TTL

Acquire(c) ==
  /\ pc[c] = "lock"
  /\ holder = NoClient
  /\ holder' = c
  /\ pc' = [pc EXCEPT ![c] = "held"]
  /\ UNCHANGED <<device, cached, runner, report, spent, auditVars>>

Return(c, list) ==
  /\ targets' = [targets EXCEPT ![c] = list]
  /\ Enter(c, IF second[c] THEN "table" ELSE "mode")
  /\ holder' = NoClient
  /\ UNCHANGED <<device, kind, seen, second, shown, askedAt, auditVars>>

Hit(c) ==
  /\ pc[c] = "held" /\ Fresh
  /\ Return(c, cache)
  /\ UNCHANGED <<cached, runner>>

RunIpset(c) ==
  /\ pc[c] = "held" /\ ~Fresh
  /\ pc' = [pc EXCEPT ![c] = "exec"]
  /\ ipset' = "run" /\ ran' = 0
  /\ UNCHANGED <<device, cached, output, holder, report, spent, auditVars>>

IpsetReads ==
  /\ ipset = "run"
  /\ ipset' = "read" /\ output' = members
  /\ UNCHANGED <<device, cached, ran, holder, pc, report, spent, auditVars>>

IpsetEnds == ipset' = "none" /\ output' = {} /\ ran' = 0

Stored(c) ==
  /\ pc[c] = "exec" /\ ipset = "read"
  /\ cache' = output /\ cacheAge' = 0
  /\ IpsetEnds
  /\ Return(c, output)
  /\ UNCHANGED sound

(* An error, or the two seconds are over: the cache is emptied, and that counts *)
ForgetUnstamped == cache' = {} /\ UNCHANGED cacheAge     \* mutant

Forget == cache' = {} /\ cacheAge' = 0

Failed(c) ==
  /\ pc[c] = "exec"
  /\ Forget
  /\ sound' = 0
  /\ IpsetEnds
  /\ Return(c, {})

-------------------------------------------------------------------------------
(***************************************************************************)
(* What happens around them                                                *)
(***************************************************************************)
MembersChange ==
  /\ members' \in SUBSET Devices \ {members}
  /\ stable' = [d \in Devices |-> IF d \in members <=> d \in members' THEN stable[d] ELSE 0]
  /\ UNCHANGED <<cached, runner, holder, pc, report, spent, auditVars>>

(* Any other handler records an event *)
Event ==
  /\ recorded < MaxRecords
  /\ Record
  /\ UNCHANGED <<device, cached, runner, holder, pc, report, spent>>

(* mutant: ipset is run without a context *)
DueAtLeisure(c) ==
  \/ pc[c] = "held"
  \/ pc[c] = "lock" /\ holder = NoClient
  \/ pc[c] \in {"controller", "logread"} /\ spent[c] = Patience

(* c goes on before a tick passes *)
Due(c) ==
  \/ pc[c] = "held"
  \/ pc[c] = "lock" /\ holder = NoClient
  \/ pc[c] = "exec" /\ ran = ExecTimeout
  \/ pc[c] \in {"controller", "logread"} /\ spent[c] = Patience

NextUpTo(n, bound) == Lesser(n + 1, bound)

Tick ==
  /\ \A c \in Clients : ~Due(c)
  /\ cacheAge' = NextUpTo(cacheAge, TTL)
  /\ sound' = NextUpTo(sound, TTL)
  /\ stable' = [d \in Devices |-> NextUpTo(stable[d], Window)]
  /\ ran' = IF ipset = "none" THEN 0 ELSE ran + 1
  /\ spent' = [c \in Clients |-> IF pc[c] \in Waiting THEN spent[c] + 1 ELSE 0]
  /\ UNCHANGED <<members, cache, ipset, output, holder, pc, report, auditVars>>

-------------------------------------------------------------------------------
Handler(c) ==
  \/ Scan(c) \/ Mode(c) \/ Answers(c) \/ Table(c)
  \/ Hit(c) \/ RunIpset(c) \/ Stored(c) \/ Failed(c)

Next ==
  \/ \E c \in Clients : Ask(c) \/ Acquire(c) \/ Handler(c)
  \/ IpsetReads \/ MembersChange \/ Event \/ Tick

Spec == Init /\ [][Next]_vars

-------------------------------------------------------------------------------
(***************************************************************************)
(* Properties                                                              *)
(***************************************************************************)
TypeOK ==
  /\ members \in SUBSET Devices /\ cache \in SUBSET Devices /\ output \in SUBSET Devices
  /\ cacheAge \in 0..TTL /\ sound \in 0..TTL /\ ran \in 0..ExecTimeout
  /\ stable \in [Devices -> 0..Window]
  /\ holder \in Clients \cup {NoClient}
  /\ ipset \in {"none", "run", "read"}
  /\ pc \in [Clients -> PcValues]
  /\ kind \in [Clients -> Kinds]
  /\ seen \in [Clients -> SUBSET Services]
  /\ second \in [Clients -> BOOLEAN]
  /\ targets \in [Clients -> SUBSET Devices]
  /\ shown \in [Clients -> Seq(Nat)] /\ askedAt \in [Clients -> Nat]
  /\ recorded \in Nat
  /\ spent \in [Clients -> Nat]

(* However many reports are queued behind an ipset that hangs or fails, no *)
(* call of leigodTargets lasts longer than one such command may take.      *)
BoundedWait == \A c \in Clients : pc[c] \in {"lock", "held", "exec"} => spent[c] <= ExecTimeout

(* The list a report is given is right about every device that has neither *)
(* come nor gone for as long as a command and the cache together last,     *)
(* whatever the others do: no device is in it that has long been gone, and *)
(* none is missing that is there, unless a command has failed for as long  *)
(* as the cache lasts.                                                     *)
TargetsAreCurrent ==
  [][\A c \in Clients, d \in Devices :
       holder = c /\ holder' = NoClient /\ stable'[d] = Window =>
         /\ d \in targets'[c] => d \in members
         /\ d \in members => d \in targets'[c] \/ sound' < TTL]_vars

(* How many of k events a report of the logs can show *)
Lines(k) == LET kept == Lesser(k, AuditLimit)
            IN  IF MaxLogLines = 0 THEN kept ELSE Lesser(kept, MaxLogLines)

(* A report of the logs shows the newest audit entries of the moment it was *)
(* asked for, as many as it can, in order and without a gap, however many  *)
(* were dropped before or are recorded while it waits for logread.         *)
AuditIsNewest ==
  /\ KeepsNewest
  /\ \A c \in Clients :
       kind[c] = "logs" => shown[c] = LastEvents(askedAt[c], Lines(askedAt[c]))

-------------------------------------------------------------------------------
(***************************************************************************)
(* The inductive invariant of the proofs                                   *)
(***************************************************************************)
LockInv ==
  /\ \A c \in Clients : pc[c] \in {"held", "exec"} <=> holder = c
  /\ \A c \in Clients : pc[c] = "exec" <=> (holder = c /\ ipset # "none")
  /\ ipset # "none" => holder # NoClient

(* Who has waited for another's command finds the cache filled at this very *)
(* moment, and so starts no command of its own.                             *)
WaitInv ==
  \A c \in Clients :
    /\ pc[c] = "lock" => IF ipset = "none" THEN spent[c] = 0 \/ cacheAge = 0 ELSE spent[c] <= ran
    /\ pc[c] = "held" => spent[c] = 0 \/ cacheAge = 0
    /\ pc[c] = "exec" => spent[c] = ran
    /\ pc[c] \in {"lock", "held"} => spent[c] <= ExecTimeout

(* How long a device has been another way than what was read of the set;   *)
(* a failure only makes devices missing                                    *)
CurrentInv == \A d \in Devices :
  /\ ipset = "read" => (d \in output <=> d \in members) \/ stable[d] <= ran
  /\ Fresh => \/ d \in cache <=> d \in members
              \/ stable[d] <= ExecTimeout + cacheAge
              \/ d \notin cache /\ sound <= cacheAge

IndInv == TypeOK /\ LockInv /\ WaitInv /\ CurrentInv

===============================================================================
