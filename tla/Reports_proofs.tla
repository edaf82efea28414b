------------------------------ MODULE Reports_proofs ------------------------------
(***************************************************************************)
(* Theorems about Reports, for every number of goroutines and devices and  *)
(* every value of the times and limits.                                    *)
(***************************************************************************)
EXTENDS Reports, Integers, SequenceTheorems, TLAPS

USE ReportsAssumption, AuditAssumption

-------------------------------------------------------------------------------
(***************************************************************************)
(* The audit log                                                           *)
(***************************************************************************)

(* The newest events are a sequence of their number *)
LEMMA LastEventsLength ==
  ASSUME NEW k \in Nat, NEW n \in Nat
  PROVE  /\ LastEvents(k, n) \in Seq(Int)
         /\ Len(LastEvents(k, n)) = n
         /\ \A i \in 1..n : LastEvents(k, n)[i] = k - n + i
  BY DEF LastEvents

(* The newest of the newest events are the newest events *)
LEMMA NewestOfLast ==
  ASSUME NEW k \in Nat, NEW m \in Nat, NEW n \in Nat, n <= m
  PROVE  Newest(LastEvents(k, m), n) = LastEvents(k, n)
<1>1. \A i \in 1..n : LastEvents(k, m)[m - n + i] = k - n + i
  BY LastEventsLength
<1> QED BY <1>1, LastEventsLength DEF Newest, LastEvents

(* An event appended to the newest events makes the newest events *)
LEMMA AppendToLast ==
  ASSUME NEW k \in Nat, NEW n \in Nat
  PROVE  Append(LastEvents(k, n), k + 1) = LastEvents(k + 1, n + 1)
<1> DEFINE s == LastEvents(k, n)
           t == LastEvents(k + 1, n + 1)
<1>1. s \in Seq(Int) /\ Len(s) = n /\ \A i \in 1..n : s[i] = k - n + i
  BY LastEventsLength
<1>2. t \in Seq(Int) /\ Len(t) = n + 1 /\ \A i \in 1..(n + 1) : t[i] = (k + 1) - (n + 1) + i
  BY LastEventsLength
<1> HIDE DEF s, t
<1>3. Append(s, k + 1) \in Seq(Int) /\ Len(Append(s, k + 1)) = n + 1
  BY <1>1
<1>4. ASSUME NEW i \in 1..(n + 1) PROVE Append(s, k + 1)[i] = t[i]
  <2>1. CASE i \in 1..n
    BY <1>1, <1>2, <2>1
  <2>2. CASE i = n + 1
    <3>1. Append(s, k + 1)[Len(s) + 1] = k + 1
      BY <1>1, AppendProperties
    <3>2. t[n + 1] = (k + 1) - (n + 1) + (n + 1)
      BY <1>2
    <3>3. Len(s) = n /\ (k + 1) - (n + 1) + (n + 1) = k + 1
      BY <1>1
    <3> QED BY <2>2, <3>1, <3>2, <3>3
  <2>3. i \in 1..n \/ i = n + 1
    OBVIOUS
  <2> QED BY <2>1, <2>2, <2>3
<1>5. Append(s, k + 1) = t
  BY <1>2, <1>3, <1>4, SeqEqual
<1> QED BY <1>5 DEF s, t

(* add keeps the newest events *)
LEMMA RecordKeeps ==
  ASSUME recorded \in Nat, KeepsNewest, Record
  PROVE  KeepsNewest' /\ recorded' = recorded + 1
<1> DEFINE n == Lesser(recorded, AuditLimit)
<1>1. n \in Nat
  BY DEF Lesser
<1>2. Append(entries, recorded + 1) = LastEvents(recorded + 1, n + 1)
  BY <1>1, AppendToLast DEF KeepsNewest
<1>3. Len(LastEvents(recorded + 1, n + 1)) = n + 1
  <2>1. recorded + 1 \in Nat /\ n + 1 \in Nat
    BY <1>1
  <2> QED BY <2>1, LastEventsLength
<1>r. recorded' = recorded + 1 /\ entries' = Trimmed(LastEvents(recorded + 1, n + 1))
  BY <1>2 DEF Record
<1> HIDE DEF n
<1>4. CASE recorded < AuditLimit
  <2>1. n + 1 <= AuditLimit /\ n + 1 = Lesser(recorded + 1, AuditLimit)
    BY <1>4 DEF Lesser, n
  <2>2. entries' = LastEvents(recorded + 1, n + 1)
    BY <1>1, <1>3, <1>r, <2>1 DEF Trimmed
  <2> QED BY <1>r, <2>1, <2>2 DEF KeepsNewest
<1>5. CASE ~(recorded < AuditLimit)
  <2>1. n = AuditLimit /\ AuditLimit = Lesser(recorded + 1, AuditLimit)
    BY <1>5 DEF Lesser, n
  <2>2. Newest(LastEvents(recorded + 1, n + 1), AuditLimit) = LastEvents(recorded + 1, AuditLimit)
    BY <2>1, <1>1, NewestOfLast
  <2>3. entries' = LastEvents(recorded + 1, AuditLimit)
    BY <1>1, <1>3, <1>r, <2>1, <2>2 DEF Trimmed
  <2> QED BY <1>r, <2>1, <2>3 DEF KeepsNewest
<1> QED BY <1>4, <1>5

(* There are no more lines than events *)
LEMMA LinesBound ==
  ASSUME NEW k \in Nat
  PROVE  Lines(k) \in 0..k
BY DEF Lines, Lesser

(* A snapshot for a report is the newest events, as many as it can show *)
LEMMA SnapshotIsNewest ==
  ASSUME recorded \in Nat, KeepsNewest
  PROVE  Snapshot(MaxLogLines) = LastEvents(recorded, Lines(recorded))
<1> DEFINE n == Lesser(recorded, AuditLimit)
<1>1. n \in Nat
  BY DEF Lesser
<1>2. entries = LastEvents(recorded, n) /\ Len(entries) = n
  BY <1>1, LastEventsLength DEF KeepsNewest
<1>3. CASE MaxLogLines = 0 \/ MaxLogLines > n
  <2>1. Lines(recorded) = n
    BY <1>1, <1>3 DEF Lines, Lesser
  <2> QED BY <1>2, <1>3, <2>1 DEF Snapshot
<1>4. CASE ~(MaxLogLines = 0 \/ MaxLogLines > n)
  <2>1. Lines(recorded) = MaxLogLines /\ MaxLogLines <= n
    BY <1>1, <1>4 DEF Lines, Lesser
  <2>2. Newest(LastEvents(recorded, n), MaxLogLines) = LastEvents(recorded, MaxLogLines)
    BY <1>1, <2>1, NewestOfLast
  <2> QED BY <1>2, <1>4, <2>1, <2>2 DEF Snapshot
<1> QED BY <1>3, <1>4

(* A snapshot holds numbers of events *)
LEMMA SnapshotType ==
  ASSUME recorded \in Nat, KeepsNewest
  PROVE  Snapshot(MaxLogLines) \in Seq(Nat)
<1> DEFINE n == Lines(recorded)
<1>1. n \in 0..recorded
  BY LinesBound
<1>2. Snapshot(MaxLogLines) = LastEvents(recorded, n)
  BY SnapshotIsNewest
<1> HIDE DEF n
<1>3. n \in Nat /\ \A i \in 1..n : recorded - n + i \in Nat
  BY <1>1
<1>4. LastEvents(recorded, n) \in [1..n -> Nat]
  BY <1>3 DEF LastEvents
<1> QED BY <1>2, <1>3, <1>4

-------------------------------------------------------------------------------
(***************************************************************************)
(* One step of the goroutines, of ipset or of the clock                    *)
(***************************************************************************)
(* What Mode does when it does not reply *)
Continue(c) ==
  /\ pc[c] = "mode"
  /\ \/ Enter(c, "controller") /\ UNCHANGED second
     \/ Enter(c, "lock") /\ second' = [second EXCEPT ![c] = TRUE]
  /\ targets' = [targets EXCEPT ![c] = {}]
  /\ UNCHANGED <<device, cached, runner, holder, kind, seen, shown, askedAt, auditVars>>

(* After the mode is read the report goes on or ends; after the rest it ends *)
LEMMA RepliesOrContinues ==
  ASSUME NEW c \in Clients, Mode(c) \/ Answers(c) \/ Table(c)
  PROVE  \/ Continue(c)
         \/ Reply(c) /\ pc[c] \notin {"lock", "held", "exec"}
  BY DEF Mode, Answers, Table, Continue

(* Counting stops at the bound *)
LEMMA NextUpToBound ==
  ASSUME NEW bound \in Nat, NEW n \in 0..bound
  PROVE  /\ NextUpTo(n, bound) \in 0..bound
         /\ NextUpTo(n, bound) = n + 1 \/ (n = bound /\ NextUpTo(n, bound) = bound)
  BY DEF NextUpTo, Lesser

(* The initial states are typed and satisfy the invariant *)
LEMMA IndInit == Init => IndInv /\ AuditIsNewest
<1> SUFFICES ASSUME Init PROVE IndInv /\ AuditIsNewest
  OBVIOUS
<1>1. TypeOK
  BY DEF Init, AuditInit, TypeOK, Window, Kinds, Services, PcValues, Waiting
<1>2. LockInv
  BY DEF Init, LockInv
<1>3. WaitInv
  BY DEF Init, WaitInv
<1>4. CurrentInv
  BY DEF Init, CurrentInv, Fresh
<1>5. KeepsNewest
  <2>1. Lesser(0, AuditLimit) = 0
    BY DEF Lesser
  <2>2. LastEvents(0, 0) = <<>>
    BY LastEventsLength, EmptySeq
  <2> QED BY <2>1, <2>2 DEF Init, AuditInit, KeepsNewest
<1>6. AuditIsNewest
  BY <1>5 DEF Init, AuditIsNewest
<1> QED BY <1>1, <1>2, <1>3, <1>4, <1>6 DEF IndInv

(* Entering a step keeps the types of where a goroutine is and has waited *)
LEMMA EnterTypes ==
  ASSUME pc \in [Clients -> PcValues], spent \in [Clients -> Nat],
         NEW c \in Clients, NEW label \in PcValues, Enter(c, label)
  PROVE  pc' \in [Clients -> PcValues] /\ spent' \in [Clients -> Nat]
  BY DEF Enter

(* No step leaves the types *)
THEOREM TypeStep == TypeOK /\ KeepsNewest /\ LockInv /\ [Next]_vars => TypeOK'
<1> SUFFICES ASSUME TypeOK, KeepsNewest, LockInv, [Next]_vars PROVE TypeOK'
  OBVIOUS
<1> USE DEF TypeOK, device, cached, runner, report, auditVars
<1>0. {"idle", "scan", "mode", "table", "held", "lock", "exec", "controller", "logread"} = PcValues
  BY DEF PcValues, Waiting
<1>1. ASSUME NEW c \in Clients, Ask(c) PROVE TypeOK'
  <2>1. kind' \in [Clients -> Kinds]
    BY <1>1 DEF Ask
  <2>2. shown' \in [Clients -> Seq(Nat)] /\ askedAt' \in [Clients -> Nat]
    <3>1. Snapshot(MaxLogLines) \in Seq(Nat)
      BY SnapshotType
    <3>2. \/ UNCHANGED <<shown, askedAt>>
          \/ /\ shown' = [shown EXCEPT ![c] = Snapshot(MaxLogLines)]
             /\ askedAt' = [askedAt EXCEPT ![c] = recorded]
      BY <1>1 DEF Ask
    <3>3. shown' \in [Clients -> Seq(Nat)]
      BY <3>1, <3>2
    <3>4. askedAt' \in [Clients -> Nat]
      BY <3>2
    <3> QED BY <3>3, <3>4
  <2>3. Enter(c, "scan") \/ Enter(c, "logread")
    BY <1>1 DEF Ask
  <2>4. pc' \in [Clients -> PcValues] /\ spent' \in [Clients -> Nat]
    BY <1>0, <2>3, EnterTypes
  <2> QED BY <1>1, <2>1, <2>2, <2>4 DEF Ask
<1>2. ASSUME NEW c \in Clients, Acquire(c) PROVE TypeOK'
  BY <1>0, <1>2 DEF Acquire
<1>r. ASSUME NEW c \in Clients, RunIpset(c) PROVE TypeOK'
  BY <1>0, <1>r DEF RunIpset
<1>3. ASSUME NEW c \in Clients, Scan(c) PROVE TypeOK'
  <2>1. pc' \in [Clients -> PcValues] /\ spent' \in [Clients -> Nat]
    BY <1>0, <1>3, EnterTypes DEF Scan
  <2>2. seen' \in [Clients -> SUBSET Services]
    BY <1>3 DEF Scan
  <2> QED BY <1>3, <2>1, <2>2 DEF Scan
<1>4. ASSUME NEW c \in Clients, Continue(c) PROVE TypeOK'
  <2>1. pc' \in [Clients -> PcValues] /\ spent' \in [Clients -> Nat]
    BY <1>0, <1>4, EnterTypes DEF Continue
  <2>2. second' \in [Clients -> BOOLEAN]
    BY <1>4 DEF Continue
  <2> QED BY <1>4, <2>1, <2>2 DEF Continue
<1>5. ASSUME NEW c \in Clients, Reply(c) PROVE TypeOK'
  <2>1. pc' \in [Clients -> PcValues] /\ spent' \in [Clients -> Nat]
    BY <1>0, <1>5, EnterTypes DEF Reply
  <2>2. kind' \in [Clients -> Kinds] /\ shown' \in [Clients -> Seq(Nat)] /\ askedAt' \in [Clients -> Nat]
    <3>1. <<>> \in Seq(Nat)
      OBVIOUS
    <3> QED BY <1>5, <3>1 DEF Reply, Kinds
  <2> QED BY <1>5, <2>1, <2>2 DEF Reply
<1>6. ASSUME NEW c \in Clients, Mode(c) \/ Answers(c) \/ Table(c) PROVE TypeOK'
  <2> HIDE DEF TypeOK
  <2> QED BY <1>4, <1>5, <1>6, RepliesOrContinues
<1>7. ASSUME NEW c \in Clients, Hit(c) \/ Stored(c) \/ Failed(c) PROVE TypeOK'
  <2>1. PICK list \in SUBSET Devices : Return(c, list)
    BY <1>7 DEF Hit, Stored, Failed
  <2>2. pc' \in [Clients -> PcValues] /\ spent' \in [Clients -> Nat]
    BY <1>0, <2>1, EnterTypes DEF Return
  <2>3. /\ cache' \in SUBSET Devices /\ output' \in SUBSET Devices
        /\ cacheAge' \in 0..TTL /\ sound' \in 0..TTL /\ ran' \in 0..ExecTimeout
        /\ ipset' \in {"none", "run", "read"}
    BY <1>7 DEF Hit, Stored, Failed, Forget, IpsetEnds
  <2> QED BY <2>1, <2>2, <2>3 DEF Return
<1>8. CASE IpsetReads
  BY <1>8 DEF IpsetReads
<1>9. CASE MembersChange
  <2>1. stable' \in [Devices -> 0..Window]
    <3>1. 0 \in 0..Window
      BY DEF Window
    <3> QED BY <1>9, <3>1 DEF MembersChange
  <2> QED BY <1>9, <2>1 DEF MembersChange
<1>10. CASE Event
  <2>1. recorded' \in Nat
    BY <1>10 DEF Event, Record
  <2> QED BY <1>10, <2>1 DEF Event
<1>11. CASE Tick
  <2>1. cacheAge' \in 0..TTL /\ sound' \in 0..TTL /\ stable' \in [Devices -> 0..Window]
    <3>1. Window \in Nat
      BY DEF Window
    <3>2. \A d \in Devices : NextUpTo(stable[d], Window) \in 0..Window
      BY <3>1, NextUpToBound
    <3> QED BY <1>11, <3>2, NextUpToBound DEF Tick
  <2>2. ran' \in 0..ExecTimeout
    <3>1. CASE ipset = "none"
      BY <1>11, <3>1 DEF Tick
    <3>2. CASE ipset # "none"
      <4>1. PICK c \in Clients : holder = c /\ pc[c] = "exec"
        BY <3>2 DEF LockInv
      <4>2. ran # ExecTimeout
        BY <1>11, <4>1 DEF Tick, Due
      <4> QED BY <1>11, <4>2 DEF Tick
    <3> QED BY <3>1, <3>2
  <2>3. spent' \in [Clients -> Nat]
    BY <1>11 DEF Tick
  <2> QED BY <1>11, <2>1, <2>2, <2>3 DEF Tick
<1>12. CASE UNCHANGED vars
  BY <1>12 DEF vars
<1> QED BY <1>1, <1>2, <1>r, <1>3, <1>6, <1>7, <1>8, <1>9, <1>10, <1>11, <1>12 DEF Next, Handler

-------------------------------------------------------------------------------
(***************************************************************************)
(* targetMu                                                                *)
(***************************************************************************)

(* What a step outside leigodTargets does: c comes to it, or stays away *)
Elsewhere(c) ==
  /\ pc[c] \notin {"lock", "held", "exec"}
  /\ \E label \in PcValues \ {"held", "exec"} : Enter(c, label)
  /\ UNCHANGED <<device, cached, runner, holder>>

(* What the end of leigodTargets does *)
Leaves(c) ==
  /\ pc[c] \in {"held", "exec"}
  /\ \E label \in {"table", "mode"} : Enter(c, label)
  /\ holder' = NoClient
  /\ UNCHANGED device

(* Handlers other than leigodTargets are elsewhere *)
LEMMA HandlersElsewhere ==
  ASSUME TypeOK, NEW c \in Clients, Ask(c) \/ Scan(c) \/ Mode(c) \/ Answers(c) \/ Table(c)
  PROVE  Elsewhere(c)
<1> USE DEF PcValues, Waiting
<1>1. CASE Ask(c)
  BY <1>1 DEF Ask, Elsewhere, cached, runner, device
<1>2. CASE Scan(c)
  BY <1>2 DEF Scan, Elsewhere, cached, runner, device
<1>3. CASE Mode(c) \/ Answers(c) \/ Table(c)
  <2>1. CASE Continue(c)
    BY <2>1 DEF Continue, Elsewhere, cached, runner, device
  <2>2. CASE Reply(c) /\ pc[c] \notin {"lock", "held", "exec"}
    BY <2>2 DEF Reply, Elsewhere, cached, runner, device
  <2> QED BY <1>3, <2>1, <2>2, RepliesOrContinues
<1> QED BY <1>1, <1>2, <1>3

(* leigodTargets ends by leaving *)
LEMMA TargetsLeaves ==
  ASSUME NEW c \in Clients, Hit(c) \/ Stored(c) \/ Failed(c)
  PROVE  Leaves(c)
<1>1. pc[c] \in {"held", "exec"} /\ \E list : Return(c, list)
  BY DEF Hit, Stored, Failed
<1> QED BY <1>1 DEF Return, Leaves, device

(* No step breaks the exclusion at targetMu *)
THEOREM LockStep == TypeOK /\ LockInv /\ [Next]_vars => LockInv'
<1> SUFFICES ASSUME TypeOK, LockInv, [Next]_vars PROVE LockInv'
  OBVIOUS
<1>0. pc \in [Clients -> PcValues] /\ ipset \in {"none", "run", "read"}
  BY DEF TypeOK
<1> USE DEF LockInv
<1>1. ASSUME NEW c \in Clients, Elsewhere(c) PROVE LockInv'
  BY <1>0, <1>1 DEF Elsewhere, Enter, runner
<1>2. ASSUME NEW c \in Clients, Acquire(c) PROVE LockInv'
  BY <1>0, <1>2 DEF Acquire, runner
<1>3. ASSUME NEW c \in Clients, RunIpset(c) PROVE LockInv'
  BY <1>0, <1>3 DEF RunIpset
<1>4. ASSUME NEW c \in Clients, Hit(c) \/ Stored(c) \/ Failed(c) PROVE LockInv'
  <2>1. Leaves(c)
    BY <1>4, TargetsLeaves
  <2>2. ipset' = "none"
    BY <1>4 DEF Hit, Stored, Failed, IpsetEnds, runner
  <2> QED BY <1>0, <2>1, <2>2 DEF Leaves, Enter
<1>5. CASE IpsetReads
  BY <1>0, <1>5 DEF IpsetReads
<1>6. CASE MembersChange \/ Event \/ Tick \/ UNCHANGED vars
  BY <1>6 DEF MembersChange, Event, Tick, vars, runner
<1> QED BY <1>1, <1>2, <1>3, <1>4, <1>5, <1>6, HandlersElsewhere DEF Next, Handler

(* No step lets a goroutine wait for longer than one command *)
THEOREM WaitStep == TypeOK /\ LockInv /\ WaitInv /\ [Next]_vars => WaitInv'
<1> SUFFICES ASSUME TypeOK, LockInv, WaitInv, [Next]_vars PROVE WaitInv'
  OBVIOUS
<1>0. /\ pc \in [Clients -> PcValues] /\ ipset \in {"none", "run", "read"}
      /\ spent \in [Clients -> Nat] /\ ran \in 0..ExecTimeout /\ cacheAge \in 0..TTL
  BY DEF TypeOK
<1> USE DEF WaitInv
<1>1. ASSUME NEW c \in Clients, Elsewhere(c) PROVE WaitInv'
  BY <1>0, <1>1 DEF Elsewhere, Enter, runner, cached
<1>2. ASSUME NEW c \in Clients, Acquire(c) PROVE WaitInv'
  <2>1. ipset = "none"
    BY <1>0, <1>2 DEF Acquire, LockInv
  <2> QED BY <1>0, <1>2, <2>1 DEF Acquire, runner, cached
<1>3. ASSUME NEW c \in Clients, RunIpset(c) PROVE WaitInv'
  <2>1. ipset = "none" /\ cacheAge # 0
    BY <1>0, <1>3 DEF RunIpset, Fresh, LockInv
  <2>2. \A d \in Clients : pc[d] \in {"lock", "held"} => spent[d] = 0
    BY <1>0, <2>1
  <2>3. \A d \in Clients \ {c} : pc[d] \notin {"held", "exec"}
    BY <1>3 DEF RunIpset, LockInv
  <2> QED BY <1>0, <1>3, <2>1, <2>2, <2>3 DEF RunIpset
<1>4. ASSUME NEW c \in Clients, Hit(c) \/ Stored(c) \/ Failed(c) PROVE WaitInv'
  <2>1. Leaves(c)
    BY <1>4, TargetsLeaves
  <2>5. ipset' = "none"
    BY <1>4 DEF Hit, Stored, Failed, IpsetEnds, runner, LockInv
  <2>2. cacheAge' = 0 \/ (ipset = "none" /\ cacheAge' = cacheAge)
    BY <1>0, <1>4 DEF Hit, Stored, Failed, Forget, cached, runner, LockInv
  <2>3. \A d \in Clients \ {c} : pc[d] \notin {"held", "exec"}
    BY <2>1 DEF Leaves, LockInv
  <2>4. \A d \in Clients \ {c} : pc[d] = "lock" => spent[d] <= ExecTimeout
    BY <1>0
  <2> QED BY <1>0, <2>1, <2>2, <2>3, <2>4, <2>5 DEF Leaves, Enter
<1>5. CASE IpsetReads
  BY <1>0, <1>5 DEF IpsetReads, cached
<1>6. CASE Tick
  <2>1. ASSUME NEW d \in Clients, pc[d] = "lock"
        PROVE  ipset # "none" /\ ran < ExecTimeout
    <3>1. PICK c \in Clients : holder = c /\ pc[c] \in {"held", "exec"}
      BY <1>6, <2>1 DEF Tick, Due, TypeOK, LockInv
    <3>2. pc[c] = "exec" /\ ran # ExecTimeout
      BY <1>6, <3>1 DEF Tick, Due
    <3> QED BY <1>0, <3>1, <3>2 DEF LockInv
  <2>2. ASSUME NEW d \in Clients, pc[d] = "exec"
        PROVE  ipset # "none"
    BY <2>2 DEF LockInv
  <2>3. \A d \in Clients : pc[d] # "held"
    BY <1>6 DEF Tick, Due
  <2> QED BY <1>0, <1>6, <2>1, <2>2, <2>3 DEF Tick, Waiting
<1>7. CASE MembersChange \/ Event \/ UNCHANGED vars
  BY <1>7 DEF MembersChange, Event, vars, runner, cached
<1> QED BY <1>1, <1>2, <1>3, <1>4, <1>5, <1>6, <1>7, HandlersElsewhere DEF Next, Handler

-------------------------------------------------------------------------------
(***************************************************************************)
(* The cache                                                               *)
(***************************************************************************)

(* What the invariant says of one device *)
CurrentOf(d) ==
  /\ ipset = "read" => (d \in output <=> d \in members) \/ stable[d] <= ran
  /\ Fresh => \/ d \in cache <=> d \in members
              \/ stable[d] <= ExecTimeout + cacheAge
              \/ d \notin cache /\ sound <= cacheAge

(* No step makes what was read of a device older than the clock says *)
THEOREM CurrentStep == TypeOK /\ LockInv /\ CurrentInv /\ [Next]_vars => CurrentInv'
<1> SUFFICES ASSUME TypeOK, LockInv, CurrentInv, [Next]_vars, NEW d \in Devices PROVE CurrentOf(d)'
  BY DEF CurrentInv, CurrentOf, Fresh
<1>0. /\ cacheAge \in 0..TTL /\ sound \in 0..TTL /\ stable \in [Devices -> 0..Window]
      /\ ran \in 0..ExecTimeout /\ stable[d] \in 0..Window
      /\ pc \in [Clients -> PcValues] /\ ipset \in {"none", "run", "read"}
  BY DEF TypeOK
<1>c. CurrentOf(d)
  BY DEF CurrentInv, CurrentOf
<1> USE DEF CurrentOf, Fresh
<1>1. ASSUME NEW c \in Clients, Elsewhere(c) \/ Acquire(c) \/ Hit(c) PROVE CurrentOf(d)'
  BY <1>c, <1>1 DEF Elsewhere, Acquire, Hit, Return, device, cached, runner
<1>2. ASSUME NEW c \in Clients, RunIpset(c) PROVE CurrentOf(d)'
  BY <1>c, <1>2 DEF RunIpset, device, cached
<1>3. ASSUME NEW c \in Clients, Stored(c) PROVE CurrentOf(d)'
  BY <1>0, <1>c, <1>3 DEF Stored, Return, IpsetEnds, device
<1>4. ASSUME NEW c \in Clients, Failed(c) PROVE CurrentOf(d)'
  BY <1>0, <1>c, <1>4 DEF Failed, Return, IpsetEnds, Forget, device
<1>5. CASE IpsetReads
  BY <1>c, <1>5 DEF IpsetReads, device, cached
<1>6. CASE MembersChange
  <2>1. /\ ran' = ran /\ ipset' = ipset /\ output' = output
        /\ cacheAge' = cacheAge /\ cache' = cache /\ sound' = sound
    BY <1>6 DEF MembersChange, runner, cached
  <2>2. stable'[d] = IF d \in members <=> d \in members' THEN stable[d] ELSE 0
    BY <1>6 DEF MembersChange
  <2>3. CASE d \in members <=> d \in members'
    BY <1>0, <1>c, <2>1, <2>2, <2>3
  <2>4. CASE ~(d \in members <=> d \in members')
    BY <1>0, <2>1, <2>2, <2>4
  <2> QED BY <2>3, <2>4
<1>7. CASE Tick
  <2>1. /\ stable'[d] <= stable[d] + 1 /\ sound' <= sound + 1
        /\ cacheAge' < TTL => cacheAge' = cacheAge + 1 /\ cacheAge < TTL
    <3>1. stable'[d] = NextUpTo(stable[d], Window) /\ sound' = NextUpTo(sound, TTL) /\ cacheAge' = NextUpTo(cacheAge, TTL)
      BY <1>7 DEF Tick
    <3>2. Window \in Nat /\ TTL \in Nat
      BY DEF Window
    <3> QED BY <1>0, <3>1, <3>2 DEF NextUpTo, Lesser
  <2>2. ipset # "none" => ran' = ran + 1
    BY <1>7 DEF Tick
  <2>3. UNCHANGED <<members, cache, ipset, output>>
    BY <1>7 DEF Tick
  <2>4. stable'[d] \in Nat /\ sound' \in Nat
    BY <1>0, <1>7, NextUpToBound DEF Tick, Window
  <2>5. ipset' = "read" => (d \in output' <=> d \in members') \/ stable'[d] <= ran'
    BY <1>0, <1>c, <2>1, <2>2, <2>3, <2>4
  <2>6. cacheAge' < TTL => \/ d \in cache' <=> d \in members'
                          \/ stable'[d] <= ExecTimeout + cacheAge'
                          \/ (d \notin cache' /\ sound' <= cacheAge')
    <3>1. CASE d \in cache <=> d \in members
      BY <2>3, <3>1
    <3>2. CASE stable[d] <= ExecTimeout + cacheAge
      BY <1>0, <2>1, <2>4, <3>2
    <3>3. CASE d \notin cache /\ sound <= cacheAge
      BY <1>0, <2>1, <2>3, <2>4, <3>3
    <3> QED BY <1>c, <2>1, <3>1, <3>2, <3>3
  <2> QED BY <2>5, <2>6
<1>8. CASE Event \/ UNCHANGED vars
  BY <1>c, <1>8 DEF Event, vars, device, cached, runner
<1> QED BY <1>1, <1>2, <1>3, <1>4, <1>5, <1>6, <1>7, <1>8, HandlersElsewhere DEF Next, Handler

-------------------------------------------------------------------------------
(***************************************************************************)
(* Audit entries in reports                                                *)
(***************************************************************************)

(* No step gives a report, or leaves in the log, anything but the newest events *)
THEOREM AuditStep == TypeOK /\ AuditIsNewest /\ [Next]_vars => AuditIsNewest'
<1> SUFFICES ASSUME TypeOK, AuditIsNewest, [Next]_vars PROVE AuditIsNewest'
  OBVIOUS
<1> DEFINE Told(c) == kind[c] = "logs" => shown[c] = LastEvents(askedAt[c], Lines(askedAt[c]))
<1>0. /\ kind \in [Clients -> Kinds] /\ shown \in [Clients -> Seq(Nat)]
      /\ askedAt \in [Clients -> Nat] /\ recorded \in Nat
      /\ KeepsNewest /\ \A c \in Clients : Told(c)
  BY DEF TypeOK, AuditIsNewest
<1>1. CASE Event
  <2>1. KeepsNewest' /\ UNCHANGED <<kind, shown, askedAt>>
    BY <1>0, <1>1, RecordKeeps DEF Event, report
  <2> QED BY <1>0, <2>1 DEF AuditIsNewest, Lines
<1>2. ASSUME UNCHANGED <<auditVars, kind, shown, askedAt>> PROVE AuditIsNewest'
  <2>1. KeepsNewest'
    BY <1>0, <1>2 DEF KeepsNewest, auditVars
  <2> QED BY <1>0, <1>2, <2>1 DEF AuditIsNewest, Lines
<1>3. ASSUME NEW c \in Clients, UNCHANGED auditVars, Told(c)',
             \A d \in Clients \ {c} : kind'[d] = kind[d] /\ shown'[d] = shown[d] /\ askedAt'[d] = askedAt[d]
      PROVE  AuditIsNewest'
  <2>1. KeepsNewest'
    BY <1>0, <1>3 DEF KeepsNewest, auditVars
  <2>2. \A d \in Clients : Told(d)'
    BY <1>0, <1>3 DEF Lines
  <2> QED BY <2>1, <2>2 DEF AuditIsNewest
<1>4. ASSUME NEW c \in Clients, Ask(c) PROVE AuditIsNewest'
  <2>1. UNCHANGED auditVars
    BY <1>4 DEF Ask
  <2>2. \A d \in Clients \ {c} : kind'[d] = kind[d] /\ shown'[d] = shown[d] /\ askedAt'[d] = askedAt[d]
    BY <1>0, <1>4 DEF Ask
  <2>3. kind'[c] = "logs" => askedAt'[c] = recorded /\ shown'[c] = Snapshot(MaxLogLines)
    BY <1>0, <1>4 DEF Ask
  <2>4. Told(c)'
    BY <1>0, <2>3, SnapshotIsNewest DEF Lines
  <2> QED BY <1>3, <2>1, <2>2, <2>4
<1>5. ASSUME NEW c \in Clients, Reply(c) PROVE AuditIsNewest'
  <2>1. UNCHANGED auditVars /\ kind'[c] = "status"
    BY <1>0, <1>5 DEF Reply
  <2>2. \A d \in Clients \ {c} : kind'[d] = kind[d] /\ shown'[d] = shown[d] /\ askedAt'[d] = askedAt[d]
    BY <1>0, <1>5 DEF Reply
  <2>3. Told(c)'
    BY <2>1
  <2> QED BY <1>3, <2>1, <2>2, <2>3
<1>6. ASSUME NEW c \in Clients, Mode(c) \/ Answers(c) \/ Table(c) PROVE AuditIsNewest'
  <2>1. CASE Continue(c)
    BY <1>2, <2>1 DEF Continue
  <2> QED BY <1>5, <1>6, <2>1, RepliesOrContinues
<1>7. ASSUME NEW c \in Clients, Hit(c) \/ Stored(c) \/ Failed(c) \/ Scan(c) \/ Acquire(c) \/ RunIpset(c)
      PROVE  AuditIsNewest'
  BY <1>2, <1>7 DEF Hit, Stored, Failed, Return, Scan, Acquire, RunIpset, report
<1>8. CASE IpsetReads \/ MembersChange \/ Tick \/ UNCHANGED vars
  BY <1>2, <1>8 DEF IpsetReads, MembersChange, Tick, vars, report
<1> QED BY <1>1, <1>4, <1>6, <1>7, <1>8 DEF Next, Handler

-------------------------------------------------------------------------------
(***************************************************************************)
(* The theorems                                                            *)
(***************************************************************************)

(* The invariant holds in every reachable state *)
THEOREM Invariance == Spec => [](IndInv /\ AuditIsNewest)
<1>1. IndInv /\ AuditIsNewest /\ [Next]_vars => (IndInv /\ AuditIsNewest)'
  <2>1. AuditIsNewest => KeepsNewest
    BY DEF AuditIsNewest
  <2> QED BY <2>1, TypeStep, LockStep, WaitStep, CurrentStep, AuditStep DEF IndInv
<1> QED BY IndInit, <1>1, PTL DEF Spec

(* Every variable keeps its type *)
THEOREM TypeCorrect == Spec => []TypeOK
<1>1. IndInv => TypeOK
  BY DEF IndInv
<1> QED BY <1>1, Invariance, PTL

(* However many reports queue behind it, no call of leigodTargets lasts longer than one ipset may *)
THEOREM WaitIsBounded == Spec => []BoundedWait
<1>1. IndInv => BoundedWait
  <2> SUFFICES ASSUME IndInv, NEW c \in Clients, pc[c] \in {"lock", "held", "exec"}
               PROVE  spent[c] <= ExecTimeout
    BY DEF BoundedWait
  <2> QED BY DEF IndInv, WaitInv, TypeOK
<1> QED BY <1>1, Invariance, PTL

(* The log holds the newest events, and a report of it those of the moment *)
(* it was asked for, as many as its limit allows, from the newest end.     *)
THEOREM AuditCorrect == Spec => []AuditIsNewest
BY Invariance, PTL

(* A list that was given out is right about every device that did not change *)
(* just before, but for those a failed command made it lose.                 *)
THEOREM TargetsCorrect == Spec => TargetsAreCurrent
<1>1. IndInv /\ [Next]_vars =>
        [\A c \in Clients, d \in Devices :
           holder = c /\ holder' = NoClient /\ stable'[d] = Window =>
             /\ d \in targets'[c] => d \in members
             /\ d \in members => d \in targets'[c] \/ sound' < TTL]_vars
  <2> SUFFICES ASSUME TypeOK, LockInv, CurrentInv, [Next]_vars,
                      NEW c \in Clients, holder = c, holder' = NoClient,
                      NEW d \in Devices, stable'[d] = Window
               PROVE  /\ d \in targets'[c] => d \in members
                      /\ d \in members => d \in targets'[c] \/ sound' < TTL
    BY DEF IndInv
  <2>0. /\ cacheAge \in 0..TTL /\ sound \in 0..TTL /\ ran \in 0..ExecTimeout
        /\ targets \in [Clients -> SUBSET Devices]
    BY DEF TypeOK
  <2>1. Hit(c) \/ Stored(c) \/ Failed(c)
    <3>1. \A b \in Clients : Elsewhere(b) \/ RunIpset(b) => holder' = holder
      BY DEF Elsewhere, RunIpset
    <3>2. \A b \in Clients : Acquire(b) => holder' = b
      BY DEF Acquire
    <3>3. \A b \in Clients : Hit(b) \/ Stored(b) \/ Failed(b) => holder = b
      BY DEF Hit, Stored, Failed, LockInv
    <3>4. IpsetReads \/ MembersChange \/ Event \/ Tick \/ UNCHANGED vars => holder' = holder
      BY DEF IpsetReads, MembersChange, Event, Tick, vars
    <3> QED BY <3>1, <3>2, <3>3, <3>4, HandlersElsewhere DEF Next, Handler
  <2>2. CASE Hit(c)
    <3>1. targets'[c] = cache /\ stable[d] = Window /\ sound' = sound
      BY <2>0, <2>2 DEF Hit, Return, device, cached
    <3>2. (d \in cache <=> d \in members) \/ (d \notin cache /\ sound <= cacheAge)
      BY <2>0, <2>2, <3>1 DEF Hit, Fresh, CurrentInv, Window
    <3>3. cacheAge < TTL
      BY <2>2 DEF Hit, Fresh
    <3> QED BY <2>0, <3>1, <3>2, <3>3
  <2>3. CASE Stored(c)
    <3>1. targets'[c] = output /\ stable[d] = Window
      BY <2>0, <2>3 DEF Stored, Return, device
    <3>2. (d \in output <=> d \in members) \/ stable[d] <= ran
      BY <2>3 DEF Stored, CurrentInv
    <3>3. ~(Window <= ran)
      BY <2>0 DEF Window
    <3> QED BY <3>1, <3>2, <3>3
  <2>4. CASE Failed(c)
    BY <2>0, <2>4 DEF Failed, Return
  <2> QED BY <2>1, <2>2, <2>3, <2>4
<1> QED BY <1>1, Invariance, PTL DEF Spec, TargetsAreCurrent

===============================================================================
