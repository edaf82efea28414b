-------------------------------- MODULE AuditLog --------------------------------
(***************************************************************************)
(* audit.go: the events the console keeps in memory, at most limit of      *)
(* them, under one lock.  An entry is the number of the event it records.  *)
(***************************************************************************)
EXTENDS Naturals, Sequences

CONSTANT AuditLimit    \* 500 in the code, and never less than 100

ASSUME AuditAssumption == AuditLimit \in Nat \ {0}

VARIABLES
  entries,   \* AuditLog.entries
  recorded   \* history: how many events there were

auditVars == <<entries, recorded>>

AuditInit == entries = <<>> /\ recorded = 0

Oldest(s, n) == [i \in 1..n |-> s[i]]   \* for a mutant: the wrong end

(* The n newest of a sequence that has at least n *)
Newest(s, n) == [i \in 1..n |-> s[Len(s) - n + i]]

Trimmed(s) == IF Len(s) > AuditLimit THEN Newest(s, AuditLimit) ELSE s

(* add *)
Record ==
  /\ recorded' = recorded + 1
  /\ entries' = Trimmed(Append(entries, recorded + 1))

(* mutant: the excerpt starts at the first entry *)
SnapshotOldest(limit) ==
  IF limit = 0 \/ limit > Len(entries) THEN entries ELSE Oldest(entries, limit)

(* snapshot: all of it for a limit that is zero or more than there is *)
Snapshot(limit) == IF limit = 0 \/ limit > Len(entries) THEN entries ELSE Newest(entries, limit)

-------------------------------------------------------------------------------
Lesser(m, n) == IF m < n THEN m ELSE n

(* The n newest of k events *)
LastEvents(k, n) == [i \in 1..n |-> k - n + i]

(* At its limit the log keeps the newest events, in order and without a gap *)
KeepsNewest == entries = LastEvents(recorded, Lesser(recorded, AuditLimit))

===============================================================================
