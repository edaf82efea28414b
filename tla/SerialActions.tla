----------------------------- MODULE SerialActions -----------------------------
(***************************************************************************)
(* What the console promises of its mode actions (README, How it works:    *)
(* all write operations run one after another and are verified when they   *)
(* are done), without commands, processes, clocks or a mutex:              *)
(*                                                                         *)
(*   - one request at a time is active, and only while one is active does  *)
(*     the mode change, and then only to a mode that request may bring     *)
(*     about;                                                              *)
(*   - a request that ends as switched ends in its target mode, one that   *)
(*     ends as restored in the mode it found, and only a switch away from  *)
(*     another known mode is restored at all.                              *)
(***************************************************************************)
EXTENDS ProxyModes

CONSTANTS Requests, Asked, AutoRollback

VARIABLES mode, stage, wish, found, outcome

vars == <<mode, stage, wish, found, outcome>>

Idle(r)   == stage[r] = "idle"
Queued(r) == stage[r] = "queued"
Active(r) == stage[r] = "active"
Done(r)   == stage[r] = "done"

Move(r, to) == stage' = [stage EXCEPT ![r] = to]

Restores(r) == /\ AutoRollback
               /\ found[r] \in KnownModes \ {ActionTarget(wish[r])}

(* The modes r may bring about while it is active *)
MayBecome(r) ==
  {ActionTarget(wish[r])}
    \cup (IF Restores(r) THEN {found[r]} ELSE {})
    \cup (IF wish[r] \in RestartActions /\ found[r] = ActionTarget(wish[r]) THEN {"off"} ELSE {})

Init ==
  /\ mode \in Readings
  /\ stage = [r \in Requests |-> "idle"]
  /\ wish = [r \in Requests |-> "none"]
  /\ found = [r \in Requests |-> "unknown"]
  /\ outcome = [r \in Requests |-> "none"]

Ask(r) ==
  /\ Idle(r)
  /\ Move(r, "queued")
  /\ \E a \in Asked : wish' = [wish EXCEPT ![r] = a]
  /\ UNCHANGED <<mode, found, outcome>>

(* r becomes the only active request; an unsupported wish is refused at once *)
Start(r) ==
  /\ Queued(r)
  /\ \A s \in Requests : ~Active(s)
  /\ Move(r, "active")
  /\ found' = [found EXCEPT ![r] = mode]
  /\ outcome' = [outcome EXCEPT ![r] = IF wish[r] \in Supported THEN "none" ELSE "rejected"]
  /\ UNCHANGED <<mode, wish>>

Change(r) ==
  /\ Active(r) /\ outcome[r] = "none"
  /\ mode' \in MayBecome(r)
  /\ UNCHANGED <<stage, wish, found, outcome>>

Finish(r, o) ==
  /\ Active(r) /\ outcome[r] = "none"
  /\ o = "switched" => mode = ActionTarget(wish[r])
  /\ o = "restored" => mode = found[r] /\ Restores(r)
  /\ outcome' = [outcome EXCEPT ![r] = o]
  /\ UNCHANGED <<mode, stage, wish, found>>

Release(r) ==
  /\ Active(r) /\ outcome[r] # "none"
  /\ Move(r, "done")
  /\ found' = [found EXCEPT ![r] = "unknown"]
  /\ UNCHANGED <<mode, wish, outcome>>

Leave(r) ==
  /\ Done(r)
  /\ Move(r, "idle")
  /\ wish' = [wish EXCEPT ![r] = "none"]
  /\ outcome' = [outcome EXCEPT ![r] = "none"]
  /\ UNCHANGED <<mode, found>>

Next ==
  \E r \in Requests :
    \/ Ask(r)
    \/ Start(r)
    \/ Change(r)
    \/ \E o \in {"switched", "restored", "failed"} : Finish(r, o)
    \/ Release(r)
    \/ Leave(r)

Spec == Init /\ [][Next]_vars

===============================================================================
