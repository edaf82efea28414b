--------------------------- MODULE InterruptedActions ---------------------------
(***************************************************************************)
(* What is left of SerialActions when the console may die at any moment:   *)
(* the requests are gone without an outcome, and a mode that the active    *)
(* one was about to bring about may still come, as a stray, or not.  No    *)
(* other mode is ever recorded, and a request that does end as switched or *)
(* restored ends in the mode it says.                                      *)
(***************************************************************************)
EXTENDS SerialActions

VARIABLE strays   \* the modes that interrupted requests may still bring about

interruptedVars == <<vars, strays>>

InterruptedInit == Init /\ strays = {}

(* What the active request, if it has no outcome yet, is about to do *)
Pending == UNION {MayBecome(r) : r \in {s \in Requests : Active(s) /\ outcome[s] = "none"}}

Interrupt ==
  /\ stage' = [r \in Requests |-> "idle"]
  /\ wish' = [r \in Requests |-> "none"]
  /\ found' = [r \in Requests |-> "unknown"]
  /\ outcome' = [r \in Requests |-> "none"]
  /\ \/ UNCHANGED strays
     \/ \E m \in Pending : strays' = strays \cup {m}
  /\ UNCHANGED mode

Stray == /\ mode' \in strays
         /\ UNCHANGED <<stage, wish, found, outcome, strays>>

Fade == /\ strays' \subseteq strays
        /\ UNCHANGED vars

InterruptedNext == (Next /\ UNCHANGED strays) \/ Interrupt \/ Stray \/ Fade

InterruptedSpec == InterruptedInit /\ [][InterruptedNext]_interruptedVars

===============================================================================
