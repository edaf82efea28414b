---------------------------- MODULE PasswordRegister ----------------------------
(***************************************************************************)
(* What the console promises about its password, without credentialMu, the *)
(* lock of the session store, files or system calls: one register that is  *)
(* compared and replaced in single steps.  It is replaced only for a       *)
(* client that gave the password in force; a session is opened only for a  *)
(* client whose password was in force when it was compared; a change that  *)
(* is reported leaves nobody logged in.  A crash ends every session and    *)
(* keeps the password.  A power loss may bring an earlier one back, but    *)
(* never one that was not in force.                                        *)
(***************************************************************************)
CONSTANTS Clients, Ids, Words   \* Words: what a request may carry

VARIABLES
  value,     \* the password in force
  settled,   \* the one a power loss would bring back
  said,      \* said[c]: what the request of c carries
  stage,     \* stage[c]: idle, checked (not yet logged in) or changed (not yet told)
  sessions,  \* the sessions that are alive
  granted    \* granted[id]: the password id was opened for

registerVars == <<value, settled, said, stage, sessions, granted>>

RegisterInit ==
  /\ settled = value
  /\ stage = [c \in Clients |-> "idle"]
  /\ sessions = {}

Becomes(c, s) == stage' = [stage EXCEPT ![c] = s]

SaysAnew(c) == \E w \in Words : said' = [said EXCEPT ![c] = w]

(* A request comes, or ends without any of the following *)
Say(c) ==
  /\ stage[c] = "idle" /\ SaysAnew(c)
  /\ UNCHANGED <<value, settled, stage, sessions, granted>>

Check(c) ==
  /\ stage[c] = "idle" /\ said[c].current = value
  /\ Becomes(c, "checked")
  /\ UNCHANGED <<value, settled, said, sessions, granted>>

Open(c) ==
  /\ stage[c] = "checked" /\ Becomes(c, "idle") /\ SaysAnew(c)
  /\ \E id \in Ids \ sessions :
       /\ sessions' = sessions \cup {id}
       /\ granted' = [granted EXCEPT ![id] = said[c].current]
  /\ UNCHANGED <<value, settled>>

Change(c) ==
  /\ stage[c] = "idle" /\ said[c].current = value
  /\ value' = said[c].new
  /\ Becomes(c, "changed")
  /\ UNCHANGED <<settled, said, sessions, granted>>

Reauthenticate(c) ==
  /\ stage[c] = "changed" /\ Becomes(c, "idle") /\ SaysAnew(c)
  /\ sessions' = {}
  /\ UNCHANGED <<value, settled, granted>>

(* A logout or an expiry *)
Close ==
  /\ sessions' \subseteq sessions
  /\ UNCHANGED <<value, settled, said, stage, granted>>

Settle ==
  /\ settled' = value
  /\ UNCHANGED <<value, said, stage, sessions, granted>>

Restart ==
  /\ value' \in {value, settled}
  /\ said' \in [Clients -> Words]
  /\ stage' = [c \in Clients |-> "idle"]
  /\ sessions' = {}
  /\ UNCHANGED <<settled, granted>>

RegisterNext ==
  \/ \E c \in Clients : Say(c) \/ Check(c) \/ Open(c) \/ Change(c) \/ Reauthenticate(c)
  \/ Close \/ Settle \/ Restart

RegisterSpec == RegisterInit /\ [][RegisterNext]_registerVars

===============================================================================
