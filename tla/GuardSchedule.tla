----------------------------- MODULE GuardSchedule -----------------------------
(***************************************************************************)
(* What the console promises about the scheduled check, without mutex,     *)
(* goroutine, files, commands or rollback: an entry that crond follows.    *)
(* It is changed by one update at a time, never beside a check the console *)
(* runs.  An update that is reported as a success has brought about what   *)
(* was asked for.  After one that is not, the entry is the one before or   *)
(* the one asked for, and crond follows it.  Only an update that was cut   *)
(* short (torn) leaves them apart, until the next restart of cron.         *)
(***************************************************************************)
CONSTANT Clients

VARIABLES
  entry,     \* what the table says
  before,    \* what it said when the update under way began
  follows,   \* what crond does
  torn,      \* an update was cut short since they were last known to agree
  doing,     \* doing[c]: the update of c: none, enable or disable
  checking,  \* a check is under way
  told       \* told[c]: the result c is about to be told

scheduleVars == <<entry, before, follows, torn, doing, checking, told>>

Wanted(update) == IF update = "enable" THEN "ours" ELSE "none"

Quiet == ~checking /\ \A c \in Clients : doing[c] = "none"

Agree == torn \/ follows = entry

ScheduleInit ==
  /\ before = entry /\ follows = entry /\ ~torn
  /\ Quiet
  /\ told = [c \in Clients |-> "none"]

StartCheck(c) ==
  /\ Quiet
  /\ checking' = TRUE
  /\ told' = [told EXCEPT ![c] = "ok"]
  /\ UNCHANGED <<entry, before, follows, torn, doing>>

EndCheck ==
  /\ checking' = FALSE
  /\ UNCHANGED <<entry, before, follows, torn, doing, told>>

StartUpdate(c) ==
  /\ Quiet
  /\ \E update \in {"enable", "disable"} : doing' = [doing EXCEPT ![c] = update]
  /\ UNCHANGED <<entry, before, follows, torn, checking, told>>

(* Table and crond on their way *)
Change(c) ==
  /\ doing[c] # "none"
  /\ entry' \in {before, Wanted(doing[c])}
  /\ follows' \in {"down", follows, entry}
  /\ UNCHANGED <<before, torn, doing, checking, told>>

Ends(c, result) ==
  /\ doing[c] # "none"
  /\ doing' = [doing EXCEPT ![c] = "none"]
  /\ told' = [told EXCEPT ![c] = result]
  /\ before' = entry
  /\ follows' \in {"down", follows, entry}
  /\ UNCHANGED <<entry, checking>>

(* The entry is as wanted and in force, if none was cut short before *)
Succeeds(c) == Ends(c, "ok") /\ entry = Wanted(doing[c]) /\ Agree' /\ (torn' => torn)

Fails(c) == Ends(c, "error") /\ Agree'

Tell(c) ==
  /\ told' = [told EXCEPT ![c] = "none"]
  /\ UNCHANGED <<entry, before, follows, torn, doing, checking>>

(* cron is restarted by somebody else *)
Reload ==
  /\ follows' = entry /\ torn' = FALSE
  /\ UNCHANGED <<entry, before, doing, checking, told>>

(* The console dies: an update in progress may be cut short, nothing else changes *)
Die ==
  /\ doing' = [c \in Clients |-> "none"]
  /\ checking' = FALSE
  /\ told' = [c \in Clients |-> "none"]
  /\ torn' \in BOOLEAN /\ Agree'
  /\ torn' => torn \/ ~Quiet
  /\ before' = entry
  /\ UNCHANGED <<entry, follows>>

ScheduleNext ==
  \/ \E c \in Clients :
       StartCheck(c) \/ StartUpdate(c) \/ Change(c) \/ Succeeds(c) \/ Fails(c) \/ Tell(c)
  \/ EndCheck \/ Reload \/ Die

ScheduleSpec == ScheduleInit /\ [][ScheduleNext]_scheduleVars

===============================================================================
