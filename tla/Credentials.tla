------------------------------ MODULE Credentials ------------------------------
(***************************************************************************)
(* Who may use the console: the login, password change, logout and me      *)
(* handlers of api.go over the session store of auth.go, the password in   *)
(* memory (password.go) and the configuration file that writeConfigAtomic  *)
(* replaces.  Every handler is split where another goroutine can get in    *)
(* between: each access to authStore.mu or credentialMu, and each system   *)
(* call of the file replacement, is a step of its own.  The process may    *)
(* die and the router may lose power between any two steps.                *)
(*                                                                         *)
(* A client is a browser with one request in flight and one cookie.        *)
(* Salts, hashes and CSRF tokens are left out: a hash is the password it   *)
(* matches, and a browser sends the token it was given with its cookie.    *)
(***************************************************************************)
EXTENDS Naturals, FiniteSets

CONSTANTS
  Clients,      \* browsers
  NoClient,     \* nobody holds credentialMu for writing
  Passwords,    \* passwords that satisfy validPassword
  Torn,         \* what is left of a file whose data never reached the disk
  Ids,          \* session ids; none is ever drawn twice
  NoId,         \* the browser has no session cookie
  Addresses,    \* client IP addresses
  MaxFailures   \* 5 failed logins of an address close it for the window

ASSUME CredentialsAssumption ==
  /\ NoClient \notin Clients
  /\ Torn \notin Passwords
  /\ NoId \notin Ids
  /\ MaxFailures \in Nat \ {0}
  /\ IsFiniteSet(Clients)

VARIABLES
  pc,        \* pc[c]: where the handler of c is
  arg,       \* arg[c]: what its request carries: address, current and new password
  cookie,    \* cookie[c]: the session id in the cookie jar of c
  sessions,  \* authStore.sessions
  granted,   \* granted[id]: the password id was granted for, Torn before
  failures,  \* failures[a]: authStore.attempts within the open window of a
  memory,    \* the password in App.cfg
  writer,    \* the client that holds credentialMu for writing
  temp,      \* the temporary file of the writer: none, written or synced
  file,      \* the password of the configuration file as processes read it
  disk,      \* the same as it would be read after a power loss
  flushed    \* the data of the file (not its name) are on the disk

store == <<sessions, granted, failures>>
config == <<memory, writer, temp, file, disk, flushed>>
vars == <<pc, arg, cookie, store, config>>

PcValues == {"idle", "match", "failed", "passed", "create", "lock", "write",
             "sync", "rename", "commit", "clear", "me", "logout"}

(* Inside the critical section of changePassword *)
Writing == {"write", "sync", "rename", "commit"}

NoArg == [from |-> NoId, current |-> Torn, new |-> Torn]

Goto(c, label) == pc' = [pc EXCEPT ![c] = label]

(* The reply is written and the handler is over *)
Finish(c) == Goto(c, "idle") /\ arg' = [arg EXCEPT ![c] = NoArg]

Init ==
  /\ pc = [c \in Clients |-> "idle"]
  /\ arg = [c \in Clients |-> NoArg]
  /\ cookie = [c \in Clients |-> NoId]
  /\ sessions = {}
  /\ granted = [id \in Ids |-> Torn]
  /\ failures = [a \in Addresses |-> 0]
  /\ memory \in Passwords
  /\ writer = NoClient
  /\ temp = "none"
  /\ file = memory
  /\ disk = memory
  /\ flushed = TRUE

-------------------------------------------------------------------------------
(***************************************************************************)
(* handleLogin                                                             *)
(***************************************************************************)
AllowedOnceMore(a) == failures[a] <= MaxFailures   \* mutant: off by one

(* allowLogin; a refused login ends at once and changes nothing *)
Allowed(a) == failures[a] < MaxFailures

LoginArrives(c) ==
  /\ pc[c] = "idle"
  /\ \E a \in Addresses, p \in Passwords :
       /\ Allowed(a)
       /\ arg' = [arg EXCEPT ![c] = [from |-> a, current |-> p, new |-> p]]
  /\ Goto(c, "match")
  /\ UNCHANGED <<cookie, store, config>>

(* passwordMatches waits for the reader side of credentialMu *)
PasswordMatches(c) ==
  /\ pc[c] = "match"
  /\ writer = NoClient
  /\ Goto(c, IF arg[c].current = memory THEN "passed" ELSE "failed")
  /\ UNCHANGED <<arg, cookie, store, config>>

RecordFailure(c) ==
  /\ pc[c] = "failed"
  /\ failures' = [failures EXCEPT ![arg[c].from] = @ + 1]
  /\ Finish(c)
  /\ UNCHANGED <<cookie, sessions, granted, config>>

ClearFailures(c) ==
  /\ pc[c] = "passed"
  /\ failures' = [failures EXCEPT ![arg[c].from] = 0]
  /\ Goto(c, "create")
  /\ UNCHANGED <<arg, cookie, sessions, granted, config>>

(* authStore.create draws an id never seen before, and the reply sets the cookie *)
CreateSession(c) ==
  /\ pc[c] = "create"
  /\ \E id \in Ids :
       /\ granted[id] = Torn
       /\ granted' = [granted EXCEPT ![id] = arg[c].current]
       /\ sessions' = sessions \cup {id}
       /\ cookie' = [cookie EXCEPT ![c] = id]
  /\ Finish(c)
  /\ UNCHANGED <<failures, config>>

-------------------------------------------------------------------------------
(***************************************************************************)
(* requireAuth                                                             *)
(***************************************************************************)
Authorised(c) == pc[c] = "idle" /\ cookie[c] \in sessions

(* A request without a live session is refused and loses its cookie *)
Refused(c) ==
  /\ pc[c] = "idle"
  /\ cookie[c] \notin sessions \cup {NoId}
  /\ cookie' = [cookie EXCEPT ![c] = NoId]
  /\ UNCHANGED <<pc, arg, store, config>>

MeArrives(c)     == Authorised(c) /\ Goto(c, "me") /\ UNCHANGED <<arg, cookie, store, config>>
LogoutArrives(c) == Authorised(c) /\ Goto(c, "logout") /\ UNCHANGED <<arg, cookie, store, config>>

(* handleMe looks the session up a second time and answers authenticated in any case *)
Me(c) ==
  /\ pc[c] = "me"
  /\ Finish(c)
  /\ UNCHANGED <<cookie, store, config>>

Logout(c) ==
  /\ pc[c] = "logout"
  /\ sessions' = sessions \ {cookie[c]}
  /\ cookie' = [cookie EXCEPT ![c] = NoId]
  /\ Finish(c)
  /\ UNCHANGED <<granted, failures, config>>

-------------------------------------------------------------------------------
(***************************************************************************)
(* handlePasswordChange and changePassword                                 *)
(***************************************************************************)
ChangeArrives(c) ==
  /\ Authorised(c)
  /\ \E p, q \in Passwords :
       p # q /\ arg' = [arg EXCEPT ![c] = [NoArg EXCEPT !.current = p, !.new = q]]
  /\ Goto(c, "lock")
  /\ UNCHANGED <<cookie, store, config>>

CredentialsAlwaysFree == TRUE    \* mutant: no credentialMu

CredentialsFree == writer = NoClient

(* The current password is compared under the lock that the whole change holds *)
LockCredentials(c) ==
  /\ pc[c] = "lock"
  /\ CredentialsFree
  /\ IF arg[c].current = memory
     THEN writer' = c /\ Goto(c, "write") /\ UNCHANGED arg
     ELSE UNCHANGED writer /\ Finish(c)
  /\ UNCHANGED <<cookie, store, memory, temp, file, disk, flushed>>

(* os.CreateTemp, Chmod and Write *)
WriteTemp(c) ==
  /\ pc[c] = "write"
  /\ temp' = "written"
  /\ Goto(c, "sync")
  /\ UNCHANGED <<arg, cookie, store, memory, writer, file, disk, flushed>>

SyncSkipped == temp              \* mutant: no temporary.Sync

Synced == "synced"

SyncTemp(c) ==
  /\ pc[c] = "sync"
  /\ temp' = Synced
  /\ Goto(c, "rename")
  /\ UNCHANGED <<arg, cookie, store, memory, writer, file, disk, flushed>>

BlankPassword(c) == NoArg.new    \* mutant: next is never filled in

NewPassword(c) == arg[c].new

Rename(c) ==
  /\ pc[c] = "rename"
  /\ file' = NewPassword(c)
  /\ flushed' = (temp = "synced")
  /\ temp' = "none"
  /\ Goto(c, "commit")
  /\ UNCHANGED <<arg, cookie, store, memory, writer, disk>>

(* Any call before the rename succeeds may fail: the temporary file goes, *)
(* the password stays, the browser is told                                *)
WriteFails(c) ==
  /\ pc[c] \in {"write", "sync", "rename"}
  /\ temp' = "none"
  /\ writer' = NoClient
  /\ Finish(c)
  /\ UNCHANGED <<cookie, store, memory, file, disk, flushed>>

(* The password in memory follows the file, and credentialMu is released *)
Commit(c) ==
  /\ pc[c] = "commit"
  /\ memory' = NewPassword(c)
  /\ writer' = NoClient
  /\ Goto(c, "clear")
  /\ UNCHANGED <<arg, cookie, store, temp, file, disk, flushed>>

ClearedOwn(c) == sessions \ {cookie[c]}   \* mutant: only the session of the change is deleted

Cleared(c) == {}

ClearSessions(c) ==
  /\ pc[c] = "clear"
  /\ sessions' = Cleared(c)
  /\ cookie' = [cookie EXCEPT ![c] = NoId]
  /\ Finish(c)
  /\ UNCHANGED <<granted, failures, config>>

-------------------------------------------------------------------------------
(***************************************************************************)
(* Time, the disk and the power                                            *)
(***************************************************************************)
(* Five minutes after its first failure the entry of a counts as absent *)
WindowEnds(a) ==
  /\ failures[a] > 0
  /\ failures' = [failures EXCEPT ![a] = 0]
  /\ UNCHANGED <<pc, arg, cookie, sessions, granted, config>>

SessionExpires(id) ==
  /\ id \in sessions
  /\ sessions' = sessions \ {id}
  /\ UNCHANGED <<pc, arg, cookie, granted, failures, config>>

(* The kernel writes the name back, whose data only a Sync is sure to have brought there *)
WriteBack ==
  /\ disk' \in {file} \cup (IF flushed THEN {} ELSE {Torn})
  /\ UNCHANGED <<pc, arg, cookie, store, memory, writer, temp, file, flushed>>

(* procd starts the console again and loadConfig reads what is there *)
Restart(content) ==
  /\ content \in Passwords
  /\ memory' = content
  /\ file' = content
  /\ pc' = [c \in Clients |-> "idle"]
  /\ arg' = [c \in Clients |-> NoArg]
  /\ sessions' = {}
  /\ failures' = [a \in Addresses |-> 0]
  /\ writer' = NoClient
  /\ temp' = "none"
  /\ UNCHANGED <<cookie, granted>>

Crash     == Restart(file) /\ UNCHANGED <<disk, flushed>>
PowerLoss == Restart(disk) /\ flushed' = TRUE /\ UNCHANGED disk

-------------------------------------------------------------------------------
Handler(c) ==
  \/ LoginArrives(c)
  \/ PasswordMatches(c)
  \/ RecordFailure(c)
  \/ ClearFailures(c)
  \/ CreateSession(c)
  \/ Refused(c)
  \/ MeArrives(c)
  \/ Me(c)
  \/ LogoutArrives(c)
  \/ Logout(c)
  \/ ChangeArrives(c)
  \/ LockCredentials(c)
  \/ WriteTemp(c)
  \/ SyncTemp(c)
  \/ Rename(c)
  \/ WriteFails(c)
  \/ Commit(c)
  \/ ClearSessions(c)

Next ==
  \/ \E c \in Clients : Handler(c)
  \/ \E a \in Addresses : WindowEnds(a)
  \/ \E id \in Ids : SessionExpires(id)
  \/ WriteBack
  \/ Crash
  \/ PowerLoss

Spec == Init /\ [][Next]_vars

-------------------------------------------------------------------------------
(***************************************************************************)
(* Properties                                                              *)
(***************************************************************************)
ArgType == [from : Addresses \cup {NoId}, current : Passwords \cup {Torn},
            new : Passwords \cup {Torn}]

TypeOK ==
  /\ pc \in [Clients -> PcValues]
  /\ arg \in [Clients -> ArgType]
  /\ cookie \in [Clients -> Ids \cup {NoId}]
  /\ sessions \in SUBSET Ids
  /\ granted \in [Ids -> Passwords \cup {Torn}]
  /\ failures \in [Addresses -> Nat]
  /\ memory \in Passwords
  /\ writer \in Clients \cup {NoClient}
  /\ temp \in {"none", "written", "synced"}
  /\ file \in Passwords \cup {Torn}
  /\ disk \in Passwords \cup {Torn}
  /\ flushed \in BOOLEAN

(* The password the running console accepts is the one a restart would     *)
(* read, whatever changes run together, fail or are cut short by a crash;  *)
(* only the critical section of changePassword may see them apart.         *)
FileMatchesMemory == writer = NoClient => file = memory

(* A power loss between any two system calls of writeConfigAtomic leaves a *)
(* configuration that loadConfig can read: an old one or the new one.      *)
ConfigSurvives == disk # Torn

(* The failure counter is checked before the password is and counted after *)
(* it, so logins in flight together may run past MaxFailures, each of them *)
(* once: the counter is never further off than the other handlers allow.   *)
LockoutBound == \A a \in Addresses : failures[a] <= MaxFailures + Cardinality(Clients) - 1

(* How the handlers look from outside *)
Stage(label) == CASE label \in {"passed", "create"} -> "checked"
                  [] label \in {"commit", "clear"}  -> "changed"
                  [] OTHER                          -> "idle"

Stages == [c \in Clients |-> Stage(pc[c])]

Register == INSTANCE PasswordRegister WITH
  Words <- ArgType, value <- file, settled <- disk, said <- arg, stage <- Stages

(* Handlers, credentialMu, the file replacement and restarts together make *)
(* one register of the password: no change is lost, made on the word of    *)
(* somebody whose password is no longer in force, or half made by a crash, *)
(* and none is reported while somebody is logged in.                       *)
ImplementsRegister == Register!RegisterSpec

(* No change is waiting to clear the store *)
Settled == \A c \in Clients : pc[c] # "clear"

(* Sessions opened for a password that is not in force *)
Stale == {id \in sessions : granted[id] # memory}

(* A change leaves no session of the old password behind, whatever logins, *)
(* logouts, other changes and restarts run with it, but those of the race  *)
(* OldSessionsEnd is about: a session is stale once the store is cleared   *)
(* only if it was before the change, or if a login that had passed the     *)
(* check of the old password opens it in this very step.                   *)
OnlyRacingLoginsStay ==
  [][Settled' => \A id \in Stale' :
       \/ Settled /\ id \in Stale
       \/ /\ id \notin sessions
          /\ \E c \in Clients : pc[c] = "create" /\ pc'[c] # "create" /\ granted'[id] = arg[c].current
    ]_vars

(* README, Changing the password: once it is saved all devices that are    *)
(* logged in are logged out.  Here: no session granted for another         *)
(* password is left when no change is waiting to clear the store.          *)
OldSessionsEnd ==
  Settled => Stale = {}

-------------------------------------------------------------------------------
(***************************************************************************)
(* Why they hold: the inductive invariant                                  *)
(***************************************************************************)
(* credentialMu is held by the one client inside changePassword *)
WriterInv == \A c \in Clients : pc[c] \in Writing <=> writer = c

(* What a handler still needs of its request *)
ArgInv == \A c \in Clients :
  /\ pc[c] \in {"match", "failed", "passed", "create"} =>
       arg[c].from \in Addresses /\ arg[c].current \in Passwords
  /\ pc[c] \in {"lock"} \cup Writing => arg[c].new \in Passwords

(* The file is ahead of the memory from the rename to the commit only, and *)
(* what is renamed has been synced                                         *)
FileInv ==
  /\ \A c \in Clients : pc[c] = "rename" => temp = "synced"
  /\ \A c \in Clients : pc[c] = "commit" => file = arg[c].new
  /\ (\A c \in Clients : pc[c] # "commit") => file = memory
  /\ flushed
  /\ file \in Passwords
  /\ disk \in Passwords

(* What the register relies on: a change still replaces the password it    *)
(* was compared with, and ids that were never drawn name no session        *)
RegisterInv ==
  /\ \A c \in Clients : pc[c] \in {"write", "sync", "rename"} => arg[c].current = memory
  /\ \A c \in Clients : pc[c] \in {"me", "logout"} => arg[c] = NoArg
  /\ \A c \in Clients : pc[c] = "idle" => arg[c] = NoArg
  /\ \A id \in sessions : granted[id] # Torn

(* Logins of a that may still count a failure *)
Pending(a) == {c \in Clients : pc[c] \in {"match", "failed"} /\ arg[c].from = a}

CountInv == \A a \in Addresses :
  failures[a] + Cardinality(Pending(a)) <= MaxFailures + Cardinality(Clients) - 1

IndInv == TypeOK /\ WriterInv /\ ArgInv /\ FileInv

===============================================================================
