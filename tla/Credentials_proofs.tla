--------------------------- MODULE Credentials_proofs ---------------------------
(***************************************************************************)
(* Theorems about Credentials, for any finite set of browsers, any         *)
(* passwords, sessions and addresses, and any limit on failed logins.      *)
(***************************************************************************)
EXTENDS Credentials, FiniteSetTheorems, TLAPS

USE CredentialsAssumption

-------------------------------------------------------------------------------
(***************************************************************************)
(* The password in memory, in the file and on the disk                     *)
(***************************************************************************)
LEMMA IndInit == Init => IndInv
BY DEF Init, IndInv, TypeOK, WriterInv, ArgInv, FileInv, PcValues, Writing, NoArg, ArgType

THEOREM IndStep == IndInv /\ [Next]_vars => IndInv'
<1> SUFFICES ASSUME IndInv, [Next]_vars PROVE IndInv'
  OBVIOUS
<1> USE DEF IndInv, TypeOK, Goto, PcValues, Writing, NoArg, ArgType
<1>1. ASSUME NEW c \in Clients, LoginArrives(c) PROVE IndInv'
  <2>1. PICK a \in Addresses, p \in Passwords :
          arg' = [arg EXCEPT ![c] = [from |-> a, current |-> p, new |-> p]]
    BY <1>1 DEF LoginArrives
  <2>2. TypeOK'
    BY <1>1, <2>1 DEF LoginArrives, store, config
  <2>3. WriterInv' /\ ArgInv' /\ FileInv'
    BY <1>1, <2>1 DEF LoginArrives, WriterInv, ArgInv, FileInv, config
  <2> QED BY <2>2, <2>3
<1>2. ASSUME NEW c \in Clients, PasswordMatches(c) PROVE IndInv'
  <2>1. TypeOK'
    BY <1>2 DEF PasswordMatches, store, config
  <2>2. WriterInv' /\ ArgInv' /\ FileInv'
    BY <1>2 DEF PasswordMatches, WriterInv, ArgInv, FileInv, config
  <2> QED BY <2>1, <2>2
<1>3. ASSUME NEW c \in Clients, RecordFailure(c) PROVE IndInv'
  <2>1. arg[c].from \in Addresses
    BY <1>3 DEF RecordFailure, ArgInv
  <2>2. failures' \in [Addresses -> Nat]
    BY <1>3, <2>1 DEF RecordFailure
  <2>3. pc' \in [Clients -> PcValues] /\ arg' \in [Clients -> ArgType]
    BY <1>3 DEF RecordFailure, Finish
  <2>4. TypeOK'
    BY <1>3, <2>2, <2>3 DEF RecordFailure, config
  <2>5. WriterInv' /\ ArgInv' /\ FileInv'
    BY <1>3 DEF RecordFailure, Finish, WriterInv, ArgInv, FileInv, config
  <2> QED BY <2>4, <2>5
<1>4. ASSUME NEW c \in Clients, ClearFailures(c) PROVE IndInv'
  <2>1. TypeOK'
    BY <1>4 DEF ClearFailures, config
  <2>2. WriterInv' /\ ArgInv' /\ FileInv'
    BY <1>4 DEF ClearFailures, WriterInv, ArgInv, FileInv, config
  <2> QED BY <2>1, <2>2
<1>5. ASSUME NEW c \in Clients, CreateSession(c) PROVE IndInv'
  <2>1. PICK id \in Ids : /\ granted' = [granted EXCEPT ![id] = arg[c].current]
                          /\ sessions' = sessions \cup {id}
                          /\ cookie' = [cookie EXCEPT ![c] = id]
    BY <1>5 DEF CreateSession
  <2>2. TypeOK'
    BY <1>5, <2>1 DEF CreateSession, Finish, config
  <2>3. WriterInv' /\ ArgInv' /\ FileInv'
    BY <1>5 DEF CreateSession, Finish, WriterInv, ArgInv, FileInv, config
  <2> QED BY <2>2, <2>3
<1>6. ASSUME NEW c \in Clients, Refused(c) PROVE IndInv'
  BY <1>6 DEF Refused, WriterInv, ArgInv, FileInv, store, config
<1>7. ASSUME NEW c \in Clients, MeArrives(c) \/ LogoutArrives(c) PROVE IndInv'
  <2>1. TypeOK'
    BY <1>7 DEF MeArrives, LogoutArrives, store, config
  <2>2. WriterInv' /\ ArgInv' /\ FileInv'
    BY <1>7 DEF MeArrives, LogoutArrives, Authorised, WriterInv, ArgInv, FileInv, config
  <2> QED BY <2>1, <2>2
<1>8. ASSUME NEW c \in Clients, Me(c) \/ Logout(c) PROVE IndInv'
  <2>1. pc' \in [Clients -> PcValues] /\ arg' \in [Clients -> ArgType]
    <3>1. Finish(c)
      BY <1>8 DEF Me, Logout
    <3> QED BY <3>1 DEF Finish
  <2>2. Me(c) => TypeOK'
    BY <2>1 DEF Me, store, config
  <2>3. Logout(c) => TypeOK'
    BY <2>1 DEF Logout, config
  <2>4. WriterInv' /\ ArgInv' /\ FileInv'
    BY <1>8 DEF Me, Logout, Finish, WriterInv, ArgInv, FileInv, config
  <2> QED BY <1>8, <2>2, <2>3, <2>4
<1>9. ASSUME NEW c \in Clients, ChangeArrives(c) PROVE IndInv'
  <2>1. PICK p \in Passwords, q \in Passwords :
          arg' = [arg EXCEPT ![c] = [NoArg EXCEPT !.current = p, !.new = q]]
    BY <1>9 DEF ChangeArrives
  <2>2. TypeOK'
    BY <1>9, <2>1 DEF ChangeArrives, store, config
  <2>3. WriterInv' /\ ArgInv' /\ FileInv'
    BY <1>9, <2>1 DEF ChangeArrives, Authorised, WriterInv, ArgInv, FileInv, config
  <2> QED BY <2>2, <2>3
<1>10. ASSUME NEW c \in Clients, LockCredentials(c) PROVE IndInv'
  <2>1. TypeOK'
    BY <1>10, SMTT(30) DEF LockCredentials, Finish, store
  <2>2. WriterInv'
    BY <1>10 DEF LockCredentials, CredentialsFree, Finish, WriterInv
  <2>3. ArgInv' /\ FileInv'
    BY <1>10 DEF LockCredentials, Finish, ArgInv, FileInv
  <2> QED BY <2>1, <2>2, <2>3
<1>11. ASSUME NEW c \in Clients, WriteTemp(c) \/ SyncTemp(c) PROVE IndInv'
  <2>1. TypeOK'
    BY <1>11 DEF WriteTemp, SyncTemp, Synced, store
  <2>2. WriterInv' /\ ArgInv'
    BY <1>11 DEF WriteTemp, SyncTemp, WriterInv, ArgInv
  <2>3. FileInv'
    BY <1>11 DEF WriteTemp, SyncTemp, Synced, WriterInv, FileInv
  <2> QED BY <2>1, <2>2, <2>3
<1>12. ASSUME NEW c \in Clients, Rename(c) PROVE IndInv'
  <2>1. file' = arg[c].new /\ arg[c].new \in Passwords /\ flushed'
    BY <1>12 DEF Rename, NewPassword, ArgInv, FileInv
  <2>2. TypeOK'
    BY <1>12, <2>1 DEF Rename, store
  <2>3. WriterInv' /\ ArgInv'
    BY <1>12 DEF Rename, WriterInv, ArgInv
  <2>4. FileInv'
    BY <1>12, <2>1 DEF Rename, WriterInv, FileInv
  <2> QED BY <2>2, <2>3, <2>4
<1>13. ASSUME NEW c \in Clients, WriteFails(c) PROVE IndInv'
  <2>1. TypeOK'
    BY <1>13 DEF WriteFails, Finish, store
  <2>2. WriterInv' /\ ArgInv'
    BY <1>13 DEF WriteFails, Finish, WriterInv, ArgInv
  <2>3. FileInv'
    BY <1>13 DEF WriteFails, Finish, WriterInv, FileInv
  <2> QED BY <2>1, <2>2, <2>3
<1>14. ASSUME NEW c \in Clients, Commit(c) PROVE IndInv'
  <2>1. memory' = arg[c].new /\ arg[c].new \in Passwords
    BY <1>14 DEF Commit, NewPassword, ArgInv
  <2>2. TypeOK'
    BY <1>14, <2>1 DEF Commit, store
  <2>3. WriterInv' /\ ArgInv'
    BY <1>14 DEF Commit, WriterInv, ArgInv
  <2>4. FileInv'
    BY <1>14, <2>1 DEF Commit, WriterInv, FileInv
  <2> QED BY <2>2, <2>3, <2>4
<1>15. ASSUME NEW c \in Clients, ClearSessions(c) PROVE IndInv'
  <2>1. TypeOK'
    BY <1>15 DEF ClearSessions, Cleared, Finish, config
  <2>2. WriterInv' /\ ArgInv' /\ FileInv'
    BY <1>15 DEF ClearSessions, Finish, WriterInv, ArgInv, FileInv, config
  <2> QED BY <2>1, <2>2
<1>16. ASSUME NEW a \in Addresses, WindowEnds(a) PROVE IndInv'
  BY <1>16 DEF WindowEnds, WriterInv, ArgInv, FileInv, config
<1>17. ASSUME NEW id \in Ids, SessionExpires(id) PROVE IndInv'
  BY <1>17 DEF SessionExpires, WriterInv, ArgInv, FileInv, config
<1>18. CASE WriteBack
  BY <1>18 DEF WriteBack, WriterInv, ArgInv, FileInv, store
<1>19. CASE Crash \/ PowerLoss
  <2>1. PICK content \in {file, disk} : Restart(content)
    BY <1>19 DEF Crash, PowerLoss
  <2>2. disk' = disk /\ flushed'
    BY <1>19 DEF Crash, PowerLoss, FileInv
  <2>3. TypeOK'
    BY <2>1, <2>2 DEF Restart
  <2>4. WriterInv' /\ ArgInv'
    BY <2>1 DEF Restart, WriterInv, ArgInv
  <2>5. FileInv'
    BY <2>1, <2>2 DEF Restart, FileInv
  <2> QED BY <2>3, <2>4, <2>5
<1>20. CASE UNCHANGED vars
  BY <1>20 DEF vars, WriterInv, ArgInv, FileInv, store, config
<1> QED
  BY <1>1, <1>2, <1>3, <1>4, <1>5, <1>6, <1>7, <1>8, <1>9, <1>10, <1>11, <1>12, <1>13,
     <1>14, <1>15, <1>16, <1>17, <1>18, <1>19, <1>20
  DEF Next, Handler

THEOREM Invariance == Spec => []IndInv
BY IndInit, IndStep, PTL DEF Spec

THEOREM TypeCorrect == Spec => []TypeOK
BY Invariance, PTL DEF IndInv

LEMMA Consistency == IndInv => FileMatchesMemory /\ ConfigSurvives
BY DEF IndInv, FileInv, WriterInv, FileMatchesMemory, ConfigSurvives, Writing

(* The password in memory and the one in the file are the same outside changePassword. *)
THEOREM MemoryIsFile == Spec => []FileMatchesMemory
BY Invariance, Consistency, PTL

(* A power loss at any point of the replacement leaves a readable configuration. *)
THEOREM PowerLossIsSafe == Spec => []ConfigSurvives
BY Invariance, Consistency, PTL

-------------------------------------------------------------------------------
(***************************************************************************)
(* The failure counter.  A login that was let through may still count one  *)
(* failure: what is counted and what is pending together stay in bounds.   *)
(***************************************************************************)
LEMMA PendingSize ==
  \A a : /\ IsFiniteSet(Pending(a))
         /\ Cardinality(Pending(a)) \in Nat
         /\ Cardinality(Clients) \in Nat
         /\ Cardinality(Pending(a)) <= Cardinality(Clients)
BY FS_Subset, FS_CardinalityType DEF Pending

(* An action that lets no new login in and counts nothing *)
LEMMA CountKept ==
  ASSUME TypeOK, CountInv, TypeOK', \A a \in Addresses : failures'[a] <= failures[a],
         \A c \in Clients : pc'[c] \in {"match", "failed"} =>
                              pc[c] \in {"match", "failed"} /\ arg'[c] = arg[c]
  PROVE  CountInv'
<1> SUFFICES ASSUME NEW a \in Addresses
             PROVE  failures'[a] + Cardinality(Pending(a)') <= MaxFailures + Cardinality(Clients) - 1
  BY DEF CountInv
<1>1. Pending(a)' \subseteq Pending(a)
  BY DEF Pending
<1>2. Cardinality(Pending(a)') <= Cardinality(Pending(a)) /\ Cardinality(Pending(a)') \in Nat
  BY <1>1, PendingSize, FS_Subset, FS_CardinalityType
<1>3. failures[a] \in Nat /\ failures'[a] \in Nat
  BY DEF TypeOK
<1> QED BY <1>2, <1>3, PendingSize DEF CountInv

THEOREM CountStep == IndInv /\ CountInv /\ [Next]_vars => CountInv'
<1> SUFFICES ASSUME IndInv, CountInv, [Next]_vars PROVE CountInv'
  OBVIOUS
<1>0. TypeOK /\ TypeOK'
  BY IndStep DEF IndInv
<1> USE <1>0 DEF Goto
<1>1. ASSUME NEW c \in Clients, LoginArrives(c) PROVE CountInv'
  <2>1. PICK a \in Addresses, p \in Passwords :
          failures[a] < MaxFailures /\ arg' = [arg EXCEPT ![c] = [from |-> a, current |-> p, new |-> p]]
    BY <1>1 DEF LoginArrives, Allowed
  <2>2. ASSUME NEW b \in Addresses
        PROVE  failures'[b] + Cardinality(Pending(b)') <= MaxFailures + Cardinality(Clients) - 1
    <3>1. failures'[b] = failures[b] /\ failures[b] \in Nat
      BY <1>1 DEF LoginArrives, store, TypeOK
    <3>2. Pending(b)' \subseteq Clients
      BY DEF Pending
    <3>3. Cardinality(Pending(b)') <= Cardinality(Clients) /\ Cardinality(Pending(b)') \in Nat
      BY <3>2, FS_Subset, FS_CardinalityType
    <3>4. CASE b = a
      <4>1. failures[b] < MaxFailures
        BY <2>1, <3>4
      <4>2. MaxFailures \in Nat /\ Cardinality(Clients) \in Nat
        BY PendingSize
      <4> QED BY <3>1, <3>3, <4>1, <4>2
    <3>5. CASE b # a
      <4>1. Pending(b)' = Pending(b)
        BY <1>1, <2>1, <3>5 DEF LoginArrives, Pending, TypeOK
      <4> QED BY <3>1, <4>1 DEF CountInv
    <3> QED BY <3>4, <3>5
  <2> QED BY <2>2 DEF CountInv
<1>2. ASSUME NEW c \in Clients, RecordFailure(c) PROVE CountInv'
  <2> DEFINE own == arg[c].from
  <2>1. own \in Addresses
    BY <1>2 DEF RecordFailure, IndInv, ArgInv
  <2>2. ASSUME NEW b \in Addresses
        PROVE  failures'[b] + Cardinality(Pending(b)') <= MaxFailures + Cardinality(Clients) - 1
    <3>1. CASE b = own
      <4>1. Pending(b)' = Pending(b) \ {c} /\ c \in Pending(b)
        BY <1>2, <3>1 DEF RecordFailure, Finish, Pending, TypeOK
      <4>2. Cardinality(Pending(b)') = Cardinality(Pending(b)) - 1
        BY <4>1, PendingSize, FS_RemoveElement
      <4>3. failures'[b] = failures[b] + 1 /\ failures[b] \in Nat
        BY <1>2, <3>1 DEF RecordFailure, TypeOK
      <4> QED BY <4>2, <4>3, PendingSize DEF CountInv
    <3>2. CASE b # own
      <4>1. Pending(b)' = Pending(b)
        BY <1>2, <3>2 DEF RecordFailure, Finish, Pending, TypeOK
      <4>2. failures'[b] = failures[b]
        BY <1>2, <3>2 DEF RecordFailure, TypeOK
      <4> QED BY <4>1, <4>2 DEF CountInv
    <3> QED BY <3>1, <3>2
  <2> QED BY <2>2 DEF CountInv
<1>3. ASSUME NEW c \in Clients, PasswordMatches(c) \/ ClearFailures(c) PROVE CountInv'
  BY <1>3, CountKept DEF PasswordMatches, ClearFailures, TypeOK, store
<1>4. ASSUME NEW c \in Clients,
             \/ CreateSession(c) \/ Refused(c) \/ MeArrives(c) \/ Me(c) \/ LogoutArrives(c)
             \/ Logout(c) \/ ChangeArrives(c) \/ LockCredentials(c)
      PROVE  CountInv'
  <2>1. failures' = failures
    BY <1>4
    DEF CreateSession, Refused, MeArrives, Me, LogoutArrives, Logout, ChangeArrives,
        LockCredentials, store
  <2>2. pc'[c] \notin {"match", "failed"}
    BY <1>4
    DEF CreateSession, Refused, MeArrives, Me, LogoutArrives, Logout, ChangeArrives, Authorised,
        LockCredentials, Finish, TypeOK
  <2>3. \A d \in Clients \ {c} : pc'[d] = pc[d] /\ arg'[d] = arg[d]
    BY <1>4
    DEF CreateSession, Refused, MeArrives, Me, LogoutArrives, Logout, ChangeArrives,
        LockCredentials, Finish, TypeOK
  <2>4. \A a \in Addresses : failures'[a] <= failures[a]
    BY <2>1 DEF TypeOK
  <2> QED BY <2>2, <2>3, <2>4, CountKept
<1>5. ASSUME NEW c \in Clients,
             \/ WriteTemp(c) \/ SyncTemp(c) \/ Rename(c) \/ WriteFails(c) \/ Commit(c)
             \/ ClearSessions(c)
      PROVE  CountInv'
  BY <1>5, CountKept
  DEF WriteTemp, SyncTemp, Rename, WriteFails, Commit, ClearSessions, Finish, TypeOK, store
<1>6. ASSUME NEW a \in Addresses, WindowEnds(a) PROVE CountInv'
  BY <1>6, CountKept DEF WindowEnds, TypeOK
<1>7. ASSUME NEW id \in Ids, SessionExpires(id) PROVE CountInv'
  BY <1>7, CountKept DEF SessionExpires, TypeOK
<1>8. CASE WriteBack \/ UNCHANGED vars
  BY <1>8, CountKept DEF WriteBack, vars, store, TypeOK
<1>9. CASE Crash \/ PowerLoss
  BY <1>9, CountKept DEF Crash, PowerLoss, Restart, TypeOK
<1> QED
  BY <1>1, <1>2, <1>3, <1>4, <1>5, <1>6, <1>7, <1>8, <1>9 DEF Next, Handler

LEMMA CountInit == Init => CountInv
<1> SUFFICES ASSUME Init, NEW a \in Addresses
             PROVE  failures[a] + Cardinality(Pending(a)) <= MaxFailures + Cardinality(Clients) - 1
  BY DEF CountInv
<1>1. Pending(a) = {}
  BY DEF Init, Pending
<1> QED BY <1>1, FS_EmptySet, PendingSize DEF Init

LEMMA CountBounds == IndInv /\ CountInv => LockoutBound
BY PendingSize DEF IndInv, TypeOK, CountInv, LockoutBound

(* However many logins are checked at once, the counter stays within MaxFailures *)
(* plus one for every other browser.                                             *)
THEOREM FailuresBounded == Spec => []LockoutBound
<1>1. Spec => []CountInv
  BY Invariance, CountInit, CountStep, PTL DEF Spec
<1> QED BY <1>1, Invariance, CountBounds, PTL

-------------------------------------------------------------------------------
(***************************************************************************)
(* The handlers implement PasswordRegister                                 *)
(***************************************************************************)
LEMMA RegisterInvInit == Init => RegisterInv
BY DEF Init, RegisterInv

THEOREM RegisterStep == IndInv /\ RegisterInv /\ [Next]_vars => RegisterInv'
<1> SUFFICES ASSUME IndInv, RegisterInv, [Next]_vars PROVE RegisterInv'
  OBVIOUS
<1> USE DEF IndInv, TypeOK, Goto, PcValues, Writing
<1>1. ASSUME NEW c \in Clients, LoginArrives(c) \/ ChangeArrives(c) PROVE RegisterInv'
  <2>1. pc'[c] \in {"match", "lock"} /\ UNCHANGED <<sessions, granted, memory>>
    BY <1>1 DEF LoginArrives, ChangeArrives, Authorised, store, config
  <2>2. \A d \in Clients \ {c} : pc'[d] = pc[d] /\ arg'[d] = arg[d]
    BY <1>1 DEF LoginArrives, ChangeArrives, Authorised
  <2> QED BY <2>1, <2>2 DEF RegisterInv
<1>2. ASSUME NEW c \in Clients,
             \/ PasswordMatches(c) \/ ClearFailures(c) \/ MeArrives(c) \/ LogoutArrives(c)
      PROVE  RegisterInv'
  <2>1. UNCHANGED <<arg, sessions, granted, memory>>
    BY <1>2 DEF PasswordMatches, ClearFailures, MeArrives, LogoutArrives, store, config
  <2>2. pc'[c] \in {"passed", "failed", "create"} \/ (pc[c] = "idle" /\ pc'[c] \in {"me", "logout"})
    BY <1>2 DEF PasswordMatches, ClearFailures, MeArrives, LogoutArrives, Authorised
  <2>3. \A d \in Clients \ {c} : pc'[d] = pc[d]
    BY <1>2 DEF PasswordMatches, ClearFailures, MeArrives, LogoutArrives, Authorised
  <2> QED BY <2>1, <2>2, <2>3 DEF RegisterInv
<1>3. ASSUME NEW c \in Clients,
             \/ RecordFailure(c) \/ Me(c) \/ Logout(c) \/ WriteFails(c) \/ ClearSessions(c)
      PROVE  RegisterInv'
  <2>1. pc'[c] = "idle" /\ arg'[c] = NoArg /\ UNCHANGED <<granted, memory>>
    BY <1>3
    DEF RecordFailure, Me, Logout, WriteFails, ClearSessions, Finish, store, config
  <2>2. \A d \in Clients \ {c} : pc'[d] = pc[d] /\ arg'[d] = arg[d]
    BY <1>3 DEF RecordFailure, Me, Logout, WriteFails, ClearSessions, Finish
  <2>3. sessions' \subseteq sessions
    BY <1>3 DEF RecordFailure, Me, Logout, WriteFails, ClearSessions, Cleared, store
  <2> QED BY <2>1, <2>2, <2>3 DEF RegisterInv
<1>4. ASSUME NEW c \in Clients, CreateSession(c) PROVE RegisterInv'
  <2>1. PICK id \in Ids : /\ granted' = [granted EXCEPT ![id] = arg[c].current]
                          /\ sessions' = sessions \cup {id}
    BY <1>4 DEF CreateSession
  <2>2. arg[c].current # Torn
    BY <1>4 DEF CreateSession, ArgInv
  <2>3. \A i \in sessions' : granted'[i] # Torn
    BY <2>1, <2>2 DEF RegisterInv
  <2>4. pc'[c] = "idle" /\ arg'[c] = NoArg /\ UNCHANGED memory
    BY <1>4 DEF CreateSession, Finish, config
  <2>5. \A d \in Clients \ {c} : pc'[d] = pc[d] /\ arg'[d] = arg[d]
    BY <1>4 DEF CreateSession, Finish
  <2> QED BY <2>3, <2>4, <2>5 DEF RegisterInv
<1>5. ASSUME NEW c \in Clients, LockCredentials(c) PROVE RegisterInv'
  <2>1. CASE arg[c].current = memory
    BY <1>5, <2>1 DEF LockCredentials, RegisterInv, store
  <2>2. CASE arg[c].current # memory
    BY <1>5, <2>2 DEF LockCredentials, Finish, RegisterInv, store
  <2> QED BY <2>1, <2>2
<1>6. ASSUME NEW c \in Clients, WriteTemp(c) \/ SyncTemp(c) \/ Rename(c) PROVE RegisterInv'
  BY <1>6 DEF WriteTemp, SyncTemp, Rename, RegisterInv, store
<1>7. ASSUME NEW c \in Clients, Commit(c) PROVE RegisterInv'
  <2>1. \A d \in Clients : pc'[d] \notin {"write", "sync", "rename"}
    BY <1>7 DEF Commit, WriterInv
  <2> QED BY <1>7, <2>1 DEF Commit, RegisterInv, store
<1>8. ASSUME NEW id \in Ids, SessionExpires(id) PROVE RegisterInv'
  BY <1>8 DEF SessionExpires, RegisterInv, config
<1>9. CASE Crash \/ PowerLoss
  BY <1>9 DEF Crash, PowerLoss, Restart, RegisterInv
<1>10. ASSUME \/ \E c \in Clients : Refused(c)
              \/ \E a \in Addresses : WindowEnds(a)
              \/ WriteBack
              \/ UNCHANGED vars
       PROVE  RegisterInv'
  BY <1>10 DEF Refused, WindowEnds, WriteBack, vars, store, config, RegisterInv
<1> QED
  BY <1>1, <1>2, <1>3, <1>4, <1>5, <1>6, <1>7, <1>8, <1>9, <1>10 DEF Next, Handler

LEMMA StageMoves ==
  ASSUME TypeOK, NEW c \in Clients, NEW label \in PcValues, Goto(c, label)
  PROVE  /\ Stages' = [Stages EXCEPT ![c] = Stage(label)]
         /\ Stages[c] = Stage(pc[c])
BY DEF Stages, Goto, TypeOK

LEMMA StageStays ==
  ASSUME TypeOK, NEW c \in Clients, NEW label \in PcValues, Goto(c, label),
         Stage(label) = Stage(pc[c])
  PROVE  Stages' = Stages /\ Stages[c] = Stage(label)
<1>1. \A d \in Clients : Stage(pc'[d]) = Stage(pc[d])
  BY DEF Goto, TypeOK
<1> QED BY <1>1 DEF Stages

(* A handler that ends says nothing any more *)
LEMMA EndsSpeech ==
  ASSUME NEW c \in Clients, Finish(c) PROVE Register!SaysAnew(c)
BY DEF Finish, Register!SaysAnew, NoArg, ArgType

LEMMA RefineInit == Init => Register!RegisterInit
BY DEF Init, Register!RegisterInit, Stages, Stage

LEMMA RefineNext ==
  IndInv /\ RegisterInv /\ [Next]_vars => [Register!RegisterNext]_(Register!registerVars)
<1> SUFFICES ASSUME IndInv, RegisterInv, [Next]_vars
             PROVE  [Register!RegisterNext]_(Register!registerVars)
  OBVIOUS
<1> USE DEF IndInv
<1> DEFINE Simulated == [Register!RegisterNext]_(Register!registerVars)
<1>1. ASSUME NEW c \in Clients, LoginArrives(c) \/ ChangeArrives(c) PROVE Register!Say(c)
  <2>1. PICK label \in {"match", "lock"} : Goto(c, label) /\ pc[c] = "idle"
    BY <1>1 DEF LoginArrives, ChangeArrives, Authorised
  <2>2. Stages' = Stages /\ Stages[c] = "idle"
    BY <2>1, StageStays DEF Stage, PcValues
  <2>3. Register!SaysAnew(c)
    <3>1. CASE LoginArrives(c)
      BY <3>1 DEF LoginArrives, Register!SaysAnew, ArgType
    <3>2. CASE ChangeArrives(c)
      <4>1. PICK p \in Passwords, q \in Passwords :
              arg' = [arg EXCEPT ![c] = [NoArg EXCEPT !.current = p, !.new = q]]
        BY <3>2 DEF ChangeArrives
      <4>2. [NoArg EXCEPT !.current = p, !.new = q] \in ArgType
        BY DEF NoArg, ArgType
      <4> QED BY <4>1, <4>2 DEF Register!SaysAnew
    <3> QED BY <1>1, <3>1, <3>2
  <2> QED BY <1>1, <2>2, <2>3 DEF LoginArrives, ChangeArrives, Register!Say, store, config
<1>2. ASSUME NEW c \in Clients, PasswordMatches(c) PROVE Simulated
  <2>1. memory = file
    BY <1>2 DEF PasswordMatches, FileInv, WriterInv, Writing
  <2>2. CASE arg[c].current = memory
    <3>1. Goto(c, "passed") /\ pc[c] = "match"
      BY <1>2, <2>2 DEF PasswordMatches
    <3>2. Stages' = [Stages EXCEPT ![c] = "checked"] /\ Stages[c] = "idle"
      BY <3>1, StageMoves DEF Stage, PcValues
    <3>3. Register!Check(c)
      BY <1>2, <2>1, <2>2, <3>2
      DEF PasswordMatches, Register!Check, Register!Becomes, store, config
    <3> QED BY <3>3 DEF Register!RegisterNext
  <2>3. CASE arg[c].current # memory
    <3>1. Goto(c, "failed") /\ pc[c] = "match"
      BY <1>2, <2>3 DEF PasswordMatches
    <3>2. Stages' = Stages
      BY <3>1, StageStays DEF Stage, PcValues
    <3> QED BY <1>2, <3>2 DEF PasswordMatches, Register!registerVars, store, config
  <2> QED BY <2>2, <2>3
<1>3. ASSUME NEW c \in Clients, ClearFailures(c) \/ MeArrives(c) \/ LogoutArrives(c)
                                \/ WriteTemp(c) \/ SyncTemp(c) \/ Commit(c)
      PROVE  UNCHANGED Register!registerVars
  <2>1. Stages' = Stages
    <3>1. PICK label \in PcValues : Goto(c, label) /\ Stage(label) = Stage(pc[c])
      BY <1>3
      DEF ClearFailures, MeArrives, LogoutArrives, Authorised, WriteTemp, SyncTemp, Commit,
          Stage, PcValues
    <3> QED BY <3>1, StageStays
  <2> QED BY <1>3, <2>1
          DEF ClearFailures, MeArrives, LogoutArrives, WriteTemp, SyncTemp, Commit,
              Register!registerVars, store, config
<1>4. ASSUME NEW c \in Clients, RecordFailure(c) \/ WriteFails(c) PROVE Register!Say(c)
  <2>1. Finish(c) /\ Goto(c, "idle") /\ pc[c] \in {"failed", "write", "sync", "rename"}
    BY <1>4 DEF RecordFailure, WriteFails, Finish
  <2>2. Stages' = Stages /\ Stages[c] = "idle"
    BY <2>1, StageStays DEF Stage, PcValues
  <2> QED BY <1>4, <2>1, <2>2, EndsSpeech
          DEF RecordFailure, WriteFails, Register!Say, store, config
<1>5. ASSUME NEW c \in Clients, CreateSession(c) PROVE Register!Open(c)
  <2>1. Finish(c) /\ Goto(c, "idle") /\ pc[c] = "create"
    BY <1>5 DEF CreateSession, Finish
  <2>2. Stages' = [Stages EXCEPT ![c] = "idle"] /\ Stages[c] = "checked"
    BY <2>1, StageMoves DEF Stage, PcValues
  <2>3. PICK id \in Ids : /\ granted[id] = Torn
                          /\ granted' = [granted EXCEPT ![id] = arg[c].current]
                          /\ sessions' = sessions \cup {id}
    BY <1>5 DEF CreateSession
  <2>4. id \in Ids \ sessions
    BY <2>3 DEF RegisterInv
  <2> QED BY <1>5, <2>1, <2>2, <2>3, <2>4, EndsSpeech
          DEF CreateSession, Register!Open, Register!Becomes, config
<1>6. ASSUME NEW c \in Clients, Me(c) \/ Logout(c) PROVE Register!Close
  <2>1. Finish(c) /\ Goto(c, "idle") /\ pc[c] \in {"me", "logout"}
    BY <1>6 DEF Me, Logout, Finish
  <2>2. Stages' = Stages
    BY <2>1, StageStays DEF Stage, PcValues
  <2>3. arg' = arg
    BY <2>1 DEF Finish, RegisterInv, TypeOK
  <2> QED BY <1>6, <2>2, <2>3 DEF Me, Logout, Register!Close, store, config
<1>7. ASSUME NEW c \in Clients, LockCredentials(c) PROVE Simulated
  <2>1. PICK label \in {"write", "idle"} : Goto(c, label) /\ pc[c] = "lock"
    BY <1>7 DEF LockCredentials, Finish
  <2>2. Stages' = Stages /\ Stages[c] = "idle"
    BY <2>1, StageStays DEF Stage, PcValues
  <2>3. CASE arg[c].current = memory
    BY <1>7, <2>2, <2>3 DEF LockCredentials, Register!registerVars, store
  <2>4. CASE arg[c].current # memory
    <3>1. Register!Say(c)
      BY <1>7, <2>2, <2>4, EndsSpeech DEF LockCredentials, Register!Say, store
    <3> QED BY <3>1 DEF Register!RegisterNext
  <2> QED BY <2>3, <2>4
<1>8. ASSUME NEW c \in Clients, Rename(c) PROVE Register!Change(c)
  <2>1. Goto(c, "commit") /\ pc[c] = "rename"
    BY <1>8 DEF Rename
  <2>2. Stages' = [Stages EXCEPT ![c] = "changed"] /\ Stages[c] = "idle"
    BY <2>1, StageMoves DEF Stage, PcValues
  <2>3. arg[c].current = file
    <3>1. \A d \in Clients : pc[d] # "commit"
      BY <2>1 DEF WriterInv, Writing
    <3> QED BY <2>1, <3>1 DEF FileInv, RegisterInv
  <2> QED BY <1>8, <2>2, <2>3
          DEF Rename, NewPassword, Register!Change, Register!Becomes, store
<1>9. ASSUME NEW c \in Clients, ClearSessions(c) PROVE Register!Reauthenticate(c)
  <2>1. Finish(c) /\ Goto(c, "idle") /\ pc[c] = "clear"
    BY <1>9 DEF ClearSessions, Finish
  <2>2. Stages' = [Stages EXCEPT ![c] = "idle"] /\ Stages[c] = "changed"
    BY <2>1, StageMoves DEF Stage, PcValues
  <2> QED BY <1>9, <2>1, <2>2, EndsSpeech
          DEF ClearSessions, Cleared, Register!Reauthenticate, Register!Becomes, config
<1>10. ASSUME NEW id \in Ids, SessionExpires(id) PROVE Register!Close
  BY <1>10 DEF SessionExpires, Register!Close, Stages, config
<1>11. CASE WriteBack
  <2>1. disk' = file
    BY <1>11 DEF WriteBack, FileInv
  <2>2. Register!Settle
    BY <1>11, <2>1 DEF WriteBack, Register!Settle, Stages, store
  <2> QED BY <2>2 DEF Register!RegisterNext
<1>12. CASE Crash \/ PowerLoss
  <2>1. PICK content \in {file, disk} : Restart(content) /\ disk' = disk
    BY <1>12 DEF Crash, PowerLoss
  <2>2. Stages' = [c \in Clients |-> "idle"]
    BY <2>1 DEF Restart, Stages, Stage
  <2>3. arg' \in [Clients -> ArgType]
    BY <2>1 DEF Restart, NoArg, ArgType
  <2>4. Register!Restart
    BY <2>1, <2>2, <2>3 DEF Restart, Register!Restart
  <2> QED BY <2>4 DEF Register!RegisterNext
<1>13. ASSUME \/ \E c \in Clients : Refused(c)
              \/ \E a \in Addresses : WindowEnds(a)
              \/ UNCHANGED vars
       PROVE  UNCHANGED Register!registerVars
  BY <1>13 DEF Refused, WindowEnds, vars, Register!registerVars, Stages, store, config
<1> QED
  BY <1>1, <1>2, <1>3, <1>4, <1>5, <1>6, <1>7, <1>8, <1>9, <1>10, <1>11, <1>12, <1>13
  DEF Next, Handler, Register!RegisterNext

(* Logins, changes, crashes and power losses together make one register of the password. *)
THEOREM HandlersImplementRegister == Spec => ImplementsRegister
<1>1. Spec => []RegisterInv
  BY Invariance, RegisterInvInit, RegisterStep, PTL DEF Spec
<1>2. Spec => Register!RegisterInit /\ [][Register!RegisterNext]_(Register!registerVars)
  BY <1>1, Invariance, RefineInit, RefineNext, PTL DEF Spec
<1> QED BY <1>2 DEF ImplementsRegister, Register!RegisterSpec

-------------------------------------------------------------------------------
(* A step that opens no session, leaves the password in memory alone and    *)
(* ends no wait to clear the store makes no session stale.                  *)
LEMMA StaleKept ==
  ASSUME sessions' \subseteq sessions, granted' = granted, memory' = memory,
         Settled' => Settled
  PROVE  Settled' => Settled /\ Stale' \subseteq Stale
BY DEF Stale

(* A handler that moves on from elsewhere than the wait to clear the store, *)
(* leaves those that wait there.                                            *)
LEMMA SettledKept ==
  ASSUME TypeOK, NEW c \in Clients, NEW label, Goto(c, label), pc[c] # "clear"
  PROVE  Settled' => Settled
<1> SUFFICES ASSUME Settled', NEW d \in Clients PROVE pc[d] # "clear"
  BY DEF Settled
<1>1. pc'[d] # "clear"
  BY DEF Settled
<1> QED BY <1>1 DEF Goto, TypeOK

(* No step of handlers, time, disk or power makes a session stale in a      *)
(* settled store, but for a login that passed the check before the change.  *)
THEOREM StaleStep ==
  ASSUME TypeOK, [Next]_vars, Settled', NEW id \in Stale'
  PROVE  \/ Settled /\ id \in Stale
         \/ /\ id \notin sessions
            /\ \E c \in Clients : pc[c] = "create" /\ pc'[c] # "create" /\ granted'[id] = arg[c].current
<1> DEFINE Was == Settled /\ id \in Stale
<1>0. id \in sessions'
  BY DEF Stale
<1>1. ASSUME NEW c \in Clients,
             \/ LoginArrives(c) \/ PasswordMatches(c) \/ RecordFailure(c) \/ ClearFailures(c)
             \/ MeArrives(c) \/ Me(c) \/ LogoutArrives(c) \/ Logout(c) \/ ChangeArrives(c)
             \/ LockCredentials(c) \/ WriteTemp(c) \/ SyncTemp(c) \/ Rename(c) \/ WriteFails(c)
      PROVE  Was
  <2>1. (\E label : Goto(c, label)) /\ pc[c] # "clear"
    BY <1>1
    DEF LoginArrives, PasswordMatches, RecordFailure, ClearFailures, MeArrives, Me, LogoutArrives,
        Logout, ChangeArrives, LockCredentials, WriteTemp, SyncTemp, Rename, WriteFails, Authorised,
        Finish
  <2>2. sessions' \subseteq sessions /\ granted' = granted /\ memory' = memory
    BY <1>1
    DEF LoginArrives, PasswordMatches, RecordFailure, ClearFailures, MeArrives, Me, LogoutArrives,
        Logout, ChangeArrives, LockCredentials, WriteTemp, SyncTemp, Rename, WriteFails, store, config
  <2> QED BY <2>1, <2>2, SettledKept, StaleKept
<1>2. ASSUME NEW c \in Clients, CreateSession(c), ~Was
      PROVE  id \notin sessions /\ pc[c] = "create" /\ pc'[c] # "create" /\ granted'[id] = arg[c].current
  <2>1. PICK new \in Ids : /\ granted[new] = Torn
                           /\ granted' = [granted EXCEPT ![new] = arg[c].current]
                           /\ sessions' = sessions \cup {new}
    BY <1>2 DEF CreateSession
  <2>2. pc[c] = "create" /\ Goto(c, "idle") /\ memory' = memory
    BY <1>2 DEF CreateSession, Finish, config
  <2>3. Settled
    BY <2>2, SettledKept
  <2>4. granted \in [Ids -> Passwords \cup {Torn}] /\ sessions \in SUBSET Ids /\ pc \in [Clients -> PcValues]
    BY DEF TypeOK
  <2>5. id = new
    BY <1>2, <2>1, <2>2, <2>3, <2>4 DEF Stale
  <2>6. pc'[c] = "idle" /\ granted'[id] = arg[c].current
    BY <2>1, <2>2, <2>4, <2>5 DEF Goto
  <2>7. granted[id] # memory
    BY <2>1, <2>5, CredentialsAssumption DEF TypeOK
  <2>8. id \notin sessions
    BY <1>2, <2>3, <2>7 DEF Stale
  <2> QED BY <2>2, <2>6, <2>8
<1>3. ASSUME NEW c \in Clients, Commit(c) PROVE FALSE
  <2>1. pc'[c] = "clear"
    BY <1>3 DEF Commit, Goto, TypeOK
  <2> QED BY <2>1 DEF Settled
<1>4. ASSUME NEW c \in Clients, ClearSessions(c) PROVE FALSE
  BY <1>0, <1>4 DEF ClearSessions, Cleared
<1>5. ASSUME NEW c \in Clients, Refused(c) PROVE Was
  BY <1>5 DEF Refused, store, config, Stale, Settled
<1>6. ASSUME NEW a \in Addresses, WindowEnds(a) PROVE Was
  BY <1>6 DEF WindowEnds, config, Stale, Settled
<1>7. ASSUME NEW old \in Ids, SessionExpires(old) PROVE Was
  BY <1>7 DEF SessionExpires, config, Stale, Settled
<1>8. CASE WriteBack \/ UNCHANGED vars
  BY <1>8 DEF WriteBack, vars, store, config, Stale, Settled
<1>9. CASE Crash \/ PowerLoss
  BY <1>0, <1>9 DEF Crash, PowerLoss, Restart
<1> QED
  BY <1>1, <1>2, <1>3, <1>4, <1>5, <1>6, <1>7, <1>8, <1>9 DEF Next, Handler

(* A change logs out everybody it should, up to the one race the code has.  *)
THEOREM ChangeLogsOut == Spec => OnlyRacingLoginsStay
<1>1. TypeOK /\ [Next]_vars =>
        [Settled' => \A id \in Stale' :
           \/ Settled /\ id \in Stale
           \/ /\ id \notin sessions
              /\ \E c \in Clients : pc[c] = "create" /\ pc'[c] # "create" /\ granted'[id] = arg[c].current
        ]_vars
  BY StaleStep
<1> QED BY <1>1, TypeCorrect, PTL DEF Spec, OnlyRacingLoginsStay

===============================================================================
