---------------------------- MODULE WebClient_proofs ----------------------------
(***************************************************************************)
(* Theorems about WebClient, for any number of requests and sessions.      *)
(***************************************************************************)
EXTENDS WebClient, TLAPS

USE WebClientAssumption

(* The part about actions *)
ActionInv == TypeOK /\ OneAction

Codes == {"none", "ok", "failed", "unauthorised"}
Values == Modes \cup {NoMode} \cup Ids \cup {NoId}

(* What a handler may reply to a request of a kind *)
Fits(kind, code, value) ==
  code = "ok" => /\ kind \in {"me", "login"} => value \in Ids \cup {NoId}
                 /\ kind \in Refreshes => value \in Modes

-------------------------------------------------------------------------------
(***************************************************************************)
(* Requests and replies                                                    *)
(***************************************************************************)
(* A free slot holds a request of the right form that is no action. *)
LEMMA NoRequestType == NoRequest \in Requests /\ NoRequest.kind = "none" /\ NoRequest.heard
BY DEF NoRequest, Requests, Records, Proper, Kinds

(* What fetch sends has the right form and is of its kind. *)
LEMMA FetchType ==
  ASSUME NEW kind \in Kinds, NEW jar \in Ids \cup {NoId}, NEW token
  PROVE  Fetch(kind, jar, token) \in Requests /\ Fetch(kind, jar, token).kind = kind
BY DEF Fetch, NoRequest, Requests, Records, Proper

(* Sending puts one request of a kind in a free slot. *)
LEMMA SendKeeps ==
  ASSUME TypeOK, NEW kind \in Kinds \ {"action"}, Send(kind)
  PROVE  /\ requests' \in [Slots -> Requests]
         /\ \A s \in Slots : InFlight(s, "action")' <=> InFlight(s, "action")
<1>1. PICK s \in Slots : /\ requests[s] = NoRequest
                         /\ requests' = [requests EXCEPT ![s] = Fetch(kind, cookie, csrf)]
  BY DEF Send
<1>2. Fetch(kind, cookie, csrf) \in Requests /\ Fetch(kind, cookie, csrf).kind # "action"
  BY FetchType DEF TypeOK
<1> QED BY <1>1, <1>2, NoRequestType DEF TypeOK, InFlight

(* A reply leaves the kind of a request that is heard, and an unheard one  *)
(* was no request of the page anyway.                                      *)
LEMMA ReplyKeeps ==
  ASSUME TypeOK, NEW s \in Slots, NEW code \in Codes, NEW value \in Values,
         NEW sets \in Ids \cup {NoId, Keep}, Reply(s, code, value, sets),
         Fits(requests[s].kind, code, value)
  PROVE  /\ requests' \in [Slots -> Requests]
         /\ \A t \in Slots : InFlight(t, "action")' <=> InFlight(t, "action")
<1> DEFINE reply == [NoRequest EXCEPT !.kind = requests[s].kind, !.code = code,
                                      !.value = value, !.sets = sets]
<1>1. requests[s].kind \in Kinds
  BY DEF TypeOK, Requests, Records
<1>2. reply \in Requests /\ reply.kind = requests[s].kind /\ reply.heard
  BY <1>1 DEF NoRequest, Requests, Records, Proper, Fits, Codes, Values
<1>3. requests' = [requests EXCEPT ![s] = IF requests[s].heard THEN reply ELSE NoRequest]
  BY DEF Reply
<1> HIDE DEF reply
<1> QED BY <1>2, <1>3, NoRequestType DEF TypeOK, InFlight

(* One action stays one action where neither busy nor the actions change. *)
LEMMA SameActions ==
  ASSUME OneAction, busy' = busy,
         \A s \in Slots : InFlight(s, "action")' <=> InFlight(s, "action")
  PROVE  OneAction'
BY DEF OneAction

-------------------------------------------------------------------------------
(***************************************************************************)
(* The steps                                                               *)
(***************************************************************************)
(* The user and the timer keep the invariant: a click makes the page busy  *)
(* with one action, a reload leaves it with none.                          *)
THEOREM UserStep == ActionInv /\ (User \/ Poll) => ActionInv'
<1> SUFFICES ASSUME ActionInv, User \/ Poll PROVE ActionInv'
  OBVIOUS
<1> USE DEF ActionInv, page, server, history
<1>1. CASE SubmitLogin \/ Poll \/ ClickRefresh \/ ClickLogout \/ SubmitPassword
  <2>1. PICK kind \in Kinds \ {"action"} : Send(kind)
    BY <1>1 DEF SubmitLogin, Poll, ClickRefresh, ClickLogout, SubmitPassword, Kinds, Refreshes, Writes
  <2>2. UNCHANGED <<cookie, csrf, view, busy, visible, shown, server, history>> /\ submitting' \in BOOLEAN
    BY <1>1 DEF SubmitLogin, Poll, ClickRefresh, ClickLogout, SubmitPassword, TypeOK
  <2>3. TypeOK'
    BY <2>1, <2>2, SendKeeps DEF TypeOK
  <2> QED BY <2>1, <2>2, <2>3, SendKeeps, SameActions
<1>2. CASE ClickAction
  <2>1. PICK s \in Slots : /\ requests[s] = NoRequest
                           /\ requests' = [requests EXCEPT ![s] = Fetch("action", cookie, csrf)]
    BY <1>2 DEF ClickAction, Send
  <2>2. /\ Fetch("action", cookie, csrf) \in Requests
        /\ Fetch("action", cookie, csrf).kind = "action"
    BY FetchType DEF TypeOK, Kinds, Writes
  <2>3. TypeOK'
    BY <1>2, <2>1, <2>2 DEF ClickAction, TypeOK
  <2>4. Fetch("action", cookie, csrf).heard
    BY DEF Fetch, NoRequest
  <2>5. \A t \in Slots : InFlight(t, "action")' <=> t = s
    BY <1>2, <2>1, <2>2, <2>4 DEF ClickAction, MayAct, OneAction, InFlight, TypeOK
  <2> QED BY <1>2, <2>3, <2>5 DEF ClickAction, OneAction
<1>3. CASE Hide
  <2>1. UNCHANGED <<busy, requests>> /\ TypeOK'
    BY <1>3 DEF Hide, TypeOK
  <2> QED BY <2>1, SameActions DEF InFlight
<1>4. CASE Show
  <2>1. CASE Send("status")
    <3>1. "status" \in Kinds \ {"action"}
      BY DEF Kinds, Refreshes
    <3>2. TypeOK'
      BY <1>4, <2>1, <3>1, SendKeeps DEF Show, TypeOK
    <3> QED BY <1>4, <2>1, <3>1, <3>2, SendKeeps, SameActions DEF Show
  <2>2. CASE UNCHANGED requests
    <3>1. UNCHANGED busy /\ TypeOK'
      BY <1>4, <2>2 DEF Show, TypeOK
    <3> QED BY <2>2, <3>1, SameActions DEF InFlight
  <2> QED BY <1>4, <2>1, <2>2 DEF Show
<1>5. CASE Reload
  <2>1. PICK s \in Slots : requests' = [[t \in Slots |-> Abandoned(requests[t])]
                                          EXCEPT ![s] = Fetch("me", cookie, NoId)]
    BY <1>5 DEF Reload
  <2>2. /\ Fetch("me", cookie, NoId) \in Requests
        /\ Fetch("me", cookie, NoId).kind = "me"
    BY FetchType DEF TypeOK, Kinds
  <2>3. ASSUME NEW t \in Slots
        PROVE  /\ Abandoned(requests[t]) \in Requests
               /\ Abandoned(requests[t]).kind # "action" \/ ~ Abandoned(requests[t]).heard
    <3>1. requests[t] \in Requests
      BY DEF TypeOK
    <3>2. CASE Abandoned(requests[t]) = NoRequest
      BY <3>2, NoRequestType
    <3>3. CASE requests[t].stage # "replied" /\ Abandoned(requests[t]) = Orphan(requests[t])
      <4>1. Orphan(requests[t]) \in Requests /\ ~ Orphan(requests[t]).heard
        BY <3>1, <3>3 DEF Orphan, Requests, Records, Proper
      <4> QED BY <3>3, <4>1
    <3> QED BY <3>2, <3>3 DEF Abandoned
  <2>4. TypeOK'
    BY <1>5, <2>1, <2>2, <2>3 DEF Reload, TypeOK
  <2>5. \A t \in Slots : ~ InFlight(t, "action")'
    BY <2>1, <2>2, <2>3 DEF InFlight
  <2> QED BY <1>5, <2>4, <2>5 DEF Reload, OneAction
<1> QED BY <1>1, <1>2, <1>3, <1>4, <1>5 DEF User

(* The server, the network and the passing of time do not touch the        *)
(* actions that the page waits for.                                        *)
THEOREM ServerStep ==
  ActionInv /\ ((\E s \in Slots : Handle(s) \/ Lose(s) \/ Cut(s)) \/ SessionEnds \/ StatusChanges)
    => ActionInv'
<1> SUFFICES ASSUME ActionInv,
                    (\E s \in Slots : Handle(s) \/ Lose(s) \/ Cut(s)) \/ SessionEnds \/ StatusChanges
             PROVE  ActionInv'
  OBVIOUS
<1> USE DEF ActionInv, page, server, history
<1>0. \A id \in Ids : id \in Values
  BY DEF Values
<1>1. ASSUME NEW s \in Slots,
             Login(s) \/ Me(s) \/ Status(s) \/ Act(s) \/ Logout(s) \/ ChangePassword(s) \/ Lose(s)
      PROVE  ActionInv'
  <2>1. PICK code \in Codes, value \in Values, sets \in Ids \cup {NoId, Keep} :
          Reply(s, code, value, sets) /\ Fits(requests[s].kind, code, value)
    BY <1>1 DEF Login, Me, Status, Act, Logout, ChangePassword, Lose, Inside, Codes, Values,
                Fits, Refreshes, TypeOK, Requests, Records
  <2>2. UNCHANGED <<cookie, page, crossed>>
    BY <1>1 DEF Login, Me, Status, Act, Logout, ChangePassword, Lose
  <2>3. sessions' \in SUBSET issued' /\ issued' \in SUBSET Ids /\ status' \in Modes /\ lost' \in 0..MaxLost
    BY <1>1 DEF Login, Me, Status, Act, Logout, ChangePassword, Lose, TypeOK
  <2>4. TypeOK'
    BY <2>1, <2>2, <2>3, ReplyKeeps DEF TypeOK
  <2> QED BY <2>1, <2>2, <2>4, ReplyKeeps, SameActions
<1>2. ASSUME NEW s \in Slots, RequireAuth(s) PROVE ActionInv'
  <2>1. UNCHANGED <<cookie, page, server, history>>
    BY <1>2 DEF RequireAuth
  <2>2. CASE requests' = [requests EXCEPT ![s].stage = "inside"]
    <3> DEFINE admitted == [requests[s] EXCEPT !.stage = "inside"]
    <3>1. /\ admitted \in Requests /\ admitted.kind = requests[s].kind
          /\ admitted.heard = requests[s].heard
      BY DEF TypeOK, Requests, Records, Proper
    <3>2. requests' = [requests EXCEPT ![s] = admitted]
      BY <2>2
    <3> HIDE DEF admitted
    <3>3. TypeOK'
      BY <2>1, <3>1, <3>2 DEF TypeOK
    <3>4. \A t \in Slots : InFlight(t, "action")' <=> InFlight(t, "action")
      BY <3>1, <3>2 DEF TypeOK, InFlight
    <3> QED BY <2>1, <3>3, <3>4, SameActions
  <2>3. CASE \E code \in Codes, value \in Values, sets \in Ids \cup {NoId, Keep} :
               Reply(s, code, value, sets) /\ code # "ok"
    <3>1. PICK code \in Codes \ {"ok"}, value \in Values, sets \in Ids \cup {NoId, Keep} :
            Reply(s, code, value, sets)
      BY <2>3
    <3>2. Fits(requests[s].kind, code, value)
      BY <3>1 DEF Fits
    <3>3. TypeOK'
      BY <2>1, <3>1, <3>2, ReplyKeeps DEF TypeOK
    <3> QED BY <2>1, <3>1, <3>2, <3>3, ReplyKeeps, SameActions
  <2> QED BY <1>2, <2>2, <2>3 DEF RequireAuth, Codes, Values
<1>3. ASSUME NEW s \in Slots, Cut(s) PROVE ActionInv'
  <2>1. /\ requests[s].stage = "inside" /\ requests[s].heard
        /\ lost' \in 0..MaxLost
        /\ UNCHANGED <<cookie, page, server, crossed>>
    BY <1>3 DEF Cut, Inside, TypeOK
  <2>2. PICK t \in Slots :
          /\ requests[t] = NoRequest
          /\ requests' = [requests EXCEPT ![s] = Broken(requests[s]), ![t] = Orphan(requests[s])]
    BY <1>3 DEF Cut
  <2>3. requests[s] \in Requests
    BY DEF TypeOK
  <2>4. /\ Broken(requests[s]) \in Requests
        /\ Broken(requests[s]).kind = requests[s].kind
        /\ Broken(requests[s]).heard
    BY <2>3 DEF Broken, NoRequest, Requests, Records, Proper
  <2>5. Orphan(requests[s]) \in Requests /\ ~ Orphan(requests[s]).heard
    BY <2>1, <2>3 DEF Orphan, Requests, Records, Proper
  <2>6. s # t
    BY <2>1, <2>2 DEF NoRequest
  <2>7. TypeOK'
    BY <2>1, <2>2, <2>4, <2>5 DEF TypeOK
  <2>8. \A u \in Slots : InFlight(u, "action")' <=> InFlight(u, "action")
    BY <2>1, <2>2, <2>4, <2>5, <2>6, NoRequestType DEF TypeOK, InFlight
  <2> QED BY <2>1, <2>7, <2>8, SameActions
<1>4. CASE SessionEnds \/ StatusChanges
  <2>1. UNCHANGED <<busy, requests>> /\ TypeOK'
    BY <1>4 DEF SessionEnds, StatusChanges, TypeOK
  <2> QED BY <2>1, SameActions DEF InFlight
<1> QED BY <1>1, <1>2, <1>3, <1>4 DEF Handle

(* A reply ends the one action when it answers it, and no other reply does. *)
THEOREM ReceiveStep == ASSUME ActionInv, NEW s \in Slots, Receive(s) PROVE ActionInv'
<1> DEFINE r == requests[s]
<1>1. r \in Requests
  BY DEF ActionInv, TypeOK
<1>2. Jar(r) \in Ids \cup {NoId}
  BY <1>1 DEF Jar, ActionInv, TypeOK, Requests, Records
<1>3. FollowUp(r) \in Requests /\ FollowUp(r).kind # "action"
  <2>1. "first" \in Kinds /\ "status" \in Kinds
    BY DEF Kinds, Refreshes
  <2> QED BY <1>2, <2>1, FetchType, NoRequestType DEF FollowUp
<1>4. requests' = [requests EXCEPT ![s] = FollowUp(r)]
  BY DEF Receive
<1>5. requests' \in [Slots -> Requests]
  BY <1>3, <1>4 DEF ActionInv, TypeOK
<1>6. \A t \in Slots : InFlight(t, "action")' <=> t # s /\ InFlight(t, "action")
  BY <1>3, <1>4 DEF ActionInv, TypeOK, InFlight
<1>7. OneAction'
  <2>1. busy' = (busy /\ r.kind # "action") /\ (r.kind = "action" => InFlight(s, "action"))
    BY <1>1 DEF Receive, Ends, InFlight, Requests, Proper
  <2>2. CASE r.kind = "action"
    <3>1. \A t \in Slots : ~ InFlight(t, "action")'
      BY <1>6, <2>1, <2>2 DEF OneAction, ActionInv
    <3> QED BY <2>1, <2>2, <3>1 DEF OneAction
  <2>3. CASE r.kind # "action"
    <3>1. ~ InFlight(s, "action")
      BY <2>3 DEF InFlight
    <3>2. \A t \in Slots : InFlight(t, "action")' <=> InFlight(t, "action")
      BY <1>6, <3>1
    <3>3. busy' = busy
      BY <2>1, <2>3 DEF ActionInv, TypeOK
    <3> QED BY <3>2, <3>3, SameActions DEF ActionInv
  <2> QED BY <2>2, <2>3
<1>8. csrf' \in Ids \cup {NoId}
  BY <1>1 DEF Receive, Token, LogsOn, ActionInv, TypeOK, Requests, Records, Proper
<1>9. view' \in {"login", "app"} /\ shown' \in Modes \cup {NoMode}
  BY <1>1 DEF Receive, View, Renders, ActionInv, TypeOK, Requests, Records, Proper
<1>10. busy' \in BOOLEAN /\ submitting' \in BOOLEAN /\ crossed' \in BOOLEAN
  BY DEF Receive
<1>11. cookie' \in Ids \cup {NoId} /\ UNCHANGED <<visible, server, lost>>
  BY <1>2 DEF Receive
<1> QED BY <1>5, <1>7, <1>8, <1>9, <1>10, <1>11 DEF ActionInv, TypeOK, server

-------------------------------------------------------------------------------
(***************************************************************************)
(* Sessions, cookies and tokens                                            *)
(***************************************************************************)
(* What the page is answered *)
Answered(kind, code, value, sets) ==
  [NoRequest EXCEPT !.kind = kind, !.code = code, !.value = value, !.sets = sets]

(* A reply is put in the place of its request, if somebody waits for it. *)
LEMMA ReplyPuts ==
  ASSUME TypeOK, NEW s \in Slots, NEW code, NEW value, NEW sets, Reply(s, code, value, sets)
  PROVE  \A t \in Slots :
           \/ requests'[t] = requests[t] /\ t # s
           \/ requests'[t] = NoRequest
           \/ t = s /\ requests[s].heard /\ requests'[t] = Answered(requests[s].kind, code, value, sets)
BY DEF Reply, Answered, TypeOK

LEMMA AnsweredHas ==
  ASSUME NEW kind, NEW code, NEW value, NEW sets
  PROVE  LET r == Answered(kind, code, value, sets) IN
         /\ r.kind = kind /\ r.code = code /\ r.value = value /\ r.sets = sets
         /\ r.stage = "replied" /\ r.heard /\ r.cookie = NoId
BY DEF Answered, NoRequest

LEMMA FetchHas ==
  ASSUME NEW kind, NEW jar, NEW token
  PROVE  LET r == Fetch(kind, jar, token) IN
         /\ r.kind = kind /\ r.code = "none" /\ r.sets = Keep
         /\ r.stage = "sent" /\ r.heard /\ r.cookie = jar
         /\ r.genuine = (kind \in Writes => token = jar)
BY DEF Fetch, NoRequest

(* A request that is sent does not delete or set a cookie. *)
LEMMA FetchFits ==
  /\ JarFits(NoRequest)
  /\ \A kind \in Kinds \ {"none"} : \A jar, token : JarFits(Fetch(kind, jar, token))
<1>1. JarFits(NoRequest)
  BY DEF JarFits, NoRequest
<1>2. ASSUME NEW kind \in Kinds \ {"none"}, NEW jar, NEW token PROVE JarFits(Fetch(kind, jar, token))
  BY FetchHas DEF JarFits
<1> QED BY <1>1, <1>2

(* What the handlers reply, and what the network makes of it: only a reply *)
(* that logs the page off deletes the cookie, only a login sets it.        *)
LEMMA HandlersReply ==
  ASSUME TypeOK, JarInv, IssuedInv, NEW s \in Slots,
         \/ Login(s) \/ Me(s) \/ Status(s) \/ Act(s) \/ Logout(s) \/ ChangePassword(s) \/ Lose(s)
         \/ RequireAuth(s) /\ requests' # [requests EXCEPT ![s].stage = "inside"]
  PROVE  \E code, value, sets :
           /\ Reply(s, code, value, sets)
           /\ JarFits(Answered(requests[s].kind, code, value, sets))
           /\ sets \in issued' \cup {NoId, Keep}
           /\ requests[s].kind = "me" /\ code = "ok" =>
                /\ requests[s].stage # "replied"
                /\ value = IF requests[s].cookie \in sessions' THEN requests[s].cookie ELSE NoId
<1>0. requests[s].kind # "none"
  <2>1. requests[s] # NoRequest
    BY DEF Login, Me, Status, Act, Logout, ChangePassword, Lose, RequireAuth, Inside, NoRequest
  <2> QED BY <2>1 DEF JarInv, JarFits
<1>1. \A code, value : code # "ok" => JarFits(Answered(requests[s].kind, code, value, Keep))
  BY <1>0, AnsweredHas DEF JarFits
<1>2. \A code, value : requests[s].kind # "login" =>
        JarFits(Answered(requests[s].kind, code, value, Keep))
  BY <1>0, AnsweredHas DEF JarFits
<1>3. CASE Login(s)
  <2>1. CASE \E code \in {"unauthorised", "failed"} : Reply(s, code, NoMode, Keep)
    BY <1>1, <1>3, <2>1 DEF Login
  <2>2. CASE \E id \in Ids \ issued : Reply(s, "ok", id, id) /\ issued' = issued \cup {id}
    <3>1. PICK id \in Ids \ issued : Reply(s, "ok", id, id) /\ issued' = issued \cup {id}
      BY <2>2
    <3>2. JarFits(Answered(requests[s].kind, "ok", id, id))
      BY <1>3, AnsweredHas DEF Login, JarFits
    <3> QED BY <1>3, <3>1, <3>2 DEF Login
  <2> QED BY <1>3, <2>1, <2>2 DEF Login
<1>4. CASE Me(s) \/ Status(s) \/ Act(s) \/ Lose(s)
  BY <1>1, <1>2, <1>4 DEF Me, Status, Act, Lose, Inside, Refreshes, server
<1>5. CASE Logout(s)
  <2>1. JarFits(Answered(requests[s].kind, "ok", NoMode, NoId))
    BY <1>5, AnsweredHas DEF Logout, Inside, JarFits, LogsOff
  <2> QED BY <1>5, <2>1 DEF Logout, Inside
<1>6. CASE ChangePassword(s)
  <2>1. JarFits(Answered(requests[s].kind, "ok", NoMode, NoId))
    BY <1>6, AnsweredHas DEF ChangePassword, Inside, JarFits, LogsOff
  <2> QED BY <1>2, <1>6, <2>1 DEF ChangePassword, Inside
<1>7. CASE RequireAuth(s) /\ requests' # [requests EXCEPT ![s].stage = "inside"]
  <2>1. JarFits(Answered(requests[s].kind, "unauthorised", NoMode, NoId))
    BY <1>0, <1>7, AnsweredHas DEF RequireAuth, JarFits, LogsOff
  <2> QED BY <1>1, <1>7, <2>1 DEF RequireAuth
<1> QED BY <1>3, <1>4, <1>5, <1>6, <1>7

(* Cookies and replies of a request, each for itself *)
Sound(r) ==
  /\ JarFits(r)
  /\ r.cookie \in issued \cup {NoId}
  /\ r.sets \in issued \cup {NoId, Keep}

LEMMA SoundRequests ==
  /\ IssuedInv /\ JarInv <=> cookie \in issued \cup {NoId} /\ \A s \in Slots : Sound(requests[s])
  /\ IssuedInv' /\ JarInv' <=>
       cookie' \in issued' \cup {NoId} /\ \A s \in Slots : Sound(requests[s])'
BY DEF IssuedInv, JarInv, Sound

(* Requests that stay or are answered leave the tokens as they were. *)
LEMMA TokenStays ==
  ASSUME SessionInv, UNCHANGED <<cookie, csrf, view, crossed>>,
         \A id \in issued \cup {NoId} : id \notin sessions => id \notin sessions',
         \A t \in Slots : requests'[t].heard =>
           \/ requests'[t].kind = "none"
           \/ /\ requests[t].heard /\ requests'[t].kind = requests[t].kind
              /\ requests'[t].stage # "replied" =>
                   requests[t].stage # "replied" /\ requests'[t].cookie = requests[t].cookie
              /\ requests'[t].stage = "sent" => requests'[t] = requests[t]
              /\ requests'[t].kind = "me" /\ requests'[t].code = "ok" /\ ~ crossed =>
                   requests'[t].value = cookie \/ (requests'[t].value = NoId /\ cookie \notin sessions')
  PROVE  TokenInv' /\ WritesAreGenuine'
<1>1. Fitting(csrf) => Fitting(csrf)'
  BY DEF Fitting, SessionInv, IssuedInv
<1>2. ASSUME ~ crossed, NEW s \in Slots, InFlight(s, "me")'
      PROVE  /\ view' = "login"
             /\ \A t \in Slots \ {s} : requests'[t].heard => requests'[t].kind \in {"none", "login"}
             /\ requests'[s].stage # "replied" => requests'[s].cookie = cookie'
             /\ requests'[s].code = "ok" => Fitting(requests[s].value)'
  <2>1. InFlight(s, "me") /\ requests'[s].kind = "me"
    BY <1>2 DEF InFlight
  <2>2. /\ view = "login"
        /\ \A t \in Slots \ {s} : requests[t].heard => requests[t].kind \in {"none", "login"}
        /\ requests[s].stage # "replied" => requests[s].cookie = cookie
    BY <1>2, <2>1 DEF SessionInv, TokenInv
  <2> QED BY <1>2, <2>1, <2>2 DEF Fitting, InFlight
<1>3. TokenInv'
  BY <1>1, <1>2 DEF TokenInv, SessionInv
<1>4. ASSUME ~ crossed, NEW s \in Slots, requests'[s].kind \in Writes, requests'[s].heard,
             requests'[s].stage = "sent"
      PROVE  requests'[s].genuine \/ requests'[s].cookie \notin sessions'
  <2>1. requests'[s] = requests[s]
    BY <1>4 DEF Writes
  <2> QED BY <1>4, <2>1 DEF SessionInv, WritesAreGenuine, IssuedInv
<1> QED BY <1>3, <1>4 DEF WritesAreGenuine

(* What /api/me has answered fits as long as the cookie stays. *)
LEMMA AnswerFits ==
  ASSUME SessionInv, cookie' = cookie, cookie \notin sessions => cookie \notin sessions',
         NEW t \in Slots, requests'[t].kind = requests[t].kind, requests'[t].heard = requests[t].heard,
         requests'[t].code = requests[t].code, requests'[t].value = requests[t].value
  PROVE  requests'[t].kind = "me" /\ requests'[t].heard /\ requests'[t].code = "ok" /\ ~ crossed =>
           requests'[t].value = cookie \/ (requests'[t].value = NoId /\ cookie \notin sessions')
BY DEF SessionInv, TokenInv, InFlight, Fitting

(* A page that does not wait for /api/me, or whose login form is visible,  *)
(* sends the token of its cookie.                                          *)
LEMMA SendStep ==
  ASSUME TypeOK, SessionInv, NEW kind \in Kinds \ {"none", "me"}, Send(kind),
         kind = "login" \/ view = "app", UNCHANGED <<cookie, csrf, view, server, crossed>>
  PROVE  SessionInv'
<1>1. PICK s \in Slots : requests' = [requests EXCEPT ![s] = Fetch(kind, cookie, csrf)]
  BY DEF Send
<1>2. requests'[s] = Fetch(kind, cookie, csrf) /\ \A t \in Slots \ {s} : requests'[t] = requests[t]
  BY <1>1 DEF TypeOK
<1>3. /\ requests'[s].kind = kind /\ requests'[s].cookie = cookie /\ requests'[s].sets = Keep
      /\ requests'[s].genuine = (kind \in Writes => csrf = cookie)
  BY <1>2, FetchHas
<1>4. IssuedInv' /\ JarInv'
  <2>1. Sound(requests[s])'
    BY <1>2, <1>3, FetchFits DEF Sound, SessionInv, IssuedInv, server
  <2>2. \A t \in Slots \ {s} : Sound(requests[t])'
    BY <1>2, SoundRequests DEF Sound, SessionInv, server
  <2> QED BY <2>1, <2>2, SoundRequests DEF SessionInv, IssuedInv, server
<1>5. TokenInv'
  <2>1. Fitting(csrf) => Fitting(csrf)'
    BY DEF Fitting, server
  <2>2. ASSUME ~ crossed, NEW t \in Slots, InFlight(t, "me")'
        PROVE  /\ view' = "login"
               /\ \A u \in Slots \ {t} : requests'[u].heard => requests'[u].kind \in {"none", "login"}
               /\ requests'[t].stage # "replied" => requests'[t].cookie = cookie'
               /\ requests'[t].code = "ok" => Fitting(requests[t].value)'
    <3>1. t # s /\ InFlight(t, "me") /\ requests'[t] = requests[t]
      BY <1>2, <1>3, <2>2 DEF InFlight
    <3>2. view = "login" /\ kind = "login"
      BY <2>2, <3>1 DEF SessionInv, TokenInv
    <3>3. Fitting(requests[t].value) => Fitting(requests[t].value)'
      BY <3>1 DEF Fitting, server
    <3> QED BY <1>2, <1>3, <2>2, <3>1, <3>2, <3>3 DEF SessionInv, TokenInv
  <2> QED BY <2>1, <2>2 DEF TokenInv, SessionInv
<1>6. WritesAreGenuine'
  <2>1. ASSUME ~ crossed, kind \in Writes PROVE csrf = cookie \/ cookie \notin sessions
    <3>1. view = "app"
      BY <2>1 DEF Writes
    <3> QED BY <2>1, <3>1 DEF SessionInv, TokenInv, Fitting
  <2> QED BY <1>2, <1>3, <2>1 DEF SessionInv, WritesAreGenuine, server
<1> QED BY <1>4, <1>5, <1>6 DEF SessionInv

(* The user, the timer and a reload keep cookies and tokens together. *)
THEOREM UserSessionStep == TypeOK /\ SessionInv /\ (User \/ Poll) => SessionInv'
<1> SUFFICES ASSUME TypeOK, SessionInv, User \/ Poll PROVE SessionInv'
  OBVIOUS
<1>1. CASE SubmitLogin \/ Poll \/ ClickRefresh \/ ClickAction \/ ClickLogout \/ SubmitPassword
           \/ (Show /\ csrf # NoId)
  <2>1. csrf # NoId => view = "app"
    BY DEF SessionInv, TokenInv, TypeOK
  <2>2. PICK kind \in Kinds \ {"none", "me"} : Send(kind) /\ (kind = "login" \/ view = "app")
    BY <1>1, <2>1 DEF SubmitLogin, Poll, ClickRefresh, ClickAction, ClickLogout, SubmitPassword, Show,
                      Kinds, Refreshes, Writes
  <2>3. UNCHANGED <<cookie, csrf, view, server, crossed>>
    BY <1>1 DEF SubmitLogin, Poll, ClickRefresh, ClickAction, ClickLogout, SubmitPassword, Show,
                page, history
  <2> QED BY <2>2, <2>3, SendStep
<1>2. CASE Hide \/ (Show /\ csrf = NoId)
  <2>1. UNCHANGED <<cookie, csrf, view, requests, server, crossed>>
    BY <1>2 DEF Hide, Show, history
  <2>2. IssuedInv' /\ JarInv'
    BY <2>1 DEF SessionInv, IssuedInv, JarInv, server
  <2> QED BY <2>1, <2>2, AnswerFits, TokenStays DEF SessionInv, server
<1>3. CASE Reload
  <2>1. PICK s \in Slots : requests' = [[t \in Slots |-> Abandoned(requests[t])]
                                          EXCEPT ![s] = Fetch("me", cookie, NoId)]
    BY <1>3 DEF Reload
  <2>2. /\ requests'[s] = Fetch("me", cookie, NoId)
        /\ \A t \in Slots \ {s} : requests'[t] \in {NoRequest, Orphan(requests[t])}
    BY <2>1 DEF Abandoned
  <2>3. /\ requests'[s].kind = "me" /\ requests'[s].cookie = cookie /\ requests'[s].sets = Keep
        /\ requests'[s].code = "none"
    BY <2>2, FetchHas
  <2>4. \A t \in Slots \ {s} : requests'[t].heard => requests'[t].kind = "none"
    BY <2>2, NoRequestType DEF Orphan, TypeOK, Requests, Records
  <2>5. IssuedInv' /\ JarInv'
    <3>1. UNCHANGED <<cookie, server>>
      BY <1>3 DEF Reload
    <3>2. Sound(requests[s])'
      BY <2>2, <2>3, <3>1, FetchFits DEF Sound, SessionInv, IssuedInv, server, Kinds
    <3>3. ASSUME NEW t \in Slots \ {s} PROVE Sound(requests[t])'
      <4>1. CASE requests'[t] = NoRequest
        BY <4>1, FetchFits DEF Sound, NoRequest
      <4>2. CASE requests'[t] = Orphan(requests[t]) /\ requests[t] # NoRequest
        <5>1. Sound(requests[t]) /\ requests[t] \in Records
          BY SoundRequests DEF SessionInv, TypeOK, Requests
        <5> QED BY <3>1, <4>2, <5>1 DEF Sound, JarFits, Orphan, LogsOff, Records, server
      <4>3. CASE requests[t] = NoRequest
        <5>1. Abandoned(requests[t]) = NoRequest
          BY <4>3 DEF Abandoned, NoRequest
        <5> QED BY <2>1, <4>1, <5>1
      <4> QED BY <2>2, <4>1, <4>2, <4>3
    <3> QED BY <3>1, <3>2, <3>3, SoundRequests DEF SessionInv, IssuedInv, server
  <2>6. TokenInv'
    <3>1. \A t \in Slots : InFlight(t, "me")' => t = s
      BY <2>3, <2>4 DEF InFlight
    <3>2. view' = "login" /\ csrf' = NoId /\ cookie' = cookie
      BY <1>3 DEF Reload
    <3> QED BY <2>3, <2>4, <3>1, <3>2 DEF TokenInv
  <2>7. WritesAreGenuine'
    BY <2>3, <2>4 DEF WritesAreGenuine, Writes
  <2> QED BY <2>5, <2>6, <2>7 DEF SessionInv
<1> QED BY <1>1, <1>2, <1>3 DEF User

(* The server, the network and the end of sessions do too: an id is drawn  *)
(* once, and a page that waits for /api/me has the cookie it has sent.     *)
THEOREM ServerSessionStep ==
  TypeOK /\ SessionInv
    /\ ((\E s \in Slots : Handle(s) \/ Lose(s) \/ Cut(s)) \/ SessionEnds \/ StatusChanges)
    => SessionInv'
<1> SUFFICES ASSUME TypeOK, SessionInv,
                    (\E s \in Slots : Handle(s) \/ Lose(s) \/ Cut(s)) \/ SessionEnds \/ StatusChanges
             PROVE  SessionInv'
  OBVIOUS
<1>0. /\ UNCHANGED <<cookie, csrf, view, crossed>> /\ issued \subseteq issued'
      /\ \A id \in issued \cup {NoId} : id \notin sessions => id \notin sessions'
  BY DEF Handle, Login, RequireAuth, Me, Status, Act, Logout, ChangePassword, Lose, Cut, SessionEnds,
         StatusChanges, page, server, history, TypeOK
<1>1. ASSUME NEW s \in Slots, NEW code, NEW value, NEW sets, Reply(s, code, value, sets),
             JarFits(Answered(requests[s].kind, code, value, sets)),
             sets \in issued' \cup {NoId, Keep},
             requests[s].kind = "me" /\ code = "ok" =>
               /\ requests[s].stage # "replied"
               /\ value = IF requests[s].cookie \in sessions' THEN requests[s].cookie ELSE NoId
      PROVE  SessionInv'
  <2>1. ASSUME NEW t \in Slots PROVE Sound(requests[t])'
    <3>1. CASE requests'[t] = requests[t]
      <4>1. Sound(requests[t])
        BY SoundRequests DEF SessionInv
      <4> QED BY <1>0, <3>1, <4>1 DEF Sound
    <3>2. CASE requests'[t] = NoRequest
      BY <3>2, FetchFits DEF Sound, NoRequest
    <3>3. CASE requests'[t] = Answered(requests[s].kind, code, value, sets)
      BY <1>1, <3>3, AnsweredHas DEF Sound
    <3> QED BY <1>1, <3>1, <3>2, <3>3, ReplyPuts
  <2>2. IssuedInv' /\ JarInv'
    BY <1>0, <2>1, SoundRequests DEF SessionInv, IssuedInv
  <2>3. ASSUME NEW t \in Slots, requests'[t].heard, requests'[t].kind # "none"
        PROVE  /\ requests[t].heard /\ requests'[t].kind = requests[t].kind
               /\ requests'[t].stage # "replied" =>
                    requests[t].stage # "replied" /\ requests'[t].cookie = requests[t].cookie
               /\ requests'[t].stage = "sent" => requests'[t] = requests[t]
               /\ requests'[t].kind = "me" /\ requests'[t].code = "ok" /\ ~ crossed =>
                    requests'[t].value = cookie \/ (requests'[t].value = NoId /\ cookie \notin sessions')
    <3>1. CASE requests'[t] = requests[t]
      <4>1. requests[t].kind = "me" /\ requests[t].code = "ok" /\ ~ crossed => Fitting(requests[t].value)
        BY <2>3, <3>1 DEF SessionInv, TokenInv, InFlight
      <4> QED BY <1>0, <2>3, <3>1, <4>1 DEF Fitting, SessionInv, IssuedInv
    <3>2. CASE /\ t = s /\ requests[s].heard
               /\ requests'[t] = Answered(requests[s].kind, code, value, sets)
      <4>1. requests[s].kind = "me" /\ ~ crossed /\ requests[s].stage # "replied" =>
              requests[s].cookie = cookie
        BY <3>2 DEF SessionInv, TokenInv, InFlight
      <4> QED BY <1>1, <3>2, <4>1, AnsweredHas
    <3> QED BY <1>1, <2>3, <3>1, <3>2, ReplyPuts, NoRequestType
  <2> QED BY <1>0, <2>2, <2>3, TokenStays DEF SessionInv
<1>2. ASSUME NEW s \in Slots,
             \/ Login(s) \/ Me(s) \/ Status(s) \/ Act(s) \/ Logout(s) \/ ChangePassword(s) \/ Lose(s)
             \/ RequireAuth(s) /\ requests' # [requests EXCEPT ![s].stage = "inside"]
      PROVE  SessionInv'
  BY <1>1, <1>2, HandlersReply DEF SessionInv
<1>3. ASSUME NEW s \in Slots, RequireAuth(s), requests' = [requests EXCEPT ![s].stage = "inside"]
      PROVE  SessionInv'
  <2>1. requests[s] \in Records /\ requests[s].stage = "sent" /\ Sound(requests[s])
    BY <1>3, SoundRequests DEF RequireAuth, SessionInv, TypeOK, Requests
  <2>2. requests[s] # NoRequest
    BY <2>1 DEF NoRequest
  <2>3. /\ requests'[s] = [requests[s] EXCEPT !.stage = "inside"]
        /\ \A t \in Slots \ {s} : requests'[t] = requests[t]
    BY <1>3 DEF TypeOK
  <2>4. /\ requests'[s].kind = requests[s].kind /\ requests'[s].heard = requests[s].heard
        /\ requests'[s].cookie = requests[s].cookie /\ requests'[s].sets = requests[s].sets
        /\ requests'[s].code = requests[s].code /\ requests'[s].value = requests[s].value
        /\ requests'[s].stage = "inside"
    BY <2>1, <2>3 DEF Records
  <2>5. Sound(requests[s])'
    BY <1>0, <2>1, <2>2, <2>4 DEF Sound, JarFits, LogsOff
  <2>6. \A t \in Slots \ {s} : Sound(requests[t])'
    BY <1>0, <2>3, SoundRequests DEF Sound, SessionInv
  <2>7. IssuedInv' /\ JarInv'
    BY <1>0, <2>5, <2>6, SoundRequests DEF SessionInv, IssuedInv
  <2>8. \A t \in Slots : requests'[t].kind = "me" /\ requests'[t].heard /\ requests'[t].code = "ok" /\ ~ crossed =>
          requests'[t].value = cookie \/ (requests'[t].value = NoId /\ cookie \notin sessions')
    <3>1. cookie \notin sessions => cookie \notin sessions'
      BY <1>0 DEF SessionInv, IssuedInv
    <3>2. \A t \in Slots : /\ requests'[t].kind = requests[t].kind /\ requests'[t].heard = requests[t].heard
                          /\ requests'[t].code = requests[t].code /\ requests'[t].value = requests[t].value
      BY <2>3, <2>4
    <3> QED BY <1>0, <3>1, <3>2, AnswerFits
  <2> QED BY <1>0, <2>1, <2>3, <2>4, <2>7, <2>8, TokenStays DEF SessionInv
<1>4. ASSUME NEW s \in Slots, Cut(s) PROVE SessionInv'
  <2>1. requests[s].kind \in Writes /\ requests[s].heard /\ requests[s] \in Records /\ Sound(requests[s])
    BY <1>4, SoundRequests DEF Cut, Inside, SessionInv, TypeOK, Requests
  <2>2. PICK t \in Slots :
          /\ requests[t] = NoRequest
          /\ requests' = [requests EXCEPT ![s] = Broken(requests[s]), ![t] = Orphan(requests[s])]
    BY <1>4 DEF Cut
  <2>3. s # t
    BY <2>1, <2>2 DEF NoRequest, Writes
  <2>4. /\ requests'[s] = Broken(requests[s]) /\ requests'[t] = Orphan(requests[s])
        /\ \A u \in Slots \ {s, t} : requests'[u] = requests[u]
    BY <2>2, <2>3 DEF TypeOK
  <2>5. /\ requests'[s].kind = requests[s].kind /\ requests'[s].code = "failed"
        /\ requests'[s].sets = Keep /\ requests'[s].cookie = NoId /\ requests'[s].stage = "replied"
    BY <2>1, <2>4 DEF Broken, NoRequest
  <2>6. /\ ~ requests'[t].heard /\ requests'[t].kind = requests[s].kind
        /\ requests'[t].cookie = requests[s].cookie /\ requests'[t].sets = requests[s].sets
        /\ requests'[t].code = requests[s].code
    BY <2>1, <2>4 DEF Orphan, Records
  <2>7. IssuedInv' /\ JarInv'
    <3>1. Sound(requests[s])' /\ Sound(requests[t])'
      BY <1>0, <2>1, <2>5, <2>6 DEF Sound, JarFits, LogsOff, Writes
    <3>2. \A u \in Slots \ {s, t} : Sound(requests[u])'
      BY <1>0, <2>4, SoundRequests DEF Sound, SessionInv
    <3> QED BY <1>0, <3>1, <3>2, SoundRequests DEF SessionInv, IssuedInv
  <2>8. \A u \in Slots : requests'[u].kind = "me" /\ requests'[u].heard /\ requests'[u].code = "ok" /\ ~ crossed =>
          requests'[u].value = cookie \/ (requests'[u].value = NoId /\ cookie \notin sessions')
    <3>1. \A u \in {s, t} : requests'[u].kind # "me"
      BY <2>1, <2>5, <2>6 DEF Writes
    <3> QED BY <1>0, <2>4, <3>1 DEF SessionInv, TokenInv, InFlight, Fitting, IssuedInv
  <2> QED BY <1>0, <2>1, <2>4, <2>5, <2>6, <2>7, <2>8, TokenStays DEF SessionInv
<1>5. CASE SessionEnds \/ StatusChanges
  <2>1. UNCHANGED <<requests, issued>>
    BY <1>5 DEF SessionEnds, StatusChanges
  <2>2. IssuedInv' /\ JarInv'
    BY <1>0, <2>1 DEF SessionInv, IssuedInv, JarInv
  <2>3. \A t \in Slots : requests'[t].kind = "me" /\ requests'[t].heard /\ requests'[t].code = "ok" /\ ~ crossed =>
          requests'[t].value = cookie \/ (requests'[t].value = NoId /\ cookie \notin sessions')
    BY <1>0, <2>1 DEF SessionInv, TokenInv, InFlight, Fitting, IssuedInv
  <2> QED BY <1>0, <2>1, <2>2, <2>3, TokenStays DEF SessionInv
<1> QED BY <1>2, <1>3, <1>4, <1>5 DEF Handle

(* Whatever reply comes next, the page has the token of its cookie         *)
(* afterwards, or none, unless a login overtook /api/me.                   *)
THEOREM ReceiveSessionStep == ASSUME TypeOK, SessionInv, NEW s \in Slots, Receive(s) PROVE SessionInv'
<1> DEFINE r == requests[s]
<1>0. /\ r # NoRequest /\ r.stage = "replied" /\ r.heard /\ r \in Records /\ Sound(r)
      /\ cookie' = Jar(r) /\ csrf' = Token(r) /\ view' = View(r) /\ UNCHANGED server
      /\ crossed' = (crossed \/ (r.kind = "login" /\ LogsOn(r) /\ \E t \in Slots : InFlight(t, "me")))
  BY SoundRequests DEF Receive, SessionInv, TypeOK, Requests, Proper
<1>1. requests'[s] = FollowUp(r) /\ \A t \in Slots \ {s} : requests'[t] = requests[t]
  BY DEF Receive, TypeOK
<1> HIDE DEF r
<1>2. /\ requests'[s] = NoRequest \/ requests'[s] \in {Fetch(k, Jar(r), Token(r)) : k \in Refreshes}
  BY <1>1 DEF FollowUp, Refreshes
<1>3. /\ requests'[s].kind \notin {"me", "login"} \cup Writes
      /\ requests'[s].cookie \in {Jar(r), NoId} /\ requests'[s].sets = Keep /\ JarFits(requests'[s])
      /\ requests'[s].heard => requests'[s].kind \in {"none"} \cup Refreshes
  <2>1. CASE requests'[s] = NoRequest
    BY <2>1, FetchFits DEF NoRequest, Writes
  <2>2. CASE requests'[s] # NoRequest
    <3>1. PICK k \in Refreshes : requests'[s] = Fetch(k, Jar(r), Token(r))
      BY <1>2, <2>2
    <3> QED BY <3>1, FetchFits, FetchHas DEF Refreshes, Writes, Kinds
  <2> QED BY <2>1, <2>2
<1>4. IssuedInv' /\ JarInv'
  <2>1. Jar(r) \in issued \cup {NoId}
    BY <1>0 DEF Jar, Sound, SessionInv, IssuedInv
  <2>2. Sound(requests[s])'
    BY <1>0, <1>3, <2>1 DEF Sound, server
  <2>3. \A t \in Slots \ {s} : Sound(requests[t])'
    BY <1>0, <1>1, SoundRequests DEF Sound, SessionInv, server
  <2> QED BY <1>0, <2>1, <2>2, <2>3, SoundRequests DEF server
<1>5. (view' = "login" => csrf' = NoId) /\ view' \in {"login", "app"}
  BY <1>0 DEF View, Token, LogsOff, LogsOn, SessionInv, TokenInv, TypeOK
<1>6. ASSUME ~ crossed' PROVE view' = "app" => Fitting(csrf)'
  <2>1. CASE LogsOff(r)
    BY <1>0, <2>1 DEF View, LogsOff, LogsOn
  <2>2. CASE LogsOn(r) /\ r.kind = "login"
    BY <1>0, <2>2 DEF Token, Jar, Sound, JarFits, LogsOff, LogsOn, Fitting
  <2>3. CASE LogsOn(r) /\ r.kind = "me"
    <3>1. Fitting(r.value)
      BY <1>0, <1>6, <2>3 DEF r, SessionInv, TokenInv, InFlight, LogsOn
    <3>2. cookie' = cookie /\ csrf' = r.value
      BY <1>0, <2>3 DEF Token, Jar, Sound, JarFits, LogsOff, LogsOn, TypeOK
    <3> QED BY <1>0, <3>1, <3>2 DEF Fitting, server
  <2>4. CASE ~ LogsOff(r) /\ ~ LogsOn(r)
    <3>1. cookie' = cookie /\ csrf' = csrf /\ view' = view
      BY <1>0, <2>4 DEF Token, View, Jar, Sound, JarFits, LogsOn, TypeOK
    <3> QED BY <1>0, <1>6, <3>1 DEF SessionInv, TokenInv, Fitting, server
  <2> QED BY <2>1, <2>2, <2>3, <2>4 DEF LogsOn
<1>7. ASSUME ~ crossed', NEW t \in Slots, InFlight(t, "me")'
      PROVE  /\ view' = "login"
             /\ \A u \in Slots \ {t} : requests'[u].heard => requests'[u].kind \in {"none", "login"}
             /\ requests'[t].stage # "replied" => requests'[t].cookie = cookie'
             /\ requests'[t].code = "ok" => Fitting(requests[t].value)'
  <2>1. t # s /\ requests'[t] = requests[t] /\ InFlight(t, "me") /\ ~ crossed
    BY <1>0, <1>1, <1>3, <1>7 DEF InFlight
  <2>2. /\ view = "login"
        /\ \A u \in Slots \ {t} : requests[u].heard => requests[u].kind \in {"none", "login"}
        /\ requests[t].stage # "replied" => requests[t].cookie = cookie
        /\ requests[t].code = "ok" => Fitting(requests[t].value)
    BY <2>1 DEF SessionInv, TokenInv
  <2>3. r.kind = "login" /\ ~ LogsOn(r)
    <3>1. r.kind \in {"none", "login"}
      BY <1>0, <2>1, <2>2 DEF r
    <3>2. r.kind # "none"
      BY <1>0 DEF Sound, JarFits
    <3> QED BY <1>0, <1>7, <2>1, <3>1, <3>2
  <2>4. cookie' = cookie /\ view' = "login"
    BY <1>0, <2>2, <2>3 DEF Jar, View, Sound, JarFits, LogsOff, LogsOn, TypeOK
  <2>5. requests'[s] = NoRequest
    BY <1>1, <2>3 DEF FollowUp
  <2> QED BY <1>0, <1>1, <2>1, <2>2, <2>4, <2>5, NoRequestType DEF Fitting, server
<1>8. TokenInv'
  BY <1>5, <1>6, <1>7 DEF TokenInv
<1>9. WritesAreGenuine'
  BY <1>0, <1>1, <1>3 DEF SessionInv, WritesAreGenuine, server
<1> QED BY <1>4, <1>8, <1>9 DEF SessionInv

-------------------------------------------------------------------------------
(***************************************************************************)
(* The invariants                                                          *)
(***************************************************************************)
(* A page that was just loaded is not busy and has sent no action. *)
LEMMA ActionInit == Init => ActionInv
<1> SUFFICES ASSUME Init PROVE ActionInv
  OBVIOUS
<1>1. PICK s \in Slots :
        requests = [[t \in Slots |-> NoRequest] EXCEPT ![s] = Fetch("me", cookie, NoId)]
  BY DEF Init
<1>2. Fetch("me", cookie, NoId) \in Requests /\ Fetch("me", cookie, NoId).kind = "me"
  BY FetchType DEF Init, Kinds
<1>3. TypeOK
  <2>1. requests \in [Slots -> Requests]
    BY <1>1, <1>2, NoRequestType
  <2>2. sessions \in SUBSET issued /\ issued \in SUBSET Ids
    BY DEF Init
  <2>3. lost \in 0..MaxLost
    BY DEF Init
  <2>4. shown \in Modes \cup {NoMode} /\ status \in Modes /\ view \in {"login", "app"}
    BY DEF Init
  <2>5. cookie \in Ids \cup {NoId} /\ csrf \in Ids \cup {NoId}
    BY DEF Init
  <2>6. busy \in BOOLEAN /\ submitting \in BOOLEAN /\ visible \in BOOLEAN /\ crossed \in BOOLEAN
    BY DEF Init
  <2> QED BY <2>1, <2>2, <2>3, <2>4, <2>5, <2>6 DEF TypeOK
<1>4. \A t \in Slots : ~ InFlight(t, "action")
  BY <1>1, <1>2, NoRequestType DEF InFlight
<1> QED BY <1>3, <1>4 DEF ActionInv, OneAction, Init

(* A page that was just loaded has no token yet, and waits for /api/me. *)
LEMMA SessionInit == Init => SessionInv
<1> SUFFICES ASSUME Init PROVE SessionInv
  OBVIOUS
<1>1. PICK s \in Slots :
        requests = [[t \in Slots |-> NoRequest] EXCEPT ![s] = Fetch("me", cookie, NoId)]
  BY DEF Init
<1>2. requests[s] = Fetch("me", cookie, NoId) /\ \A t \in Slots \ {s} : requests[t] = NoRequest
  BY <1>1
<1>3. /\ cookie \in issued \cup {NoId}
      /\ view = "login" /\ csrf = NoId
  BY DEF Init
<1>4. IssuedInv /\ JarInv
  <2>1. Sound(requests[s])
    BY <1>2, <1>3, FetchFits, FetchHas DEF Sound, Kinds
  <2>2. Sound(NoRequest)
    BY FetchFits DEF Sound, NoRequest
  <2> QED BY <1>2, <1>3, <2>1, <2>2, SoundRequests
<1>5. TokenInv
  <2>1. requests[s].cookie = cookie /\ requests[s].code = "none"
    BY <1>2, FetchHas
  <2>2. \A t \in Slots \ {s} : requests[t].kind = "none"
    BY <1>2, NoRequestType
  <2> QED BY <1>3, <2>1, <2>2 DEF TokenInv, InFlight
<1>6. WritesAreGenuine
  BY <1>2, FetchHas, NoRequestType DEF WritesAreGenuine, Writes
<1> QED BY <1>4, <1>5, <1>6 DEF SessionInv

(* The part about actions is kept by every step. *)
THEOREM ActionStep == ActionInv /\ [Next]_vars => ActionInv'
<1> SUFFICES ASSUME ActionInv, [Next]_vars PROVE ActionInv'
  OBVIOUS
<1>1. CASE User \/ Poll
  BY <1>1, UserStep
<1>2. CASE (\E s \in Slots : Handle(s) \/ Lose(s) \/ Cut(s)) \/ SessionEnds \/ StatusChanges
  BY <1>2, ServerStep
<1>3. ASSUME NEW s \in Slots, Receive(s) PROVE ActionInv'
  BY <1>3, ReceiveStep
<1>4. CASE UNCHANGED vars
  <2>1. UNCHANGED <<busy, requests>> /\ TypeOK'
    BY <1>4 DEF vars, page, server, history, ActionInv, TypeOK
  <2> QED BY <2>1, SameActions DEF ActionInv, InFlight
<1> QED BY <1>1, <1>2, <1>3, <1>4 DEF Next

(* And so is the part about sessions, cookies and tokens. *)
THEOREM SessionStep == TypeOK /\ SessionInv /\ [Next]_vars => SessionInv'
<1> SUFFICES ASSUME TypeOK, SessionInv, [Next]_vars PROVE SessionInv'
  OBVIOUS
<1>1. CASE User \/ Poll
  BY <1>1, UserSessionStep
<1>2. CASE (\E s \in Slots : Handle(s) \/ Lose(s) \/ Cut(s)) \/ SessionEnds \/ StatusChanges
  BY <1>2, ServerSessionStep
<1>3. ASSUME NEW s \in Slots, Receive(s) PROVE SessionInv'
  BY <1>3, ReceiveSessionStep
<1>4. CASE UNCHANGED vars
  <2>1. UNCHANGED <<cookie, csrf, view, requests, sessions, issued, crossed>>
    BY <1>4 DEF vars, page, server, history
  <2>2. IssuedInv' /\ JarInv'
    BY <2>1 DEF SessionInv, IssuedInv, JarInv
  <2> QED BY <2>1, <2>2, AnswerFits, TokenStays DEF SessionInv
<1> QED BY <1>1, <1>2, <1>3, <1>4 DEF Next

(* The inductive invariant is kept by every step. *)
THEOREM IndStep == IndInv /\ [Next]_vars => IndInv'
BY ActionStep, SessionStep DEF IndInv, ActionInv

(* The invariant holds in every reachable state. *)
THEOREM Invariance == Spec => []IndInv
<1>1. Init => IndInv
  BY ActionInit, SessionInit DEF IndInv, ActionInv
<1> QED BY <1>1, IndStep, PTL DEF Spec

(* Every variable keeps its type, and every reply is one that its handler  *)
(* sends, however requests are lost, cut, abandoned and reordered.         *)
THEOREM TypeCorrect == Spec => []TypeOK
<1>1. IndInv => TypeOK
  BY DEF IndInv
<1> QED BY <1>1, Invariance, PTL

(* A page never has two actions in flight, and its buttons are disabled    *)
(* exactly while it has one.                                               *)
THEOREM ActionsExclude == Spec => []OneAction
<1>1. IndInv => OneAction
  BY DEF IndInv
<1> QED BY <1>1, Invariance, PTL

(* Nothing that a page sends is refused as forged while its session lives, *)
(* unless a login overtook /api/me.                                        *)
THEOREM TokensFit == Spec => []WritesAreGenuine
<1>1. IndInv => WritesAreGenuine
  BY DEF IndInv, SessionInv
<1> QED BY <1>1, Invariance, PTL

===============================================================================
