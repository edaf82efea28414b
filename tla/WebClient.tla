------------------------------- MODULE WebClient -------------------------------
(***************************************************************************)
(* One page of web/app.js over the API of the console.  JavaScript runs    *)
(* one callback at a time; requests are in flight together, are answered   *)
(* in any order, and every reply finds a page that has changed since.      *)
(*                                                                         *)
(* Of what the page refreshes only the status is modelled: the other views *)
(* have timers and requests of the same form, the node guard a busy flag   *)
(* of the same form.  A session has one cookie and one CSRF token, both    *)
(* called by its id.                                                       *)
(***************************************************************************)
EXTENDS Naturals

CONSTANTS
  Slots,    \* requests that can be in flight at a time
  Ids,      \* sessions; none is ever drawn twice
  NoId,     \* no cookie, or an empty token
  Keep,     \* a reply that does not set the cookie
  Modes,    \* what the status can say
  NoMode,   \* nothing yet
  MaxLost   \* bound: requests that are lost or replies that do not arrive

ASSUME WebClientAssumption ==
  /\ NoId \notin Ids
  /\ Keep \notin Ids /\ Keep # NoId
  /\ NoMode \notin Modes
  /\ (Ids \cup {NoId}) \cap (Modes \cup {NoMode}) = {}
  /\ MaxLost \in Nat

VARIABLES
  cookie,      \* the session cookie in the browser
  csrf,        \* state.csrf
  view,        \* the visible section: login or app
  busy,        \* state.busy
  submitting,  \* the login button is disabled
  visible,     \* state.visible
  shown,       \* the status on the page
  requests,    \* requests[s]: the request in flight in s
  sessions,    \* sessions of the server
  issued,      \* ids that were drawn
  status,      \* what /api/status would answer
  lost,        \* lost requests and replies
  crossed      \* history: a login was answered while this page waited for /api/me

page == <<csrf, view, busy, submitting, visible, shown>>
server == <<sessions, issued, status>>
history == <<lost, crossed>>
vars == <<cookie, page, requests, server, history>>

Refreshes == {"status", "first"}             \* "first": the login waits for it
Writes    == {"action", "logout", "password"}
Kinds     == {"none", "me", "login"} \cup Refreshes \cup Writes

Records ==
  [kind : Kinds, stage : {"sent", "inside", "replied"}, heard : BOOLEAN,
   cookie : Ids \cup {NoId}, genuine : BOOLEAN,
   code : {"none", "ok", "failed", "unauthorised"},
   value : Modes \cup {NoMode} \cup Ids \cup {NoId}, sets : Ids \cup {NoId, Keep}]

(* A reply is for the page and holds what its handler sends *)
Proper(r) ==
  /\ r.stage = "replied" => r.heard
  /\ r.code = "ok" => /\ r.kind \in {"me", "login"} => r.value \in Ids \cup {NoId}
                      /\ r.kind \in Refreshes => r.value \in Modes

Requests == {r \in Records : Proper(r)}

NoRequest == [kind |-> "none", stage |-> "replied", heard |-> TRUE, cookie |-> NoId,
              genuine |-> TRUE, code |-> "none", value |-> NoMode, sets |-> Keep]

(* fetch: the cookie goes with every request, the token with those that    *)
(* write; genuine says whether both are of the same session                *)
Fetch(kind, jar, token) ==
  [NoRequest EXCEPT !.kind = kind, !.stage = "sent", !.cookie = jar,
                    !.genuine = (kind \in Writes => token = jar)]

Send(kind) == \E s \in Slots :
  /\ requests[s] = NoRequest
  /\ requests' = [requests EXCEPT ![s] = Fetch(kind, cookie, csrf)]

(* The server goes on with a request nobody waits for *)
Orphan(r) == [r EXCEPT !.heard = FALSE]

(* fetch gives up on it *)
Broken(r) == [NoRequest EXCEPT !.kind = r.kind, !.code = "failed"]

InFlight(s, kind) == requests[s].kind = kind /\ requests[s].heard

(* The page asks for its session when it is loaded; the login form is      *)
(* visible from the beginning                                              *)
Init ==
  /\ cookie \in Ids \cup {NoId}
  /\ issued = {cookie} \ {NoId}
  /\ sessions \in SUBSET issued
  /\ csrf = NoId
  /\ view = "login"
  /\ busy = FALSE
  /\ submitting = FALSE
  /\ visible = TRUE
  /\ shown = NoMode
  /\ \E s \in Slots : requests = [[t \in Slots |-> NoRequest] EXCEPT ![s] = Fetch("me", cookie, NoId)]
  /\ status \in Modes
  /\ lost = 0
  /\ crossed = FALSE

-------------------------------------------------------------------------------
(***************************************************************************)
(* The user and the timers                                                 *)
(***************************************************************************)
SubmitLogin ==
  /\ view = "login"
  /\ ~ submitting
  /\ submitting' = TRUE
  /\ Send("login")
  /\ UNCHANGED <<cookie, csrf, view, busy, visible, shown, server, history>>

Poll ==
  /\ visible
  /\ csrf # NoId
  /\ ~ busy
  /\ Send("status")
  /\ UNCHANGED <<cookie, page, server, history>>

ClickRefresh ==
  /\ view = "app"
  /\ Send("status")
  /\ UNCHANGED <<cookie, page, server, history>>

ActsAnyway == TRUE           \* mutant: runAction does not look at busy

MayAct == ~ busy

(* window.confirm stops the page, so that nothing comes between the test and setBusy *)
ClickAction ==
  /\ view = "app"
  /\ MayAct
  /\ busy' = TRUE
  /\ Send("action")
  /\ UNCHANGED <<cookie, csrf, view, submitting, visible, shown, server, history>>

ClickLogout ==
  /\ view = "app"
  /\ Send("logout")
  /\ UNCHANGED <<cookie, page, server, history>>

SubmitPassword ==
  /\ view = "app"
  /\ \A s \in Slots : ~ InFlight(s, "password")
  /\ Send("password")
  /\ UNCHANGED <<cookie, page, server, history>>

Hide ==
  /\ visible
  /\ visible' = FALSE
  /\ UNCHANGED <<cookie, csrf, view, busy, submitting, shown, requests, server, history>>

Show ==
  /\ ~ visible
  /\ visible' = TRUE
  /\ IF csrf # NoId THEN Send("status") ELSE UNCHANGED requests
  /\ UNCHANGED <<cookie, csrf, view, busy, submitting, shown, server, history>>

(* Requests of the old page are not heard any more; the server still serves *)
(* them, which matters for those that change something                      *)
Abandoned(r) ==
  IF r.stage = "replied" \/ r.kind \notin Writes \cup {"login"}
  THEN NoRequest ELSE Orphan(r)

Reload ==
  /\ \E s \in Slots :
       /\ Abandoned(requests[s]) = NoRequest
       /\ requests' = [[t \in Slots |-> Abandoned(requests[t])]
                         EXCEPT ![s] = Fetch("me", cookie, NoId)]
  /\ csrf' = NoId
  /\ view' = "login"
  /\ busy' = FALSE
  /\ submitting' = FALSE
  /\ shown' = NoMode
  /\ crossed' = FALSE
  /\ UNCHANGED <<cookie, visible, server, lost>>

-------------------------------------------------------------------------------
(***************************************************************************)
(* The server                                                              *)
(***************************************************************************)
Reply(s, code, value, sets) ==
  requests' = [requests EXCEPT ![s] =
    IF requests[s].heard
    THEN [NoRequest EXCEPT !.kind = requests[s].kind, !.code = code, !.value = value, !.sets = sets]
    ELSE NoRequest]

(* handleLogin: a wrong password, too many failures, or a new session *)
Login(s) ==
  /\ requests[s].kind = "login" /\ requests[s].stage = "sent"
  /\ \/ Reply(s, "unauthorised", NoMode, Keep) /\ UNCHANGED <<sessions, issued>>
     \/ Reply(s, "failed", NoMode, Keep) /\ UNCHANGED <<sessions, issued>>
     \/ \E id \in Ids \ issued :
          /\ Reply(s, "ok", id, id)
          /\ sessions' = sessions \cup {id}
          /\ issued' = issued \cup {id}
  /\ UNCHANGED <<cookie, page, status, history>>

(* requireAuth: a refused request loses its cookie, whatever it is by then *)
RequireAuth(s) ==
  LET r == requests[s] IN
  /\ r.kind # "login" /\ r.stage = "sent"
  /\ \/ r.cookie \notin sessions /\ Reply(s, "unauthorised", NoMode, NoId)
     \/ r.cookie \in sessions /\ ~ r.genuine /\ Reply(s, "failed", NoMode, Keep)
     \/ r.cookie \in sessions /\ r.genuine /\ requests' = [requests EXCEPT ![s].stage = "inside"]
  /\ UNCHANGED <<cookie, page, server, history>>

Inside(s, kinds) == requests[s].stage = "inside" /\ requests[s].kind \in kinds

MeBlank(s) ==                \* mutant: the token never comes with the reply
  /\ Inside(s, {"me"})
  /\ Reply(s, "ok", NoId, Keep)
  /\ UNCHANGED <<cookie, page, server, history>>

(* handleMe looks the session up again: the token is empty if it is gone *)
Me(s) ==
  /\ Inside(s, {"me"})
  /\ Reply(s, "ok", IF requests[s].cookie \in sessions THEN requests[s].cookie ELSE NoId, Keep)
  /\ UNCHANGED <<cookie, page, server, history>>

Status(s) ==
  /\ Inside(s, Refreshes)
  /\ Reply(s, "ok", status, Keep)
  /\ UNCHANGED <<cookie, page, server, history>>

Act(s) ==
  /\ Inside(s, {"action"})
  /\ status' \in Modes
  /\ \E code \in {"ok", "failed"} : Reply(s, code, NoMode, Keep)
  /\ UNCHANGED <<cookie, page, sessions, issued, history>>

Logout(s) ==
  /\ Inside(s, {"logout"})
  /\ sessions' = sessions \ {requests[s].cookie}
  /\ Reply(s, "ok", NoMode, NoId)
  /\ UNCHANGED <<cookie, page, issued, status, history>>

ChangePassword(s) ==
  /\ Inside(s, {"password"})
  /\ \/ Reply(s, "ok", NoMode, NoId) /\ sessions' = {}
     \/ Reply(s, "failed", NoMode, Keep) /\ UNCHANGED sessions
  /\ UNCHANGED <<cookie, page, issued, status, history>>

(* Sessions expire, and end when another browser changes the password.  A  *)
(* cookie expires with its session; the server treats both the same.       *)
SessionEnds ==
  /\ \E id \in sessions : sessions' = sessions \ {id}
  /\ UNCHANGED <<cookie, page, requests, issued, status, history>>

StatusChanges ==
  /\ status' \in Modes \ {status}
  /\ UNCHANGED <<cookie, page, requests, sessions, issued, history>>

-------------------------------------------------------------------------------
(***************************************************************************)
(* The network: a switch of the proxies may cut connections                *)
(***************************************************************************)
Lose(s) ==
  /\ requests[s] # NoRequest
  /\ requests[s].heard
  /\ lost < MaxLost
  /\ lost' = lost + 1
  /\ ~ Inside(s, Writes)
  /\ Reply(s, "failed", NoMode, Keep)
  /\ UNCHANGED <<cookie, page, server, crossed>>

(* The connection is cut while the handler runs on in another slot *)
Cut(s) ==
  /\ Inside(s, Writes)
  /\ requests[s].heard
  /\ lost < MaxLost
  /\ lost' = lost + 1
  /\ \E t \in Slots :
       /\ requests[t] = NoRequest
       /\ requests' = [requests EXCEPT ![s] = Broken(@), ![t] = Orphan(requests[s])]
  /\ UNCHANGED <<cookie, page, server, crossed>>

-------------------------------------------------------------------------------
(***************************************************************************)
(* Replies reach the page                                                  *)
(***************************************************************************)
(* Mutant: a 401 is shown as an error like any other *)
LogsOffOnRequest(r) ==
  \/ r.kind = "me" /\ r.code # "ok"
  \/ r.kind = "logout"
  \/ r.kind = "password" /\ r.code = "ok"

(* showLogin: after a 401 of any request, by api itself *)
LogsOff(r) ==
  \/ r.code = "unauthorised"
  \/ r.kind = "me" /\ r.code # "ok"
  \/ r.kind = "logout"
  \/ r.kind = "password" /\ r.code = "ok"

(* Mutant: the token is taken from any reply *)
LogsOnAnyway(r) == r.kind \in {"me", "login"}

LogsOn(r) == r.kind \in {"me", "login"} /\ r.code = "ok"

Token(r) == CASE LogsOff(r) -> NoId
              [] LogsOn(r)  -> r.value
              [] OTHER      -> csrf

View(r) == CASE LogsOff(r) -> "login"
             [] LogsOn(r)  -> "app"
             [] OTHER      -> view

Jar(r) == IF r.sets = Keep THEN cookie ELSE r.sets

(* Mutant: setBusy(FALSE) only after a success *)
EndsAction(r) == r.kind = "action" /\ r.code = "ok"

Ends(r) == r.kind = "action"

Renders(r) == r.kind \in Refreshes /\ r.code = "ok"

(* refreshAll follows a login, the restored session and every action *)
FollowUp(r) ==
  CASE r.kind = "login" /\ LogsOn(r)                     -> Fetch("first", Jar(r), Token(r))
    [] (r.kind = "me" /\ LogsOn(r)) \/ r.kind = "action" -> Fetch("status", Jar(r), Token(r))
    [] OTHER                                             -> NoRequest

Receive(s) ==
  LET r == requests[s] IN
  /\ r # NoRequest /\ r.stage = "replied"
  /\ cookie' = Jar(r)
  /\ csrf' = Token(r)
  /\ view' = View(r)
  /\ busy' = (busy /\ ~ Ends(r))
  /\ submitting' = (submitting /\ ~ (r.kind = "first" \/ (r.kind = "login" /\ ~ LogsOn(r))))
  /\ shown' = IF Renders(r) THEN r.value ELSE shown
  /\ requests' = [requests EXCEPT ![s] = FollowUp(r)]
  /\ crossed' = (crossed \/ (r.kind = "login" /\ LogsOn(r) /\ \E t \in Slots : InFlight(t, "me")))
  /\ UNCHANGED <<visible, server, lost>>

-------------------------------------------------------------------------------
User == \/ SubmitLogin \/ ClickRefresh \/ ClickAction \/ ClickLogout \/ SubmitPassword
        \/ Hide \/ Show \/ Reload

Handle(s) == \/ Login(s) \/ RequireAuth(s) \/ Me(s) \/ Status(s) \/ Act(s) \/ Logout(s)
             \/ ChangePassword(s)

Next ==
  \/ User \/ Poll
  \/ \E s \in Slots : Handle(s) \/ Receive(s) \/ Lose(s) \/ Cut(s)
  \/ SessionEnds \/ StatusChanges

Spec == Init /\ [][Next]_vars

(* Requests are handled and replies arrive; the timer of two seconds finds *)
(* a connection again and again                                            *)
Fairness == SF_vars(Poll) /\ \A s \in Slots : WF_vars(Handle(s)) /\ WF_vars(Receive(s))

FairSpec == Spec /\ Fairness

-------------------------------------------------------------------------------
(***************************************************************************)
(* Properties                                                              *)
(***************************************************************************)
TypeOK ==
  /\ cookie \in Ids \cup {NoId}
  /\ csrf \in Ids \cup {NoId}
  /\ view \in {"login", "app"}
  /\ busy \in BOOLEAN /\ submitting \in BOOLEAN /\ visible \in BOOLEAN
  /\ shown \in Modes \cup {NoMode}
  /\ requests \in [Slots -> Requests]
  /\ sessions \in SUBSET issued /\ issued \in SUBSET Ids
  /\ status \in Modes
  /\ lost \in 0..MaxLost
  /\ crossed \in BOOLEAN

(* One action at a time: the buttons are disabled exactly while the page   *)
(* waits for the one action it sent, whatever logs off and on in between.  *)
OneAction ==
  /\ busy <=> \E s \in Slots : InFlight(s, "action")
  /\ \A s, t \in Slots : InFlight(s, "action") /\ InFlight(t, "action") => s = t

(* What the page itself sends is never refused as forged (403) while the    *)
(* session of its cookie lives, whatever ended or came late before: the    *)
(* token it has is that session's.  Unless a login overtook /api/me.       *)
WritesAreGenuine == ~ crossed => \A s \in Slots :
  LET r == requests[s] IN
  r.kind \in Writes /\ r.heard /\ r.stage = "sent" => r.genuine \/ r.cookie \notin sessions

(* A visible page that stays logged in comes to show a status that lasts,  *)
(* whatever older replies come late and whatever failed before.            *)
StatusCatchesUp == \A m \in Modes :
  <>[](visible /\ csrf # NoId /\ status = m) => <>[](shown = m)

(* A visible page notices that its session has ended. *)
EndedSessionNoticed ==
  <>[]visible => (csrf # NoId /\ cookie \notin sessions ~> csrf = NoId \/ cookie \in sessions)

-------------------------------------------------------------------------------
(***************************************************************************)
(* Why they hold: the inductive invariant                                  *)
(***************************************************************************)
(* Only ids that were drawn are about *)
IssuedInv ==
  /\ cookie \in issued \cup {NoId}
  /\ \A s \in Slots : requests[s].cookie \in issued \cup {NoId}
                      /\ requests[s].sets \in issued \cup {NoId, Keep}

(* A reply that deletes the cookie logs off; one that sets it has its token *)
JarFits(r) ==
  /\ r.kind = "none" => r = NoRequest
  /\ r.sets = NoId => LogsOff(r) /\ r.kind # "login"
  /\ r.sets \in Ids => r.kind = "login" /\ r.code = "ok" /\ r.value = r.sets
  /\ r.kind = "login" /\ r.code = "ok" => r.sets \in Ids

JarInv == \A s \in Slots : JarFits(requests[s])

(* The token a page has, or is given by /api/me, is the one of its cookie, *)
(* or empty because the session has ended                                  *)
Fitting(token) == token = cookie \/ (token = NoId /\ cookie \notin sessions)

TokenInv ==
  /\ view = "login" => csrf = NoId
  /\ ~ crossed => /\ view = "app" => Fitting(csrf)
                  /\ \A s \in Slots : InFlight(s, "me") =>
                       /\ view = "login"
                       /\ \A t \in Slots \ {s} : requests[t].heard => requests[t].kind \in {"none", "login"}
                       /\ requests[s].stage # "replied" => requests[s].cookie = cookie
                       /\ requests[s].code = "ok" => Fitting(requests[s].value)

SessionInv == IssuedInv /\ JarInv /\ TokenInv /\ WritesAreGenuine

IndInv == TypeOK /\ OneAction /\ SessionInv

===============================================================================
