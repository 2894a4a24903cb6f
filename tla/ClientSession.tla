--------------------------- MODULE ClientSession ---------------------------
(***************************************************************************)
(* The browser's side of a session: pages of the frontend that share one   *)
(* cookie jar and talk to AuthSession.  A page restores its session when   *)
(* it is opened (useAuthBootstrap), refreshes it when a call is answered   *)
(* 401 (axios.ts), and logs in and out (authApi.ts); refreshSession.ts     *)
(* lets one refresh per page be in flight.  A response comes back some     *)
(* time after it was sent, in any order, or not at all.                    *)
(*                                                                         *)
(* A reload is a page that is closed and another that is opened.           *)
(***************************************************************************)
EXTENDS AuthSession

CONSTANT
  Page        \* loads of the application in one browser

VARIABLES
  jar,        \* the refresh cookie, or None
  view,       \* what each page shows: the spinner, the session, the login form
  flight,     \* refreshSession.ts's inFlight: the refresh a page waits for, or None
  owner,      \* the page that made a request
  over,       \* requests whose outcome has reached the browser
  lost        \* history: those among them whose response did not

clientVars == <<jar, view, flight, owner, over, lost>>
allVars == <<vars, clientVars>>

ASSUME PageAssumption == None \notin Page /\ None \notin Request

ClientInit ==
  /\ Init
  /\ jar = None
  /\ view = [p \in Page |-> "new"]
  /\ flight = [p \in Page |-> None]
  /\ owner = [r \in Request |-> None]
  /\ over = {}
  /\ lost = {}

Show(p, what) == view' = [view EXCEPT ![p] = what]

(* The browser attaches the cookie it has when the request is sent.        *)
Send(p, r, c) ==
  /\ Receive(r)
  /\ call'[r] = c
  /\ owner' = [owner EXCEPT ![r] = p]
  /\ UNCHANGED <<jar, over, lost>>

(* performRefresh.                                                         *)
Refresh(p, r) ==
  /\ Send(p, r, [op |-> "refresh", token |-> jar])
  /\ flight' = [flight EXCEPT ![p] = r]

Boot(p, r) ==
  /\ view[p] = "new"
  /\ Refresh(p, r)
  /\ Show(p, "booting")

(* Mutant of Unauthorized: every 401 refreshes for itself.                 *)
UnauthorizedEach(p, r) ==
  /\ view[p] = "in"
  /\ Refresh(p, r)
  /\ UNCHANGED view

(* Calls sent in a session may be answered after it is over.               *)
HasCalls(p) ==
  \/ view[p] = "in"
  \/ /\ view[p] = "out"
     /\ \E r \in over \ lost :
          owner[r] = p /\ reply[r] = 200 /\ call[r].op \in {"login", "refresh"}

(* A call is answered 401.  Callers that find a refresh in flight wait for *)
(* that one and change nothing.                                            *)
Unauthorized(p, r) ==
  /\ HasCalls(p)
  /\ flight[p] = None
  /\ Refresh(p, r)
  /\ UNCHANGED view

(* The form, open to whoever is signed in too, waits for its answer.       *)
LoggingIn(p) == \E r \in Request \ over : owner[r] = p /\ call[r].op = "login"

Login(p, r) ==
  /\ view[p] \in {"in", "out"}
  /\ ~LoggingIn(p)
  /\ \E u \in User, w \in Password : Send(p, r, [op |-> "login", user |-> u, password |-> w])
  /\ UNCHANGED <<view, flight>>

Logout(p, r) ==
  /\ view[p] = "in"
  /\ Send(p, r, [op |-> "logout", token |-> jar])
  /\ UNCHANGED <<view, flight>>

(* Set-Cookie of the answer to a request.                                  *)
CookieAfter(r) ==
  IF reply[r] # 200 THEN jar
  ELSE IF call[r].op = "logout" THEN None ELSE new[r]

(* Mutant of Handle: the catch that does nothing.                          *)
HandleSuccess(r, ok) ==
  /\ flight' = [p \in Page |-> IF flight[p] = r THEN None ELSE flight[p]]
  /\ IF ok /\ view[owner[r]] # "gone"
       THEN Show(owner[r], IF call[r].op = "logout" THEN "out" ELSE "in")
       ELSE UNCHANGED view

(* What a page does with an answer, ok or not: a refresh ends in a session *)
(* or none, a login in a session or an error message, a logout in none.    *)
Handle(r, ok) ==
  LET p == owner[r]
  IN  IF view[p] = "gone"
        THEN UNCHANGED <<view, flight>>
        ELSE /\ CASE call[r].op = "refresh" -> Show(p, IF ok THEN "in" ELSE "out")
                  [] call[r].op = "login" -> IF ok THEN Show(p, "in") ELSE UNCHANGED view
                  [] OTHER -> Show(p, "out")
             /\ flight' = [flight EXCEPT ![p] = IF @ = r THEN None ELSE @]

Pending(r) == pc[r] = "done" /\ r \notin over

(* Mutant of Arrive: withCredentials left out, so that no cookie is kept.  *)
ArriveNoCookie(r) ==
  /\ Pending(r)
  /\ over' = over \cup {r}
  /\ Handle(r, reply[r] = 200)
  /\ UNCHANGED <<vars, jar, owner, lost>>

Arrive(r) ==
  /\ Pending(r)
  /\ over' = over \cup {r}
  /\ jar' = CookieAfter(r)
  /\ Handle(r, reply[r] = 200)
  /\ UNCHANGED <<vars, owner, lost>>

(* The connection breaks: the cookie stays, the caller gets an error.      *)
Lose(r) ==
  /\ Pending(r)
  /\ over' = over \cup {r}
  /\ lost' = lost \cup {r}
  /\ Handle(r, FALSE)
  /\ UNCHANGED <<vars, jar, owner>>

Close(p) ==
  /\ view[p] \notin {"new", "gone"}
  /\ Show(p, "gone")
  /\ flight' = [flight EXCEPT ![p] = None]
  /\ UNCHANGED <<vars, jar, owner, over, lost>>

PageStep(p) ==
  \/ \E r \in Request : Boot(p, r) \/ Unauthorized(p, r) \/ Login(p, r) \/ Logout(p, r)
  \/ Close(p)

ServerStep(r) ==
  /\ \/ LoginFind(r) \/ RefreshFind(r) \/ LogoutFind(r)
     \/ RefreshUser(r) \/ Insert(r) \/ Retire(r) \/ Kill(r)
     \/ Respond(r) \/ Fail(r)
  /\ UNCHANGED clientVars

ClientNext ==
  \/ \E p \in Page : PageStep(p)
  \/ \E r \in Request : ServerStep(r) \/ Arrive(r) \/ Lose(r)

ClientSpec == ClientInit /\ [][ClientNext]_allVars

(* The server works on what it has received, and every call of axios ends, *)
(* with an answer or with an error.                                        *)
ClientFairness ==
  \A r \in Request : WF_allVars(ServerStep(r)) /\ WF_allVars(Arrive(r) \/ Lose(r))

-----------------------------------------------------------------------------

(* refreshSession.ts is there so that no page trips the theft detection by *)
(* itself: when everything of a user was revoked, some token of the user   *)
(* was presented by two requests, of two pages, or one of them a logout,   *)
(* or the first of them without an answer.                                 *)
AlarmsHaveACause ==
  \A u \in User : kills[u] > 0 =>
    \E q, r \in Request :
      /\ q # r /\ Presents(q) /\ Presents(r) /\ call[q].token = call[r].token
      /\ call[r].op = "refresh" /\ Subject(call[r]) = u
      /\ \/ owner[q] # owner[r] \/ call[q].op = "logout"
         \/ q \in lost \/ reply[q] = 500

(* However many pages refresh and log in over each other, and in whatever  *)
(* order the answers come: when all is quiet, nothing failed or was lost   *)
(* and no alarm was raised, the cookie is a live token, and without a      *)
(* logout every page that shows a session has that cookie.                 *)
Quiet == \A r \in Request : pc[r] = "idle" \/ r \in over

Undisturbed ==
  /\ lost = {}
  /\ \A r \in Request : reply[r] # 500
  /\ \A u \in User : kills[u] = 0

SessionsAreBacked ==
  (Quiet /\ Undisturbed) =>
    /\ jar # None => Live(jar)
    /\ (\A r \in Request : call[r].op # "logout") =>
         \A p \in Page : view[p] = "in" => jar # None

(* No page spins for ever: useAuthBootstrap ends in a session or the login *)
(* form, whatever became of the refresh.                                   *)
EventuallyInitialised == \A p \in Page : view[p] = "booting" ~> view[p] # "booting"
=============================================================================
