------------------------------- MODULE Gateway -------------------------------
(***************************************************************************)
(* Requests on their way through one API process: the checks of Api in     *)
(* the order the routes put them, the counters of the rate limiters (in    *)
(* the memory of the process), the access tokens and the accounts behind   *)
(* them.                                                                   *)
(*                                                                         *)
(* All requests come from one address.  What a handler does to its tables  *)
(* is in the component modules: here it comes to one of its outcomes.      *)
(* Signing in takes two steps, because it hands out a token after a check. *)
(***************************************************************************)
EXTENDS Api

CONSTANTS
  Employee,    \* accounts of employees; the one administrator is not tracked
  Request,     \* requests the process can be handling at a time
  Max,         \* requests a window lets through: "api", "auth", "login"
  MaxStarts,   \* bound on the starts of the process
  None

VARIABLES
  hits,        \* the counters of the limiters
  active,      \* accounts that are not removed
  token,       \* the access token the client of an account holds
  req,         \* the requests being handled, or the answer just given
  starts,      \* starts of the process in this window
  reached      \* history: logins past their limiter in this window

vars == <<hits, active, token, req, starts, reached>>

Limiter == {"api", "auth", "login"}
NoHits == [l \in Limiter |-> 0]

ASSUME GatewayAssumption == Max \in [Limiter -> Nat \ {0}] /\ MaxStarts \in Nat \ {0}

Busy == {r \in Request : req[r] # None /\ req[r].at # "answered"}

Init ==
  /\ hits = NoHits
  /\ active = Employee
  /\ token = [e \in Employee |-> "none"]
  /\ req = [r \in Request |-> None]
  /\ starts = 1 /\ reached = 0

(* Who sends a request: a visitor, the administrator, or an employee with  *)
(* the token held; a token that is missing or expired is refused.          *)
Caller == {"VISITOR", "ADMIN"} \cup Employee

RoleOf(c) ==
  IF c \notin Employee THEN c ELSE IF token[c] = "good" THEN "EMPLOYEE" ELSE "VISITOR"

(* The limiters count every request that gets to them, the ones they       *)
(* refuse too.  (A counter stops one past its limit here.)                 *)
Count(route) ==
  [l \in Limiter |->
     IF l = "api" \/ (l = Guards[route].limiter /\ hits["api"] < Max["api"])
       THEN IF hits[l] > Max[l] THEN hits[l] ELSE hits[l] + 1
       ELSE hits[l]]

(* Mutant of Within: one request more.                                     *)
WithinOneMore(l) == l = "none" \/ hits[l] <= Max[l]

Within(l) == l = "none" \/ hits[l] < Max[l]

(* Mutant of Permits: any token will do.                                   *)
PermitsAny(guard, role) == TRUE

(* authorize; authenticate has made sure of a token.                       *)
Permits(guard, role) == role \in guard.roles \/ "VISITOR" \in guard.roles

(* What stands between a parsed request and its handler, in the order the  *)
(* routes give, with the error of each: the limiters, verifyCsrf (which    *)
(* lets a request without a session through), authenticate, authorize,     *)
(* validate, and the missing cookie, which refresh itself refuses.         *)
Checks(route, role, csrf, valid) ==
  LET guard == Guards[route]
  IN  << <<Within("api"), "limited">>,
         <<Within(guard.limiter), "limited">>,
         <<guard.csrf => csrf # "mismatch", "forbidden">>,
         <<role # "VISITOR" \/ "VISITOR" \in guard.roles, "unauthorized">>,
         <<Permits(guard, role), "forbidden">>,
         <<guard.body => valid, "zod">>,
         <<route = "refresh" => csrf # "absent", "unauthorized">> >>

Answered(route, role, outcome) ==
  [at |-> "answered", route |-> route, role |-> role, outcome |-> outcome]

(* What is worth telling apart in a request.                               *)
Csrf(route) == IF Guards[route].csrf THEN {"absent", "match", "mismatch"} ELSE {"absent"}
Bodies(route) == IF Guards[route].body THEN BOOLEAN ELSE {TRUE}

(* express.json comes before everything else; then the checks.             *)
Arrive(r) ==
  /\ req[r] = None
  /\ \E route \in Route, c \in Caller :
       \/ /\ Guards[route].body
          /\ req' = [req EXCEPT ![r] = Answered(route, RoleOf(c), "unparsed")]
          /\ UNCHANGED <<hits, reached>>
       \/ \E csrf \in Csrf(route), valid \in Bodies(route) :
            LET checks == Checks(route, RoleOf(c), csrf, valid)
                failed == {i \in DOMAIN checks : ~checks[i][1]}
            IN  /\ hits' = Count(route)
                /\ reached' = IF failed = {} /\ route = "login" THEN reached + 1 ELSE reached
                /\ req' = [req EXCEPT ![r] =
                     IF failed = {}
                       THEN [at |-> "handling", route |-> route, role |-> RoleOf(c), by |-> c]
                       ELSE LET first == CHOOSE i \in failed : \A j \in failed : i <= j
                            IN  Answered(route, RoleOf(c), checks[first][2])]
  /\ UNCHANGED <<active, token, starts>>

SignsIn(r) == req[r].route \in {"login", "refresh"} /\ req[r].by \in Employee

(* Mutant of Handle: the account is not asked for.                         *)
HandleAnyone(r) ==
  LET q == req[r]
  IN  /\ r \in Busy /\ q.at = "handling"
      /\ \E outcome \in Outcomes(q.role, q.by \in active)[q.route] \cup {"failure"} :
           req' = [req EXCEPT ![r] =
             IF outcome = "ok" /\ SignsIn(r) THEN [q EXCEPT !.at = "issuing"]
             ELSE Answered(q.route, q.role, outcome)]
      /\ UNCHANGED <<hits, active, token, starts, reached>>

(* A handler comes to one of its outcomes, or an await of it is rejected.  *)
(* login and refresh ask whether the account is active, then issue.        *)
Handle(r) ==
  LET q == req[r]
  IN  /\ r \in Busy /\ q.at = "handling"
      /\ \E outcome \in Outcomes(q.role, q.by \in active)[q.route] \cup {"failure"} :
           /\ outcome = "ok" /\ SignsIn(r) => q.by \in active
           /\ req' = [req EXCEPT ![r] =
                IF outcome = "ok" /\ SignsIn(r) THEN [q EXCEPT !.at = "issuing"]
                ELSE Answered(q.route, q.role, outcome)]
      /\ UNCHANGED <<hits, active, token, starts, reached>>

Issue(r) ==
  LET q == req[r]
  IN  /\ r \in Busy /\ q.at = "issuing"
      /\ token' = [token EXCEPT ![q.by] = "good"]
      /\ req' = [req EXCEPT ![r] = Answered(q.route, q.role, "ok")]
      /\ UNCHANGED <<hits, active, starts, reached>>

(* The client takes the answer.                                            *)
Leave(r) ==
  /\ req[r] # None /\ r \notin Busy
  /\ req' = [req EXCEPT ![r] = None]
  /\ UNCHANGED <<hits, active, token, starts, reached>>

(* Time passes: a window of a limiter ends, an access token expires.       *)
NewWindow(l) ==
  /\ hits[l] > 0 \/ (l = "login" /\ starts > 1)
  /\ hits' = [hits EXCEPT ![l] = 0]
  /\ IF l = "login" THEN starts' = 1 /\ reached' = 0 ELSE UNCHANGED <<starts, reached>>
  /\ UNCHANGED <<active, token, req>>

Expire(e) ==
  /\ token[e] = "good"
  /\ token' = [token EXCEPT ![e] = "expired"]
  /\ UNCHANGED <<hits, active, req, starts, reached>>

(* employeeService.remove commits; nothing reaches the tokens given out.   *)
RemoveEmployee(e) ==
  /\ e \in active
  /\ active' = active \ {e}
  /\ UNCHANGED <<hits, token, req, starts, reached>>

(* The process ends and another is started: the requests in flight and the *)
(* counters are gone.                                                      *)
Restart ==
  /\ starts < MaxStarts
  /\ starts' = starts + 1
  /\ hits' = NoHits
  /\ req' = [r \in Request |-> None]
  /\ UNCHANGED <<active, token, reached>>

Next ==
  \/ \E r \in Request : Arrive(r) \/ Handle(r) \/ Issue(r) \/ Leave(r)
  \/ \E e \in Employee : Expire(e) \/ RemoveEmployee(e)
  \/ \E l \in Limiter : NewWindow(l)
  \/ Restart

(* Tokens run out by themselves; nobody has to send a request.             *)
Spec == Init /\ [][Next]_vars /\ \A e \in Employee : WF_vars(Expire(e))

-----------------------------------------------------------------------------

(* The 500s with a cause: a call of the handler failed, a body that cannot *)
(* be parsed, an upload whose task was removed meanwhile, a file that is   *)
(* gone from the disk.                                                     *)
Inevitable(q) ==
  q.outcome \in {"failure", "unparsed"}
    \cup OnlyIf(q.route = "upload", {"P2003"}) \cup OnlyIf(q.route = "download", {"noSuchFile"})

(* What an answer given may be: announced, a known gap or such a 500; and  *)
(* a success of what is reserved for administrators is for one of them.    *)
Expected(q) ==
  LET status == StatusOf[q.outcome]
  IN  /\ \/ status \in Documented[q.route] \cup Unannounced(q.route)
         \/ status = 500 /\ Inevitable(q)
      /\ (status < 300 /\ q.route \in AdminOnly) => q.role = "ADMIN"

(* Each answer is one the API documentation announces or one of the known  *)
(* gaps; a 500 has a cause that can be named; and what is documented for   *)
(* administrators succeeds for nobody else.                                *)
AnswersAreExpected ==
  \A r \in Request : (req[r] # None /\ r \notin Busy) => Expected(req[r])

(* However many logins are tried, in whatever order and with whatever      *)
(* else counted, each start of the process lets one budget of them reach   *)
(* the password check in a window.  (The counters die with the process:    *)
(* that is one budget per start, not one per window.)                      *)
BudgetHolds == reached <= Max["login"] * starts

(* A removed employee is locked out in the end.  authenticate asks only    *)
(* the token, and a sign-in past its check still hands one out after the   *)
(* removal; but none is renewed, so the last one expires.                  *)
RemovedAreShutOut == <>[](\A e \in Employee : e \notin active => token[e] # "good")

=============================================================================
