---------------------------- MODULE GatewayProofs ----------------------------
(***************************************************************************)
(* Theorems about module Gateway, for any limits and any number of         *)
(* requests, windows and starts: the login limiter keeps its budget, and   *)
(* every answer is accounted for.                                          *)
(*                                                                         *)
(* The tables of Api are written in parts, one for each router; the first  *)
(* lemmas put the parts together.                                          *)
(***************************************************************************)
EXTENDS Gateway, TLAPS, WellFoundedInduction

(* A set of numbers that is not empty has a least member.                  *)
LEMMA LeastNumber ==
  ASSUME NEW T, T \subseteq Nat, T # {}
  PROVE  \E m \in T : \A k \in T : m <= k
<1> DEFINE R == OpToRel(<, Nat)
<1>1. IsWellFoundedOn(R, Nat)
  BY NatLessThanWellFounded, Zenon
<1> HIDE DEF R
<1>2. PICK m \in T : \A k \in T : <<k, m>> \notin R
  BY <1>1, WFMin
<1>3. \A k, n \in Nat : k < n => <<k, n>> \in R
  BY DEF R, OpToRel
<1>4. \A k, n \in Nat : ~(k < n) => n <= k
  OBVIOUS
<1> QED
  BY <1>2, <1>3, <1>4

(* A table is part of a larger one.                                        *)
Part(f, t) == \A x \in DOMAIN f : x \in DOMAIN t /\ t[x] = f[x]

(* Tables with nothing in common, side by side, are what each of them is.  *)
LEMMA SideBySide ==
  ASSUME NEW f, NEW g, DOMAIN f \cap DOMAIN g = {}
  PROVE  /\ DOMAIN (f ++ g) = DOMAIN f \cup DOMAIN g
         /\ Part(f, f ++ g)
         /\ Part(g, f ++ g)
BY DEF ++, Part

(* So are eight of them.                                                   *)
Eight(a, b, c, d, e, f, g, h) == a ++ b ++ c ++ d ++ e ++ f ++ g ++ h

(* No two of them name the same thing.                                     *)
Apart(a, b, c, d, e, f, g, h) ==
  /\ DOMAIN a \cap DOMAIN b = {}
  /\ (DOMAIN a \cup DOMAIN b) \cap DOMAIN c = {}
  /\ (DOMAIN a \cup DOMAIN b \cup DOMAIN c) \cap DOMAIN d = {}
  /\ (DOMAIN a \cup DOMAIN b \cup DOMAIN c \cup DOMAIN d) \cap DOMAIN e = {}
  /\ (DOMAIN a \cup DOMAIN b \cup DOMAIN c \cup DOMAIN d \cup DOMAIN e) \cap DOMAIN f = {}
  /\ (DOMAIN a \cup DOMAIN b \cup DOMAIN c \cup DOMAIN d \cup DOMAIN e \cup DOMAIN f)
       \cap DOMAIN g = {}
  /\ (DOMAIN a \cup DOMAIN b \cup DOMAIN c \cup DOMAIN d \cup DOMAIN e \cup DOMAIN f
       \cup DOMAIN g) \cap DOMAIN h = {}

(* Each is part of the whole, and the whole has no more.                   *)
AllParts(a, b, c, d, e, f, g, h, t) ==
  /\ Part(a, t) /\ Part(b, t) /\ Part(c, t) /\ Part(d, t)
  /\ Part(e, t) /\ Part(f, t) /\ Part(g, t) /\ Part(h, t)
  /\ DOMAIN t = DOMAIN a \cup DOMAIN b \cup DOMAIN c \cup DOMAIN d \cup DOMAIN e
       \cup DOMAIN f \cup DOMAIN g \cup DOMAIN h

(* Eight tables that are apart are the parts of the whole.                 *)
LEMMA EightTables ==
  ASSUME NEW a, NEW b, NEW c, NEW d, NEW e, NEW f, NEW g, NEW h,
         NEW t, Apart(a, b, c, d, e, f, g, h), t = Eight(a, b, c, d, e, f, g, h)
  PROVE  AllParts(a, b, c, d, e, f, g, h, t)
<1> USE DEF AllParts
<1> USE DEF Apart
<1> DEFINE ab == a ++ b
           abc == ab ++ c
           abcd == abc ++ d
           abcde == abcd ++ e
           abcdef == abcde ++ f
           abcdefg == abcdef ++ g
<1>1. DOMAIN ab = DOMAIN a \cup DOMAIN b /\ Part(a, ab) /\ Part(b, ab)
  BY SideBySide
<1>2. t = abcdefg ++ h
  BY DEF Eight
<1> HIDE DEF ab
<1>3. DOMAIN abc = DOMAIN ab \cup DOMAIN c /\ Part(ab, abc) /\ Part(c, abc)
  BY <1>1, SideBySide
<1> HIDE DEF abc
<1>4. DOMAIN abcd = DOMAIN abc \cup DOMAIN d /\ Part(abc, abcd) /\ Part(d, abcd)
  BY <1>1, <1>3, SideBySide
<1> HIDE DEF abcd
<1>5. DOMAIN abcde = DOMAIN abcd \cup DOMAIN e /\ Part(abcd, abcde) /\ Part(e, abcde)
  BY <1>1, <1>3, <1>4, SideBySide
<1> HIDE DEF abcde
<1>6. DOMAIN abcdef = DOMAIN abcde \cup DOMAIN f /\ Part(abcde, abcdef) /\ Part(f, abcdef)
  BY <1>1, <1>3, <1>4, <1>5, SideBySide
<1> HIDE DEF abcdef
<1>7. DOMAIN abcdefg = DOMAIN abcdef \cup DOMAIN g /\ Part(abcdef, abcdefg) /\ Part(g, abcdefg)
  BY <1>1, <1>3, <1>4, <1>5, <1>6, SideBySide
<1> HIDE DEF abcdefg
<1>8. DOMAIN t = DOMAIN abcdefg \cup DOMAIN h /\ Part(abcdefg, t) /\ Part(h, t)
  <2>1. DOMAIN abcdefg \cap DOMAIN h = {}
    BY <1>1, <1>3, <1>4, <1>5, <1>6, <1>7
  <2>2. /\ DOMAIN (abcdefg ++ h) = DOMAIN abcdefg \cup DOMAIN h
        /\ Part(abcdefg, abcdefg ++ h) /\ Part(h, abcdefg ++ h)
    BY <2>1, SideBySide
  <2> QED
    BY <1>2, <2>2
<1> QED
  BY <1>1, <1>3, <1>4, <1>5, <1>6, <1>7, <1>8 DEF Part

(* The routes each router mounts.                                          *)
LEMMA GuardDomains ==
  /\ DOMAIN AuthGuards = {"register", "login", "refresh", "logout", "forgotPassword", "resetPassword", "me"}
  /\ DOMAIN EmployeeGuards = {"listEmployees", "createEmployee", "getEmployee", "updateEmployee", "removeEmployee"}
  /\ DOMAIN TaskGuards = {"listTasks", "getTask", "createTask", "updateTask", "removeTask", "listFiles", "upload"}
  /\ DOMAIN AttachmentGuards = {"download", "removeFile"}
  /\ DOMAIN NotificationGuards = {"listNotifications", "markAllAsRead", "markAsRead"}
  /\ DOMAIN DashboardGuards = {"adminDashboard", "employeeDashboard"}
  /\ DOMAIN ReportGuards = {"completedTasks", "pendingTasks", "employeeWise", "exportReport"}
BY DEF AuthGuards, EmployeeGuards, TaskGuards, AttachmentGuards, NotificationGuards,
       DashboardGuards, ReportGuards

(* No two routers mount the same route: each keeps its guards.             *)
LEMMA GuardsTable ==
  /\ Guards["health"] = Behind(Everyone)
  /\ Part(AuthGuards, Guards) /\ Part(EmployeeGuards, Guards) /\ Part(TaskGuards, Guards)
  /\ Part(AttachmentGuards, Guards) /\ Part(NotificationGuards, Guards)
  /\ Part(DashboardGuards, Guards) /\ Part(ReportGuards, Guards)
  /\ Route = {"health"} \cup DOMAIN AuthGuards \cup DOMAIN EmployeeGuards \cup DOMAIN TaskGuards
       \cup DOMAIN AttachmentGuards \cup DOMAIN NotificationGuards \cup DOMAIN DashboardGuards
       \cup DOMAIN ReportGuards
<1> DEFINE health == [health |-> Behind(Everyone)]
<1>1. DOMAIN health = {"health"} /\ health["health"] = Behind(Everyone)
  OBVIOUS
<1>2. Guards = Eight(health, AuthGuards, EmployeeGuards, TaskGuards, AttachmentGuards,
                     NotificationGuards, DashboardGuards, ReportGuards)
  BY DEF Guards, Eight
<1> HIDE DEF health
<1>3. Apart(health, AuthGuards, EmployeeGuards, TaskGuards, AttachmentGuards,
            NotificationGuards, DashboardGuards, ReportGuards)
  BY <1>1, GuardDomains DEF Apart
<1>4. AllParts(health, AuthGuards, EmployeeGuards, TaskGuards, AttachmentGuards,
               NotificationGuards, DashboardGuards, ReportGuards, Guards)
  BY <1>2, <1>3, EightTables
<1> QED
  BY <1>1, <1>4 DEF AllParts, Part, Route

(* Each route has the outcomes of its own handler.                         *)
LEMMA OutcomesTable ==
  ASSUME NEW role, NEW profile, NEW t, t = Outcomes(role, profile)
  PROVE  /\ t["health"] = {"ok"}
         /\ Part(AuthOutcomes, t) /\ Part(EmployeeOutcomes, t)
         /\ Part(TaskOutcomes(role, profile), t) /\ Part(FileOutcomes(role, profile), t)
         /\ Part(NotificationOutcomes, t) /\ Part(DashboardOutcomes(profile), t)
         /\ Part(ReportOutcomes, t)
<1> DEFINE health == [health |-> {"ok"}]
           task == TaskOutcomes(role, profile)
           file == FileOutcomes(role, profile)
           dashboard == DashboardOutcomes(profile)
<1>1. DOMAIN health = {"health"} /\ health["health"] = {"ok"}
  OBVIOUS
<1>2. t = Eight(health, AuthOutcomes, EmployeeOutcomes, task, file,
                NotificationOutcomes, dashboard, ReportOutcomes)
  BY DEF Outcomes, Eight
<1>5. DOMAIN task = {"listTasks", "getTask", "createTask", "updateTask", "removeTask"}
  BY DEF TaskOutcomes
<1>6. DOMAIN file = {"listFiles", "upload", "download", "removeFile"}
  BY DEF FileOutcomes
<1>7. /\ DOMAIN AuthOutcomes = {"register", "login", "refresh", "logout", "forgotPassword", "resetPassword", "me"}
      /\ DOMAIN EmployeeOutcomes = {"listEmployees", "createEmployee", "getEmployee", "updateEmployee", "removeEmployee"}
      /\ DOMAIN NotificationOutcomes = {"listNotifications", "markAllAsRead", "markAsRead"}
      /\ DOMAIN dashboard = {"adminDashboard", "employeeDashboard"}
      /\ DOMAIN ReportOutcomes = {"completedTasks", "pendingTasks", "employeeWise", "exportReport"}
  BY DEF AuthOutcomes, EmployeeOutcomes, NotificationOutcomes, DashboardOutcomes, ReportOutcomes
<1> HIDE DEF health, task, file, dashboard
<1>3. Apart(health, AuthOutcomes, EmployeeOutcomes, task, file, NotificationOutcomes,
            dashboard, ReportOutcomes)
  BY <1>1, <1>5, <1>6, <1>7 DEF Apart
<1>4. AllParts(health, AuthOutcomes, EmployeeOutcomes, task, file, NotificationOutcomes,
               dashboard, ReportOutcomes, t)
  BY <1>2, <1>3, EightTables
<1>8. t["health"] = {"ok"}
  BY <1>1, <1>4 DEF AllParts, Part
<1> QED
  BY <1>4, <1>8 DEF AllParts, task, file, dashboard

(* Each route has the answers its own section of the documentation lists.  *)
LEMMA DocumentedTable ==
  /\ Documented["health"] = {200}
  /\ Part(SessionDocs, Documented) /\ Part(RecoveryDocs, Documented)
  /\ Part(EmployeeDocs, Documented) /\ Part(TaskDocs, Documented)
  /\ Part(AttachmentDocs, Documented) /\ Part(NotificationDocs, Documented)
  /\ Part(DashboardDocs, Documented) /\ Part(ReportDocs, Documented)
<1> DEFINE health == [health |-> {200}]
           first == health ++ SessionDocs
<1>1. DOMAIN health = {"health"} /\ health["health"] = {200}
  OBVIOUS
<1>2. Documented = Eight(first, RecoveryDocs, EmployeeDocs, TaskDocs, AttachmentDocs,
                         NotificationDocs, DashboardDocs, ReportDocs)
  BY DEF Documented, Eight
<1>3. /\ DOMAIN SessionDocs = {"register", "login", "refresh", "logout"}
      /\ DOMAIN RecoveryDocs = {"forgotPassword", "resetPassword", "me"}
      /\ DOMAIN EmployeeDocs = {"listEmployees", "createEmployee", "getEmployee", "updateEmployee", "removeEmployee"}
      /\ DOMAIN TaskDocs = {"listTasks", "createTask", "getTask", "updateTask", "removeTask"}
      /\ DOMAIN AttachmentDocs = {"listFiles", "upload", "download", "removeFile"}
      /\ DOMAIN NotificationDocs = {"listNotifications", "markAsRead", "markAllAsRead"}
      /\ DOMAIN DashboardDocs = {"adminDashboard", "employeeDashboard"}
      /\ DOMAIN ReportDocs = {"completedTasks", "pendingTasks", "employeeWise", "exportReport"}
  BY DEF SessionDocs, RecoveryDocs, EmployeeDocs, TaskDocs, AttachmentDocs, NotificationDocs,
         DashboardDocs, ReportDocs
<1> HIDE DEF health
<1>4. /\ DOMAIN first = DOMAIN health \cup DOMAIN SessionDocs
      /\ Part(health, first) /\ Part(SessionDocs, first)
  BY <1>1, <1>3, SideBySide
<1> HIDE DEF first
<1>5. Apart(first, RecoveryDocs, EmployeeDocs, TaskDocs, AttachmentDocs,
            NotificationDocs, DashboardDocs, ReportDocs)
  BY <1>1, <1>3, <1>4 DEF Apart
<1>6. AllParts(first, RecoveryDocs, EmployeeDocs, TaskDocs, AttachmentDocs,
               NotificationDocs, DashboardDocs, ReportDocs, Documented)
  BY <1>2, <1>5, EightTables
<1>7. Part(SessionDocs, Documented) /\ Documented["health"] = {200}
  BY <1>1, <1>4, <1>6 DEF AllParts, Part
<1> QED
  BY <1>6, <1>7 DEF AllParts

(* The status errorHandler gives each outcome.                             *)
LEMMA StatusTable ==
  /\ StatusOf["ok"] = 200 /\ StatusOf["created"] = 201
  /\ StatusOf["badRequest"] = 400 /\ StatusOf["multer"] = 400 /\ StatusOf["unauthorized"] = 401
  /\ StatusOf["forbidden"] = 403 /\ StatusOf["notFound"] = 404 /\ StatusOf["P2025"] = 404
  /\ StatusOf["conflict"] = 409 /\ StatusOf["P2002"] = 409 /\ StatusOf["fileTooLarge"] = 413
  /\ StatusOf["unprocessable"] = 422 /\ StatusOf["zod"] = 422 /\ StatusOf["limited"] = 429
  /\ StatusOf["P2003"] = 500 /\ StatusOf["unparsed"] = 500 /\ StatusOf["noSuchFile"] = 500
  /\ StatusOf["failure"] = 500
BY DEF StatusOf, AppErrorStatus, ++

(* The routes whose documentation reserves them for administrators.        *)
LEMMA AdminOnlyTable ==
  AdminOnly = {"listEmployees", "createEmployee", "getEmployee", "updateEmployee",
               "removeEmployee", "completedTasks", "pendingTasks", "employeeWise", "exportReport",
               "createTask", "removeTask", "adminDashboard"}
BY DEF AdminOnly, EmployeeDocs, ReportDocs

(* What the guards say of a route, in the terms of its answers.            *)
LEMMA GuardFacts ==
  /\ Guards["login"].limiter = "login"
  /\ \A route \in Route : Guards[route].csrf => route \in {"refresh", "logout"}
  /\ \A route \in AdminOnly : Guards[route].roles = Admins
  /\ \A route \in {"listTasks", "getTask", "updateTask", "removeTask", "listFiles", "upload", "download",
                   "removeFile", "listNotifications", "markAllAsRead", "markAsRead",
                   "employeeDashboard"} : "VISITOR" \notin Guards[route].roles
<1>1. /\ Guards["health"] = Behind(Everyone)
      /\ Guards["register"] = AuthGuards["register"] /\ Guards["login"] = AuthGuards["login"]
      /\ Guards["forgotPassword"] = AuthGuards["forgotPassword"]
      /\ Guards["resetPassword"] = AuthGuards["resetPassword"] /\ Guards["me"] = AuthGuards["me"]
      /\ \A route \in DOMAIN EmployeeGuards : Guards[route] = EmployeeGuards[route]
      /\ \A route \in DOMAIN TaskGuards : Guards[route] = TaskGuards[route]
      /\ \A route \in DOMAIN AttachmentGuards : Guards[route] = AttachmentGuards[route]
      /\ \A route \in DOMAIN NotificationGuards : Guards[route] = NotificationGuards[route]
      /\ \A route \in DOMAIN DashboardGuards : Guards[route] = DashboardGuards[route]
      /\ \A route \in DOMAIN ReportGuards : Guards[route] = ReportGuards[route]
  BY GuardsTable, GuardDomains DEF Part
<1>2. Guards["login"].limiter = "login"
  BY <1>1 DEF AuthGuards, Guard
<1>3. \A route \in Route : Guards[route].csrf => route \in {"refresh", "logout"}
  <2>1. ~Guards["health"].csrf
    BY <1>1 DEF Behind, Guard
  <2>2. \A route \in DOMAIN AuthGuards \ {"refresh", "logout"} : ~Guards[route].csrf
    BY <1>1, GuardDomains DEF AuthGuards, Guard, Behind
  <2>3. \A route \in DOMAIN EmployeeGuards : ~Guards[route].csrf
    BY <1>1, GuardDomains DEF EmployeeGuards, Guard, Behind, Validated
  <2>4. \A route \in DOMAIN TaskGuards : ~Guards[route].csrf
    BY <1>1, GuardDomains DEF TaskGuards, Guard, Behind, Validated
  <2>5. \A route \in DOMAIN AttachmentGuards \cup DOMAIN NotificationGuards : ~Guards[route].csrf
    BY <1>1, GuardDomains DEF AttachmentGuards, NotificationGuards, Guard, Behind
  <2>6. \A route \in DOMAIN DashboardGuards \cup DOMAIN ReportGuards : ~Guards[route].csrf
    BY <1>1, GuardDomains DEF DashboardGuards, ReportGuards, Guard, Behind
  <2> QED
    BY <2>1, <2>2, <2>3, <2>4, <2>5, <2>6, GuardsTable
<1>4. \A route \in AdminOnly : Guards[route].roles = Admins
  <2>1. \A route \in DOMAIN EmployeeGuards : Guards[route].roles = Admins
    BY <1>1, GuardDomains DEF EmployeeGuards, Guard, Behind, Validated
  <2>2. \A route \in DOMAIN ReportGuards : Guards[route].roles = Admins
    BY <1>1, GuardDomains DEF ReportGuards, Guard, Behind
  <2>3. \A route \in {"createTask", "removeTask", "adminDashboard"} : Guards[route].roles = Admins
    BY <1>1, GuardDomains DEF TaskGuards, DashboardGuards, Guard, Behind, Validated
  <2> QED
    BY <2>1, <2>2, <2>3, GuardDomains, AdminOnlyTable
<1>5. \A route \in DOMAIN TaskGuards : "VISITOR" \notin Guards[route].roles
  BY <1>1, GuardDomains DEF TaskGuards, Guard, Behind, Validated, Role, Admins
<1>6. \A route \in DOMAIN AttachmentGuards \cup DOMAIN NotificationGuards :
        "VISITOR" \notin Guards[route].roles
  BY <1>1, GuardDomains DEF AttachmentGuards, NotificationGuards, Guard, Behind, Role
<1>7. "VISITOR" \notin Guards["employeeDashboard"].roles
  BY <1>1, GuardDomains DEF DashboardGuards, Guard, Behind
<1> QED
  BY <1>2, <1>3, <1>4, <1>5, <1>6, <1>7, GuardDomains

-----------------------------------------------------------------------------
(* The budget of the logins.                                               *)

(* The logins counted in this window that the limiter let through.         *)
LetThrough == IF hits["login"] > Max["login"] THEN Max["login"] ELSE hits["login"]

(* Each start before this one has had at most its budget; this one has had *)
(* what its counter says.                                                  *)
BudgetInv ==
  /\ hits \in [Limiter -> Nat] /\ starts \in Nat \ {0} /\ reached \in Nat
  /\ reached <= Max["login"] * (starts - 1) + LetThrough

(* What loginLimiter allows is a positive number.                          *)
LEMMA LimitIsPositive == Max["login"] \in Nat \ {0}
BY GatewayAssumption DEF Limiter

(* A budget per start: one more start is one more budget.                  *)
LEMMA OneMoreBudget ==
  ASSUME NEW m \in Nat, NEW n \in Nat
  PROVE  m * (n - 1) + m = m * n /\ (n + 1) - 1 = n /\ m * n \in Nat
OBVIOUS

(* Counting a request moves the login counter by at most one, up, and by   *)
(* one when the request is a login that got past both limiters.            *)
LEMMA CountingCounts ==
  ASSUME hits \in [Limiter -> Nat], NEW route \in Route
  PROVE  /\ Count(route) \in [Limiter -> Nat]
         /\ Count(route)["login"] \in {hits["login"], hits["login"] + 1}
         /\ (route = "login" /\ Within("api") /\ Within("login")) =>
              Count(route)["login"] = hits["login"] + 1 /\ hits["login"] < Max["login"]
<1>1. "login" \in Limiter /\ hits["login"] \in Nat /\ Max["login"] \in Nat
  BY GatewayAssumption DEF Limiter
<1>2. Count(route) \in [Limiter -> Nat]
  BY DEF Count
<1>3. Count(route)["login"] \in {hits["login"], hits["login"] + 1}
  BY <1>1 DEF Count
<1>4. ASSUME route = "login", Within("api"), Within("login")
      PROVE  Count(route)["login"] = hits["login"] + 1 /\ hits["login"] < Max["login"]
  BY <1>1, <1>4, GuardFacts DEF Count, Within
<1> QED
  BY <1>2, <1>3, <1>4

(* A login reaches the password check only when the counter had room.      *)
LEMMA ArrivalsKeepTheBudget ==
  ASSUME BudgetInv, NEW r \in Request, Arrive(r)
  PROVE  BudgetInv'
<1>1. UNCHANGED starts
  BY DEF Arrive
<1>2. CASE UNCHANGED <<hits, reached>>
  BY <1>1, <1>2 DEF BudgetInv, LetThrough
<1>3. CASE \E route \in Route : \E c \in Caller :
             \E csrf \in Csrf(route), valid \in Bodies(route) :
               LET checks == Checks(route, RoleOf(c), csrf, valid)
                   failed == {i \in DOMAIN checks : ~checks[i][1]}
               IN  /\ hits' = Count(route)
                   /\ reached' = IF failed = {} /\ route = "login" THEN reached + 1 ELSE reached
  <2>1. PICK route \in Route, passed \in BOOLEAN :
          /\ hits' = Count(route)
          /\ reached' = IF passed /\ route = "login" THEN reached + 1 ELSE reached
          /\ passed => Within("api") /\ Within(Guards[route].limiter)
    <3>1. PICK route \in Route, c \in Caller : \E csrf \in Csrf(route), valid \in Bodies(route) :
            LET checks == Checks(route, RoleOf(c), csrf, valid)
                failed == {i \in DOMAIN checks : ~checks[i][1]}
            IN  /\ hits' = Count(route)
                /\ reached' = IF failed = {} /\ route = "login" THEN reached + 1 ELSE reached
      BY <1>3
    <3>2. PICK csrf \in Csrf(route), valid \in Bodies(route) :
            LET checks == Checks(route, RoleOf(c), csrf, valid)
                failed == {i \in DOMAIN checks : ~checks[i][1]}
            IN  /\ hits' = Count(route)
                /\ reached' = IF failed = {} /\ route = "login" THEN reached + 1 ELSE reached
      BY <3>1
    <3> DEFINE checks == Checks(route, RoleOf(c), csrf, valid)
               failed == {i \in DOMAIN checks : ~checks[i][1]}
    <3>3. /\ 1 \in DOMAIN checks /\ checks[1][1] = Within("api")
          /\ 2 \in DOMAIN checks /\ checks[2][1] = Within(Guards[route].limiter)
      BY DEF Checks
    <3>4. failed = {} => Within("api") /\ Within(Guards[route].limiter)
      BY <3>3
    <3> QED
      BY <3>2, <3>4
  <2>2. hits' \in [Limiter -> Nat] /\ hits'["login"] \in {hits["login"], hits["login"] + 1}
    BY <2>1, CountingCounts DEF BudgetInv
  <2>3. CASE passed /\ route = "login"
    <3>1. Within("api") /\ Within("login")
      BY <2>1, <2>3, GuardFacts
    <3>2. hits'["login"] = hits["login"] + 1 /\ hits["login"] < Max["login"] /\ reached' = reached + 1
      BY <2>1, <2>3, <3>1, CountingCounts DEF BudgetInv
    <3>3. LetThrough' = LetThrough + 1
      BY <3>2, LimitIsPositive DEF LetThrough, BudgetInv, Limiter
    <3> QED
      BY <1>1, <2>2, <3>2, <3>3, LimitIsPositive DEF BudgetInv, LetThrough, Limiter
  <2>4. CASE ~(passed /\ route = "login")
    <3>1. reached' = reached
      BY <2>1, <2>4
    <3>2. LetThrough <= LetThrough'
      BY <2>2, LimitIsPositive DEF LetThrough, BudgetInv, Limiter
    <3> QED
      BY <1>1, <2>2, <3>1, <3>2, LimitIsPositive DEF BudgetInv, LetThrough, Limiter
  <2> QED
    BY <2>3, <2>4
<1> QED
  BY <1>2, <1>3 DEF Arrive

(* A start begins with an empty counter: what the old one let through is   *)
(* within its budget.                                                      *)
LEMMA RestartsKeepTheBudget ==
  ASSUME BudgetInv, Restart
  PROVE  BudgetInv'
<1>1. /\ starts \in Nat \ {0} /\ starts' = starts + 1 /\ reached' = reached
      /\ hits' \in [Limiter -> Nat] /\ hits'["login"] = 0
  BY DEF Restart, NoHits, BudgetInv, Limiter
<1>2. LetThrough' = 0
  BY <1>1, LimitIsPositive DEF LetThrough
<1>3. reached <= Max["login"] * (starts - 1) + Max["login"]
  BY LimitIsPositive DEF BudgetInv, LetThrough, Limiter
<1>4. reached <= Max["login"] * (starts' - 1)
  BY <1>1, <1>3, OneMoreBudget, LimitIsPositive
<1> QED
  BY <1>1, <1>2, <1>4, LimitIsPositive DEF BudgetInv

(* The end of a window clears its counter, and that of the logins the      *)
(* count of what it let through.                                           *)
LEMMA WindowsKeepTheBudget ==
  ASSUME BudgetInv, NEW l \in Limiter, NewWindow(l)
  PROVE  BudgetInv'
<1>1. hits' \in [Limiter -> Nat] /\ hits' = [hits EXCEPT ![l] = 0]
  BY DEF NewWindow, BudgetInv
<1>2. CASE l = "login"
  <2>1. starts' = 1 /\ reached' = 0 /\ hits'["login"] = 0
    BY <1>1, <1>2 DEF NewWindow, BudgetInv
  <2> QED
    BY <1>1, <2>1, LimitIsPositive DEF BudgetInv, LetThrough
<1>3. CASE l # "login"
  BY <1>1, <1>3 DEF NewWindow, BudgetInv, LetThrough, Limiter
<1> QED
  BY <1>2, <1>3

(* BudgetInv is inductive.                                                 *)
LEMMA StepsKeepTheBudget == BudgetInv /\ [Next]_vars => BudgetInv'
<1> SUFFICES ASSUME BudgetInv, [Next]_vars
             PROVE  BudgetInv'
  OBVIOUS
<1>1. CASE \E r \in Request : Arrive(r)
  BY <1>1, ArrivalsKeepTheBudget
<1>2. CASE \E l \in Limiter : NewWindow(l)
  BY <1>2, WindowsKeepTheBudget
<1>3. CASE Restart
  BY <1>3, RestartsKeepTheBudget
<1>4. CASE UNCHANGED <<hits, starts, reached>>
  BY <1>4 DEF BudgetInv, LetThrough
<1> QED
  BY <1>1, <1>2, <1>3, <1>4 DEF Next, Handle, Issue, Leave, Expire, RemoveEmployee, vars

(* loginLimiter: within a window, the logins that get to the password      *)
(* check are at most its limit for each start of the process.              *)
THEOREM LoginsAreBudgeted == Spec => []BudgetHolds
<1>1. Init => BudgetInv
  BY LimitIsPositive DEF Init, NoHits, BudgetInv, LetThrough, Limiter
<1>2. BudgetInv => BudgetHolds
  <2> SUFFICES ASSUME BudgetInv PROVE BudgetHolds
    OBVIOUS
  <2>1. reached <= Max["login"] * (starts - 1) + Max["login"]
    BY LimitIsPositive DEF BudgetInv, LetThrough, Limiter
  <2> QED
    BY <2>1, OneMoreBudget, LimitIsPositive DEF BudgetInv, BudgetHolds
<1> QED
  BY <1>1, <1>2, StepsKeepTheBudget, PTL DEF Spec

-----------------------------------------------------------------------------
(* What a request can be answered.                                         *)

(* Each outcome of each handler has an answer that is announced, or known  *)
(* to be missing, or is one of the 500s.                                   *)
Accounted(route, outcome) ==
  \/ StatusOf[outcome] \in Documented[route] \cup Unannounced(route)
  \/ StatusOf[outcome] = 500 /\ \/ outcome \in {"failure", "unparsed"}
                                \/ route = "upload" /\ outcome = "P2003"
                                \/ route = "download" /\ outcome = "noSuchFile"

(* What the documentation leaves out everywhere.                           *)
LEMMA UnannouncedFacts ==
  ASSUME NEW route \in Route
  PROVE  /\ 429 \in Unannounced(route)
         /\ "VISITOR" \notin Guards[route].roles => {401, 403} \subseteq Unannounced(route)
         /\ Guards[route].body \/ route \in {"listEmployees", "listTasks", "listNotifications"} =>
              422 \in Unannounced(route)
         /\ route = "createTask" => 400 \in Unannounced(route)
         /\ route = "updateTask" => {400, 404} \subseteq Unannounced(route)
         /\ route \in {"listFiles", "upload"} => 404 \in Unannounced(route)
BY DEF Unannounced, OnlyIf

(* The answers of auth.controller are documented.                          *)
LEMMA AuthAnswers ==
  ASSUME NEW route \in DOMAIN AuthGuards, NEW outcome \in AuthOutcomes[route]
  PROVE  Accounted(route, outcome)
<1>1. /\ Documented["register"] = {201, 409, 422} /\ Documented["login"] = {200, 401, 429}
      /\ Documented["refresh"] = {200, 401, 403} /\ Documented["logout"] = {200, 403}
  BY DocumentedTable DEF Part, SessionDocs
<1>2. /\ Documented["forgotPassword"] = {200} /\ Documented["resetPassword"] = {200, 400, 422}
      /\ Documented["me"] = {200, 401}
  BY DocumentedTable DEF Part, RecoveryDocs
<1>3. StatusOf[outcome] \in Documented[route]
  BY <1>1, <1>2, StatusTable, GuardDomains DEF AuthOutcomes
<1> QED
  BY <1>3 DEF Accounted

(* So are those of employee.controller, but for the query of the list.     *)
LEMMA EmployeeAnswers ==
  ASSUME NEW route \in DOMAIN EmployeeGuards, NEW outcome \in EmployeeOutcomes[route]
  PROVE  Accounted(route, outcome)
<1>1. /\ Documented["listEmployees"] = {200, 401, 403} /\ Documented["createEmployee"] = {201, 409}
      /\ Documented["getEmployee"] = {200, 404} /\ Documented["updateEmployee"] = {200, 404, 409}
      /\ Documented["removeEmployee"] = {200, 404}
  BY DocumentedTable DEF Part, EmployeeDocs
<1>2. 422 \in Unannounced("listEmployees")
  BY UnannouncedFacts, GuardsTable, GuardDomains
<1>3. StatusOf[outcome] \in Documented[route] \cup Unannounced(route)
  BY <1>1, <1>2, StatusTable, GuardDomains DEF EmployeeOutcomes
<1> QED
  BY <1>3 DEF Accounted

(* Those of task.controller are documented or known to be missing.         *)
LEMMA TaskAnswers ==
  ASSUME NEW route \in {"listTasks", "getTask", "createTask", "updateTask", "removeTask"},
         NEW role, NEW profile, NEW outcome \in TaskOutcomes(role, profile)[route]
  PROVE  Accounted(route, outcome)
<1>1. /\ Documented["listTasks"] = {200} /\ Documented["createTask"] = {201, 403, 422}
      /\ Documented["getTask"] = {200, 403, 404} /\ Documented["updateTask"] = {200, 403, 422}
      /\ Documented["removeTask"] = {200, 403, 404}
  BY DocumentedTable DEF Part, TaskDocs
<1>2. /\ {403, 422} \subseteq Unannounced("listTasks") /\ 400 \in Unannounced("createTask")
      /\ {400, 404} \subseteq Unannounced("updateTask")
  BY UnannouncedFacts, GuardFacts, GuardsTable, GuardDomains
<1>3. /\ TaskOutcomes(role, profile)["listTasks"] \subseteq {"zod", "ok", "forbidden"}
      /\ TaskOutcomes(role, profile)["getTask"] \subseteq {"notFound", "ok", "forbidden"}
      /\ TaskOutcomes(role, profile)["createTask"] = {"created", "badRequest"}
      /\ TaskOutcomes(role, profile)["updateTask"] \subseteq
           {"notFound", "forbidden", "ok", "unprocessable", "badRequest", "P2025"}
      /\ TaskOutcomes(role, profile)["removeTask"] = {"ok", "notFound", "P2025"}
  BY DEF TaskOutcomes, OnlyIf
<1>4. StatusOf[outcome] \in Documented[route] \cup Unannounced(route)
  BY <1>1, <1>2, <1>3, StatusTable
<1> QED
  BY <1>4 DEF Accounted

(* Those of file.controller too, but for the two 500s it can come to.      *)
LEMMA FileAnswers ==
  ASSUME NEW route \in {"listFiles", "upload", "download", "removeFile"},
         NEW role, NEW profile, NEW outcome \in FileOutcomes(role, profile)[route]
  PROVE  Accounted(route, outcome)
<1>1. /\ Documented["listFiles"] = {200, 403} /\ Documented["upload"] = {201, 400, 403, 413}
      /\ Documented["download"] = {200, 403, 404} /\ Documented["removeFile"] = {200, 403, 404}
  BY DocumentedTable DEF Part, AttachmentDocs
<1>2. 404 \in Unannounced("listFiles") /\ 404 \in Unannounced("upload")
  BY UnannouncedFacts, GuardsTable, GuardDomains
<1>3. /\ FileOutcomes(role, profile)["listFiles"] \subseteq {"notFound", "forbidden", "ok"}
      /\ FileOutcomes(role, profile)["upload"] \subseteq
           {"badRequest", "fileTooLarge", "multer", "notFound", "forbidden", "created", "P2003"}
      /\ FileOutcomes(role, profile)["download"] \subseteq {"notFound", "forbidden", "ok", "noSuchFile"}
      /\ FileOutcomes(role, profile)["removeFile"] \subseteq {"ok", "notFound", "P2025", "forbidden"}
  BY DEF FileOutcomes, OnlyIf
<1>4. \/ StatusOf[outcome] \in Documented[route] \cup Unannounced(route)
      \/ route = "upload" /\ outcome = "P2003"
      \/ route = "download" /\ outcome = "noSuchFile"
  BY <1>1, <1>2, <1>3, StatusTable
<1> QED
  BY <1>4, StatusTable DEF Accounted

(* The notifications, the dashboards and the reports.                      *)
LEMMA OtherAnswers ==
  ASSUME NEW profile, NEW route, NEW outcome,
         \/ route \in DOMAIN NotificationGuards /\ outcome \in NotificationOutcomes[route]
         \/ route \in DOMAIN DashboardGuards /\ outcome \in DashboardOutcomes(profile)[route]
         \/ route \in DOMAIN ReportGuards /\ outcome \in ReportOutcomes[route]
  PROVE  Accounted(route, outcome)
<1>1. CASE route \in DOMAIN NotificationGuards /\ outcome \in NotificationOutcomes[route]
  <2>1. /\ Documented["listNotifications"] = {200} /\ Documented["markAsRead"] = {200}
        /\ Documented["markAllAsRead"] = {200}
    BY DocumentedTable DEF Part, NotificationDocs
  <2>2. 422 \in Unannounced("listNotifications")
    BY UnannouncedFacts, GuardsTable, GuardDomains
  <2> QED
    BY <1>1, <2>1, <2>2, StatusTable, GuardDomains DEF NotificationOutcomes, Accounted
<1>2. CASE route \in DOMAIN DashboardGuards /\ outcome \in DashboardOutcomes(profile)[route]
  <2>1. Documented["adminDashboard"] = {200, 403} /\ Documented["employeeDashboard"] = {200, 403}
    BY DocumentedTable DEF Part, DashboardDocs
  <2>2. /\ DashboardOutcomes(profile)["adminDashboard"] = {"ok"}
        /\ DashboardOutcomes(profile)["employeeDashboard"] \subseteq {"ok", "forbidden"}
    BY DEF DashboardOutcomes, OnlyIf
  <2> QED
    BY <1>2, <2>1, <2>2, StatusTable, GuardDomains DEF Accounted
<1>3. CASE route \in DOMAIN ReportGuards /\ outcome \in ReportOutcomes[route]
  <2>1. /\ Documented["completedTasks"] = {200, 403} /\ Documented["pendingTasks"] = {200, 403}
        /\ Documented["employeeWise"] = {200, 403} /\ Documented["exportReport"] = {200, 403, 404, 422}
    BY DocumentedTable DEF Part, ReportDocs
  <2> QED
    BY <1>3, <2>1, StatusTable, GuardDomains DEF ReportOutcomes, Accounted
<1> QED
  BY <1>1, <1>2, <1>3

(* All handlers together, and a call of theirs that fails.                 *)
LEMMA HandlersAreAccountedFor ==
  ASSUME NEW route \in Route, NEW role, NEW profile,
         NEW outcome \in Outcomes(role, profile)[route] \cup {"failure"}
  PROVE  Accounted(route, outcome)
<1>1. CASE outcome = "failure"
  BY <1>1, StatusTable DEF Accounted
<1>2. CASE route = "health" /\ outcome \in Outcomes(role, profile)[route]
  BY <1>2, OutcomesTable, DocumentedTable, StatusTable DEF Accounted
<1>3. CASE outcome \in Outcomes(role, profile)[route] /\ route # "health"
  <2>1. \/ route \in DOMAIN AuthGuards /\ outcome \in AuthOutcomes[route]
        \/ route \in DOMAIN EmployeeGuards /\ outcome \in EmployeeOutcomes[route]
        \/ /\ route \in {"listTasks", "getTask", "createTask", "updateTask", "removeTask"}
           /\ outcome \in TaskOutcomes(role, profile)[route]
        \/ /\ route \in {"listFiles", "upload", "download", "removeFile"}
           /\ outcome \in FileOutcomes(role, profile)[route]
        \/ route \in DOMAIN NotificationGuards /\ outcome \in NotificationOutcomes[route]
        \/ route \in DOMAIN DashboardGuards /\ outcome \in DashboardOutcomes(profile)[route]
        \/ route \in DOMAIN ReportGuards /\ outcome \in ReportOutcomes[route]
    <3>1. PICK t : t = Outcomes(role, profile)
      OBVIOUS
    <3>2. /\ Part(AuthOutcomes, t) /\ Part(EmployeeOutcomes, t)
          /\ Part(TaskOutcomes(role, profile), t) /\ Part(FileOutcomes(role, profile), t)
          /\ Part(NotificationOutcomes, t) /\ Part(DashboardOutcomes(profile), t)
          /\ Part(ReportOutcomes, t)
      BY <3>1, OutcomesTable
    <3>3. /\ \A x \in DOMAIN AuthGuards : t[x] = AuthOutcomes[x]
          /\ \A x \in DOMAIN EmployeeGuards : t[x] = EmployeeOutcomes[x]
          /\ \A x \in DOMAIN NotificationGuards : t[x] = NotificationOutcomes[x]
          /\ \A x \in DOMAIN ReportGuards : t[x] = ReportOutcomes[x]
      BY <3>2, GuardDomains DEF Part, AuthOutcomes, EmployeeOutcomes, NotificationOutcomes, ReportOutcomes
    <3>4. /\ \A x \in {"listTasks", "getTask", "createTask", "updateTask", "removeTask"} :
               t[x] = TaskOutcomes(role, profile)[x]
          /\ \A x \in {"listFiles", "upload", "download", "removeFile"} :
               t[x] = FileOutcomes(role, profile)[x]
          /\ \A x \in DOMAIN DashboardGuards : t[x] = DashboardOutcomes(profile)[x]
      <4>1. DOMAIN TaskOutcomes(role, profile) = {"listTasks", "getTask", "createTask", "updateTask", "removeTask"}
        BY DEF TaskOutcomes
      <4>2. DOMAIN FileOutcomes(role, profile) = {"listFiles", "upload", "download", "removeFile"}
        BY DEF FileOutcomes
      <4>3. DOMAIN DashboardOutcomes(profile) = {"adminDashboard", "employeeDashboard"}
        BY DEF DashboardOutcomes
      <4> QED
        BY <3>2, <4>1, <4>2, <4>3, GuardDomains DEF Part
    <3>5. \/ route \in DOMAIN AuthGuards \cup DOMAIN EmployeeGuards \cup DOMAIN NotificationGuards
               \cup DOMAIN DashboardGuards \cup DOMAIN ReportGuards
          \/ route \in {"listTasks", "getTask", "createTask", "updateTask", "removeTask"}
          \/ route \in {"listFiles", "upload", "download", "removeFile"}
      BY <1>3, GuardsTable, GuardDomains
    <3>6. outcome \in t[route]
      BY <1>3, <3>1
    <3> QED
      BY <3>3, <3>4, <3>5, <3>6
  <2> QED
    BY <2>1, AuthAnswers, EmployeeAnswers, TaskAnswers, FileAnswers, OtherAnswers
<1> QED
  BY <1>1, <1>2, <1>3

-----------------------------------------------------------------------------
(* The answers given.                                                      *)

(* On the way to its answer a request has passed what its role must pass.  *)
Pending == [at: {"handling", "issuing"}, route: Route, role: Everyone, by: Caller]

(* A request past the checks was let through for its role.                 *)
OnItsWay(q) ==
  /\ q \in Pending
  /\ Permits(Guards[q.route], q.role)
  /\ q.at = "issuing" => q.route \in {"login", "refresh"}

(* Each answer given is as expected, and the rest are on their way.        *)
AnswersInv ==
  /\ DOMAIN req = Request
  /\ \A r \in Request : req[r] # None =>
       IF req[r].at = "answered" THEN Expected(req[r]) ELSE OnItsWay(req[r])

(* An error is an answer that reserves nothing, and so is what a handler   *)
(* comes to for somebody it is open to.                                    *)
LEMMA AccountedIsExpected ==
  ASSUME NEW route \in Route, NEW role \in Everyone, NEW outcome, Accounted(route, outcome),
         ~(StatusOf[outcome] < 300) \/ Permits(Guards[route], role)
  PROVE  Expected(Answered(route, role, outcome))
<1> DEFINE q == Answered(route, role, outcome)
<1>1. q.route = route /\ q.role = role /\ q.outcome = outcome
  BY DEF Answered
<1> HIDE DEF q
<1>2. \/ StatusOf[q.outcome] \in Documented[q.route] \cup Unannounced(q.route)
      \/ StatusOf[q.outcome] = 500 /\ Inevitable(q)
  BY <1>1 DEF Accounted, Inevitable, OnlyIf
<1>3. (StatusOf[q.outcome] < 300 /\ q.route \in AdminOnly) => q.role = "ADMIN"
  <2>1. route \in AdminOnly /\ Permits(Guards[route], role) => role = "ADMIN"
    BY GuardFacts DEF Permits, Admins
  <2> QED
    BY <1>1, <2>1
<1>4. Expected(q)
  BY <1>2, <1>3 DEF Expected
<1> QED
  BY <1>4 DEF q

(* Whichever check fails, its error is accounted for.                      *)
LEMMA ChecksAreAccountedFor ==
  ASSUME NEW route \in Route, NEW role \in Everyone, NEW csrf, NEW valid, NEW i \in 1..7,
         NEW checks, checks = Checks(route, role, csrf, valid), ~checks[i][1]
  PROVE  Accounted(route, checks[i][2]) /\ ~(StatusOf[checks[i][2]] < 300)
<1> DEFINE guard == Guards[route]
<1>1. /\ checks[1][2] = "limited" /\ checks[2][2] = "limited"
      /\ checks[3][1] = (guard.csrf => csrf # "mismatch") /\ checks[3][2] = "forbidden"
      /\ checks[4][1] = (role # "VISITOR" \/ "VISITOR" \in guard.roles) /\ checks[4][2] = "unauthorized"
      /\ checks[5][1] = Permits(guard, role) /\ checks[5][2] = "forbidden"
      /\ checks[6][1] = (guard.body => valid) /\ checks[6][2] = "zod"
      /\ checks[7][1] = (route = "refresh" => csrf # "absent") /\ checks[7][2] = "unauthorized"
  BY DEF Checks
<1>2. checks[i][2] \in {"limited", "forbidden", "unauthorized", "zod"}
  BY <1>1
<1>3. ~(StatusOf[checks[i][2]] < 300)
  BY <1>2, StatusTable
<1>4. StatusOf[checks[i][2]] \in Documented[route] \cup Unannounced(route)
  <2>1. CASE i \in {1, 2}
    <3>1. checks[i][2] = "limited"
      BY <2>1, <1>1
    <3> QED
      BY <3>1, StatusTable, UnannouncedFacts
  <2>2. CASE i = 3
    <3>1. route \in {"refresh", "logout"}
      BY <2>2, <1>1, GuardFacts
    <3>2. 403 \in Documented[route]
      BY <3>1, DocumentedTable DEF Part, SessionDocs
    <3> QED
      BY <2>2, <1>1, <3>2, StatusTable
  <2>3. CASE i \in {4, 5}
    <3>1. "VISITOR" \notin guard.roles
      BY <2>3, <1>1 DEF Permits
    <3> QED
      BY <2>3, <1>1, <3>1, StatusTable, UnannouncedFacts
  <2>4. CASE i = 6
    <3>1. checks[i][2] = "zod" /\ guard.body
      BY <2>4, <1>1
    <3> QED
      BY <3>1, StatusTable, UnannouncedFacts
  <2>5. CASE i = 7
    <3>1. 401 \in Documented["refresh"]
      BY DocumentedTable DEF Part, SessionDocs
    <3>2. route = "refresh" /\ checks[i][2] = "unauthorized"
      BY <2>5, <1>1
    <3> QED
      BY <3>1, <3>2, StatusTable
  <2> QED
    BY <2>1, <2>2, <2>3, <2>4, <2>5
<1> QED
  BY <1>3, <1>4 DEF Accounted

(* A request has one of the roles the guards know.                         *)
LEMMA RolesAreKnown ==
  ASSUME NEW c \in Caller
  PROVE  RoleOf(c) \in Everyone
BY DEF Caller, RoleOf, Everyone, Role

(* One request moves: the others are what they were.                       *)
LEMMA OneMoves ==
  ASSUME AnswersInv, NEW r \in Request, NEW new, req' = [req EXCEPT ![r] = new],
         new = None \/ (IF new.at = "answered" THEN Expected(new) ELSE OnItsWay(new))
  PROVE  AnswersInv'
<1>1. DOMAIN req' = Request /\ req'[r] = new /\ \A q \in Request \ {r} : req'[q] = req[q]
  BY DEF AnswersInv
<1> QED
  BY <1>1 DEF AnswersInv, Expected, OnItsWay, Inevitable

(* A request that arrives is answered by a check that failed, or is on its *)
(* way with all of them passed.                                            *)
LEMMA ArrivalsAreExpected ==
  ASSUME AnswersInv, NEW r \in Request, Arrive(r)
  PROVE  AnswersInv'
<1>1. PICK route \in Route, c \in Caller :
       \/ /\ Guards[route].body
          /\ req' = [req EXCEPT ![r] = Answered(route, RoleOf(c), "unparsed")]
       \/ \E csrf \in Csrf(route), valid \in Bodies(route) :
            LET checks == Checks(route, RoleOf(c), csrf, valid)
                failed == {i \in DOMAIN checks : ~checks[i][1]}
            IN  req' = [req EXCEPT ![r] =
                     IF failed = {}
                       THEN [at |-> "handling", route |-> route, role |-> RoleOf(c), by |-> c]
                       ELSE LET first == CHOOSE i \in failed : \A j \in failed : i <= j
                            IN  Answered(route, RoleOf(c), checks[first][2])]
  BY DEF Arrive
<1>2. RoleOf(c) \in Everyone
  BY RolesAreKnown
<1>3. CASE req' = [req EXCEPT ![r] = Answered(route, RoleOf(c), "unparsed")]
  <2>1. Accounted(route, "unparsed") /\ ~(StatusOf["unparsed"] < 300)
    BY StatusTable DEF Accounted
  <2>2. Expected(Answered(route, RoleOf(c), "unparsed"))
    BY <1>2, <2>1, AccountedIsExpected
  <2>3. Answered(route, RoleOf(c), "unparsed").at = "answered"
    BY DEF Answered
  <2> QED
    BY <1>3, <2>2, <2>3, OneMoves
<1>4. ASSUME NEW csrf, NEW valid, NEW checks, NEW failed,
             checks = Checks(route, RoleOf(c), csrf, valid),
             failed = {i \in DOMAIN checks : ~checks[i][1]},
             req' = [req EXCEPT ![r] =
                     IF failed = {}
                       THEN [at |-> "handling", route |-> route, role |-> RoleOf(c), by |-> c]
                       ELSE Answered(route, RoleOf(c),
                              checks[CHOOSE i \in failed : \A j \in failed : i <= j][2])]
      PROVE  AnswersInv'
  <2>1. DOMAIN checks = 1..7 /\ (checks[5][1] <=> Permits(Guards[route], RoleOf(c)))
    <3>1. checks[5] = <<Permits(Guards[route], RoleOf(c)), "forbidden">>
      BY <1>4 DEF Checks
    <3>2. DOMAIN checks = 1..7
      <4>1. PICK c1, c2, c3, c4, c5, c6, c7 : checks = <<c1, c2, c3, c4, c5, c6, c7>>
        BY <1>4, Zenon DEF Checks
      <4> QED
        BY <4>1
    <3> QED
      BY <3>1, <3>2
  <2>2. CASE failed = {}
    <3> DEFINE new == [at |-> "handling", route |-> route, role |-> RoleOf(c), by |-> c]
    <3>1. Permits(Guards[route], RoleOf(c))
      BY <1>4, <2>1, <2>2
    <3>2. OnItsWay(new) /\ new.at # "answered"
      BY <1>2, <3>1 DEF OnItsWay, Pending
    <3>3. req' = [req EXCEPT ![r] = new]
      BY <1>4, <2>2
    <3> QED
      BY <3>2, <3>3, OneMoves
  <2>3. CASE failed # {}
    <3>1. failed \subseteq 1..7
      BY <1>4, <2>1
    <3>2. \E i \in failed : \A j \in failed : i <= j
      <4>1. failed \subseteq Nat
        BY <3>1
      <4> QED
        BY <2>3, <4>1, LeastNumber
    <3>3. PICK i \in failed : i = CHOOSE k \in failed : \A j \in failed : k <= j
      BY <3>2
    <3>4. i \in 1..7 /\ ~checks[i][1]
      BY <1>4, <3>1
    <3>5. Accounted(route, checks[i][2]) /\ ~(StatusOf[checks[i][2]] < 300)
      BY <1>2, <1>4, <3>4, ChecksAreAccountedFor
    <3> DEFINE new == Answered(route, RoleOf(c), checks[i][2])
    <3>6. Expected(new)
      BY <1>2, <3>5, AccountedIsExpected
    <3>7. new.at = "answered" /\ req' = [req EXCEPT ![r] = new]
      BY <1>4, <2>3, <3>3 DEF Answered
    <3> QED
      BY <3>6, <3>7, OneMoves
  <2> QED
    BY <2>2, <2>3
<1> QED
  BY <1>1, <1>3, <1>4

(* A handler comes to one of its outcomes, or hands a sign-in on.          *)
LEMMA HandlersAreExpected ==
  ASSUME AnswersInv, NEW r \in Request, Handle(r)
  PROVE  AnswersInv'
<1>1. PICK q : q = req[r]
  OBVIOUS
<1>2. q # None /\ q.at = "handling" /\ OnItsWay(q)
  BY <1>1 DEF Handle, Busy, AnswersInv
<1>3. q \in Pending /\ Permits(Guards[q.route], q.role)
  BY <1>2 DEF OnItsWay
<1>4. PICK outcome \in Outcomes(q.role, q.by \in active)[q.route] \cup {"failure"} :
        req' = [req EXCEPT ![r] =
                IF outcome = "ok" /\ SignsIn(r) THEN [q EXCEPT !.at = "issuing"]
                ELSE Answered(q.route, q.role, outcome)]
  BY <1>1 DEF Handle
<1>5. CASE outcome = "ok" /\ SignsIn(r)
  <2> DEFINE new == [q EXCEPT !.at = "issuing"]
  <2>1. new \in Pending /\ new.at = "issuing" /\ new.route = q.route /\ new.role = q.role
    BY <1>3 DEF Pending
  <2>2. q.route \in {"login", "refresh"}
    BY <1>1, <1>5 DEF SignsIn
  <2> HIDE DEF new
  <2>3. OnItsWay(new) /\ new.at # "answered"
    BY <1>3, <2>1, <2>2 DEF OnItsWay
  <2>4. req' = [req EXCEPT ![r] = new]
    BY <1>4, <1>5 DEF new
  <2> QED
    BY <2>3, <2>4, OneMoves
<1>6. CASE ~(outcome = "ok" /\ SignsIn(r))
  <2> DEFINE new == Answered(q.route, q.role, outcome)
  <2>1. q.route \in Route /\ q.role \in Everyone
    BY <1>3 DEF Pending
  <2>2. Accounted(q.route, outcome)
    BY <2>1, HandlersAreAccountedFor
  <2>3. Expected(new)
    BY <1>3, <2>1, <2>2, AccountedIsExpected
  <2>4. new.at = "answered" /\ req' = [req EXCEPT ![r] = new]
    BY <1>4, <1>6 DEF Answered
  <2> QED
    BY <2>3, <2>4, OneMoves
<1> QED
  BY <1>5, <1>6

(* A sign-in that hands out its token answers what it announces.           *)
LEMMA SignInsAreExpected ==
  ASSUME AnswersInv, NEW r \in Request, Issue(r)
  PROVE  AnswersInv'
<1>1. PICK q : q = req[r]
  OBVIOUS
<1>2. q \in Pending /\ Permits(Guards[q.route], q.role) /\ q.route \in {"login", "refresh"}
  BY <1>1 DEF Issue, Busy, AnswersInv, OnItsWay
<1>3. q.route \in Route /\ q.role \in Everyone
  BY <1>2 DEF Pending
<1>4. Documented["login"] = {200, 401, 429} /\ Documented["refresh"] = {200, 401, 403}
  BY DocumentedTable DEF Part, SessionDocs
<1>5. Accounted(q.route, "ok")
  BY <1>2, <1>4, StatusTable DEF Accounted
<1> DEFINE new == Answered(q.route, q.role, "ok")
<1>6. Expected(new)
  BY <1>2, <1>3, <1>5, AccountedIsExpected
<1>7. new.at = "answered" /\ req' = [req EXCEPT ![r] = new]
  BY <1>1 DEF Issue, Answered
<1> QED
  BY <1>6, <1>7, OneMoves

(* AnswersInv is inductive.                                                *)
LEMMA StepsAreExpected == AnswersInv /\ [Next]_vars => AnswersInv'
<1> SUFFICES ASSUME AnswersInv, [Next]_vars
             PROVE  AnswersInv'
  OBVIOUS
<1>1. ASSUME NEW r \in Request, Leave(r)
      PROVE  AnswersInv'
  <2>1. req' = [req EXCEPT ![r] = None]
    BY <1>1 DEF Leave
  <2> QED
    BY <2>1, OneMoves
<1>2. CASE Restart
  BY <1>2 DEF Restart, AnswersInv
<1>3. CASE UNCHANGED req
  BY <1>3 DEF AnswersInv, Expected, OnItsWay, Inevitable
<1>4. ASSUME NEW e \in Employee, Expire(e) \/ RemoveEmployee(e) PROVE UNCHANGED req
  BY <1>4 DEF Expire, RemoveEmployee
<1>5. ASSUME NEW l \in Limiter, NewWindow(l) PROVE UNCHANGED req
  BY <1>5 DEF NewWindow
<1> QED
  BY <1>1, <1>2, <1>3, <1>4, <1>5, ArrivalsAreExpected, HandlersAreExpected, SignInsAreExpected DEF Next, vars

(* Every answer of the API is announced, a known gap or a 500 with a cause *)
(* of its own, and what is reserved for administrators succeeds for them   *)
(* alone: for all routes, roles, bodies and outcomes.                      *)
THEOREM AnswersAreAccountedFor == Spec => []AnswersAreExpected
<1>1. Init => AnswersInv
  BY DEF Init, AnswersInv
<1>2. AnswersInv => AnswersAreExpected
  BY DEF AnswersInv, AnswersAreExpected, Busy
<1> QED
  BY <1>1, <1>2, StepsAreExpected, PTL DEF Spec

-----------------------------------------------------------------------------
(* Who is locked out.                                                      *)

(* A removed account without a token and without a sign-in past its check. *)
LockedOut(e) ==
  /\ e \notin active /\ token[e] # "good"
  /\ \A r \in Busy : ~(req[r].at = "issuing" /\ req[r].by = e)

(* Each employee has the token of its own client.                          *)
TokensInv == token \in [Employee -> {"none", "good", "expired"}]

(* No step gives a client anything else.                                   *)
LEMMA StepsKeepTokens == TokensInv /\ [Next]_vars => TokensInv'
BY DEF TokensInv, Next, vars, Arrive, Handle, Issue, Leave, Expire, RemoveEmployee, NewWindow, Restart

(* A handler hands on a sign-in only of an account that is active.         *)
LEMMA HandlersLetNobodyIn ==
  ASSUME AnswersInv, NEW r \in Request, Handle(r), NEW e \in Employee, LockedOut(e)
  PROVE  LockedOut(e)'
<1>1. PICK q : q = req[r]
  OBVIOUS
<1>2. PICK outcome :
        /\ outcome = "ok" /\ SignsIn(r) => q.by \in active
        /\ req' = [req EXCEPT ![r] =
             IF outcome = "ok" /\ SignsIn(r) THEN [q EXCEPT !.at = "issuing"]
             ELSE Answered(q.route, q.role, outcome)]
  BY <1>1 DEF Handle
<1>3. q \in Pending /\ DOMAIN req = Request
  BY <1>1 DEF Handle, Busy, AnswersInv, OnItsWay
<1>4. UNCHANGED <<active, token>>
  BY DEF Handle
<1>5. ~(req'[r].at = "issuing" /\ req'[r].by = e)
  <2>1. CASE outcome = "ok" /\ SignsIn(r)
    <3>1. q.by \in active /\ q.by # e
      BY <1>2, <2>1 DEF LockedOut
    <3>2. req'[r] = [q EXCEPT !.at = "issuing"]
      BY <1>2, <1>3, <2>1
    <3>3. req'[r].by = q.by
      BY <1>3, <3>2 DEF Pending
    <3> QED
      BY <3>1, <3>3
  <2>2. CASE ~(outcome = "ok" /\ SignsIn(r))
    <3>1. req'[r] = Answered(q.route, q.role, outcome)
      BY <1>2, <1>3, <2>2
    <3> QED
      BY <3>1 DEF Answered
  <2> QED
    BY <2>1, <2>2
<1>6. \A p \in Request \ {r} : req'[p] = req[p]
  BY <1>2, <1>3
<1> QED
  BY <1>4, <1>5, <1>6 DEF LockedOut, Busy

(* A token goes to the account whose sign-in hands it out.                 *)
LEMMA SignInsAreOnesOwn ==
  ASSUME AnswersInv, TokensInv, NEW r \in Request, Issue(r), NEW e \in Employee, LockedOut(e)
  PROVE  LockedOut(e)'
<1>1. PICK q : q = req[r]
  OBVIOUS
<1>2. q.by # e
  BY <1>1 DEF Issue, LockedOut
<1>3. token'[e] = token[e]
  BY <1>1, <1>2 DEF Issue, TokensInv
<1>4. DOMAIN req = Request /\ req' = [req EXCEPT ![r] = Answered(q.route, q.role, "ok")]
  BY <1>1 DEF Issue, AnswersInv
<1>5. req'[r].at # "issuing" /\ \A p \in Request \ {r} : req'[p] = req[p]
  BY <1>4 DEF Answered
<1> QED
  BY <1>3, <1>5 DEF Issue, LockedOut, Busy

(* A request that arrives hands out nothing yet.                           *)
LEMMA ArrivalsLetNobodyIn ==
  ASSUME AnswersInv, NEW r \in Request, Arrive(r), NEW e \in Employee, LockedOut(e)
  PROVE  LockedOut(e)'
<1>1. DOMAIN req = Request
  BY DEF AnswersInv
<1>2. req'[r].at # "issuing" /\ \A p \in Request \ {r} : req'[p] = req[p]
  <2>1. PICK route \in Route, c \in Caller :
         \/ req' = [req EXCEPT ![r] = Answered(route, RoleOf(c), "unparsed")]
         \/ \E csrf \in Csrf(route), valid \in Bodies(route) :
              LET checks == Checks(route, RoleOf(c), csrf, valid)
                  failed == {i \in DOMAIN checks : ~checks[i][1]}
              IN  req' = [req EXCEPT ![r] =
                       IF failed = {}
                         THEN [at |-> "handling", route |-> route, role |-> RoleOf(c), by |-> c]
                         ELSE LET first == CHOOSE i \in failed : \A j \in failed : i <= j
                              IN  Answered(route, RoleOf(c), checks[first][2])]
    BY DEF Arrive
  <2>2. CASE req' = [req EXCEPT ![r] = Answered(route, RoleOf(c), "unparsed")]
    BY <1>1, <2>2 DEF Answered
  <2>3. ASSUME NEW outcome, NEW passed \in BOOLEAN,
               req' = [req EXCEPT ![r] =
                 IF passed
                   THEN [at |-> "handling", route |-> route, role |-> RoleOf(c), by |-> c]
                   ELSE Answered(route, RoleOf(c), outcome)]
        PROVE  req'[r].at # "issuing" /\ \A p \in Request \ {r} : req'[p] = req[p]
    BY <1>1, <2>3 DEF Answered
  <2> QED
    BY <2>1, <2>2, <2>3
<1> QED
  BY <1>2 DEF Arrive, LockedOut, Busy

(* authenticate asks the token alone, so a removal does not end a session; *)
(* but once the last token of a removed employee has expired, and no       *)
(* sign-in that was checked before the removal is still to be answered,    *)
(* nothing that is sent, however it is mixed with the rest, gets another.  *)
THEOREM LockedOutForGood == Spec => [][\A e \in Employee : LockedOut(e) => LockedOut(e)']_vars
<1>1. Init => AnswersInv /\ TokensInv
  BY DEF Init, AnswersInv, TokensInv
<1>2. ASSUME AnswersInv, TokensInv, Next
      PROVE  \A e \in Employee : LockedOut(e) => LockedOut(e)'
  <2> SUFFICES ASSUME NEW e \in Employee, LockedOut(e)
               PROVE  LockedOut(e)'
    OBVIOUS
  <2>1. ASSUME NEW r \in Request, Leave(r)
        PROVE  LockedOut(e)'
    <3>1. DOMAIN req = Request /\ \A p \in Request \ {r} : req'[p] = req[p]
      BY <1>2, <2>1 DEF AnswersInv, Leave
    <3>2. req'[r] = None
      BY <1>2, <2>1 DEF AnswersInv, Leave
    <3> QED
      BY <2>1, <3>1, <3>2 DEF Leave, LockedOut, Busy
  <2>2. ASSUME NEW d \in Employee, Expire(d) \/ RemoveEmployee(d)
        PROVE  LockedOut(e)'
    <3>1. e \notin active' /\ UNCHANGED req
      BY <2>2 DEF Expire, RemoveEmployee, LockedOut
    <3>2. token'[e] # "good"
      BY <1>2, <2>2 DEF Expire, RemoveEmployee, LockedOut, TokensInv
    <3> QED
      BY <3>1, <3>2 DEF LockedOut, Busy
  <2>3. ASSUME NEW l \in Limiter, NewWindow(l)
        PROVE  LockedOut(e)'
    BY <2>3 DEF NewWindow, LockedOut, Busy
  <2>4. CASE Restart
    BY <2>4 DEF Restart, LockedOut, Busy
  <2> QED
    BY <1>2, <2>1, <2>2, <2>3, <2>4, ArrivalsLetNobodyIn, HandlersLetNobodyIn, SignInsAreOnesOwn
    DEF Next
<1> QED
  BY <1>1, <1>2, StepsAreExpected, StepsKeepTokens, PTL DEF Spec
=============================================================================
