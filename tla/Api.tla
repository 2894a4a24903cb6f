--------------------------------- MODULE Api ---------------------------------
(***************************************************************************)
(* The REST interface without its state: which checks stand before each    *)
(* handler (routes/, middlewares/), what each handler can come to          *)
(* (controllers/ and the services they call), what errorHandler makes of   *)
(* it, and which answers docs/openapi.ts announces.  A route is named for  *)
(* the controller method behind it.                                        *)
(***************************************************************************)
EXTENDS Naturals, Sequences

(* Two tables side by side.                                                *)
f ++ g == [x \in DOMAIN f \cup DOMAIN g |-> IF x \in DOMAIN f THEN f[x] ELSE g[x]]

Role == {"ADMIN", "EMPLOYEE"}
Everyone == Role \cup {"VISITOR"}
Admins == {"ADMIN"}

(* The middleware of a route: its rate limiter, the CSRF check, the roles  *)
(* that pass authenticate and authorize, the body schema, whether the      *)
(* handler parses the query.                                               *)
Guard(limiter, csrf, roles, body) ==
  [limiter |-> limiter, csrf |-> csrf, roles |-> roles, body |-> body]

Behind(roles) == Guard("none", FALSE, roles, FALSE)
Validated(roles) == Guard("none", FALSE, roles, TRUE)

AuthGuards ==
  [register |-> Guard("auth", FALSE, Everyone, TRUE),
   login |-> Guard("login", FALSE, Everyone, TRUE),
   refresh |-> Guard("none", TRUE, Everyone, FALSE),
   logout |-> Guard("none", TRUE, Everyone, FALSE),
   forgotPassword |-> Guard("auth", FALSE, Everyone, TRUE),
   resetPassword |-> Guard("auth", FALSE, Everyone, TRUE),
   me |-> Behind(Role)]

EmployeeGuards ==
  [listEmployees |-> Behind(Admins), createEmployee |-> Validated(Admins),
   getEmployee |-> Behind(Admins), updateEmployee |-> Validated(Admins),
   removeEmployee |-> Behind(Admins)]

TaskGuards ==
  [listTasks |-> Behind(Role), getTask |-> Behind(Role),
   createTask |-> Validated(Admins), updateTask |-> Validated(Role),
   removeTask |-> Behind(Admins), listFiles |-> Behind(Role), upload |-> Behind(Role)]

AttachmentGuards == [download |-> Behind(Role), removeFile |-> Behind(Role)]

NotificationGuards ==
  [listNotifications |-> Behind(Role), markAllAsRead |-> Behind(Role), markAsRead |-> Behind(Role)]

DashboardGuards ==
  [adminDashboard |-> Behind(Admins), employeeDashboard |-> Behind({"EMPLOYEE"})]

ReportGuards ==
  [completedTasks |-> Behind(Admins), pendingTasks |-> Behind(Admins),
   employeeWise |-> Behind(Admins), exportReport |-> Behind(Admins)]

(* routes/index.ts; health answers by itself.                              *)
Guards ==
  [health |-> Behind(Everyone)] ++ AuthGuards ++ EmployeeGuards ++ TaskGuards
    ++ AttachmentGuards ++ NotificationGuards ++ DashboardGuards ++ ReportGuards

Route == DOMAIN Guards

-----------------------------------------------------------------------------

(* What the handlers come to: a success, an error they throw, or one that  *)
(* the database throws at them.  An employee profile is found only while   *)
(* it is not deleted.                                                      *)
OnlyIf(condition, outcomes) == IF condition THEN outcomes ELSE {}

AuthOutcomes ==
  [register |-> {"created", "conflict", "P2002"}, login |-> {"ok", "unauthorized"},
   refresh |-> {"ok", "unauthorized"}, logout |-> {"ok"}, forgotPassword |-> {"ok"},
   resetPassword |-> {"ok", "badRequest"}, me |-> {"ok"}]

EmployeeOutcomes ==
  [listEmployees |-> {"ok", "zod"}, getEmployee |-> {"ok", "notFound"},
   createEmployee |-> {"created", "conflict", "P2002"},
   updateEmployee |-> {"ok", "notFound", "conflict", "P2002"},
   removeEmployee |-> {"ok", "notFound"}]

TaskOutcomes(role, profile) ==
  LET scoped == OnlyIf(role = "EMPLOYEE", {"forbidden"})
      own == OnlyIf(role = "ADMIN" \/ profile, {"ok"})
  IN  [listTasks |-> {"zod"} \cup own \cup OnlyIf(role = "EMPLOYEE" /\ ~profile, {"forbidden"}),
       getTask |-> {"notFound"} \cup own \cup scoped,
       createTask |-> {"created", "badRequest"},
       updateTask |-> {"notFound"} \cup scoped
         \cup OnlyIf(role = "ADMIN" \/ profile, {"ok", "unprocessable", "badRequest", "P2025"}),
       removeTask |-> {"ok", "notFound", "P2025"}]

(* P2003 is the foreign key of a task deleted since the access check.      *)
FileOutcomes(role, profile) ==
  LET scoped == OnlyIf(role = "EMPLOYEE", {"forbidden"})
      mine == role = "ADMIN" \/ profile
  IN  [listFiles |-> {"notFound"} \cup scoped \cup OnlyIf(mine, {"ok"}),
       upload |-> {"badRequest", "fileTooLarge", "multer", "notFound"} \cup scoped
         \cup OnlyIf(mine, {"created", "P2003"}),
       download |-> {"notFound"} \cup scoped \cup OnlyIf(mine, {"ok", "noSuchFile"}),
       removeFile |-> {"ok", "notFound", "P2025"} \cup scoped]

NotificationOutcomes ==
  [listNotifications |-> {"ok", "zod"}, markAllAsRead |-> {"ok"}, markAsRead |-> {"ok"}]

DashboardOutcomes(profile) ==
  [adminDashboard |-> {"ok"},
   employeeDashboard |-> OnlyIf(profile, {"ok"}) \cup OnlyIf(~profile, {"forbidden"})]

ReportOutcomes ==
  [completedTasks |-> {"ok"}, pendingTasks |-> {"ok"}, employeeWise |-> {"ok"},
   exportReport |-> {"ok", "zod", "notFound"}]

Outcomes(role, profile) ==
  [health |-> {"ok"}] ++ AuthOutcomes ++ EmployeeOutcomes ++ TaskOutcomes(role, profile)
    ++ FileOutcomes(role, profile) ++ NotificationOutcomes ++ DashboardOutcomes(profile)
    ++ ReportOutcomes

(* AppError's constructors.                                                *)
AppErrorStatus ==
  [badRequest |-> 400, unauthorized |-> 401, forbidden |-> 403, notFound |-> 404,
   conflict |-> 409, unprocessable |-> 422]

(* sendSuccess, sendError and errorHandler: it knows zod, multer, two      *)
(* codes of Prisma and AppError; the rest, a body that express.json could  *)
(* not parse included, is a 500.                                           *)
StatusOf ==
  [ok |-> 200, created |-> 201, limited |-> 429, zod |-> 422, fileTooLarge |-> 413, multer |-> 400,
   P2002 |-> 409, P2025 |-> 404, P2003 |-> 500, unparsed |-> 500, noSuchFile |-> 500,
   failure |-> 500] ++ AppErrorStatus

-----------------------------------------------------------------------------

(* docs/openapi.ts: the answers announced, and the routes it reserves for  *)
(* administrators in so many words.                                        *)
SessionDocs ==
  [register |-> {201, 409, 422}, login |-> {200, 401, 429},
   refresh |-> {200, 401, 403}, logout |-> {200, 403}]

RecoveryDocs == [forgotPassword |-> {200}, resetPassword |-> {200, 400, 422}, me |-> {200, 401}]

EmployeeDocs ==
  [listEmployees |-> {200, 401, 403}, createEmployee |-> {201, 409}, getEmployee |-> {200, 404},
   updateEmployee |-> {200, 404, 409}, removeEmployee |-> {200, 404}]

TaskDocs ==
  [listTasks |-> {200}, createTask |-> {201, 403, 422}, getTask |-> {200, 403, 404},
   updateTask |-> {200, 403, 422}, removeTask |-> {200, 403, 404}]

AttachmentDocs ==
  [listFiles |-> {200, 403}, upload |-> {201, 400, 403, 413},
   download |-> {200, 403, 404}, removeFile |-> {200, 403, 404}]

NotificationDocs ==
  [listNotifications |-> {200}, markAsRead |-> {200}, markAllAsRead |-> {200}]

DashboardDocs == [adminDashboard |-> {200, 403}, employeeDashboard |-> {200, 403}]

ReportDocs ==
  [completedTasks |-> {200, 403}, pendingTasks |-> {200, 403}, employeeWise |-> {200, 403},
   exportReport |-> {200, 403, 404, 422}]

Documented ==
  [health |-> {200}] ++ SessionDocs ++ RecoveryDocs ++ EmployeeDocs ++ TaskDocs
    ++ AttachmentDocs ++ NotificationDocs ++ DashboardDocs ++ ReportDocs

AdminOnly ==
  DOMAIN EmployeeDocs \cup DOMAIN ReportDocs \cup {"createTask", "removeTask", "adminDashboard"}

(* What the documentation leaves out: what any route may answer (401 and   *)
(* 403 where a token is asked for, 422 where something is parsed, 429 of   *)
(* the limiters), and the rest one by one.                                 *)
Unannounced(route) ==
  {429}
    \cup OnlyIf("VISITOR" \notin Guards[route].roles, {401, 403})
    \cup OnlyIf(Guards[route].body \/ route \in {"listEmployees", "listTasks", "listNotifications"}, {422})
    \cup OnlyIf(route = "createTask", {400})
    \cup OnlyIf(route = "updateTask", {400, 404})
    \cup OnlyIf(route \in {"listFiles", "upload"}, {404})
=============================================================================
