---------------------------- MODULE ScreensProofs ----------------------------
(***************************************************************************)
(* Theorems about Screens, for any tour and any bounds.  They rest on what *)
(* the tables of queries, mutations, pages and guards have in common,      *)
(* which comes first.                                                      *)
(***************************************************************************)
EXTENDS Screens, TLAPS

-----------------------------------------------------------------------------
(* The tables.                                                             *)

(* Each endpoint is the one its own api file defines.                      *)
LEMMA QueryTable ==
  /\ Query = {"listTasks", "getTask", "listEmployees", "allEmployees", "getEmployee",
              "listNotifications", "listTaskFiles", "getAdminDashboard", "getEmployeeDashboard",
              "getCompletedTasksReport", "getPendingTasksReport", "getEmployeeWiseReport"}
  /\ Queries["listTasks"] = TaskQueries["listTasks"]
  /\ Queries["getTask"] = TaskQueries["getTask"]
  /\ Queries["listEmployees"] = EmployeeQueries["listEmployees"]
  /\ Queries["allEmployees"] = EmployeeQueries["allEmployees"]
  /\ Queries["getEmployee"] = EmployeeQueries["getEmployee"]
  /\ Queries["listNotifications"] = NotificationQueries["listNotifications"]
  /\ Queries["listTaskFiles"] = FileQueries["listTaskFiles"]
  /\ Queries["getAdminDashboard"] = DashboardQueries["getAdminDashboard"]
  /\ Queries["getEmployeeDashboard"] = DashboardQueries["getEmployeeDashboard"]
  /\ Queries["getCompletedTasksReport"] = ReportQueries["getCompletedTasksReport"]
  /\ Queries["getPendingTasksReport"] = ReportQueries["getPendingTasksReport"]
  /\ Queries["getEmployeeWiseReport"] = ReportQueries["getEmployeeWiseReport"]
<1> DEFINE a == TaskQueries
           b == EmployeeQueries
           c == NotificationQueries
           d == FileQueries
           e == DashboardQueries
           f == ReportQueries
<1>1. /\ DOMAIN a = {"listTasks", "getTask"}
      /\ DOMAIN b = {"listEmployees", "allEmployees", "getEmployee"}
      /\ DOMAIN c = {"listNotifications"}
      /\ DOMAIN d = {"listTaskFiles"}
      /\ DOMAIN e = {"getAdminDashboard", "getEmployeeDashboard"}
      /\ DOMAIN f = {"getCompletedTasksReport", "getPendingTasksReport", "getEmployeeWiseReport"}
  BY DEF TaskQueries, EmployeeQueries, NotificationQueries, FileQueries, DashboardQueries, ReportQueries
<1>2. Queries = a ++ b ++ c ++ d ++ e ++ f
  BY DEF Queries
<1> HIDE DEF a, b, c, d, e, f
<1>3. Query = DOMAIN a \cup DOMAIN b \cup DOMAIN c \cup DOMAIN d \cup DOMAIN e \cup DOMAIN f
  BY <1>2 DEF ++, Query
<1>4. \A x \in Query : Queries[x] = IF x \in DOMAIN a THEN a[x] ELSE IF x \in DOMAIN b THEN b[x]
        ELSE IF x \in DOMAIN c THEN c[x] ELSE IF x \in DOMAIN d THEN d[x]
        ELSE IF x \in DOMAIN e THEN e[x] ELSE f[x]
  BY <1>2, <1>3 DEF ++
<1>5. Query = {"listTasks", "getTask", "listEmployees", "allEmployees", "getEmployee",
               "listNotifications", "listTaskFiles", "getAdminDashboard", "getEmployeeDashboard",
               "getCompletedTasksReport", "getPendingTasksReport", "getEmployeeWiseReport"}
  BY <1>1, <1>3
<1> QED
  BY <1>1, <1>4, <1>5 DEF a, b, c, d, e, f

(* So is each mutation.                                                    *)
LEMMA MutationTable ==
  /\ Mutation = DOMAIN TaskMutations \cup DOMAIN EmployeeMutations \cup DOMAIN NotificationMutations
                  \cup DOMAIN FileMutations
  /\ \A m \in DOMAIN TaskMutations : Mutations[m] = TaskMutations[m]
  /\ \A m \in DOMAIN EmployeeMutations : Mutations[m] = EmployeeMutations[m]
  /\ \A m \in DOMAIN NotificationMutations : Mutations[m] = NotificationMutations[m]
  /\ \A m \in DOMAIN FileMutations : Mutations[m] = FileMutations[m]
<1> DEFINE a == TaskMutations
           b == EmployeeMutations
           c == NotificationMutations
           d == FileMutations
<1>1. /\ DOMAIN a = {"createTask", "updateTask", "changeStatus", "deleteTask"}
      /\ DOMAIN b = {"createEmployee", "updateEmployee", "deleteEmployee"}
      /\ DOMAIN c = {"markNotificationAsRead", "markAllNotificationsAsRead"}
      /\ DOMAIN d = {"uploadTaskFile", "deleteTaskFile"}
  BY DEF TaskMutations, EmployeeMutations, NotificationMutations, FileMutations
<1>2. Mutations = a ++ b ++ c ++ d
  BY DEF Mutations
<1> HIDE DEF a, b, c, d
<1>3. Mutation = DOMAIN a \cup DOMAIN b \cup DOMAIN c \cup DOMAIN d
  BY <1>2 DEF ++, Mutation
<1>4. \A x \in Mutation : Mutations[x] = IF x \in DOMAIN a THEN a[x] ELSE IF x \in DOMAIN b THEN b[x]
                                         ELSE IF x \in DOMAIN c THEN c[x] ELSE d[x]
  BY <1>2, <1>3 DEF ++
<1>5. /\ \A m \in DOMAIN a : Mutations[m] = a[m]
      /\ \A m \in DOMAIN b : Mutations[m] = b[m]
      /\ \A m \in DOMAIN c : Mutations[m] = c[m]
      /\ \A m \in DOMAIN d : Mutations[m] = d[m]
  BY <1>1, <1>3, <1>4
<1> QED
  BY <1>3, <1>5 DEF a, b, c, d

(* The roles the routes let through that the pages ask.                    *)
LEMMA RouteRoles ==
  /\ \A r \in {"listEmployees", "createEmployee", "getEmployee", "updateEmployee", "removeEmployee",
               "createTask", "removeTask", "adminDashboard", "completedTasks", "pendingTasks",
               "employeeWise"} : "ADMIN" \in Guards[r].roles
  /\ \A r \in {"listTasks", "getTask", "updateTask", "listFiles", "upload", "removeFile",
               "listNotifications", "markAllAsRead", "markAsRead"} : Role \subseteq Guards[r].roles
  /\ "EMPLOYEE" \in Guards["employeeDashboard"].roles
<1> DEFINE z == [health |-> Behind(Everyone)]
           a == AuthGuards
           b == EmployeeGuards
           c == TaskGuards
           d == AttachmentGuards
           e == NotificationGuards
           f == DashboardGuards
           g == ReportGuards
<1>1. /\ DOMAIN z = {"health"}
      /\ DOMAIN a = {"register", "login", "refresh", "logout", "forgotPassword", "resetPassword", "me"}
      /\ DOMAIN b = {"listEmployees", "createEmployee", "getEmployee", "updateEmployee", "removeEmployee"}
      /\ DOMAIN c = {"listTasks", "getTask", "createTask", "updateTask", "removeTask", "listFiles", "upload"}
      /\ DOMAIN d = {"download", "removeFile"}
      /\ DOMAIN e = {"listNotifications", "markAllAsRead", "markAsRead"}
      /\ DOMAIN f = {"adminDashboard", "employeeDashboard"}
      /\ DOMAIN g = {"completedTasks", "pendingTasks", "employeeWise", "exportReport"}
  BY DEF AuthGuards, EmployeeGuards, TaskGuards, AttachmentGuards, NotificationGuards, DashboardGuards,
         ReportGuards
<1>2. Guards = z ++ a ++ b ++ c ++ d ++ e ++ f ++ g
  BY DEF Guards
<1> HIDE DEF z, a, b, c, d, e, f, g
<1>3. DOMAIN Guards = DOMAIN z \cup DOMAIN a \cup DOMAIN b \cup DOMAIN c \cup DOMAIN d \cup DOMAIN e
                        \cup DOMAIN f \cup DOMAIN g
  BY <1>2 DEF ++
<1>4. \A x \in DOMAIN Guards :
        Guards[x] = IF x \in DOMAIN z THEN z[x] ELSE IF x \in DOMAIN a THEN a[x]
                    ELSE IF x \in DOMAIN b THEN b[x] ELSE IF x \in DOMAIN c THEN c[x]
                    ELSE IF x \in DOMAIN d THEN d[x] ELSE IF x \in DOMAIN e THEN e[x]
                    ELSE IF x \in DOMAIN f THEN f[x] ELSE g[x]
  BY <1>2, <1>3 DEF ++
<1>5. /\ \A x \in DOMAIN b : Guards[x] = b[x]
      /\ \A x \in DOMAIN c : Guards[x] = c[x]
      /\ \A x \in DOMAIN d : Guards[x] = d[x]
      /\ \A x \in DOMAIN e : Guards[x] = e[x]
      /\ \A x \in DOMAIN f : Guards[x] = f[x]
      /\ \A x \in DOMAIN g : Guards[x] = g[x]
  BY <1>1, <1>3, <1>4
<1>6. \A x \in DOMAIN b \cup {"createTask", "removeTask"} : "ADMIN" \in Guards[x].roles
  BY <1>1, <1>5 DEF b, c, EmployeeGuards, TaskGuards, Guard, Behind, Validated, Admins
<1>7. \A x \in DOMAIN c \ {"createTask", "removeTask"} : Guards[x].roles = Role
  BY <1>1, <1>5 DEF c, TaskGuards, Guard, Behind, Validated
<1>8. \A x \in DOMAIN d \cup DOMAIN e : Guards[x].roles = Role
  BY <1>1, <1>5 DEF d, e, AttachmentGuards, NotificationGuards, Guard, Behind
<1>9. \A x \in DOMAIN g \cup {"adminDashboard"} : "ADMIN" \in Guards[x].roles
  BY <1>1, <1>5 DEF f, g, DashboardGuards, ReportGuards, Guard, Behind, Admins
<1>10. "EMPLOYEE" \in Guards["employeeDashboard"].roles
  BY <1>1, <1>5 DEF f, DashboardGuards, Guard, Behind
<1> QED
  BY <1>1, <1>6, <1>7, <1>8, <1>9, <1>10

(* Each fact has a tag.                                                    *)
TagOf == [task |-> "Task", tasks |-> "TaskList", employee |-> "Employee",
          employees |-> "EmployeeList", notifications |-> "NotificationList", files |-> "TaskFiles"]

(* Whatever a mutation changes, the queries that follow it are invalidated, *)
(* and a push finds the list of the notifications.                         *)
LEMMA TagsReach ==
  /\ \A m \in Mutation, q \in Query :
       Mutations[m].changes \cap Queries[q].follows # {} => Mutations[m].tags \cap Queries[q].tags # {}
  /\ "listNotifications" \in Query /\ "NotificationList" \in Queries["listNotifications"].tags
<1>1. ASSUME NEW q \in Query
      PROVE  \A fact \in Queries[q].follows : TagOf[fact] \in Queries[q].tags
  BY QueryTable DEF Ask, TaskQueries, EmployeeQueries, NotificationQueries, FileQueries,
                    DashboardQueries, ReportQueries, TagOf
<1>2. ASSUME NEW m \in Mutation
      PROVE  \A fact \in Mutations[m].changes : TagOf[fact] \in Mutations[m].tags
  BY MutationTable DEF Write, TaskMutations, EmployeeMutations, NotificationMutations, FileMutations, TagOf
<1>3. "listNotifications" \in Query /\ "NotificationList" \in Queries["listNotifications"].tags
  BY QueryTable DEF NotificationQueries, Ask
<1> QED
  BY <1>1, <1>2, <1>3

(* Each page is that of its own route.                                     *)
LEMMA PageTable ==
  /\ DOMAIN AdminPages = {"employees", "employeeNew", "employeeEdit", "taskNew", "taskEdit",
                          "completedReport", "pendingReport", "employeeReport"}
  /\ AdminPages["employees"] = EmployeeListPage
  /\ \A p \in DOMAIN EmployeeFormPage : AdminPages[p] = EmployeeFormPage[p]
  /\ \A p \in DOMAIN TaskFormPage : AdminPages[p] = TaskFormPage[p]
  /\ \A p \in DOMAIN ReportsPage : AdminPages[p] = ReportsPage[p]
  /\ Page = {"dashboard", "tasks", "attachments", "notifications"} \cup DOMAIN AdminPages
  /\ \A role \in Role : /\ \A p \in DOMAIN AdminPages : Pages(role)[p] = AdminPages[p]
                        /\ Pages(role)["dashboard"] = DashboardPage(role)
                        /\ Pages(role)["tasks"] = TaskListPage(role)
                        /\ Pages(role)["attachments"] = TaskListWithDialog(role)
                        /\ Pages(role)["notifications"] = NotificationCenterPage
<1> DEFINE a == [employees |-> EmployeeListPage]
           b == EmployeeFormPage
           c == TaskFormPage
           d == ReportsPage
<1>1. /\ DOMAIN a = {"employees"} /\ a["employees"] = EmployeeListPage
      /\ DOMAIN b = {"employeeNew", "employeeEdit"}
      /\ DOMAIN c = {"taskNew", "taskEdit"}
      /\ DOMAIN d = {"completedReport", "pendingReport", "employeeReport"}
  BY DEF EmployeeFormPage, TaskFormPage, ReportsPage
<1>2. AdminPages = a ++ b ++ c ++ d
  BY DEF AdminPages
<1> HIDE DEF a, b, c, d
<1>3. DOMAIN AdminPages = DOMAIN a \cup DOMAIN b \cup DOMAIN c \cup DOMAIN d
  BY <1>2 DEF ++
<1>4. \A x \in DOMAIN AdminPages : AdminPages[x] =
        IF x \in DOMAIN a THEN a[x] ELSE IF x \in DOMAIN b THEN b[x]
        ELSE IF x \in DOMAIN c THEN c[x] ELSE d[x]
  BY <1>2, <1>3 DEF ++
<1>5. /\ AdminPages["employees"] = a["employees"]
      /\ \A p \in DOMAIN b : AdminPages[p] = b[p]
      /\ \A p \in DOMAIN c : AdminPages[p] = c[p]
      /\ \A p \in DOMAIN d : AdminPages[p] = d[p]
  BY <1>1, <1>3, <1>4
<1>6. DOMAIN AdminPages = {"employees", "employeeNew", "employeeEdit", "taskNew", "taskEdit",
                           "completedReport", "pendingReport", "employeeReport"}
  BY <1>1, <1>3
<1>7. ASSUME NEW role, NEW open, open = OpenPages(role), NEW t, t = open ++ AdminPages
      PROVE  /\ DOMAIN t = {"dashboard", "tasks", "attachments", "notifications"} \cup DOMAIN AdminPages
             /\ \A p \in DOMAIN AdminPages : t[p] = AdminPages[p]
             /\ t["dashboard"] = DashboardPage(role) /\ t["tasks"] = TaskListPage(role)
             /\ t["attachments"] = TaskListWithDialog(role)
             /\ t["notifications"] = NotificationCenterPage
  <2>1. DOMAIN open = {"dashboard", "tasks", "attachments", "notifications"}
    BY <1>7 DEF OpenPages
  <2>2. DOMAIN t = DOMAIN open \cup DOMAIN AdminPages
    BY <1>7 DEF ++
  <2>3. \A p \in DOMAIN t : t[p] = IF p \in DOMAIN open THEN open[p] ELSE AdminPages[p]
    BY <1>7, <2>2 DEF ++
  <2>4. \A p \in DOMAIN AdminPages : t[p] = AdminPages[p]
    BY <1>6, <2>1, <2>2, <2>3
  <2>5. \A p \in DOMAIN open : t[p] = open[p]
    BY <2>2, <2>3
  <2>6. /\ open["dashboard"] = DashboardPage(role) /\ open["tasks"] = TaskListPage(role)
        /\ open["attachments"] = TaskListWithDialog(role)
        /\ open["notifications"] = NotificationCenterPage
    BY <1>7 DEF OpenPages
  <2> QED
    BY <2>1, <2>2, <2>4, <2>5, <2>6
<1>8. \A role : Pages(role) = OpenPages(role) ++ AdminPages
  BY DEF Pages
<1>9. Page = {"dashboard", "tasks", "attachments", "notifications"} \cup DOMAIN AdminPages
  BY <1>7, <1>8 DEF Page
<1>10. ASSUME NEW role \in Role
       PROVE  /\ \A p \in DOMAIN AdminPages : Pages(role)[p] = AdminPages[p]
              /\ Pages(role)["dashboard"] = DashboardPage(role)
              /\ Pages(role)["tasks"] = TaskListPage(role)
              /\ Pages(role)["attachments"] = TaskListWithDialog(role)
              /\ Pages(role)["notifications"] = NotificationCenterPage
  BY <1>7, <1>8
<1> QED
  BY <1>1, <1>5, <1>6, <1>9, <1>10 DEF b, c, d

(* There is always a page to go to, and an edit form has a query to fill it. *)
LEMMA PagesAreThere ==
  /\ "dashboard" \in Page /\ \A role \in Role : MayOpen("dashboard", role)
  /\ \A m \in DOMAIN LeadsTo : LeadsTo[m] \in Page
  /\ \A p \in DOMAIN EditForm : EditForm[p] \in Query
<1>1. "dashboard" \in Page /\ "dashboard" \notin DOMAIN AdminPages /\ {"tasks", "employees"} \subseteq Page
  BY PageTable
<1>2. \A m \in DOMAIN LeadsTo : LeadsTo[m] \in {"tasks", "employees"}
  BY DEF LeadsTo
<1>3. \A p \in DOMAIN EditForm : EditForm[p] \in Query
  BY QueryTable DEF EditForm
<1> QED
  BY <1>1, <1>2, <1>3 DEF MayOpen

(* A page asks and sends nothing its reader may not.                       *)
LEMMA PagesArePermitted ==
  \A role \in Role : \A p \in {p \in Page : MayOpen(p, role)} :
    /\ \A q \in Shown(p, role) : role \in Guards[Queries[q].route].roles
    /\ \A m \in Pages(role)[p].does : role \in Guards[Mutations[m].route].roles
<1> SUFFICES ASSUME NEW role \in Role, NEW p \in Page, MayOpen(p, role)
             PROVE  /\ \A q \in Shown(p, role) : role \in Guards[Queries[q].route].roles
                    /\ \A m \in Pages(role)[p].does : role \in Guards[Mutations[m].route].roles
  OBVIOUS
<1>1. role # None /\ role \in {"ADMIN", "EMPLOYEE"}
  BY NoneAssumption DEF Role
<1>2. Shown(p, role) = Pages(role)[p].asks \cup {"listNotifications"}
  BY <1>1 DEF Shown, NotificationBell, View
<1>3. /\ Queries["listTasks"].route = "listTasks" /\ Queries["getTask"].route = "getTask"
      /\ Queries["listEmployees"].route = "listEmployees"
      /\ Queries["allEmployees"].route = "listEmployees"
      /\ Queries["getEmployee"].route = "getEmployee"
      /\ Queries["listNotifications"].route = "listNotifications"
      /\ Queries["listTaskFiles"].route = "listFiles"
      /\ Queries["getAdminDashboard"].route = "adminDashboard"
      /\ Queries["getEmployeeDashboard"].route = "employeeDashboard"
      /\ Queries["getCompletedTasksReport"].route = "completedTasks"
      /\ Queries["getPendingTasksReport"].route = "pendingTasks"
      /\ Queries["getEmployeeWiseReport"].route = "employeeWise"
  BY QueryTable DEF Ask, TaskQueries, EmployeeQueries, NotificationQueries, FileQueries,
                    DashboardQueries, ReportQueries
<1>4. /\ Mutations["createTask"].route = "createTask" /\ Mutations["updateTask"].route = "updateTask"
      /\ Mutations["changeStatus"].route = "updateTask" /\ Mutations["deleteTask"].route = "removeTask"
      /\ Mutations["createEmployee"].route = "createEmployee"
      /\ Mutations["updateEmployee"].route = "updateEmployee"
      /\ Mutations["deleteEmployee"].route = "removeEmployee"
      /\ Mutations["markNotificationAsRead"].route = "markAsRead"
      /\ Mutations["markAllNotificationsAsRead"].route = "markAllAsRead"
      /\ Mutations["uploadTaskFile"].route = "upload" /\ Mutations["deleteTaskFile"].route = "removeFile"
  BY MutationTable DEF Write, TaskMutations, EmployeeMutations, NotificationMutations, FileMutations
<1>5. CASE p \in DOMAIN AdminPages
  <2>1. role = "ADMIN" /\ Pages(role)[p] = AdminPages[p]
    BY <1>5, PageTable DEF MayOpen
  <2>2. /\ AdminPages[p].asks \subseteq {"listEmployees", "getEmployee", "allEmployees", "getTask",
              "getCompletedTasksReport", "getPendingTasksReport", "getEmployeeWiseReport"}
        /\ AdminPages[p].does \subseteq
             {"deleteEmployee", "createEmployee", "updateEmployee", "createTask", "updateTask"}
    BY <1>5, PageTable DEF EmployeeListPage, EmployeeFormPage, TaskFormPage, TaskForm, ReportsPage, View
  <2>3. "ADMIN" \in Role
    BY DEF Role
  <2>4. \A q \in Shown(p, role) : role \in Guards[Queries[q].route].roles
    BY <1>2, <1>3, <2>1, <2>2, <2>3, RouteRoles
  <2>5. \A m \in Pages(role)[p].does : role \in Guards[Mutations[m].route].roles
    BY <1>4, <2>1, <2>2, <2>3, RouteRoles
  <2> QED
    BY <2>4, <2>5
<1>6. CASE p \notin DOMAIN AdminPages
  <2>1. /\ Pages(role)[p].asks \subseteq {"listTasks", "listTaskFiles", "listNotifications",
              IF role = "ADMIN" THEN "getAdminDashboard" ELSE "getEmployeeDashboard"}
        /\ Pages(role)[p].does \subseteq {"uploadTaskFile", "deleteTaskFile", "markNotificationAsRead",
              "markAllNotificationsAsRead", IF role = "ADMIN" THEN "deleteTask" ELSE "changeStatus"}
    <3>1. p \in {"dashboard", "tasks", "attachments", "notifications"}
      BY <1>6, PageTable
    <3>2. CASE p = "dashboard"
      <4>1. Pages(role)[p] = DashboardPage(role)
        BY <3>2, PageTable
      <4> QED
        BY <4>1 DEF DashboardPage, View
    <3>3. CASE p = "tasks"
      <4>1. Pages(role)[p] = TaskListPage(role)
        BY <3>3, PageTable
      <4> QED
        BY <4>1 DEF TaskListPage, View
    <3>4. CASE p = "attachments"
      <4>1. Pages(role)[p] = TaskListWithDialog(role)
        BY <3>4, PageTable
      <4> QED
        BY <4>1 DEF TaskListWithDialog, TaskListPage, TaskAttachmentsDialog, View
    <3>5. CASE p = "notifications"
      BY <3>5, PageTable DEF NotificationCenterPage, View
    <3> QED
      BY <3>1, <3>2, <3>3, <3>4, <3>5
  <2>2. \A q \in Shown(p, role) : role \in Guards[Queries[q].route].roles
    BY <1>1, <1>2, <1>3, <2>1, RouteRoles
  <2>3. \A m \in Pages(role)[p].does : role \in Guards[Mutations[m].route].roles
    BY <1>1, <1>4, <2>1, RouteRoles
  <2> QED
    BY <2>2, <2>3
<1> QED
  BY <1>5, <1>6

-----------------------------------------------------------------------------
(* The invariant.                                                          *)

Lacks == (SUBSET Cause) \cup {None}

CacheEntry == [data: Lacks, fetch: Lacks, failed: BOOLEAN]

Cache == [Query -> CacheEntry]

(* A user is on a page that is open to the user.                           *)
ScreensTypeOK ==
  /\ cache \in Cache
  /\ sent \subseteq Mutation /\ applied \subseteq Mutation
  /\ pushed \in BOOLEAN
  /\ form \in [base: Lacks, hasty: BOOLEAN] \cup {None}
  /\ IF user = None THEN page = "login" ELSE user \in Role /\ page \in Page /\ MayOpen(page, user)

(* What an entry lacks will be asked for: its tags are due, or will be     *)
(* with the answer of a mutation that is done, or with a push.             *)
WillAsk(q, cause, tags, done, push) ==
  \/ tags \cap Queries[q].tags # {}
  \/ cause = "own" /\ \E m \in done : Mutations[m].tags \cap Queries[q].tags # {}
  \/ cause = "row" /\ push /\ "NotificationList" \in Queries[q].tags

AllWillAsk(queries, cause, tags, done, push) ==
  \A q \in Query : q \in queries => WillAsk(q, cause, tags, done, push)

(* An entry that lacks something is being fetched, or could not be, or     *)
(* will be asked for; a fetch that does will be asked for again.           *)
CatchesUp(c, tags, done, push) ==
  \A q \in Query : \A cause \in Cause :
    /\ c[q].fetch # None /\ cause \in c[q].fetch => WillAsk(q, cause, tags, done, push)
    /\ c[q].data # None /\ cause \in c[q].data =>
         c[q].failed \/ c[q].fetch # None \/ WillAsk(q, cause, tags, done, push)

(* Invalidations wait only for something.                                  *)
Waits(c, tags, writing) == tags # {} => Pending(c) # {} \/ writing # {}

(* A form that was opened in quiet and still waits for its values waits    *)
(* for values with every write of this tab.                                *)
FormWaits ==
  (form # None /\ form.base = None /\ ~form.hasty) =>
    /\ sent \cup applied = {}
    /\ \A q \in Query : cache[q].fetch # None => "own" \notin cache[q].fetch

ScreensInv ==
  /\ ScreensTypeOK
  /\ CatchesUp(cache, due, applied, pushed)
  /\ Waits(cache, due, sent \cup applied)
  /\ FormWaits
  /\ FormsAreCurrent
-----------------------------------------------------------------------------
(* What the operations on the cache do to it.                              *)

(* None is not a set of causes.                                            *)
LEMMA NoneIsNoSet ==
  /\ None \notin SUBSET Cause
  /\ {} \in Lacks /\ {} # None /\ Absent \in CacheEntry
  /\ Absent.data = None /\ Absent.fetch = None
<1>1. None \notin SUBSET Cause
  BY NoneAssumption
<1>2. {} \in SUBSET Cause
  OBVIOUS
<1> QED
  BY <1>1, <1>2 DEF Lacks, Absent, CacheEntry

(* An entry of such fields is an entry.                                    *)
LEMMA EntriesAreBuilt ==
  ASSUME NEW data \in Lacks, NEW fetch \in Lacks, NEW failed \in BOOLEAN
  PROVE  [data |-> data, fetch |-> fetch, failed |-> failed] \in CacheEntry
BY DEF CacheEntry

(* A page that is opened asks only for what it shows.                      *)
LEMMA OpeningCatchesUp ==
  ASSUME NEW c \in Cache, NEW queries, NEW tags, NEW done, NEW push, NEW writing,
         CatchesUp(c, tags, done, push), Waits(c, tags, writing)
  PROVE  /\ Opened(c, queries) \in Cache
         /\ CatchesUp(Opened(c, queries), tags, done, push)
         /\ Waits(Opened(c, queries), tags, writing)
         /\ \A q \in Query : \/ Opened(c, queries)[q] = c[q]
                             \/ /\ q \in queries /\ c[q].fetch = None
                                /\ Opened(c, queries)[q].fetch = {}
<1> DEFINE new == Opened(c, queries)
<1>1. \A q \in Query : c[q] \in CacheEntry
  BY DEF Cache
<1>2. \A q \in Query :
        /\ new[q] \in CacheEntry
        /\ \/ new[q] = c[q]
           \/ /\ q \in queries /\ c[q].data = None /\ c[q].fetch = None
              /\ new[q].data = None /\ new[q].fetch = {}
  BY <1>1, NoneIsNoSet DEF Opened, CacheEntry
<1>3. new \in Cache
  BY <1>2 DEF Cache, Opened
<1>4. CatchesUp(new, tags, done, push)
  BY <1>2 DEF CatchesUp
<1>5. \A q \in Query : c[q].fetch # None => new[q].fetch # None
  BY <1>2
<1>6. Waits(new, tags, writing)
  BY <1>5 DEF Waits, Pending
<1> QED
  BY <1>2, <1>3, <1>4, <1>6

(* What is invalidated is asked for again, or dropped.                     *)
LEMMA RefetchingCatchesUp ==
  ASSUME NEW c \in Cache, NEW tags, NEW done, NEW push,
         Pending(c) = {}, done = {}, CatchesUp(c, tags, done, push)
  PROVE  /\ Refetched(c, tags) \in Cache
         /\ CatchesUp(Refetched(c, tags), {}, done, push)
         /\ \A q \in Query : Refetched(c, tags)[q].fetch # None =>
              q \in Shown(page, user) /\ Refetched(c, tags)[q].fetch = {}
<1> DEFINE new == Refetched(c, tags)
<1>1. \A q \in Query : c[q] \in CacheEntry /\ c[q].fetch = None
  BY DEF Cache, Pending
<1>2. \A q \in Query :
        \/ TagsOf(c, q) \cap tags = {} /\ new[q] = c[q]
        \/ q \in Shown(page, user) /\ new[q] = [c[q] EXCEPT !.fetch = {}]
        \/ new[q] = Absent
  BY <1>1 DEF Refetched
<1>3. \A q \in Query :
        /\ new[q] \in CacheEntry
        /\ new[q].fetch # None => q \in Shown(page, user) /\ new[q].fetch = {}
  BY <1>1, <1>2, NoneIsNoSet DEF CacheEntry
<1>4. new \in Cache
  BY <1>3 DEF Cache, Refetched
<1>5. ASSUME NEW q \in Query, NEW cause \in Cause, new[q].data # None, cause \in new[q].data,
             new[q].fetch = None, ~new[q].failed
      PROVE  WillAsk(q, cause, {}, done, push)
  <2>1. TagsOf(c, q) \cap tags = {} /\ new[q] = c[q]
    BY <1>1, <1>2, <1>5, NoneIsNoSet DEF CacheEntry
  <2>2. Queries[q].tags \cap tags = {}
    BY <1>5, <2>1 DEF TagsOf
  <2>3. WillAsk(q, cause, tags, done, push)
    BY <1>5, <2>1 DEF CatchesUp
  <2> QED
    BY <2>2, <2>3 DEF WillAsk
<1>6. CatchesUp(new, {}, done, push)
  BY <1>3, <1>5 DEF CatchesUp
<1> QED
  BY <1>3, <1>4, <1>6

(* An invalidation waits, or takes effect; the cache catches up either     *)
(* way, and only what is on the page is asked for.                         *)
LEMMA SettlingCatchesUp ==
  ASSUME NEW c \in Cache, NEW tags, NEW writing, NEW done \in SUBSET writing, NEW push,
         CatchesUp(c, tags, done, push)
  PROVE  /\ Settle(c, writing, tags).cache \in Cache
         /\ CatchesUp(Settle(c, writing, tags).cache, Settle(c, writing, tags).due, done, push)
         /\ Waits(Settle(c, writing, tags).cache, Settle(c, writing, tags).due, writing)
         /\ \A q \in Query : \/ Settle(c, writing, tags).cache[q].fetch = c[q].fetch
                             \/ Settle(c, writing, tags).cache[q].fetch = None
                             \/ /\ q \in Shown(page, user)
                                /\ Settle(c, writing, tags).cache[q].fetch = {}
<1>1. CASE Pending(c) = {} /\ writing = {}
  <2>1. done = {}
    BY <1>1
  <2>2. Settle(c, writing, tags) = [cache |-> Refetched(c, tags), due |-> {}]
    BY <1>1 DEF Settle
  <2>3. Settle(c, writing, tags).cache = Refetched(c, tags) /\ Settle(c, writing, tags).due = {}
    BY <2>2
  <2>4. Waits(Refetched(c, tags), {}, writing)
    BY DEF Waits
  <2>5. /\ Refetched(c, tags) \in Cache
        /\ CatchesUp(Refetched(c, tags), {}, done, push)
        /\ \A q \in Query : Refetched(c, tags)[q].fetch # None =>
             q \in Shown(page, user) /\ Refetched(c, tags)[q].fetch = {}
    BY <1>1, <2>1, RefetchingCatchesUp
  <2> QED
    BY <2>3, <2>4, <2>5
<1>2. CASE ~(Pending(c) = {} /\ writing = {})
  <2>1. Settle(c, writing, tags) = [cache |-> c, due |-> tags]
    BY <1>2 DEF Settle
  <2>2. Settle(c, writing, tags).cache = c /\ Settle(c, writing, tags).due = tags
    BY <2>1
  <2>3. Waits(c, tags, writing)
    BY <1>2 DEF Waits
  <2> QED
    BY <2>2, <2>3
<1> QED
  BY <1>1, <1>2

(* More reasons to ask.                                                    *)
LEMMA MoreReasons ==
  ASSUME NEW c, NEW tags, NEW done, NEW push, NEW tags2, NEW done2, NEW push2,
         CatchesUp(c, tags, done, push), tags \subseteq tags2, push => push2,
         \A m \in done : m \in done2 \/ Mutations[m].tags \subseteq tags2
  PROVE  CatchesUp(c, tags2, done2, push2)
<1>1. \A q \in Query, cause \in Cause : WillAsk(q, cause, tags, done, push) => WillAsk(q, cause, tags2, done2, push2)
  BY DEF WillAsk
<1> QED
  BY <1>1 DEF CatchesUp
(* What has happened is lacking in the entries that were read before.      *)
LEMMA LackingCatchesUp ==
  ASSUME NEW c \in Cache, NEW what \in Cause, NEW queries, NEW tags, NEW done, NEW push,
         CatchesUp(c, tags, done, push),
         AllWillAsk(queries, what, tags, done, push)
  PROVE  /\ Lacking(c, what, queries) \in Cache
         /\ CatchesUp(Lacking(c, what, queries), tags, done, push)
         /\ Pending(Lacking(c, what, queries)) = Pending(c)
         /\ \A q \in Query : Lacking(c, what, queries)[q].fetch # None =>
              /\ c[q].fetch # None
              /\ Lacking(c, what, queries)[q].fetch \subseteq c[q].fetch \cup {what}
<1> DEFINE new == Lacking(c, what, queries)
<1>1. \A q \in Query : c[q] \in CacheEntry
  BY DEF Cache
<1>2. \A q \in Query :
        \/ new[q] = c[q]
        \/ /\ q \in queries /\ new[q].failed = c[q].failed
           /\ IF c[q].data = None THEN new[q].data = None ELSE new[q].data = c[q].data \cup {what}
           /\ IF c[q].fetch = None THEN new[q].fetch = None ELSE new[q].fetch = c[q].fetch \cup {what}
           /\ new[q] = [data |-> new[q].data, fetch |-> new[q].fetch, failed |-> new[q].failed]
  BY <1>1 DEF Lacking, CacheEntry
<1>8. new = [q \in Query |-> new[q]]
  BY DEF Lacking
<1> HIDE DEF new
<1>3. \A x \in SUBSET Cause : x \cup {what} \in SUBSET Cause /\ x \cup {what} # None
  BY NoneIsNoSet
<1>4. \A q \in Query : new[q] \in CacheEntry
  <2> SUFFICES ASSUME NEW q \in Query
               PROVE  new[q] \in CacheEntry
    OBVIOUS
  <2>1. c[q].data \in Lacks /\ c[q].fetch \in Lacks /\ c[q].failed \in BOOLEAN
    BY <1>1 DEF CacheEntry
  <2>2. CASE new[q] = c[q]
    BY <1>1, <2>2
  <2>3. CASE new[q] # c[q]
    <3>1. new[q].data \in Lacks
      BY <1>2, <1>3, <2>1, <2>3 DEF Lacks
    <3>2. new[q].fetch \in Lacks
      BY <1>2, <1>3, <2>1, <2>3 DEF Lacks
    <3>3. new[q].failed = c[q].failed
      BY <1>2, <2>3
    <3>4. new[q] = [data |-> new[q].data, fetch |-> new[q].fetch, failed |-> c[q].failed]
      BY <1>2, <2>3
    <3> QED
      BY <2>1, <3>1, <3>2, <3>4, EntriesAreBuilt
  <2> QED
    BY <2>2, <2>3
<1>5. new \in Cache
  BY <1>4, <1>8 DEF Cache
<1>6. \A q \in Query : new[q].fetch # None <=> c[q].fetch # None
  <2> SUFFICES ASSUME NEW q \in Query, c[q].fetch # None, new[q].fetch = None
               PROVE  FALSE
    BY <1>2
  <2>1. c[q].fetch \in SUBSET Cause
    BY <1>1 DEF CacheEntry, Lacks
  <2> QED
    BY <1>2, <1>3, <2>1
<1>7. CatchesUp(new, tags, done, push)
  <2> SUFFICES ASSUME NEW q \in Query, NEW cause \in Cause
               PROVE  /\ new[q].fetch # None /\ cause \in new[q].fetch => WillAsk(q, cause, tags, done, push)
                      /\ new[q].data # None /\ cause \in new[q].data =>
                           new[q].failed \/ new[q].fetch # None \/ WillAsk(q, cause, tags, done, push)
    BY DEF CatchesUp
  <2>1. /\ c[q].fetch # None /\ cause \in c[q].fetch => WillAsk(q, cause, tags, done, push)
        /\ c[q].data # None /\ cause \in c[q].data =>
             c[q].failed \/ c[q].fetch # None \/ WillAsk(q, cause, tags, done, push)
    BY DEF CatchesUp
  <2>2. CASE new[q] = c[q]
    BY <2>1, <2>2
  <2>3. CASE new[q] # c[q]
    <3>1. WillAsk(q, what, tags, done, push)
      BY <1>2, <2>3 DEF AllWillAsk
    <3>2. new[q].fetch # None /\ cause \in new[q].fetch => WillAsk(q, cause, tags, done, push)
      <4>1. CASE cause = what
        BY <3>1, <4>1
      <4>2. CASE cause # what
        BY <1>2, <1>6, <2>1, <2>3, <4>2
      <4> QED
        BY <4>1, <4>2
    <3>3. new[q].data # None /\ cause \in new[q].data =>
            new[q].failed \/ new[q].fetch # None \/ WillAsk(q, cause, tags, done, push)
      <4>1. CASE cause = what
        BY <3>1, <4>1
      <4>2. CASE cause # what
        <5>1. new[q].failed = c[q].failed /\ (new[q].fetch # None <=> c[q].fetch # None)
          BY <1>2, <1>6, <2>3
        <5>2. new[q].data # None /\ cause \in new[q].data => c[q].data # None /\ cause \in c[q].data
          BY <1>2, <2>3, <4>2
        <5> QED
          BY <2>1, <5>1, <5>2
      <4> QED
        BY <4>1, <4>2
    <3> QED
      BY <3>2, <3>3
  <2> QED
    BY <2>2, <2>3
<1>9. Pending(new) = Pending(c)
  BY <1>6 DEF Pending
<1> QED
  BY <1>2, <1>5, <1>6, <1>7, <1>9 DEF new

(* Without the rows a push will not come for.                              *)
LEMMA ExcusingCatchesUp ==
  ASSUME NEW c \in Cache, NEW tags, NEW done, NEW push, CatchesUp(c, tags, done, push)
  PROVE  /\ Excused(c) \in Cache
         /\ CatchesUp(Excused(c), tags, done, FALSE)
         /\ Pending(Excused(c)) = Pending(c)
         /\ \A q \in Query : Excused(c)[q].fetch # None =>
              c[q].fetch # None /\ Excused(c)[q].fetch \subseteq c[q].fetch
<1> DEFINE new == Excused(c)
<1>1. \A q \in Query : c[q] \in CacheEntry
  BY DEF Cache
<1>2. \A q \in Query :
        /\ new[q].failed = c[q].failed
        /\ IF c[q].data = None THEN new[q].data = None ELSE new[q].data = c[q].data \ {"row"}
        /\ IF c[q].fetch = None THEN new[q].fetch = None ELSE new[q].fetch = c[q].fetch \ {"row"}
        /\ new[q] = [data |-> new[q].data, fetch |-> new[q].fetch, failed |-> new[q].failed]
  BY <1>1 DEF Excused, CacheEntry
<1>8. new = [q \in Query |-> new[q]]
  BY DEF Excused
<1> HIDE DEF new
<1>3. \A x \in SUBSET Cause : x \ {"row"} \in SUBSET Cause /\ x \ {"row"} # None
  BY NoneIsNoSet
<1>4. \A q \in Query : new[q] \in CacheEntry
  <2> SUFFICES ASSUME NEW q \in Query
               PROVE  new[q] \in CacheEntry
    OBVIOUS
  <2>1. c[q].data \in Lacks /\ c[q].fetch \in Lacks /\ c[q].failed \in BOOLEAN
    BY <1>1 DEF CacheEntry
  <2>2. new[q].data \in Lacks
    BY <1>2, <1>3, <2>1 DEF Lacks
  <2>3. new[q].fetch \in Lacks
    BY <1>2, <1>3, <2>1 DEF Lacks
  <2>4. new[q] = [data |-> new[q].data, fetch |-> new[q].fetch, failed |-> c[q].failed]
    BY <1>2
  <2> QED
    BY <2>1, <2>2, <2>3, <2>4, EntriesAreBuilt
<1>5. new \in Cache
  BY <1>4, <1>8 DEF Cache
<1>6. \A q \in Query : new[q].fetch # None <=> c[q].fetch # None
  <2> SUFFICES ASSUME NEW q \in Query, c[q].fetch # None, new[q].fetch = None
               PROVE  FALSE
    BY <1>2
  <2>1. c[q].fetch \in SUBSET Cause
    BY <1>1 DEF CacheEntry, Lacks
  <2> QED
    BY <1>2, <1>3, <2>1
<1>7. CatchesUp(new, tags, done, FALSE)
  <2> SUFFICES ASSUME NEW q \in Query, NEW cause \in Cause
               PROVE  /\ new[q].fetch # None /\ cause \in new[q].fetch => WillAsk(q, cause, tags, done, FALSE)
                      /\ new[q].data # None /\ cause \in new[q].data =>
                           new[q].failed \/ new[q].fetch # None \/ WillAsk(q, cause, tags, done, FALSE)
    BY DEF CatchesUp
  <2>1. /\ c[q].fetch # None /\ cause \in c[q].fetch => WillAsk(q, cause, tags, done, push)
        /\ c[q].data # None /\ cause \in c[q].data =>
             c[q].failed \/ c[q].fetch # None \/ WillAsk(q, cause, tags, done, push)
    BY DEF CatchesUp
  <2>2. CASE cause = "row"
    BY <1>2, <2>2
  <2>3. CASE cause # "row"
    <3>1. WillAsk(q, cause, tags, done, push) => WillAsk(q, cause, tags, done, FALSE)
      BY <2>3 DEF WillAsk
    <3> QED
      BY <1>2, <1>6, <2>1, <3>1
  <2> QED
    BY <2>2, <2>3
<1>9. Pending(new) = Pending(c)
  BY <1>6 DEF Pending
<1> QED
  BY <1>2, <1>5, <1>6, <1>7, <1>9 DEF new
-----------------------------------------------------------------------------
(* What the steps keep.                                                    *)

(* What a step asks for and sends is allowed (AsksWhatItMay).              *)
AsksAllowed ==
  /\ \A q \in Query : (cache[q].fetch = None /\ cache'[q].fetch # None) =>
       user' \in Guards[Queries[q].route].roles
  /\ \A m \in sent' \ sent : user \in Guards[Mutations[m].route].roles

(* A page open to the user asks for what the user may see.                 *)
LEMMA ShownIsAllowed ==
  ASSUME NEW role \in Role, NEW p \in Page, MayOpen(p, role), NEW q \in Query, q \in Shown(p, role)
  PROVE  role \in Guards[Queries[q].route].roles
BY PagesArePermitted

(* So does the page the user is on.                                        *)
LEMMA PageIsAllowed ==
  ASSUME ScreensTypeOK, NEW q \in Query, q \in Shown(page, user)
  PROVE  user \in Guards[Queries[q].route].roles
<1>1. user # None
  BY DEF Shown
<1>2. user \in Role /\ page \in Page /\ MayOpen(page, user)
  BY <1>1 DEF ScreensTypeOK
<1> QED
  BY <1>2, ShownIsAllowed

(* A user lands on an open page.                                           *)
LEMMA LandingIsOpen ==
  ASSUME user \in Role, NEW p \in Page
  PROVE  Landing(p) \in Page /\ MayOpen(Landing(p), user)
BY PagesAreThere, NoneAssumption DEF Landing

(* A form that is left alone waits on, as long as nothing is sent and no   *)
(* fetch comes to lack a write.                                            *)
LEMMA FormKeepsWaiting ==
  ASSUME FormWaits, FormsAreCurrent, form' = form,
         sent' \cup applied' \subseteq sent \cup applied,
         \A q \in Query : (cache'[q].fetch # None /\ "own" \in cache'[q].fetch) =>
           cache[q].fetch # None /\ "own" \in cache[q].fetch
  PROVE  FormWaits' /\ FormsAreCurrent'
<1>1. FormsAreCurrent'
  BY DEF FormsAreCurrent
<1>2. ASSUME form # None, form.base = None, ~form.hasty
      PROVE  /\ sent' \cup applied' = {}
             /\ \A q \in Query : cache'[q].fetch # None => "own" \notin cache'[q].fetch
  BY <1>2 DEF FormWaits
<1>3. FormWaits'
  BY <1>2 DEF FormWaits
<1> QED
  BY <1>1, <1>3

(* A form that has its values, or is gone, waits for nothing.              *)
LEMMA NoFormWaits ==
  ASSUME FormsAreCurrent, form' \in {form, None}, form # None => form.base # None \/ form.hasty
  PROVE  FormWaits' /\ FormsAreCurrent'
<1>1. form' = None \/ (form' = form /\ form # None)
  OBVIOUS
<1>2. form' = None => FormWaits' /\ FormsAreCurrent'
  BY DEF FormWaits, FormsAreCurrent
<1>3. ASSUME form' = form, form # None
      PROVE  FormWaits' /\ FormsAreCurrent'
  BY <1>3 DEF FormWaits, FormsAreCurrent
<1> QED
  BY <1>1, <1>2, <1>3

-----------------------------------------------------------------------------
(* The steps.                                                              *)

(* A login opens the dashboard.                                            *)
LEMMA LoginStep ==
  ASSUME ScreensInv, NEW role \in Role, Login(role)
  PROVE  ScreensInv' /\ AsksAllowed
<1> DEFINE shown == Shown("dashboard", role)
<1>1. /\ cache \in Cache /\ CatchesUp(cache, due, applied, pushed)
      /\ Waits(cache, due, sent \cup applied)
  BY DEF ScreensInv, ScreensTypeOK
<1>2. cache' = Opened(cache, shown)
  BY DEF Login
<1>3. user' = role /\ page' = "dashboard" /\ UNCHANGED <<sent, applied, due, pushed, form>>
  BY DEF Login
<1>4. "dashboard" \in Page /\ MayOpen("dashboard", role) /\ role # None
  BY PagesAreThere, NoneAssumption
<1> HIDE DEF shown
<1>5. /\ cache' \in Cache
      /\ CatchesUp(cache', due, applied, pushed)
      /\ Waits(cache', due, sent \cup applied)
      /\ \A q \in Query : \/ cache'[q] = cache[q]
                          \/ /\ q \in shown /\ cache[q].fetch = None
                             /\ cache'[q].fetch = {}
  <2> DEFINE new == Opened(cache, shown)
  <2>1. /\ new \in Cache
        /\ CatchesUp(new, due, applied, pushed)
        /\ Waits(new, due, sent \cup applied)
        /\ \A q \in Query : \/ new[q] = cache[q]
                            \/ /\ q \in shown /\ cache[q].fetch = None
                               /\ new[q].fetch = {}
    BY <1>1, OpeningCatchesUp
  <2>2. cache' = new
    BY <1>2
  <2> HIDE DEF new
  <2> QED
    BY <2>1, <2>2
<1>6. ScreensTypeOK'
  BY <1>3, <1>4, <1>5 DEF ScreensInv, ScreensTypeOK, MayOpen
<1>7. FormWaits' /\ FormsAreCurrent'
  BY <1>3, <1>5, FormKeepsWaiting DEF ScreensInv
<1>8. AsksAllowed
  <2>1. \A q \in Query : q \in shown => role \in Guards[Queries[q].route].roles
    BY <1>4, ShownIsAllowed DEF shown
  <2> QED
    BY <1>3, <1>5, <2>1 DEF AsksAllowed
<1> QED
  BY <1>3, <1>5, <1>6, <1>7, <1>8 DEF ScreensInv

(* A logout takes the page and the push away, and asks for nothing.        *)
LEMMA LogoutStep ==
  ASSUME ScreensInv, Logout
  PROVE  ScreensInv' /\ AsksAllowed
<1>1. /\ cache \in Cache /\ CatchesUp(cache, due, applied, pushed)
      /\ Waits(cache, due, sent \cup applied)
  BY DEF ScreensInv, ScreensTypeOK
<1>2. cache' = Excused(cache)
  BY DEF Logout
<1>3. /\ user' = None /\ page' = "login" /\ form' = None /\ pushed' = FALSE
      /\ UNCHANGED <<sent, applied, due>>
  BY DEF Logout
<1>4. /\ cache' \in Cache
      /\ CatchesUp(cache', due, applied, FALSE)
      /\ Pending(cache') = Pending(cache)
      /\ \A q \in Query : cache'[q].fetch # None =>
           cache[q].fetch # None /\ cache'[q].fetch \subseteq cache[q].fetch
  BY <1>1, <1>2, ExcusingCatchesUp
<1>5. Waits(cache', due, sent \cup applied)
  BY <1>1, <1>4 DEF Waits
<1>6. ScreensTypeOK'
  BY <1>3, <1>4 DEF ScreensInv, ScreensTypeOK
<1>7. FormWaits' /\ FormsAreCurrent'
  BY <1>3 DEF FormWaits, FormsAreCurrent
<1>8. AsksAllowed
  BY <1>3, <1>4 DEF AsksAllowed
<1> QED
  BY <1>3, <1>4, <1>5, <1>6, <1>7, <1>8 DEF ScreensInv

(* A visit opens a page; a form opened in quiet is filled from a copy that *)
(* lacks no write, or waits for one.                                       *)
LEMMA VisitStep ==
  ASSUME ScreensInv, NEW p \in Page, Visit(p)
  PROVE  ScreensInv' /\ AsksAllowed
<1> DEFINE to == Landing(p)
<1> DEFINE shown == Shown(to, user)
<1>1. /\ cache \in Cache /\ CatchesUp(cache, due, applied, pushed)
      /\ Waits(cache, due, sent \cup applied) /\ user \in Role
  BY DEF ScreensInv, ScreensTypeOK, Visit
<1>2. cache' = Opened(cache, shown) /\ user # None
  BY DEF Visit
<1>3. page' = to /\ form' = FormOn(to) /\ UNCHANGED <<user, sent, applied, due, pushed>>
  BY DEF Visit
<1>4. to \in Page /\ MayOpen(to, user)
  BY <1>1, LandingIsOpen
<1> HIDE DEF to
<1> HIDE DEF shown
<1>5. /\ cache' \in Cache
      /\ CatchesUp(cache', due, applied, pushed)
      /\ Waits(cache', due, sent \cup applied)
      /\ \A q \in Query : \/ cache'[q] = cache[q]
                          \/ /\ q \in shown /\ cache[q].fetch = None
                             /\ cache'[q].fetch = {}
  <2> DEFINE new == Opened(cache, shown)
  <2>1. /\ new \in Cache
        /\ CatchesUp(new, due, applied, pushed)
        /\ Waits(new, due, sent \cup applied)
        /\ \A q \in Query : \/ new[q] = cache[q]
                            \/ /\ q \in shown /\ cache[q].fetch = None
                               /\ new[q].fetch = {}
    BY <1>1, OpeningCatchesUp
  <2>2. cache' = new
    BY <1>2
  <2> HIDE DEF new
  <2> QED
    BY <2>1, <2>2
<1>6. FormOn(to) \in [base: Lacks, hasty: BOOLEAN] \cup {None}
  <2>1. CASE to \notin DOMAIN EditForm
    BY <2>1 DEF FormOn
  <2>2. CASE to \in DOMAIN EditForm
    <3>1. EditForm[to] \in Query
      BY <2>2, PagesAreThere
    <3>2. cache[EditForm[to]] \in CacheEntry
      BY <1>1, <3>1 DEF Cache
    <3>3. cache[EditForm[to]].data \in Lacks /\ cache[EditForm[to]].failed \in BOOLEAN
      BY <3>2 DEF CacheEntry
    <3> QED
      BY <2>2, <3>3 DEF FormOn
  <2> QED
    BY <2>1, <2>2
<1>7. ScreensTypeOK'
  BY <1>2, <1>3, <1>4, <1>5, <1>6 DEF ScreensInv, ScreensTypeOK, MayOpen
<1>8. ASSUME form' # None, ~form'.hasty
      PROVE  /\ sent' \cup applied' = {}
             /\ \A q \in Query : cache'[q].fetch # None => "own" \notin cache'[q].fetch
             /\ form'.base # None => "own" \notin form'.base
  <2>1. to \in DOMAIN EditForm
    BY <1>3, <1>8 DEF FormOn
  <2>2. form' = [base |-> cache[EditForm[to]].data, hasty |-> ~Quiet \/ cache[EditForm[to]].failed]
    BY <1>3, <2>1 DEF FormOn
  <2>3. Quiet /\ ~cache[EditForm[to]].failed /\ form'.base = cache[EditForm[to]].data
    BY <1>8, <2>2
  <2>4. EditForm[to] \in Query
    BY <2>1, PagesAreThere
  <2>5. sent \cup applied = {} /\ \A q \in Query : cache[q].fetch = None
    BY <2>3 DEF Quiet, Pending
  <2>6. due = {}
    BY <1>1, <2>3 DEF Quiet, Waits
  <2>7. ~WillAsk(EditForm[to], "own", due, applied, pushed)
    BY <2>5, <2>6 DEF WillAsk
  <2>8. form'.base # None => "own" \notin form'.base
    BY <1>1, <2>3, <2>4, <2>5, <2>7 DEF CatchesUp, Cause
  <2> QED
    BY <1>3, <1>5, <2>5, <2>8
<1>9. FormWaits' /\ FormsAreCurrent'
  BY <1>8 DEF FormWaits, FormsAreCurrent
<1>10. AsksAllowed
  <2>1. \A q \in Query : q \in shown => user \in Guards[Queries[q].route].roles
    BY <1>1, <1>4, ShownIsAllowed DEF shown
  <2> QED
    BY <1>3, <1>5, <2>1 DEF AsksAllowed
<1> QED
  BY <1>3, <1>5, <1>7, <1>9, <1>10 DEF ScreensInv

(* A kept entry that expires lacks nothing.                                *)
LEMMA ExpireStep ==
  ASSUME ScreensInv, NEW q \in Query, Expire(q)
  PROVE  ScreensInv' /\ AsksAllowed
<1>1. /\ cache \in Cache /\ CatchesUp(cache, due, applied, pushed)
      /\ Waits(cache, due, sent \cup applied)
  BY DEF ScreensInv, ScreensTypeOK
<1>2. UNCHANGED <<user, page, sent, applied, due, pushed, form>>
  BY DEF Expire
<1>3. cache' = [cache EXCEPT ![q] = Absent] /\ cache[q].fetch = None
  BY DEF Expire
<1>4. cache' \in Cache
  BY <1>1, <1>3, NoneIsNoSet DEF Cache
<1>5. \A p \in Query : cache'[p] = IF p = q THEN Absent ELSE cache[p]
  BY <1>1, <1>3 DEF Cache
<1>6. CatchesUp(cache', due, applied, pushed)
  BY <1>1, <1>5, NoneIsNoSet DEF CatchesUp
<1>7. \A p \in Query : cache'[p].fetch = cache[p].fetch
  BY <1>3, <1>5, NoneIsNoSet
<1>8. Pending(cache') = Pending(cache)
  BY <1>7 DEF Pending
<1>9. Waits(cache', due, sent \cup applied)
  BY <1>1, <1>8 DEF Waits
<1>10. ScreensTypeOK'
  BY <1>2, <1>4 DEF ScreensInv, ScreensTypeOK, MayOpen
<1>11. FormWaits' /\ FormsAreCurrent'
  BY <1>2, <1>7, FormKeepsWaiting DEF ScreensInv
<1>12. AsksAllowed
  BY <1>2, <1>7 DEF AsksAllowed
<1> QED
  BY <1>2, <1>4, <1>6, <1>9, <1>10, <1>11, <1>12 DEF ScreensInv

(* What a fetch brings, or that it brings nothing, is in the cache when    *)
(* the invalidations that waited for it take effect.                       *)
LEMMA FetchEnds ==
  ASSUME ScreensInv, NEW q \in Query, NEW entry \in CacheEntry, entry.fetch = None,
         cache[q].fetch # None,
         entry.data # None /\ ~entry.failed => entry.data \subseteq cache[q].fetch,
         cache' = Settle([cache EXCEPT ![q] = entry], sent \cup applied, due).cache,
         due' = Settle([cache EXCEPT ![q] = entry], sent \cup applied, due).due,
         UNCHANGED <<user, page, sent, applied, pushed>>
  PROVE  /\ cache' \in Cache
         /\ CatchesUp(cache', due', applied', pushed')
         /\ Waits(cache', due', sent' \cup applied')
         /\ AsksAllowed
         /\ \A p \in Query : (cache'[p].fetch # None /\ "own" \in cache'[p].fetch) =>
              cache[p].fetch # None /\ "own" \in cache[p].fetch
<1> DEFINE new == [cache EXCEPT ![q] = entry]
<1>1. ScreensTypeOK /\ cache \in Cache /\ CatchesUp(cache, due, applied, pushed)
  BY DEF ScreensInv, ScreensTypeOK
<1>2. new \in Cache
  BY <1>1 DEF Cache
<1>3. \A p \in Query : new[p] = IF p = q THEN entry ELSE cache[p]
  BY <1>1 DEF Cache
<1>4. cache' = Settle(new, sent \cup applied, due).cache /\ due' = Settle(new, sent \cup applied, due).due
  OBVIOUS
<1> HIDE DEF new
<1>5. CatchesUp(new, due, applied, pushed)
  <2> SUFFICES ASSUME NEW p \in Query, NEW cause \in Cause
               PROVE  /\ new[p].fetch # None /\ cause \in new[p].fetch => WillAsk(p, cause, due, applied, pushed)
                      /\ new[p].data # None /\ cause \in new[p].data =>
                           new[p].failed \/ new[p].fetch # None \/ WillAsk(p, cause, due, applied, pushed)
    BY DEF CatchesUp
  <2>1. /\ cache[p].fetch # None /\ cause \in cache[p].fetch => WillAsk(p, cause, due, applied, pushed)
        /\ cache[p].data # None /\ cause \in cache[p].data =>
             cache[p].failed \/ cache[p].fetch # None \/ WillAsk(p, cause, due, applied, pushed)
    BY <1>1 DEF CatchesUp
  <2>2. CASE p # q
    BY <1>3, <2>1, <2>2
  <2>3. CASE p = q
    BY <1>3, <2>1, <2>3
  <2> QED
    BY <2>2, <2>3
<1>6. applied \in SUBSET (sent \cup applied)
  OBVIOUS
<1> DEFINE after == Settle(new, sent \cup applied, due)
<1>7. /\ after.cache \in Cache
      /\ CatchesUp(after.cache, after.due, applied, pushed)
      /\ Waits(after.cache, after.due, sent \cup applied)
      /\ \A p \in Query : \/ after.cache[p].fetch = new[p].fetch
                          \/ after.cache[p].fetch = None
                          \/ /\ p \in Shown(page, user)
                             /\ after.cache[p].fetch = {}
  BY <1>2, <1>5, <1>6, SettlingCatchesUp
<1>8. cache' = after.cache /\ due' = after.due
  BY <1>4
<1> HIDE DEF after
<1>9. \A p \in Query : new[p].fetch # None => new[p].fetch = cache[p].fetch
  BY <1>3
<1>10. \A p \in Query : \/ cache'[p].fetch = cache[p].fetch
                        \/ cache'[p].fetch = None
                        \/ /\ p \in Shown(page, user)
                           /\ cache'[p].fetch = {}
  BY <1>7, <1>8, <1>9
<1>11. AsksAllowed
  BY <1>1, <1>10, PageIsAllowed DEF AsksAllowed
<1>12. /\ cache' \in Cache
       /\ CatchesUp(cache', due', applied, pushed)
       /\ Waits(cache', due', sent \cup applied)
  BY <1>7, <1>8
<1>13. applied' = applied /\ pushed' = pushed /\ sent' = sent
  OBVIOUS
<1>14. \A p \in Query : (cache'[p].fetch # None /\ "own" \in cache'[p].fetch) =>
              cache[p].fetch # None /\ "own" \in cache[p].fetch
  BY <1>10
<1> QED
  BY <1>11, <1>12, <1>13, <1>14

(* What a form is filled with lacks no write that the fetch does not lack. *)
LEMMA FillingTheForm ==
  ASSUME ScreensInv, NEW q \in Query, NEW data \in SUBSET Cause, cache[q].fetch # None,
         data \subseteq cache[q].fetch \/ data = {},
         form' = Filled(q, data), UNCHANGED <<sent, applied>>,
         \A p \in Query : (cache'[p].fetch # None /\ "own" \in cache'[p].fetch) =>
           cache[p].fetch # None /\ "own" \in cache[p].fetch
  PROVE  /\ form' \in [base: Lacks, hasty: BOOLEAN] \cup {None}
         /\ FormWaits' /\ FormsAreCurrent'
<1>1. form \in [base: Lacks, hasty: BOOLEAN] \cup {None} /\ FormWaits /\ FormsAreCurrent
  BY DEF ScreensInv, ScreensTypeOK
<1>2. data \in Lacks /\ data # None
  BY NoneIsNoSet DEF Lacks
<1>3. CASE form' = form
  BY <1>1, <1>3, FormKeepsWaiting
<1>4. CASE form' # form
  <2>1. form # None /\ form.base = None /\ form' = [form EXCEPT !.base = data]
    BY <1>4 DEF Filled
  <2>2. form \in [base: Lacks, hasty: BOOLEAN]
    BY <1>1, <2>1
  <2>3. /\ form' \in [base: Lacks, hasty: BOOLEAN]
        /\ form'.base = data /\ form'.hasty = form.hasty
    BY <1>2, <2>1, <2>2
  <2>4. "own" \in data => form.hasty
    BY <1>1, <2>1 DEF FormWaits
  <2>5. FormWaits'
    BY <1>2, <2>3 DEF FormWaits
  <2>6. FormsAreCurrent'
    BY <2>3, <2>4 DEF FormsAreCurrent
  <2> QED
    BY <2>3, <2>5, <2>6
<1> QED
  BY <1>3, <1>4

(* An answer lacks no more than its fetch.                                 *)
LEMMA AnswerStep ==
  ASSUME ScreensInv, NEW q \in Query, Answer(q)
  PROVE  ScreensInv' /\ AsksAllowed
<1>1. cache \in Cache /\ cache[q].fetch # None /\ UNCHANGED <<user, page, sent, applied, pushed>>
  BY DEF Answer, ScreensInv, ScreensTypeOK
<1>2. cache[q].fetch \in SUBSET Cause
  BY <1>1 DEF Cache, CacheEntry, Lacks
<1>3. PICK lacks \in SUBSET cache[q].fetch :
        /\ cache' = Settle([cache EXCEPT ![q] = [Absent EXCEPT !.data = lacks]], sent \cup applied, due).cache
        /\ due' = Settle([cache EXCEPT ![q] = [Absent EXCEPT !.data = lacks]], sent \cup applied, due).due
        /\ form' = Filled(q, lacks)
  BY DEF Answer
<1> DEFINE entry == [Absent EXCEPT !.data = lacks]
<1>4. lacks \in SUBSET Cause
  BY <1>2
<1>5. entry.data = lacks /\ entry.fetch = None /\ entry.failed = FALSE
  BY DEF Absent
<1>6. entry \in CacheEntry /\ entry.fetch = None /\ entry.data = lacks
  <2>1. lacks \in Lacks
    BY <1>4 DEF Lacks
  <2> QED
    BY <1>5, <2>1, NoneIsNoSet DEF CacheEntry
<1>7. /\ cache' = Settle([cache EXCEPT ![q] = entry], sent \cup applied, due).cache
      /\ due' = Settle([cache EXCEPT ![q] = entry], sent \cup applied, due).due
  BY <1>3
<1> HIDE DEF entry
<1>8. /\ cache' \in Cache
      /\ CatchesUp(cache', due', applied', pushed')
      /\ Waits(cache', due', sent' \cup applied')
      /\ AsksAllowed
      /\ \A p \in Query : (cache'[p].fetch # None /\ "own" \in cache'[p].fetch) =>
           cache[p].fetch # None /\ "own" \in cache[p].fetch
  BY <1>1, <1>3, <1>6, <1>7, FetchEnds
<1>9. /\ form' \in [base: Lacks, hasty: BOOLEAN] \cup {None}
      /\ FormWaits' /\ FormsAreCurrent'
  BY <1>1, <1>3, <1>4, <1>8, FillingTheForm
<1>10. ScreensTypeOK'
  BY <1>1, <1>8, <1>9 DEF ScreensInv, ScreensTypeOK, MayOpen
<1> QED
  BY <1>8, <1>9, <1>10 DEF ScreensInv

(* A fetch that fails leaves an entry that is marked so.                   *)
LEMMA FailStep ==
  ASSUME ScreensInv, NEW q \in Query, Fail(q)
  PROVE  ScreensInv' /\ AsksAllowed
<1>1. /\ cache \in Cache /\ cache[q].fetch # None
      /\ UNCHANGED <<user, page, sent, applied, pushed>> /\ form' = Filled(q, {})
  BY DEF Fail, ScreensInv, ScreensTypeOK
<1> DEFINE entry == [cache[q] EXCEPT !.fetch = None, !.failed = TRUE]
<1>2. [cache EXCEPT ![q].fetch = None, ![q].failed = TRUE] = [cache EXCEPT ![q] = entry]
  BY <1>1 DEF Cache
<1>3. entry \in CacheEntry /\ entry.fetch = None /\ entry.failed
  BY <1>1 DEF Cache, CacheEntry, Lacks
<1>4. /\ cache' = Settle([cache EXCEPT ![q] = entry], sent \cup applied, due).cache
      /\ due' = Settle([cache EXCEPT ![q] = entry], sent \cup applied, due).due
  BY <1>2 DEF Fail
<1> HIDE DEF entry
<1>5. /\ cache' \in Cache
      /\ CatchesUp(cache', due', applied', pushed')
      /\ Waits(cache', due', sent' \cup applied')
      /\ AsksAllowed
      /\ \A p \in Query : (cache'[p].fetch # None /\ "own" \in cache'[p].fetch) =>
           cache[p].fetch # None /\ "own" \in cache[p].fetch
  BY <1>1, <1>3, <1>4, FetchEnds
<1>6. {} \in SUBSET Cause
  OBVIOUS
<1>7. /\ form' \in [base: Lacks, hasty: BOOLEAN] \cup {None}
      /\ FormWaits' /\ FormsAreCurrent'
  BY <1>1, <1>5, <1>6, FillingTheForm
<1>8. ScreensTypeOK'
  BY <1>1, <1>5, <1>7 DEF ScreensInv, ScreensTypeOK, MayOpen
<1> QED
  BY <1>5, <1>7, <1>8 DEF ScreensInv

(* A page sends what its user may send.                                    *)
LEMMA SendStep ==
  ASSUME ScreensInv, NEW m \in Mutation, Send(m)
  PROVE  ScreensInv' /\ AsksAllowed
<1>1. /\ user # None /\ m \in Pages(user)[page].does /\ sent' = sent \cup {m}
      /\ form # None => form.base # None
      /\ UNCHANGED <<user, page, cache, applied, due, pushed, form>>
  BY DEF Send
<1>2. user \in Role /\ page \in Page /\ MayOpen(page, user)
  BY <1>1 DEF ScreensInv, ScreensTypeOK
<1>3. user \in Guards[Mutations[m].route].roles
  BY <1>1, <1>2, PagesArePermitted
<1>4. AsksAllowed
  BY <1>1, <1>3 DEF AsksAllowed
<1>5. ScreensTypeOK'
  BY <1>1 DEF ScreensInv, ScreensTypeOK, MayOpen
<1>6. FormWaits' /\ FormsAreCurrent'
  BY <1>1, NoFormWaits DEF ScreensInv
<1>7. Waits(cache, due, sent' \cup applied')
  BY <1>1 DEF ScreensInv, Waits
<1>8. CatchesUp(cache, due, applied, pushed)
  BY DEF ScreensInv
<1>9. Waits(cache', due', sent' \cup applied')
  BY <1>1, <1>7
<1> QED
  BY <1>1, <1>4, <1>5, <1>6, <1>8, <1>9 DEF ScreensInv

(* What a mutation has changed will be asked for when it is answered.      *)
LEMMA ApplyStep ==
  ASSUME ScreensInv, NEW m \in Mutation, Apply(m)
  PROVE  ScreensInv' /\ AsksAllowed
<1> DEFINE followers == {q \in Query : Queries[q].follows \cap Mutations[m].changes # {}}
<1>1. /\ m \in sent /\ sent' = sent \ {m} /\ applied' = applied \cup {m}
      /\ cache' = Lacking(cache, "own", followers)
      /\ UNCHANGED <<user, page, due, pushed, form>>
  BY DEF Apply
<1>2. PICK done : done = applied \cup {m}
  OBVIOUS
<1>3. cache \in Cache /\ CatchesUp(cache, due, applied, pushed)
  BY DEF ScreensInv, ScreensTypeOK
<1>4. CatchesUp(cache, due, done, pushed)
  BY <1>2, <1>3, MoreReasons
<1>5. PICK what \in Cause : what = "own"
  BY DEF Cause
<1>6. AllWillAsk(followers, what, due, done, pushed)
  BY <1>2, <1>5, TagsReach DEF AllWillAsk, WillAsk
<1> HIDE DEF followers
<1> DEFINE new == Lacking(cache, what, followers)
<1>7. /\ new \in Cache /\ CatchesUp(new, due, done, pushed)
      /\ \A q \in Query : new[q].fetch # None => cache[q].fetch # None
  BY <1>3, <1>4, <1>6, LackingCatchesUp
<1>8. cache' = new
  BY <1>1, <1>5
<1> HIDE DEF new
<1>9. cache' \in Cache /\ CatchesUp(cache', due', applied', pushed')
  BY <1>1, <1>2, <1>7, <1>8
<1>10. Waits(cache', due', sent' \cup applied')
  BY <1>1 DEF Waits
<1>11. form # None => form.base # None \/ form.hasty
  BY <1>1 DEF ScreensInv, FormWaits
<1>12. FormWaits' /\ FormsAreCurrent'
  BY <1>1, <1>11, NoFormWaits DEF ScreensInv
<1>13. ScreensTypeOK'
  BY <1>1, <1>9 DEF ScreensInv, ScreensTypeOK, MayOpen
<1>14. AsksAllowed
  BY <1>1, <1>7, <1>8 DEF AsksAllowed
<1> QED
  BY <1>9, <1>10, <1>12, <1>13, <1>14 DEF ScreensInv

(* The answer of a mutation makes its tags due, and may open another page. *)
LEMMA FinishStep ==
  ASSUME ScreensInv, NEW m \in Mutation, Finish(m)
  PROVE  ScreensInv' /\ AsksAllowed
<1> DEFINE tags == due \cup Mutations[m].tags
<1>1. /\ m \in sent \cup applied /\ sent' = sent \ {m} /\ applied' = applied \ {m}
      /\ UNCHANGED <<user, pushed>>
  BY DEF Finish
<1>2. PICK ok \in BOOLEAN :
        LET settled == Settle(cache, sent' \cup applied', tags)
            next == IF ok /\ m \in DOMAIN LeadsTo THEN Landing(LeadsTo[m]) ELSE page
        IN  /\ cache' = Opened(settled.cache, Shown(next, user))
            /\ due' = settled.due /\ page' = next
            /\ form' = IF next = page THEN form ELSE None
  BY DEF Finish
<1>3. PICK next : next = IF ok /\ m \in DOMAIN LeadsTo THEN Landing(LeadsTo[m]) ELSE page
  OBVIOUS
<1>4. PICK done : done = applied \ {m}
  OBVIOUS
<1>5. PICK writing : writing = (sent \ {m}) \cup done
  OBVIOUS
<1>6. sent' \cup applied' = writing /\ done \in SUBSET writing /\ applied' = done
  BY <1>1, <1>4, <1>5
<1>7. /\ cache' = Opened(Settle(cache, writing, tags).cache, Shown(next, user))
      /\ due' = Settle(cache, writing, tags).due /\ page' = next
      /\ form' \in {form, None}
  BY <1>2, <1>3, <1>6
<1>8. cache \in Cache /\ CatchesUp(cache, due, applied, pushed) /\ ScreensTypeOK
  BY DEF ScreensInv, ScreensTypeOK
<1>9. CatchesUp(cache, tags, done, pushed)
  <2>1. \A x \in applied : x \in done \/ Mutations[x].tags \subseteq tags
    BY <1>4
  <2>2. due \subseteq tags
    OBVIOUS
  <2> HIDE DEF tags
  <2> QED
    BY <1>8, <2>1, <2>2, MoreReasons
<1> HIDE DEF tags
<1> DEFINE settled == Settle(cache, writing, tags)
<1>10. /\ settled.cache \in Cache
       /\ CatchesUp(settled.cache, settled.due, done, pushed)
       /\ Waits(settled.cache, settled.due, writing)
       /\ \A q \in Query : \/ settled.cache[q].fetch = cache[q].fetch
                           \/ settled.cache[q].fetch = None
                           \/ q \in Shown(page, user) /\ settled.cache[q].fetch = {}
  BY <1>6, <1>8, <1>9, SettlingCatchesUp
<1>11. due' = settled.due
  BY <1>7
<1>12. PICK shown : shown = Shown(next, user)
  OBVIOUS
<1>13. PICK between : between = settled.cache
  OBVIOUS
<1>14. cache' = Opened(between, shown)
  BY <1>7, <1>12, <1>13
<1>15. PICK tags2 : tags2 = settled.due
  OBVIOUS
<1> HIDE DEF settled
<1>16. between \in Cache /\ CatchesUp(between, tags2, done, pushed) /\ Waits(between, tags2, writing)
  BY <1>10, <1>13, <1>15
<1> DEFINE new == Opened(between, shown)
<1>17. /\ new \in Cache /\ CatchesUp(new, tags2, done, pushed) /\ Waits(new, tags2, writing)
       /\ \A q \in Query : new[q] = between[q] \/ q \in shown
  BY <1>16, OpeningCatchesUp
<1>18. cache' = new
  BY <1>14
<1> HIDE DEF new
<1>19. /\ cache' \in Cache /\ CatchesUp(cache', due', applied', pushed')
       /\ Waits(cache', due', sent' \cup applied')
  BY <1>1, <1>6, <1>11, <1>15, <1>17, <1>18
<1>20. IF user = None THEN next = "login" ELSE user \in Role /\ next \in Page /\ MayOpen(next, user)
  <2>1. m \in DOMAIN LeadsTo => LeadsTo[m] \in Page
    BY PagesAreThere
  <2>2. CASE user = None
    BY <1>3, <1>8, <2>2 DEF ScreensTypeOK, Landing
  <2>3. CASE user # None
    BY <1>3, <1>8, <2>1, <2>3, LandingIsOpen DEF ScreensTypeOK
  <2> QED
    BY <2>2, <2>3
<1>21. ScreensTypeOK'
  BY <1>1, <1>7, <1>8, <1>19, <1>20 DEF ScreensTypeOK, MayOpen
<1>22. form # None => form.base # None \/ form.hasty
  BY <1>1 DEF ScreensInv, FormWaits
<1>23. FormWaits' /\ FormsAreCurrent'
  BY <1>7, <1>22, NoFormWaits DEF ScreensInv
<1>24. \A q \in Query : q \in shown => user \in Guards[Queries[q].route].roles
  <2>1. CASE user = None
    BY <1>12, <2>1 DEF Shown
  <2>2. CASE user # None
    BY <1>12, <1>20, <2>2, ShownIsAllowed
  <2> QED
    BY <2>1, <2>2
<1>25. \A q \in Query : cache[q].fetch = None /\ cache'[q].fetch # None =>
         q \in Shown(page, user) \/ q \in shown
  BY <1>10, <1>13, <1>17, <1>18
<1>26. AsksAllowed
  BY <1>1, <1>8, <1>24, <1>25, PageIsAllowed DEF AsksAllowed
<1> QED
  BY <1>19, <1>21, <1>23, <1>26 DEF ScreensInv

(* A stored notification will be asked for when it is pushed.              *)
LEMMA StoreStep ==
  ASSUME ScreensInv, Store
  PROVE  ScreensInv' /\ AsksAllowed
<1> DEFINE list == {"listNotifications"}
<1>1. /\ pushed' = TRUE /\ cache' = Lacking(cache, "row", {"listNotifications"})
      /\ UNCHANGED <<user, page, sent, applied, due, form>>
  BY DEF Store
<1>2. cache \in Cache /\ CatchesUp(cache, due, applied, pushed) /\ Waits(cache, due, sent \cup applied)
  BY DEF ScreensInv, ScreensTypeOK
<1>3. CatchesUp(cache, due, applied, TRUE)
  BY <1>2, MoreReasons
<1>4. PICK what \in Cause : what = "row"
  BY DEF Cause
<1>5. AllWillAsk(list, what, due, applied, TRUE)
  BY <1>4, TagsReach DEF AllWillAsk, WillAsk
<1> HIDE DEF list
<1> DEFINE new == Lacking(cache, what, list)
<1>6. /\ new \in Cache /\ CatchesUp(new, due, applied, TRUE) /\ Pending(new) = Pending(cache)
      /\ \A q \in Query : new[q].fetch # None =>
           cache[q].fetch # None /\ new[q].fetch \subseteq cache[q].fetch \cup {what}
  BY <1>2, <1>3, <1>5, LackingCatchesUp
<1>7. cache' = new
  BY <1>1, <1>4 DEF list
<1> HIDE DEF new
<1>8. cache' \in Cache /\ CatchesUp(cache', due', applied', pushed')
  BY <1>1, <1>6, <1>7
<1>9. Waits(cache', due, sent \cup applied)
  BY <1>2, <1>6, <1>7 DEF Waits
<1>10. FormWaits' /\ FormsAreCurrent'
  BY <1>1, <1>4, <1>6, <1>7, FormKeepsWaiting DEF ScreensInv
<1>11. ScreensTypeOK'
  BY <1>1, <1>8 DEF ScreensInv, ScreensTypeOK, MayOpen
<1>12. AsksAllowed
  BY <1>1, <1>6, <1>7 DEF AsksAllowed
<1> QED
  BY <1>1, <1>8, <1>9, <1>10, <1>11, <1>12 DEF ScreensInv

(* A push makes the tag of the list due.                                   *)
LEMMA PushStep ==
  ASSUME ScreensInv, Push
  PROVE  ScreensInv' /\ AsksAllowed
<1> DEFINE tags == due \cup {"NotificationList"}
<1>1. /\ pushed' = FALSE /\ UNCHANGED <<user, page, sent, applied, form>>
      /\ cache' = Settle(cache, sent \cup applied, tags).cache
      /\ due' = Settle(cache, sent \cup applied, tags).due
  BY DEF Push
<1>2. cache \in Cache /\ CatchesUp(cache, due, applied, pushed) /\ ScreensTypeOK
  BY DEF ScreensInv, ScreensTypeOK
<1>3. \A q \in Query, cause \in Cause :
        WillAsk(q, cause, due, applied, pushed) => WillAsk(q, cause, tags, applied, FALSE)
  BY DEF WillAsk
<1> HIDE DEF tags
<1>4. CatchesUp(cache, tags, applied, FALSE)
  BY <1>2, <1>3 DEF CatchesUp
<1> DEFINE settled == Settle(cache, sent \cup applied, tags)
<1>5. applied \in SUBSET (sent \cup applied)
  OBVIOUS
<1>6. /\ settled.cache \in Cache
      /\ CatchesUp(settled.cache, settled.due, applied, FALSE)
      /\ Waits(settled.cache, settled.due, sent \cup applied)
      /\ \A q \in Query : \/ settled.cache[q].fetch = cache[q].fetch
                          \/ settled.cache[q].fetch = None
                          \/ q \in Shown(page, user) /\ settled.cache[q].fetch = {}
  BY <1>2, <1>4, <1>5, SettlingCatchesUp
<1>7. cache' = settled.cache /\ due' = settled.due
  BY <1>1
<1> HIDE DEF settled
<1>8. /\ cache' \in Cache /\ CatchesUp(cache', due', applied', pushed')
      /\ Waits(cache', due', sent' \cup applied')
  BY <1>1, <1>6, <1>7
<1>9. \A q \in Query : \/ cache'[q].fetch = cache[q].fetch
                       \/ cache'[q].fetch = None
                       \/ q \in Shown(page, user) /\ cache'[q].fetch = {}
  BY <1>6, <1>7
<1>10. FormWaits' /\ FormsAreCurrent'
  BY <1>1, <1>9, FormKeepsWaiting DEF ScreensInv
<1>11. ScreensTypeOK'
  BY <1>1, <1>8 DEF ScreensInv, ScreensTypeOK, MayOpen
<1>12. AsksAllowed
  BY <1>1, <1>2, <1>9, PageIsAllowed DEF AsksAllowed
<1> QED
  BY <1>8, <1>10, <1>11, <1>12 DEF ScreensInv

(* A push that is missed excuses the cache.                                *)
LEMMA MissStep ==
  ASSUME ScreensInv, Miss
  PROVE  ScreensInv' /\ AsksAllowed
<1>1. /\ cache' = Excused(cache) /\ pushed' = FALSE
      /\ UNCHANGED <<user, page, sent, applied, due, form>>
  BY DEF Miss
<1>2. cache \in Cache /\ CatchesUp(cache, due, applied, pushed) /\ Waits(cache, due, sent \cup applied)
  BY DEF ScreensInv, ScreensTypeOK
<1>3. /\ cache' \in Cache
      /\ CatchesUp(cache', due, applied, FALSE)
      /\ Pending(cache') = Pending(cache)
      /\ \A q \in Query : cache'[q].fetch # None =>
           cache[q].fetch # None /\ cache'[q].fetch \subseteq cache[q].fetch
  BY <1>1, <1>2, ExcusingCatchesUp
<1>4. Waits(cache', due, sent \cup applied)
  BY <1>2, <1>3 DEF Waits
<1>5. FormWaits' /\ FormsAreCurrent'
  BY <1>1, <1>3, FormKeepsWaiting DEF ScreensInv
<1>6. ScreensTypeOK'
  BY <1>1, <1>3 DEF ScreensInv, ScreensTypeOK, MayOpen
<1>7. AsksAllowed
  BY <1>1, <1>3 DEF AsksAllowed
<1> QED
  BY <1>1, <1>3, <1>4, <1>5, <1>6, <1>7 DEF ScreensInv

-----------------------------------------------------------------------------
(* Together.                                                               *)

(* It starts with nothing cached.                                          *)
LEMMA InitScreens ==
  ASSUME Init
  PROVE  ScreensInv
<1>1. cache \in Cache
  BY NoneIsNoSet DEF Init, Cache
<1>2. CatchesUp(cache, due, applied, pushed)
  BY NoneIsNoSet DEF Init, CatchesUp
<1>3. Waits(cache, due, sent \cup applied)
  BY DEF Init, Waits
<1>4. FormWaits /\ FormsAreCurrent
  BY DEF Init, FormWaits, FormsAreCurrent
<1>5. ScreensTypeOK
  BY <1>1 DEF Init, ScreensTypeOK
<1> QED
  BY <1>2, <1>3, <1>4, <1>5 DEF ScreensInv

(* Every step keeps the invariant, asks what it may and sends what it may. *)
LEMMA ScreensStep ==
  ASSUME ScreensInv, [Next]_vars
  PROVE  ScreensInv' /\ (AsksAllowed \/ UNCHANGED vars)
<1>1. CASE UNCHANGED vars
  <2>1. /\ ScreensTypeOK' /\ CatchesUp(cache', due', applied', pushed')
        /\ Waits(cache', due', sent' \cup applied')
    BY <1>1 DEF vars, ScreensInv, ScreensTypeOK, MayOpen
  <2>2. FormWaits' /\ FormsAreCurrent'
    BY <1>1 DEF vars, ScreensInv, FormWaits, FormsAreCurrent
  <2> QED
    BY <1>1, <2>1, <2>2 DEF ScreensInv
<1>2. ASSUME NEW role \in Role, Login(role)
      PROVE  ScreensInv' /\ AsksAllowed
  BY <1>2, LoginStep
<1>3. ASSUME NEW p \in Page, Visit(p)
      PROVE  ScreensInv' /\ AsksAllowed
  BY <1>3, VisitStep
<1>4. ASSUME NEW q \in Query, Expire(q) \/ Answer(q) \/ Fail(q)
      PROVE  ScreensInv' /\ AsksAllowed
  BY <1>4, ExpireStep, AnswerStep, FailStep
<1>5. ASSUME NEW m \in Mutation, Send(m) \/ Apply(m) \/ Finish(m)
      PROVE  ScreensInv' /\ AsksAllowed
  BY <1>5, SendStep, ApplyStep, FinishStep
<1>6. CASE Logout \/ Store \/ Push \/ Miss
  BY <1>6, LogoutStep, StoreStep, PushStep, MissStep
<1> QED
  BY <1>1, <1>2, <1>3, <1>4, <1>5, <1>6 DEF Next

(* The invariant of the screens.                                           *)
LEMMA ScreensInvariant == Spec => []ScreensInv
<1>1. Init => ScreensInv
  BY InitScreens
<1>2. ScreensInv /\ [Next]_vars => ScreensInv'
  BY ScreensStep
<1> QED
  BY <1>1, <1>2, PTL DEF Spec

(* Once nothing is under way, the cache has every write of the tab and     *)
(* every notification that was pushed (ScreensCatchUp): the tags of each   *)
(* mutation reach whatever follows what it changed, and an invalidation    *)
(* that waits is not forgotten.                                            *)
THEOREM ScreensDoCatchUp == Spec => []ScreensCatchUp
<1>1. ScreensInv => ScreensCatchUp
  <2> SUFFICES ASSUME ScreensInv, Quiet, ~pushed, NEW q \in Query, ~cache[q].failed
               PROVE  cache[q].data \in {None, {}}
    BY DEF ScreensCatchUp
  <2>1. due = {} /\ applied = {} /\ cache[q].fetch = None
    BY DEF ScreensInv, Waits, Quiet, Pending
  <2>2. \A cause \in Cause : ~WillAsk(q, cause, due, applied, pushed)
    BY <2>1 DEF WillAsk
  <2>3. cache[q].data # None => \A cause \in Cause : cause \notin cache[q].data
    BY <2>1, <2>2 DEF ScreensInv, CatchesUp
  <2>4. cache[q].data \in Lacks
    BY DEF ScreensInv, ScreensTypeOK, Cache, CacheEntry
  <2> QED
    BY <2>3, <2>4 DEF Lacks
<1> QED
  BY <1>1, ScreensInvariant, PTL

(* An edit form opened in quiet, over a copy that could be fetched, is     *)
(* never filled from before a write of the tab (FormsAreCurrent).          *)
THEOREM FormsAreFresh == Spec => []FormsAreCurrent
<1>1. ScreensInv => FormsAreCurrent
  BY DEF ScreensInv
<1> QED
  BY <1>1, ScreensInvariant, PTL

(* No page, and no refetch of what it shows, asks or sends what the guards *)
(* of the server refuse to the user of the page (AsksWhatItMay).           *)
THEOREM PagesAskWhatTheyMay == Spec => AsksWhatItMay
<1>1. ScreensInv /\ [Next]_vars => (AsksAllowed \/ UNCHANGED vars)
  BY ScreensStep
<1>2. ScreensInv /\ [Next]_vars =>
        [/\ \A q \in Query : (cache[q].fetch = None /\ cache'[q].fetch # None) =>
              user' \in Guards[Queries[q].route].roles
         /\ \A m \in sent' \ sent : user \in Guards[Mutations[m].route].roles]_vars
  BY <1>1 DEF AsksAllowed
<1> QED
  BY <1>2, ScreensInvariant, PTL DEF Spec, AsksWhatItMay
=============================================================================
