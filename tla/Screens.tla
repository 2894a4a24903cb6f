------------------------------- MODULE Screens -------------------------------
(***************************************************************************)
(* The pages of the client over the cache of RTK Query, which they share:  *)
(* which queries a page subscribes to, what a mutation invalidates, when   *)
(* an invalidation takes effect, what the socket adds to it, and what the  *)
(* edit forms are filled from.                                             *)
(*                                                                         *)
(* An entry of the cache is known by what it lacks: "own", a write of this *)
(* tab made since the server read the tables for it, and "row", a          *)
(* notification stored since; a fetch by what has happened since it began. *)
(* Nothing tells the tab of what others write, so that is not recorded.    *)
(* redux/api/ gives the tags; RTK Query itself is external: invalidations  *)
(* wait until no request is pending, then what is on a page is asked for   *)
(* again and the rest dropped; an entry no page shows is kept for a        *)
(* minute; a page takes what is there.                                     *)
(***************************************************************************)
EXTENDS Api, FiniteSets

CONSTANTS
  Tour,        \* the pages the user goes to
  MaxWriting,  \* mutations under way at a time
  MaxCached,   \* entries the cache may hold when a page is opened
  MaxFailed,   \* entries whose last fetch failed, at a time
  None

VARIABLES
  user,      \* role of the account signed in, or None
  page,      \* the page shown
  cache,     \* the entries, by query
  sent,      \* mutations on their way
  applied,   \* mutations the server has done and not answered
  due,       \* tags whose invalidation waits
  pushed,    \* a stored notification is not yet pushed
  form       \* what the edit form shown was filled from, or None

vars == <<user, page, cache, sent, applied, due, pushed, form>>

ASSUME ScreensAssumption == MaxWriting \in Nat \ {0} /\ MaxCached \in Nat

(* What an entry or a fetch may lack; None is not a set of these, nor a    *)
(* role.                                                                   *)
Cause == {"own", "row"}

ASSUME NoneAssumption == None \notin Role /\ \A lacks \in SUBSET Cause : None # lacks

-----------------------------------------------------------------------------

(* The queries: the route each asks, its tags, and the facts whose changes *)
(* by this tab it must show.  The dashboards come through the cache of the *)
(* server (module Dashboard) and the reports are not invalidated at all:   *)
(* they follow nothing.                                                    *)
Ask(route, tags, follows) == [route |-> route, tags |-> tags, follows |-> follows]

TaskQueries ==
  [listTasks |-> Ask("listTasks", {"Task", "TaskList"}, {"task", "tasks"}),
   getTask |-> Ask("getTask", {"Task"}, {"task"})]

EmployeeQueries ==
  [listEmployees |-> Ask("listEmployees", {"Employee", "EmployeeList"}, {"employee", "employees"}),
   allEmployees |-> Ask("listEmployees", {"Employee", "EmployeeList"}, {"employee", "employees"}),
   getEmployee |-> Ask("getEmployee", {"Employee"}, {"employee"})]

NotificationQueries ==
  [listNotifications |-> Ask("listNotifications", {"NotificationList"}, {"notifications"})]

FileQueries == [listTaskFiles |-> Ask("listFiles", {"TaskFiles"}, {"files"})]

DashboardQueries ==
  [getAdminDashboard |-> Ask("adminDashboard", {"Dashboard"}, {}),
   getEmployeeDashboard |-> Ask("employeeDashboard", {"Dashboard"}, {})]

ReportQueries ==
  [getCompletedTasksReport |-> Ask("completedTasks", {"Report"}, {}),
   getPendingTasksReport |-> Ask("pendingTasks", {"Report"}, {}),
   getEmployeeWiseReport |-> Ask("employeeWise", {"Report"}, {})]

Queries ==
  TaskQueries ++ EmployeeQueries ++ NotificationQueries ++ FileQueries
    ++ DashboardQueries ++ ReportQueries

Query == DOMAIN Queries

(* The mutations: the route, what it changes, the tags it invalidates.     *)
(* changeStatus is updateTask as the list of tasks uses it.                *)
Write(route, changes, tags) == [route |-> route, changes |-> changes, tags |-> tags]

TaskMutations ==
  LET known == {"Task", "TaskList", "Dashboard"}
  IN  [createTask |-> Write("createTask", {"tasks"}, {"TaskList", "Dashboard"}),
       updateTask |-> Write("updateTask", {"task"}, known),
       changeStatus |-> Write("updateTask", {"task"}, known),
       deleteTask |-> Write("removeTask", {"task", "tasks"}, known)]

EmployeeMutations ==
  [createEmployee |-> Write("createEmployee", {"employees"}, {"EmployeeList"}),
   updateEmployee |-> Write("updateEmployee", {"employee"}, {"Employee", "EmployeeList"}),
   deleteEmployee |-> Write("removeEmployee", {"employee", "employees"}, {"Employee", "EmployeeList"})]

NotificationMutations ==
  [markNotificationAsRead |-> Write("markAsRead", {"notifications"}, {"NotificationList"}),
   markAllNotificationsAsRead |-> Write("markAllAsRead", {"notifications"}, {"NotificationList"})]

FileMutations ==
  [uploadTaskFile |-> Write("upload", {"files"}, {"TaskFiles"}),
   deleteTaskFile |-> Write("removeFile", {"files"}, {"TaskFiles"})]

Mutations == TaskMutations ++ EmployeeMutations ++ NotificationMutations ++ FileMutations

Mutation == DOMAIN Mutations

-----------------------------------------------------------------------------

(* A component: the queries it asks and the mutations it can send.         *)
View(asks, does) == [asks |-> asks, does |-> does]

(* DashboardLayout is around every page of a signed-in user; its bell asks *)
(* for the first notification and the count of the unread ones.            *)
NotificationBell == View({"listNotifications"}, {})

DashboardPage(role) ==
  View({IF role = "ADMIN" THEN "getAdminDashboard" ELSE "getEmployeeDashboard"}, {})

(* Both roles see the list; an administrator may delete what is on it, an  *)
(* employee start or complete it.                                          *)
TaskListPage(role) ==
  View({"listTasks"}, {IF role = "ADMIN" THEN "deleteTask" ELSE "changeStatus"})

TaskAttachmentsDialog == View({"listTaskFiles"}, {"uploadTaskFile", "deleteTaskFile"})

(* The dialog lies over the list, which stays.                             *)
TaskListWithDialog(role) ==
  View(TaskListPage(role).asks \cup TaskAttachmentsDialog.asks, TaskAttachmentsDialog.does)

(* TaskForm asks for the employees a task can be given to.                 *)
TaskForm == View({"allEmployees"}, {})

TaskFormPage ==
  [taskNew |-> View(TaskForm.asks, {"createTask"}),
   taskEdit |-> View(TaskForm.asks \cup {"getTask"}, {"updateTask"})]

EmployeeListPage == View({"listEmployees"}, {"deleteEmployee"})

EmployeeFormPage ==
  [employeeNew |-> View({}, {"createEmployee"}),
   employeeEdit |-> View({"getEmployee"}, {"updateEmployee"})]

NotificationCenterPage ==
  View({"listNotifications"}, {"markNotificationAsRead", "markAllNotificationsAsRead"})

(* Its tabs ask for one report each; the export is a download beside it.   *)
ReportsPage ==
  [completedReport |-> View({"getCompletedTasksReport"}, {}),
   pendingReport |-> View({"getPendingTasksReport"}, {}),
   employeeReport |-> View({"getEmployeeWiseReport"}, {})]

(* AppRouter: the pages of everybody, and those inside RoleRoute.          *)
OpenPages(role) ==
  [dashboard |-> DashboardPage(role), tasks |-> TaskListPage(role),
   attachments |-> TaskListWithDialog(role), notifications |-> NotificationCenterPage]

AdminPages == [employees |-> EmployeeListPage] ++ EmployeeFormPage ++ TaskFormPage ++ ReportsPage

Pages(role) == OpenPages(role) ++ AdminPages

Page == DOMAIN Pages("ADMIN")

Shown(p, role) == IF role = None THEN {} ELSE Pages(role)[p].asks \cup NotificationBell.asks

(* Where a form goes when its mutation has succeeded.                      *)
LeadsTo == [createTask |-> "tasks", updateTask |-> "tasks",
            createEmployee |-> "employees", updateEmployee |-> "employees"]

EditForm == [taskEdit |-> "getTask", employeeEdit |-> "getEmployee"]

MayOpen(p, role) == p \in DOMAIN AdminPages => role = "ADMIN"

(* Mutant of Landing: RoleRoute lets everybody through.                    *)
LandingAnywhere(p) == IF user = None THEN "login" ELSE p

(* ProtectedRoute and RoleRoute.                                           *)
Landing(p) ==
  IF user = None THEN "login" ELSE IF MayOpen(p, user) THEN p ELSE "dashboard"

-----------------------------------------------------------------------------

Absent == [data |-> None, fetch |-> None, failed |-> FALSE]

Pending(c) == {q \in Query : c[q].fetch # None}

(* A page that is opened asks for what is neither there nor asked for.     *)
Opened(c, queries) ==
  [q \in Query |->
     IF q \in queries /\ c[q].data = None /\ c[q].fetch = None
       THEN [c[q] EXCEPT !.fetch = {}] ELSE c[q]]

(* An entry has tags from its first answer on.                             *)
TagsOf(c, q) == IF c[q].data = None /\ ~c[q].failed THEN {} ELSE Queries[q].tags

(* Mutant of Refetched: what no page shows is left as it is.               *)
RefetchedShown(c, tags) ==
  [q \in Query |->
     IF TagsOf(c, q) \cap tags # {} /\ c[q].fetch = None /\ q \in Shown(page, user)
       THEN [c[q] EXCEPT !.fetch = {}] ELSE c[q]]

Refetched(c, tags) ==
  [q \in Query |->
     IF TagsOf(c, q) \cap tags = {} \/ c[q].fetch # None THEN c[q]
     ELSE IF q \in Shown(page, user) THEN [c[q] EXCEPT !.fetch = {}]
     ELSE Absent]

(* Mutant of Settle: an invalidation does not wait.                        *)
SettleNow(c, writing, tags) == [cache |-> Refetched(c, tags), due |-> {}]

(* An invalidation, or the end of a request others may have waited for.    *)
Settle(c, writing, tags) ==
  IF Pending(c) = {} /\ writing = {}
    THEN [cache |-> Refetched(c, tags), due |-> {}]
    ELSE [cache |-> c, due |-> tags]

Quiet == Pending(cache) = {} /\ sent \cup applied = {}

Lacking(c, cause, queries) ==
  [q \in Query |->
     IF q \notin queries THEN c[q]
     ELSE [c[q] EXCEPT !.data = IF @ = None THEN None ELSE @ \cup {cause},
                       !.fetch = IF @ = None THEN @ ELSE @ \cup {cause}]]

(* A push that will not come: the rows it stood for are nobody's to show.  *)
Excused(c) ==
  [q \in Query |->
     [c[q] EXCEPT !.data = IF @ = None THEN None ELSE @ \ {"row"},
                  !.fetch = IF @ = None THEN @ ELSE @ \ {"row"}]]

(* react-hook-form takes its defaults when the form is first shown: at     *)
(* once from a kept entry, else from the answer.                           *)
FormOn(p) ==
  IF p \notin DOMAIN EditForm THEN None
  ELSE [base |-> cache[EditForm[p]].data, hasty |-> ~Quiet \/ cache[EditForm[p]].failed]

-----------------------------------------------------------------------------

Init ==
  /\ user = None /\ page = "login" /\ form = None
  /\ cache = [q \in Query |-> Absent]
  /\ sent = {} /\ applied = {} /\ due = {} /\ pushed = FALSE

Login(role) ==
  /\ user = None
  /\ user' = role /\ page' = "dashboard"
  /\ cache' = Opened(cache, Shown("dashboard", role))
  /\ UNCHANGED <<sent, applied, due, pushed, form>>

(* setSession(null), by a logout or the end of the session: the layout and *)
(* the socket go, the cache stays.                                         *)
Logout ==
  /\ user # None
  /\ user' = None /\ page' = "login" /\ form' = None
  /\ pushed' = FALSE
  /\ cache' = Excused(cache)
  /\ UNCHANGED <<sent, applied, due>>

Visit(p) ==
  /\ user # None /\ p \in Tour /\ Landing(p) # page
  /\ LET shown == Shown(Landing(p), user)
     IN  /\ Cardinality(shown \cup {q \in Query : cache[q] # Absent}) <= MaxCached
         /\ cache' = Opened(cache, shown)
  /\ page' = Landing(p) /\ form' = FormOn(Landing(p))
  /\ UNCHANGED <<user, sent, applied, due, pushed>>

(* keepUnusedDataFor.  (No answer takes a minute.)                         *)
Expire(q) ==
  /\ q \notin Shown(page, user) /\ cache[q] # Absent /\ cache[q].fetch = None
  /\ cache' = [cache EXCEPT ![q] = Absent]
  /\ UNCHANGED <<user, page, sent, applied, due, pushed, form>>

Filled(q, data) ==
  IF form # None /\ page \in DOMAIN EditForm /\ EditForm[page] = q /\ form.base = None
    THEN [form EXCEPT !.base = data] ELSE form

(* The server has read at some moment since the query was asked: what the  *)
(* answer lacks is some of what happened meanwhile.                        *)
Answer(q) ==
  /\ cache[q].fetch # None
  /\ \E lacks \in SUBSET cache[q].fetch :
       LET settled == Settle([cache EXCEPT ![q] = [Absent EXCEPT !.data = lacks]],
                             sent \cup applied, due)
       IN  /\ cache' = settled.cache /\ due' = settled.due
           /\ form' = Filled(q, lacks)
  /\ UNCHANGED <<user, page, sent, applied, pushed>>

(* A fetch that fails leaves what was there; a form without data is shown  *)
(* empty.                                                                  *)
Fail(q) ==
  /\ cache[q].fetch # None
  /\ Cardinality({p \in Query : cache[p].failed} \cup {q}) <= MaxFailed
  /\ LET settled == Settle([cache EXCEPT ![q].fetch = None, ![q].failed = TRUE],
                           sent \cup applied, due)
     IN  cache' = settled.cache /\ due' = settled.due
  /\ form' = Filled(q, {})
  /\ UNCHANGED <<user, page, sent, applied, pushed>>

(* A mutation of a page is sent; an edit form, once it is filled.  One of  *)
(* each kind at a time is a bound of this model: most buttons are disabled *)
(* while theirs is under way, but not Mark read, and a page that is left   *)
(* and opened again does not know of what it sent.                         *)
Send(m) ==
  /\ user # None /\ m \in Pages(user)[page].does \ (sent \cup applied)
  /\ form # None => form.base # None
  /\ Cardinality(sent \cup applied) < MaxWriting
  /\ sent' = sent \cup {m}
  /\ UNCHANGED <<user, page, cache, applied, due, pushed, form>>

Apply(m) ==
  /\ m \in sent
  /\ sent' = sent \ {m} /\ applied' = applied \cup {m}
  /\ cache' = Lacking(cache, "own", {q \in Query : Queries[q].follows \cap Mutations[m].changes # {}})
  /\ UNCHANGED <<user, page, due, pushed, form>>

(* The answer of a mutation or, done or not, an error: both invalidate.    *)
Finish(m) ==
  /\ m \in sent \cup applied
  /\ sent' = sent \ {m} /\ applied' = applied \ {m}
  /\ \E ok \in {answered \in BOOLEAN : answered => m \in applied} :
       LET settled == Settle(cache, sent' \cup applied', due \cup Mutations[m].tags)
           next == IF ok /\ m \in DOMAIN LeadsTo THEN Landing(LeadsTo[m]) ELSE page
       IN  /\ cache' = Opened(settled.cache, Shown(next, user))
           /\ due' = settled.due
           /\ page' = next
           /\ form' = IF next = page THEN form ELSE None
  /\ UNCHANGED <<user, pushed>>

(* The consumers of module Notifications store a notification and then     *)
(* have it pushed.                                                         *)
Store ==
  /\ user # None /\ ~pushed
  /\ pushed' = TRUE
  /\ cache' = Lacking(cache, "row", {"listNotifications"})
  /\ UNCHANGED <<user, page, sent, applied, due, form>>

(* handleNewNotification.                                                  *)
Push ==
  /\ pushed /\ pushed' = FALSE
  /\ LET settled == Settle(cache, sent \cup applied, due \cup {"NotificationList"})
     IN  cache' = settled.cache /\ due' = settled.due
  /\ UNCHANGED <<user, page, sent, applied, form>>

(* The socket was down: the push is lost, and nothing asks for it later.   *)
(* (It comes back with the token of its first connection, so once that has *)
(* expired it stays away.)                                                 *)
Miss ==
  /\ pushed /\ pushed' = FALSE
  /\ cache' = Excused(cache)
  /\ UNCHANGED <<user, page, sent, applied, due, form>>

Next ==
  \/ \E role \in Role : Login(role)
  \/ Logout
  \/ \E p \in Page : Visit(p)
  \/ \E q \in Query : Expire(q) \/ Answer(q) \/ Fail(q)
  \/ \E m \in Mutation : Send(m) \/ Apply(m) \/ Finish(m)
  \/ Store \/ Push \/ Miss

Spec == Init /\ [][Next]_vars

-----------------------------------------------------------------------------

(* Once nothing is under way, whatever the cache holds, on a page or kept  *)
(* for the next, has every write of this tab and every notification whose  *)
(* push came through; except where the last fetch failed.                  *)
ScreensCatchUp ==
  (Quiet /\ ~pushed) => \A q \in Query : cache[q].failed \/ cache[q].data \in {None, {}}

(* An edit form sends all its fields back, so it must not be filled with   *)
(* values from before a write of this tab.  It is only if it was opened    *)
(* while requests were under way, or over a copy whose refetch failed.     *)
FormsAreCurrent ==
  (form # None /\ form.base # None /\ "own" \in form.base) => form.hasty

(* No page asks for, or sends, what the server refuses to its user.        *)
AsksWhatItMay ==
  [][/\ \A q \in Query : (cache[q].fetch = None /\ cache'[q].fetch # None) =>
          user' \in Guards[Queries[q].route].roles
     /\ \A m \in sent' \ sent : user \in Guards[Mutations[m].route].roles]_vars

=============================================================================
