---------------------------- MODULE TaskService ----------------------------
(***************************************************************************)
(* taskService (services/task.service.ts) against the tasks and audit_logs *)
(* tables.  A request is a chain of awaits: read the row, check it, check  *)
(* the new assignee, run one database transaction, start the side effects, *)
(* answer.  Other requests run between any two of them.  The transaction   *)
(* itself is one step: the database makes it atomic and rolls it back when *)
(* the row is gone.                                                        *)
(*                                                                         *)
(* A Request is used once, so the number of requests bounds every history. *)
(* An Employee stands for an employee profile and the one user account it  *)
(* belongs to; an Admin is a user account that has no profile.             *)
(***************************************************************************)
EXTENDS Naturals, Sequences, FiniteSets

CONSTANTS
  Task,         \* task ids the database can generate
  Employee,     \* employees, active or removed
  Admin,        \* administrators
  Request,      \* HTTP requests, each made once
  Date,         \* start and due dates, as numbers
  NewTasks,     \* bodies of POST /tasks that pass createTaskSchema
  Edits,        \* bodies of PUT /tasks/:id that pass updateTaskSchema
  Undefined     \* a field the body of an edit leaves out

VARIABLES
  tasks,        \* the tasks table: id -> row, or NoTask
  audit,        \* the audit_logs rows of each task, in insertion order
  removed,      \* employees with isDeleted set
  pc,           \* where each request is
  call,         \* what each request asks for
  seen,         \* the row a request read before its checks
  row,          \* the row its transaction returned
  reply,        \* the HTTP status it was answered with, 0 before that
  published     \* events handed to the Kafka producer

vars == <<tasks, audit, removed, pc, call, seen, row, reply, published>>

Status == {"PENDING", "IN_PROGRESS", "COMPLETED"}
Field == {"status", "startDate", "dueDate", "assignedTo"}

TaskRow == [id: Task, status: Status, startDate: Date, dueDate: Date,
            assignedTo: Employee, createdBy: Admin, completedAt: BOOLEAN]

NewTask == [status: Status, startDate: Date, dueDate: Date, assignedTo: Employee]

Edit == [status: Status \cup {Undefined}, startDate: Date \cup {Undefined},
         dueDate: Date \cup {Undefined}, assignedTo: Employee \cup {Undefined}]

(* What the zod schemas let through: both refuse a due date before the     *)
(* start date of the same body.                                            *)
PassesCreateSchema(input) == input.dueDate >= input.startDate

PassesUpdateSchema(input) ==
  (input.startDate # Undefined /\ input.dueDate # Undefined)
    => input.dueDate >= input.startDate

ASSUME DateAssumption == Date \subseteq Nat
ASSUME UndefinedAssumption ==
  Undefined \notin Status /\ Undefined \notin Date /\ Undefined \notin Employee /\ Undefined \notin Task
ASSUME ActorAssumption == Admin \cap Employee = {}
ASSUME NewTasksAssumption ==
  /\ NewTasks \subseteq NewTask
  /\ \A input \in NewTasks : PassesCreateSchema(input)
ASSUME EditsAssumption ==
  /\ Edits \subseteq Edit
  /\ \A input \in Edits : PassesUpdateSchema(input)

NoTask == [id |-> Undefined]

(* The routes: POST and DELETE are for administrators, PUT for both roles. *)
Calls == [op: {"create"}, actor: Admin, task: {Undefined}, input: NewTasks]
           \cup [op: {"update"}, actor: Admin \cup Employee, task: Task, input: Edits]
           \cup [op: {"remove"}, actor: Admin, task: Task, input: {Undefined}]

NoCall == [op |-> "none"]

Exists(t) == tasks[t] # NoTask

(* The id of an inserted row is a fresh UUID: it was never in the table.   *)
Fresh(t) == audit[t] = <<>>

(* JavaScript's  value ?? old.                                             *)
Coalesce(value, old) == IF value = Undefined THEN old ELSE value

Keys(input) == {f \in Field : input[f] # Undefined}

Reassigns(r) ==
  /\ call[r].input.assignedTo # Undefined
  /\ call[r].input.assignedTo # seen[r].assignedTo

-----------------------------------------------------------------------------

Init ==
  /\ tasks = [t \in Task |-> NoTask]
  /\ audit = [t \in Task |-> <<>>]
  /\ removed = {}
  /\ pc = [r \in Request |-> "idle"]
  /\ call = [r \in Request |-> NoCall]
  /\ seen = [r \in Request |-> NoTask]
  /\ row = [r \in Request |-> NoTask]
  /\ reply = [r \in Request |-> 0]
  /\ published = {}

Goto(r, label) == pc' = [pc EXCEPT ![r] = label]

Answer(r, status) ==
  /\ Goto(r, "done")
  /\ reply' = [reply EXCEPT ![r] = status]

(* A request arrives, past authentication, authorisation and validation.   *)
Receive(r) ==
  /\ pc[r] = "idle"
  /\ \E c \in Calls :
       /\ call' = [call EXCEPT ![r] = c]
       /\ Goto(r, IF c.op = "create" THEN "assignee" ELSE "read")
  /\ UNCHANGED <<tasks, audit, removed, seen, row, reply, published>>

(* Mutants of Refusal: the lock holds for employees only; the dates are    *)
(* compared only when the body has both.                                   *)
RefusalLockForEmployees(task, actor, input) ==
  IF actor \in Employee /\ task.assignedTo # actor THEN 403
  ELSE IF actor \in Employee /\ Keys(input) \ {"status"} # {} THEN 403
  ELSE IF task.status = "COMPLETED" /\ actor \in Employee THEN 422
  ELSE IF Coalesce(input.dueDate, task.dueDate)
            < Coalesce(input.startDate, task.startDate) THEN 400
  ELSE 0

RefusalBothDates(task, actor, input) ==
  IF actor \in Employee /\ task.assignedTo # actor THEN 403
  ELSE IF actor \in Employee /\ Keys(input) \ {"status"} # {} THEN 403
  ELSE IF task.status = "COMPLETED" THEN 422
  ELSE IF Undefined \notin {input.startDate, input.dueDate} /\ input.dueDate < input.startDate THEN 400
  ELSE 0

(* The status an update is refused with after reading `task', 0 when it is *)
(* not: the tests run in the order the code makes them.                    *)
Refusal(task, actor, input) ==
  IF actor \in Employee /\ task.assignedTo # actor THEN 403
  ELSE IF actor \in Employee /\ Keys(input) \ {"status"} # {} THEN 403
  ELSE IF task.status = "COMPLETED" THEN 422
  ELSE IF Coalesce(input.dueDate, task.dueDate)
            < Coalesce(input.startDate, task.startDate) THEN 400
  ELSE 0

(* update and remove read the row and refuse on what they see.             *)
ReadMissing(r) ==
  /\ pc[r] = "read"
  /\ ~Exists(call[r].task)
  /\ Answer(r, 404)
  /\ UNCHANGED <<tasks, audit, removed, call, seen, row, published>>

ReadForUpdate(r) ==
  LET task == tasks[call[r].task]
      refusal == Refusal(task, call[r].actor, call[r].input)
  IN  /\ pc[r] = "read"
      /\ call[r].op = "update"
      /\ Exists(call[r].task)
      /\ IF refusal # 0
           THEN Answer(r, refusal) /\ UNCHANGED seen
           ELSE /\ seen' = [seen EXCEPT ![r] = task]
                /\ Goto(r, IF call[r].input.assignedTo \in {Undefined, task.assignedTo}
                             THEN "write" ELSE "assignee")
                /\ UNCHANGED reply
      /\ UNCHANGED <<tasks, audit, removed, call, row, published>>

ReadForRemove(r) ==
  /\ pc[r] = "read"
  /\ call[r].op = "remove"
  /\ Exists(call[r].task)
  /\ seen' = [seen EXCEPT ![r] = tasks[call[r].task]]
  /\ Goto(r, "write")
  /\ UNCHANGED <<tasks, audit, removed, call, row, reply, published>>

(* employeeRepository.findById finds only employees not removed.           *)
CheckAssignee(r) ==
  /\ pc[r] = "assignee"
  /\ IF call[r].input.assignedTo \in removed
       THEN Answer(r, 400)
       ELSE Goto(r, "write") /\ UNCHANGED reply
  /\ UNCHANGED <<tasks, audit, removed, call, seen, row, published>>

Log(r, t, action) ==
  audit' = [audit EXCEPT ![t] = Append(@, [action |-> action, req |-> r])]

(* The create transaction.  completedAt is not among the columns it sets.  *)
Inserted(t, c) ==
  [id |-> t, status |-> c.input.status, startDate |-> c.input.startDate,
   dueDate |-> c.input.dueDate, assignedTo |-> c.input.assignedTo,
   createdBy |-> c.actor, completedAt |-> FALSE]

WriteCreate(r) ==
  /\ pc[r] = "write"
  /\ call[r].op = "create"
  /\ \E t \in Task :
       /\ Fresh(t)
       /\ tasks' = [tasks EXCEPT ![t] = Inserted(t, call[r])]
       /\ row' = [row EXCEPT ![r] = Inserted(t, call[r])]
       /\ Log(r, t, "CREATE")
  /\ Goto(r, "effects")
  /\ UNCHANGED <<removed, call, seen, reply, published>>

(* Mutants of Merge: the stamp recomputed by every update, and an absent   *)
(* assignee written as such.                                               *)
MergeRestamps(task, input) ==
  [task EXCEPT
     !.status = Coalesce(input.status, @),
     !.startDate = Coalesce(input.startDate, @),
     !.dueDate = Coalesce(input.dueDate, @),
     !.assignedTo = Coalesce(input.assignedTo, @),
     !.completedAt = input.status = "COMPLETED"]

MergeAssigneeAlways(task, input) ==
  [task EXCEPT
     !.status = Coalesce(input.status, @),
     !.startDate = Coalesce(input.startDate, @),
     !.dueDate = Coalesce(input.dueDate, @),
     !.assignedTo = input.assignedTo,
     !.completedAt = @ \/ input.status = "COMPLETED"]

(* UPDATE tasks SET ... WHERE id = ...: the columns the body names, and    *)
(* completedAt when the body completes the task.  Nothing is compared with *)
(* the row that was read.                                                  *)
Merge(task, input) ==
  [task EXCEPT
     !.status = Coalesce(input.status, @),
     !.startDate = Coalesce(input.startDate, @),
     !.dueDate = Coalesce(input.dueDate, @),
     !.assignedTo = Coalesce(input.assignedTo, @),
     !.completedAt = @ \/ input.status = "COMPLETED"]

(* Mutant of Updated: the row that was read, merged and written back.      *)
UpdatedFromRead(r) == Merge(seen[r], call[r].input)

Updated(r) == Merge(tasks[call[r].task], call[r].input)

WriteUpdate(r) ==
  LET t == call[r].task
  IN  /\ pc[r] = "write"
      /\ call[r].op = "update"
      /\ Exists(t)
      /\ tasks' = [tasks EXCEPT ![t] = Updated(r)]
      /\ row' = [row EXCEPT ![r] = Updated(r)]
      /\ Log(r, t, "UPDATE")
      /\ Goto(r, "effects")
      /\ UNCHANGED <<removed, call, seen, reply, published>>

(* Mutant of WriteRemove: deleteMany, which does not mind a missing row.   *)
WriteRemoveAnyway(r) ==
  /\ pc[r] = "write"
  /\ call[r].op = "remove"
  /\ tasks' = [tasks EXCEPT ![call[r].task] = NoTask]
  /\ Log(r, call[r].task, "DELETE")
  /\ Goto(r, "effects")
  /\ UNCHANGED <<removed, call, seen, row, reply, published>>

WriteRemove(r) ==
  /\ pc[r] = "write"
  /\ call[r].op = "remove"
  /\ Exists(call[r].task)
  /\ tasks' = [tasks EXCEPT ![call[r].task] = NoTask]
  /\ Log(r, call[r].task, "DELETE")
  /\ Goto(r, "effects")
  /\ UNCHANGED <<removed, call, seen, row, reply, published>>

(* The row went away after it was read: the transaction fails with P2025,  *)
(* is rolled back with its audit row, and errorHandler answers 404.        *)
WriteMissing(r) ==
  /\ pc[r] = "write"
  /\ call[r].op \in {"update", "remove"}
  /\ ~Exists(call[r].task)
  /\ Answer(r, 404)
  /\ seen' = [seen EXCEPT ![r] = NoTask]
  /\ UNCHANGED <<tasks, audit, removed, call, row, published>>

(* What a committed request publishes: a set of no or one event.           *)
Event(r, type, to) == [req |-> r, type |-> type, task |-> row[r].id, to |-> to]

(* Mutant of Announcement: the three ifs not chained by else.              *)
AnnouncementUnchained(r) ==
  CASE call[r].op = "remove" -> {}
    [] call[r].op = "create" -> {Event(r, "TASK_ASSIGNED", row[r].assignedTo)}
    [] OTHER ->
         (IF call[r].input.status = "COMPLETED"
            THEN {Event(r, "TASK_COMPLETED", row[r].createdBy)} ELSE {})
           \cup {Event(r, IF Reassigns(r) THEN "TASK_ASSIGNED" ELSE "TASK_UPDATED",
                       row[r].assignedTo)}

Announcement(r) ==
  CASE call[r].op = "remove" -> {}
    [] call[r].op = "create" -> {Event(r, "TASK_ASSIGNED", row[r].assignedTo)}
    [] OTHER ->
         IF call[r].input.status = "COMPLETED"
           THEN {Event(r, "TASK_COMPLETED", row[r].createdBy)}
         ELSE IF Reassigns(r)
           THEN {Event(r, "TASK_ASSIGNED", row[r].assignedTo)}
         ELSE {Event(r, "TASK_UPDATED", row[r].assignedTo)}

(* Mutant of Invalidated: the employee the task was taken from forgotten.  *)
InvalidatedNewOnly(r) ==
  IF call[r].op = "remove" THEN {seen[r].assignedTo} ELSE {row[r].assignedTo}

(* The employees whose cached dashboard it deletes, beside the admin one.  *)
Invalidated(r) ==
  CASE call[r].op = "remove" -> {seen[r].assignedTo}
    [] call[r].op = "create" -> {row[r].assignedTo}
    [] OTHER -> {row[r].assignedTo}
                  \cup (IF Reassigns(r) THEN {seen[r].assignedTo} ELSE {})

(* The continuation of the transaction: start the side effects (nothing is *)
(* awaited) and answer.                                                    *)
Effects(r) ==
  /\ pc[r] = "effects"
  /\ published' = published \cup Announcement(r)
  /\ Answer(r, IF call[r].op = "create" THEN 201 ELSE 200)
  /\ seen' = [seen EXCEPT ![r] = NoTask]
  /\ row' = [row EXCEPT ![r] = NoTask]
  /\ UNCHANGED <<tasks, audit, removed, call>>

(* employeeService.remove.  It sets the flag and leaves the tasks alone;   *)
(* the access token of the account stays good, so its requests go on.      *)
RemoveEmployee(e) ==
  /\ e \notin removed
  /\ removed' = removed \cup {e}
  /\ UNCHANGED <<tasks, audit, pc, call, seen, row, reply, published>>

RequestStep(r) ==
  \/ Receive(r)
  \/ ReadMissing(r) \/ ReadForUpdate(r) \/ ReadForRemove(r)
  \/ CheckAssignee(r)
  \/ WriteCreate(r) \/ WriteUpdate(r) \/ WriteRemove(r) \/ WriteMissing(r)
  \/ Effects(r)

Next ==
  \/ \E r \in Request : RequestStep(r)
  \/ \E e \in Employee : RemoveEmployee(e)

Spec == Init /\ [][Next]_vars

-----------------------------------------------------------------------------

Entry == [action: {"CREATE", "UPDATE", "DELETE"}, req: Request]

EventRow == [req: Request, type: {"TASK_ASSIGNED", "TASK_UPDATED", "TASK_COMPLETED"},
             task: Task, to: Employee \cup Admin]

Labels == {"idle", "read", "assignee", "write", "effects", "done"}
Replies == {0, 200, 201, 400, 403, 404, 422}

(* The locals a request holds are those its next step uses.                *)
LocalsFit(r) ==
  /\ call[r] = NoCall <=> pc[r] = "idle"
  /\ pc[r] = "read" => call[r].op \in {"update", "remove"}
  /\ pc[r] = "assignee" => call[r].op \in {"create", "update"}
  /\ (pc[r] \in {"assignee", "write", "effects"} /\ call[r].op # "create")
       => seen[r] \in TaskRow /\ seen[r].id = call[r].task
  /\ (pc[r] = "effects" /\ call[r].op # "remove") => row[r] \in TaskRow
  /\ reply[r] # 0 <=> pc[r] = "done"

(* Every variable has the values the code can give it, a row is found      *)
(* under its own id, and each local of a request is there when it is used. *)
TypeOK ==
  /\ tasks \in [Task -> TaskRow \cup {NoTask}]
  /\ \A t \in Task : Exists(t) => tasks[t].id = t
  /\ audit \in [Task -> Seq(Entry)]
  /\ removed \subseteq Employee
  /\ pc \in [Request -> Labels]
  /\ call \in [Request -> Calls \cup {NoCall}]
  /\ seen \in [Request -> TaskRow \cup {NoTask}]
  /\ row \in [Request -> TaskRow \cup {NoTask}]
  /\ reply \in [Request -> Replies]
  /\ published \subseteq EventRow
  /\ \A r \in Request : LocalsFit(r)

(* The audit log tells the life of each task: nothing before CREATE, only  *)
(* UPDATE after it, DELETE last, and the row is in the table exactly       *)
(* between the two.  Two removals racing, or an update racing a removal,   *)
(* must not leave a second DELETE or an UPDATE after it.                   *)
AuditTellsTheLife ==
  \A t \in Task :
    LET n == Len(audit[t])
    IN  /\ \A i \in 1..n : audit[t][i].action = "CREATE" <=> i = 1
        /\ \A i \in 1..n : audit[t][i].action = "DELETE" => i = n
        /\ Exists(t) <=> (n > 0 /\ audit[t][n].action # "DELETE")

(* What a client is told is what happened: a request answered with success *)
(* left one audit entry and, unless it removed the task, one event about   *)
(* the same task; one refused or beaten by a removal left neither.         *)
Committed(r) == pc[r] = "effects" \/ reply[r] \in {200, 201}

LoggedFor(r, t) == \E i \in DOMAIN audit[t] : audit[t][i].req = r

EventsOf(r) == {e \in published : e.req = r}

RepliesAreTrue ==
  /\ \A r \in Request :
       /\ (\E t \in Task : LoggedFor(r, t)) <=> Committed(r)
       /\ EventsOf(r) # {} <=> (reply[r] \in {200, 201} /\ call[r].op # "remove")
       /\ \A e, f \in EventsOf(r) : e = f
       /\ \A e \in EventsOf(r) : LoggedFor(r, e.task)
  /\ \A t, u \in Task : \A i \in DOMAIN audit[t], j \in DOMAIN audit[u] :
       audit[t][i].req = audit[u][j].req => t = u /\ i = j

(* completedAt is kept, and it is true: it is set on a row exactly when    *)
(* some request whose body completes the task has updated it.  A race can  *)
(* take the status back, the stamp stays.                                  *)
CompletionIsRecorded ==
  \A t \in Task :
    Exists(t) =>
      (tasks[t].completedAt <=>
         \E i \in 1..Len(audit[t]) :
           audit[t][i].action = "UPDATE" /\ call[audit[t][i].req].input.status = "COMPLETED")

(* The part of the lock that no race can break: a task created COMPLETED   *)
(* is never updated, because whoever reads it reads it completed.          *)
BornCompleted(t) == call[audit[t][1].req].input.status = "COMPLETED"

BornCompletedIsFrozen ==
  \A t \in Task :
    \A i \in 1..Len(audit[t]) : audit[t][i].action = "UPDATE" => ~BornCompleted(t)

(* Why: a log entry belongs to a request past its transaction, of the kind *)
(* the entry names; a live task born completed is still completed; and no  *)
(* update of such a task has got past its checks.                          *)
EntriesFit ==
  \A t \in Task : \A i \in 1..Len(audit[t]) :
    /\ pc[audit[t][i].req] \in {"effects", "done"}
    /\ audit[t][i].action = "CREATE" => call[audit[t][i].req].op = "create"
    /\ audit[t][i].action = "UPDATE" => call[audit[t][i].req].op = "update"

FrozenInv ==
  /\ EntriesFit
  /\ \A t \in Task : Exists(t) /\ BornCompleted(t) => tasks[t].status = "COMPLETED"
  /\ \A r \in Request :
       (pc[r] \in {"assignee", "write"} /\ call[r].op = "update") =>
         audit[call[r].task] # <<>> /\ ~BornCompleted(call[r].task)
  /\ BornCompletedIsFrozen

(* An update writes the fields its body names and no others, whatever was  *)
(* written since it read the row, so two updates of different fields both  *)
(* survive; and only an administrator changes more than the status.        *)
FieldsNotNamedSurvive ==
  [][\A t \in Task :
       (Exists(t) /\ tasks'[t] \notin {NoTask, tasks[t]}) =>
          LET r == audit'[t][Len(audit'[t])].req
          IN  /\ \A f \in Field : tasks'[t][f] # tasks[t][f] =>
                    tasks'[t][f] = call[r].input[f]
              /\ \A f \in Field \ {"status"} : tasks'[t][f] # tasks[t][f] =>
                    call[r].actor \in Admin
              /\ tasks[t].completedAt => tasks'[t].completedAt]_vars

(* What the checks are good for when requests race: an update that finds   *)
(* the row as it read it never edits a completed task, never leaves it due *)
(* before it starts, and is made by an administrator or by its assignee,   *)
(* who changes only the status.                                            *)
UnracedEditsKeepTheRules ==
  [][\A r \in Request :
       LET t == call[r].task
       IN  (pc[r] = "write" /\ pc'[r] = "effects" /\ call[r].op = "update" /\ seen[r] = tasks[t]) =>
             /\ tasks[t].status # "COMPLETED"
             /\ tasks'[t].dueDate >= tasks'[t].startDate
             /\ call[r].actor \in Employee =>
                  /\ tasks[t].assignedTo = call[r].actor
                  /\ \A f \in Field \ {"status"} : tasks'[t][f] = tasks[t][f]]_vars

(* Why: what a request read still passes the checks when it gets to write. *)
ChecksInv ==
  \A r \in Request :
    (pc[r] \in {"assignee", "write"} /\ call[r].op = "update") =>
      Refusal(seen[r], call[r].actor, call[r].input) = 0

(* The awaits do not show: however requests interleave, the table is that  *)
(* of a register where each takes effect at most once, in one step, on the *)
(* row as it then is.                                                      *)
NewRows(t) == {Inserted(t, [input |-> input, actor |-> a]) : input \in NewTasks, a \in Admin}

EditedRows(task) == {Merge(task, input) : input \in Edits}

UsedIds == {t \in Task : ~Fresh(t)}

InEffect == {r \in Request : Committed(r)}

Register == INSTANCE TaskRegister
  WITH New <- NewRows, Changes <- EditedRows, used <- UsedIds, done <- InEffect

ImplementsRegister == Register!Spec

(* The rule the API states, "locked once COMPLETED": the row of a          *)
(* completed task changes only by being removed.                           *)
LockedOnceCompleted ==
  [][\A t \in Task :
       (Exists(t) /\ tasks[t].status = "COMPLETED") => tasks'[t] \in {tasks[t], NoTask}]_vars
=============================================================================
