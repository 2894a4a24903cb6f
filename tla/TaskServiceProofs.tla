------------------------ MODULE TaskServiceProofs ------------------------
(***************************************************************************)
(* Theorems about TaskService, and about the dashboards beside it (module  *)
(* Dashboard), for every value of their constants.                         *)
(***************************************************************************)
EXTENDS Dashboard, TLAPS

-----------------------------------------------------------------------------
(* The operators the actions are built from.                               *)

(* A call names one of the three operations, with the fields that one has. *)
LEMMA CallFields ==
  ASSUME NEW c \in Calls
  PROVE  /\ c.op \in {"create", "update", "remove"}
         /\ c.op = "create" => c.actor \in Admin /\ c.input \in NewTasks
         /\ c.op = "update" => /\ c.actor \in Admin \cup Employee
                               /\ c.task \in Task
                               /\ c.input \in Edits
         /\ c.op = "remove" => c.actor \in Admin /\ c.task \in Task
         /\ c # NoCall
BY DEF Calls, NoCall

(* The row the create transaction inserts is a task row under its own id.  *)
LEMMA InsertedIsARow ==
  ASSUME NEW t \in Task, NEW c \in Calls, c.op = "create"
  PROVE  /\ Inserted(t, c) \in TaskRow
         /\ Inserted(t, c).id = t
         /\ Inserted(t, c).status = c.input.status
<1>1. c.actor \in Admin /\ c.input \in NewTask
  BY CallFields, NewTasksAssumption
<1> QED
  BY <1>1 DEF Inserted, TaskRow, NewTask

(* Merging an edit into a row gives a row with the same id.                *)
LEMMA MergedIsARow ==
  ASSUME NEW task \in TaskRow, NEW input \in Edits
  PROVE  Merge(task, input) \in TaskRow /\ Merge(task, input).id = task.id
<1>1. input \in Edit
  BY EditsAssumption
<1>2. /\ Coalesce(input.status, task.status) \in Status
      /\ Coalesce(input.startDate, task.startDate) \in Date
      /\ Coalesce(input.dueDate, task.dueDate) \in Date
      /\ Coalesce(input.assignedTo, task.assignedTo) \in Employee
  BY <1>1 DEF Edit, TaskRow, Coalesce
<1> QED
  BY <1>1, <1>2 DEF Merge, TaskRow

(* A row is never taken for a missing one.                                 *)
LEMMA RowsExist ==
  ASSUME NEW x \in TaskRow
  PROVE  x # NoTask
BY UndefinedAssumption DEF TaskRow, NoTask

(* Logging appends one entry to the log of one task.                       *)
LEMMA LogAppends ==
  ASSUME audit \in [Task -> Seq(Entry)], NEW r \in Request, NEW t \in Task,
         NEW action \in {"CREATE", "UPDATE", "DELETE"}, Log(r, t, action)
  PROVE  /\ audit' \in [Task -> Seq(Entry)]
         /\ audit'[t] = Append(audit[t], [action |-> action, req |-> r])
         /\ \A u \in Task \ {t} : audit'[u] = audit[u]
         /\ Len(audit[t]) \in Nat
         /\ Len(audit'[t]) = Len(audit[t]) + 1
         /\ audit'[t][Len(audit[t]) + 1] = [action |-> action, req |-> r]
         /\ \A i \in 1..Len(audit[t]) : audit'[t][i] = audit[t][i]
<1>1. [action |-> action, req |-> r] \in Entry
  BY DEF Entry
<1>2. audit[t] \in Seq(Entry)
  OBVIOUS
<1>3. audit'[t] = Append(audit[t], [action |-> action, req |-> r])
  BY DEF Log
<1>4. /\ Len(audit[t]) \in Nat
      /\ Len(audit'[t]) = Len(audit[t]) + 1
      /\ audit'[t][Len(audit[t]) + 1] = [action |-> action, req |-> r]
      /\ \A i \in 1..Len(audit[t]) : audit'[t][i] = audit[t][i]
      /\ audit'[t] \in Seq(Entry)
  BY <1>1, <1>2, <1>3
<1>5. audit' \in [Task -> Seq(Entry)] /\ \A u \in Task \ {t} : audit'[u] = audit[u]
  BY <1>3, <1>4 DEF Log
<1> QED
  BY <1>3, <1>4, <1>5

(* A log that has not changed has not been written.                        *)
LEMMA NothingLogged ==
  ASSUME audit \in [Task -> Seq(Entry)], UNCHANGED audit, NEW r \in Request, NEW t \in Task,
         NEW action \in {"CREATE", "UPDATE", "DELETE"}
  PROVE  ~Log(r, t, action)
<1> SUFFICES ASSUME Log(r, t, action) PROVE FALSE
  OBVIOUS
<1>1. audit'[t] = Append(audit[t], [action |-> action, req |-> r])
  BY LogAppends, Zenon
<1>2. audit[t] \in Seq(Entry) /\ [action |-> action, req |-> r] \in Entry
  BY DEF Entry
<1>3. Len(audit'[t]) = Len(audit[t]) + 1 /\ Len(audit[t]) \in Nat
  BY <1>1, <1>2
<1> QED
  BY <1>3

-----------------------------------------------------------------------------
(* Type correctness.                                                       *)

(* A step of one request leaves the locals of the others alone.            *)
LEMMA OthersKeepTheirLocals ==
  ASSUME TypeOK, NEW r \in Request, NEW q \in Request \ {r},
         pc'[q] = pc[q], call'[q] = call[q], seen'[q] = seen[q], row'[q] = row[q],
         reply'[q] = reply[q]
  PROVE  LocalsFit(q)'
BY DEF TypeOK, LocalsFit

(* What moving on and answering do to the types of pc and reply.           *)
LEMMA GotoTyped ==
  ASSUME NEW r \in Request, NEW label \in Labels, pc \in [Request -> Labels], Goto(r, label)
  PROVE  pc' \in [Request -> Labels]
BY DEF Goto

(* What Answer assigns is typed.                                           *)
LEMMA AnswerTyped ==
  ASSUME NEW r \in Request, NEW status \in Replies, pc \in [Request -> Labels],
         reply \in [Request -> Replies], Answer(r, status)
  PROVE  pc' \in [Request -> Labels] /\ reply' \in [Request -> Replies]
BY DEF Answer, Goto, Labels

(* Every step keeps every variable within its type.                        *)
LEMMA TypeStep == TypeOK /\ [Next]_vars => TypeOK'
<1> SUFFICES ASSUME TypeOK, [Next]_vars
             PROVE  TypeOK'
  OBVIOUS
<1>a. CASE \E r \in Request : RequestStep(r)
  <2> PICK r \in Request : RequestStep(r)
    BY <1>a
  <2>1. CASE Receive(r)
    <3>1. PICK c \in Calls : /\ call' = [call EXCEPT ![r] = c]
                            /\ Goto(r, IF c.op = "create" THEN "assignee" ELSE "read")
      BY <2>1 DEF Receive
    <3>2. LocalsFit(r)'
      BY <2>1, <3>1, CallFields DEF Receive, Goto, TypeOK, LocalsFit
    <3>3. \A q \in Request \ {r} : LocalsFit(q)'
      BY <2>1, <3>1, OthersKeepTheirLocals DEF Receive, Goto, TypeOK
    <3> QED
      BY <2>1, <3>1, <3>2, <3>3 DEF Receive, Goto, TypeOK, Exists, Labels, Replies
  <2>2. CASE ReadMissing(r)
    <3>2. LocalsFit(r)'
      BY <2>2 DEF ReadMissing, Answer, Goto, TypeOK, LocalsFit
    <3>3. \A q \in Request \ {r} : LocalsFit(q)'
      BY <2>2, OthersKeepTheirLocals DEF ReadMissing, Answer, Goto, TypeOK
    <3> QED
      BY <2>2, <3>2, <3>3 DEF ReadMissing, Answer, Goto, TypeOK, Exists, Labels, Replies
  <2>3. CASE ReadForUpdate(r)
    <3>1. /\ call[r] \in Calls
          /\ call[r].task \in Task
          /\ tasks[call[r].task] \in TaskRow
          /\ tasks[call[r].task].id = call[r].task
      BY <2>3, CallFields DEF ReadForUpdate, TypeOK, LocalsFit, Exists
    <3>4. Refusal(tasks[call[r].task], call[r].actor, call[r].input) \in {0, 400, 403, 422}
      BY DEF Refusal
    <3>2. LocalsFit(r)'
      BY <2>3, <3>1, <3>4 DEF ReadForUpdate, Answer, Goto, TypeOK, LocalsFit
    <3>3. \A q \in Request \ {r} : LocalsFit(q)'
      BY <2>3, OthersKeepTheirLocals DEF ReadForUpdate, Answer, Goto, TypeOK
    <3>5. pc \in [Request -> Labels] /\ reply \in [Request -> Replies]
      BY DEF TypeOK, Labels, Replies
    <3>6. /\ pc' \in [Request -> Labels]
          /\ reply' \in [Request -> Replies]
          /\ seen' \in [Request -> TaskRow \cup {NoTask}]
      <4> DEFINE task == tasks[call[r].task]
                 refusal == Refusal(task, call[r].actor, call[r].input)
      <4>1. CASE refusal # 0
        <5>1. Answer(r, refusal) /\ UNCHANGED seen
          BY <2>3, <4>1 DEF ReadForUpdate
        <5>2. refusal \in Replies
          BY <3>4 DEF Replies
        <5> QED
          BY <5>1, <5>2, <3>5, AnswerTyped DEF TypeOK
      <4>2. CASE refusal = 0
        <5>1. /\ seen' = [seen EXCEPT ![r] = task]
              /\ Goto(r, IF call[r].input.assignedTo \in {Undefined, task.assignedTo}
                           THEN "write" ELSE "assignee")
              /\ UNCHANGED reply
          BY <2>3, <4>2 DEF ReadForUpdate
        <5>2. (IF call[r].input.assignedTo \in {Undefined, task.assignedTo}
                 THEN "write" ELSE "assignee") \in Labels
          BY DEF Labels
        <5> HIDE DEF task
        <5>3. pc' \in [Request -> Labels]
          BY <5>1, <5>2, <3>5, GotoTyped
        <5>4. seen' \in [Request -> TaskRow \cup {NoTask}]
          BY <5>1, <3>1 DEF TypeOK, task
        <5> QED
          BY <5>1, <5>3, <5>4, <3>5
      <4> QED
        BY <4>1, <4>2
    <3>7. UNCHANGED <<tasks, audit, removed, call, row, published>>
      BY <2>3 DEF ReadForUpdate
    <3> QED
      BY <3>2, <3>3, <3>6, <3>7 DEF TypeOK, Exists, Labels, Replies
  <2>4. CASE ReadForRemove(r)
    <3>1. /\ call[r] \in Calls
          /\ call[r].task \in Task
          /\ tasks[call[r].task] \in TaskRow
          /\ tasks[call[r].task].id = call[r].task
      BY <2>4, CallFields DEF ReadForRemove, TypeOK, LocalsFit, Exists
    <3>2. LocalsFit(r)'
      BY <2>4, <3>1 DEF ReadForRemove, Goto, TypeOK, LocalsFit
    <3>3. \A q \in Request \ {r} : LocalsFit(q)'
      BY <2>4, OthersKeepTheirLocals DEF ReadForRemove, Goto, TypeOK
    <3> QED
      BY <2>4, <3>2, <3>3, <3>1 DEF ReadForRemove, Goto, TypeOK, Exists, Labels, Replies
  <2>5. CASE CheckAssignee(r)
    <3>2. LocalsFit(r)'
      BY <2>5 DEF CheckAssignee, Answer, Goto, TypeOK, LocalsFit
    <3>3. \A q \in Request \ {r} : LocalsFit(q)'
      BY <2>5, OthersKeepTheirLocals DEF CheckAssignee, Answer, Goto, TypeOK
    <3>4. pc' \in [Request -> Labels] /\ reply' \in [Request -> Replies]
      <4>1. /\ pc \in [Request -> Labels] /\ reply \in [Request -> Replies]
            /\ "write" \in Labels /\ 400 \in Replies
        BY DEF TypeOK, Labels, Replies
      <4> QED
        BY <2>5, <4>1, GotoTyped, AnswerTyped DEF CheckAssignee
    <3>5. UNCHANGED <<tasks, audit, removed, call, seen, row, published>>
      BY <2>5 DEF CheckAssignee
    <3> QED
      BY <3>2, <3>3, <3>4, <3>5 DEF TypeOK, Exists, Labels, Replies
  <2>6. CASE WriteCreate(r)
    <3>1. call[r] \in Calls
      BY <2>6, CallFields DEF WriteCreate, TypeOK, LocalsFit
    <3>2. PICK t \in Task : /\ Fresh(t)
                            /\ tasks' = [tasks EXCEPT ![t] = Inserted(t, call[r])]
                            /\ row' = [row EXCEPT ![r] = Inserted(t, call[r])]
                            /\ Log(r, t, "CREATE")
      BY <2>6 DEF WriteCreate
    <3>3. Inserted(t, call[r]) \in TaskRow /\ Inserted(t, call[r]).id = t
      BY <2>6, <3>1, InsertedIsARow DEF WriteCreate
    <3>4. LocalsFit(r)'
      BY <2>6, <3>2, <3>3 DEF WriteCreate, Goto, TypeOK, LocalsFit
    <3>5. \A q \in Request \ {r} : LocalsFit(q)'
      BY <2>6, <3>2, OthersKeepTheirLocals DEF WriteCreate, Goto, TypeOK
    <3>6. audit' \in [Task -> Seq(Entry)]
      BY <3>2, LogAppends DEF TypeOK
    <3> QED
      BY <2>6, <3>2, <3>3, <3>4, <3>5, <3>6 DEF WriteCreate, Goto, TypeOK, Exists, Labels, Replies
  <2>7. CASE WriteUpdate(r)
    <3> DEFINE t == call[r].task
    <3>1. /\ call[r] \in Calls /\ t \in Task /\ call[r].input \in Edits
          /\ tasks[t] \in TaskRow /\ tasks[t].id = t
      BY <2>7, CallFields DEF WriteUpdate, TypeOK, LocalsFit, Exists
    <3>2. Updated(r) \in TaskRow /\ Updated(r).id = t
      BY <3>1, MergedIsARow DEF Updated
    <3>3. /\ pc[r] = "write" /\ call[r].op = "update"
          /\ tasks' = [tasks EXCEPT ![t] = Updated(r)]
          /\ row' = [row EXCEPT ![r] = Updated(r)]
          /\ Log(r, t, "UPDATE")
          /\ pc' = [pc EXCEPT ![r] = "effects"]
          /\ UNCHANGED <<removed, call, seen, reply, published>>
      BY <2>7 DEF WriteUpdate, Goto
    <3> HIDE DEF t
    <3>4. LocalsFit(r)'
      BY <3>2, <3>3 DEF TypeOK, LocalsFit
    <3>5. \A q \in Request \ {r} : LocalsFit(q)'
      BY <3>3, OthersKeepTheirLocals DEF TypeOK
    <3>6. audit' \in [Task -> Seq(Entry)]
      BY <3>1, <3>3, LogAppends DEF TypeOK
    <3> QED
      BY <3>1, <3>2, <3>3, <3>4, <3>5, <3>6 DEF TypeOK, Exists, Labels, Replies
  <2>8. CASE WriteRemove(r)
    <3>1. call[r] \in Calls /\ call[r].task \in Task
      BY <2>8, CallFields DEF WriteRemove, TypeOK, LocalsFit
    <3>2. LocalsFit(r)'
      BY <2>8 DEF WriteRemove, Goto, TypeOK, LocalsFit
    <3>3. \A q \in Request \ {r} : LocalsFit(q)'
      BY <2>8, OthersKeepTheirLocals DEF WriteRemove, Goto, TypeOK
    <3>4. audit' \in [Task -> Seq(Entry)]
      BY <2>8, <3>1, LogAppends DEF WriteRemove, TypeOK
    <3> QED
      BY <2>8, <3>1, <3>2, <3>3, <3>4 DEF WriteRemove, Goto, TypeOK, Exists, Labels, Replies
  <2>9. CASE WriteMissing(r)
    <3>2. LocalsFit(r)'
      BY <2>9 DEF WriteMissing, Answer, Goto, TypeOK, LocalsFit
    <3>3. \A q \in Request \ {r} : LocalsFit(q)'
      BY <2>9, OthersKeepTheirLocals DEF WriteMissing, Answer, Goto, TypeOK
    <3> QED
      BY <2>9, <3>2, <3>3 DEF WriteMissing, Answer, Goto, TypeOK, Exists, Labels, Replies
  <2>10. CASE Effects(r)
    <3>1. call[r] \in Calls
      BY <2>10, CallFields DEF Effects, TypeOK, LocalsFit
    <3>2. call[r].op # "remove" => row[r] \in TaskRow
      BY <2>10 DEF Effects, TypeOK, LocalsFit
    <3>3. Announcement(r) \subseteq EventRow
      BY <3>1, <3>2, CallFields DEF Announcement, Event, EventRow, TaskRow
    <3>4. LocalsFit(r)'
      BY <2>10 DEF Effects, Answer, Goto, TypeOK, LocalsFit
    <3>5. \A q \in Request \ {r} : LocalsFit(q)'
      BY <2>10, OthersKeepTheirLocals DEF Effects, Answer, Goto, TypeOK
    <3> QED
      BY <2>10, <3>3, <3>4, <3>5 DEF Effects, Answer, Goto, TypeOK, Exists, Labels, Replies
  <2> QED
    BY <2>1, <2>2, <2>3, <2>4, <2>5, <2>6, <2>7, <2>8, <2>9, <2>10 DEF RequestStep
<1>b. CASE \E e \in Employee : RemoveEmployee(e)
  BY <1>b DEF RemoveEmployee, TypeOK, LocalsFit, Exists
<1>c. CASE UNCHANGED vars
  BY <1>c DEF vars, TypeOK, LocalsFit, Exists
<1> QED
  BY <1>a, <1>b, <1>c DEF Next

(* In every reachable state the variables have the values the code gives   *)
(* them, and a request finds in its locals what its next step needs.       *)
THEOREM TypeCorrect == Spec => []TypeOK
<1>1. Init => TypeOK
  BY DEF Init, TypeOK, LocalsFit, Exists, NoCall, Labels, Replies
<1> QED
  BY <1>1, TypeStep, PTL DEF Spec

-----------------------------------------------------------------------------
(* The audit log.                                                          *)

(* The life of one task, as AuditTellsTheLife states it for all of them.   *)
LifeOf(t) ==
  LET n == Len(audit[t])
  IN  /\ \A i \in 1..n : audit[t][i].action = "CREATE" <=> i = 1
      /\ \A i \in 1..n : audit[t][i].action = "DELETE" => i = n
      /\ Exists(t) <=> (n > 0 /\ audit[t][n].action # "DELETE")

(* A step that leaves the row and the log of a task alone keeps its life.  *)
LEMMA LifeUntouched ==
  ASSUME NEW t \in Task, LifeOf(t), tasks'[t] = tasks[t], audit'[t] = audit[t]
  PROVE  LifeOf(t)'
BY DEF LifeOf, Exists

(* Inserting a row under a fresh id, writing to a row that is there and    *)
(* removing one that is there keep its life.                               *)
LEMMA LifeGoesOn ==
  ASSUME TypeOK, NEW r \in Request, NEW t \in Task, LifeOf(t),
         NEW action \in {"CREATE", "UPDATE", "DELETE"}, Log(r, t, action),
         action = "CREATE" <=> audit[t] = <<>>,
         action # "CREATE" => Exists(t),
         Exists(t)' <=> action # "DELETE"
  PROVE  LifeOf(t)'
<1> DEFINE n == Len(audit[t])
<1>1. /\ n \in Nat
      /\ Len(audit'[t]) = n + 1
      /\ audit'[t][n + 1] = [action |-> action, req |-> r]
      /\ \A i \in 1..n : audit'[t][i] = audit[t][i]
  <2>1. audit \in [Task -> Seq(Entry)]
    BY DEF TypeOK
  <2>2. Log(r, t, action)
    OBVIOUS
  <2>3. audit'[t][Len(audit[t]) + 1] = [action |-> action, req |-> r]
    BY <2>1, <2>2, LogAppends, Zenon
  <2>4. \A i \in 1..Len(audit[t]) : audit'[t][i] = audit[t][i]
    BY <2>1, <2>2, LogAppends, Zenon
  <2>5. Len(audit'[t]) = Len(audit[t]) + 1
    <3>1. audit'[t] = Append(audit[t], [action |-> action, req |-> r])
      BY <2>1, <2>2, LogAppends, Zenon
    <3>2. audit[t] \in Seq(Entry) /\ [action |-> action, req |-> r] \in Entry
      BY <2>1 DEF Entry
    <3> QED
      BY <3>1, <3>2
  <2>6. Len(audit[t]) \in Nat
    BY <2>1
  <2> QED
    BY <2>3, <2>4, <2>5, <2>6
<1>2. n = 0 <=> action = "CREATE"
  <2>1. audit[t] \in Seq(Entry)
    BY DEF TypeOK
  <2> QED
    BY <2>1
<1>3. \A i \in 1..n : audit[t][i].action = "CREATE" <=> i = 1
  BY DEF LifeOf
<1>4. \A i \in 1..n : audit[t][i].action # "DELETE"
  BY <1>1, <1>2 DEF LifeOf
<1>5. audit'[t][n + 1].action = action
  BY <1>1
<1> HIDE DEF n
<1>6. \A i \in 1..n + 1 : audit'[t][i].action = "CREATE" <=> i = 1
  BY <1>1, <1>2, <1>3, <1>5
<1>7. \A i \in 1..n + 1 : audit'[t][i].action = "DELETE" => i = n + 1
  BY <1>1, <1>4, <1>5
<1> QED
  BY <1>1, <1>5, <1>6, <1>7 DEF LifeOf

(* Every step keeps the life of every task.                                *)
LEMMA LifeStep == TypeOK /\ AuditTellsTheLife /\ [Next]_vars => AuditTellsTheLife'
<1> SUFFICES ASSUME TypeOK, AuditTellsTheLife, [Next]_vars, NEW t \in Task
             PROVE  LifeOf(t)'
  BY DEF AuditTellsTheLife, LifeOf
<1>1. LifeOf(t)
  BY DEF AuditTellsTheLife, LifeOf
<1>2. CASE UNCHANGED <<tasks, audit>>
  BY <1>1, <1>2, LifeUntouched
<1>3. ASSUME NEW r \in Request, WriteCreate(r)
      PROVE  LifeOf(t)'
  <2>1. call[r] \in Calls /\ call[r].op = "create"
    BY <1>3, CallFields DEF WriteCreate, TypeOK, LocalsFit
  <2>2. PICK u \in Task : /\ Fresh(u)
                          /\ tasks' = [tasks EXCEPT ![u] = Inserted(u, call[r])]
                          /\ Log(r, u, "CREATE")
    BY <1>3 DEF WriteCreate
  <2>3. CASE u = t
    <3>1. Inserted(t, call[r]) # NoTask
      BY <2>1, InsertedIsARow, RowsExist
    <3>2. Exists(t)'
      BY <2>2, <2>3, <3>1 DEF Exists, TypeOK
    <3> QED
      BY <1>1, <2>2, <2>3, <3>2, LifeGoesOn DEF Fresh
  <2>4. CASE u # t
    BY <1>1, <2>2, <2>4, LifeUntouched DEF Log, TypeOK
  <2> QED
    BY <2>3, <2>4
<1>4. ASSUME NEW r \in Request, WriteUpdate(r)
      PROVE  LifeOf(t)'
  <2>1. /\ call[r] \in Calls /\ call[r].task \in Task /\ call[r].input \in Edits
        /\ tasks[call[r].task] \in TaskRow
    BY <1>4, CallFields DEF WriteUpdate, TypeOK, LocalsFit, Exists
  <2>2. /\ Exists(call[r].task)
        /\ tasks' = [tasks EXCEPT ![call[r].task] = Updated(r)]
        /\ Log(r, call[r].task, "UPDATE")
    BY <1>4 DEF WriteUpdate
  <2>3. CASE call[r].task = t
    <3>1. Updated(r) # NoTask
      BY <2>1, MergedIsARow, RowsExist DEF Updated
    <3>2. Exists(t)'
      BY <2>2, <2>3, <3>1 DEF Exists, TypeOK
    <3>3. audit[t] # <<>>
      BY <1>1, <2>2, <2>3 DEF LifeOf
    <3> QED
      BY <1>1, <2>2, <2>3, <3>2, <3>3, LifeGoesOn
  <2>4. CASE call[r].task # t
    BY <1>1, <2>2, <2>4, LifeUntouched DEF Log, TypeOK
  <2> QED
    BY <2>3, <2>4
<1>5. ASSUME NEW r \in Request, WriteRemove(r)
      PROVE  LifeOf(t)'
  <2>1. call[r].task \in Task
    BY <1>5, CallFields DEF WriteRemove, TypeOK, LocalsFit
  <2>2. /\ Exists(call[r].task)
        /\ tasks' = [tasks EXCEPT ![call[r].task] = NoTask]
        /\ Log(r, call[r].task, "DELETE")
    BY <1>5 DEF WriteRemove
  <2>3. CASE call[r].task = t
    <3>1. ~Exists(t)'
      BY <2>2, <2>3 DEF Exists, TypeOK
    <3>2. audit[t] # <<>>
      BY <1>1, <2>2, <2>3 DEF LifeOf
    <3> QED
      BY <1>1, <2>2, <2>3, <3>1, <3>2, LifeGoesOn
  <2>4. CASE call[r].task # t
    BY <1>1, <2>2, <2>4, LifeUntouched DEF Log, TypeOK
  <2> QED
    BY <2>3, <2>4
<1> QED
  BY <1>2, <1>3, <1>4, <1>5 DEF Next, RequestStep, vars, Receive, ReadMissing, ReadForUpdate,
     ReadForRemove, CheckAssignee, WriteMissing, Effects, RemoveEmployee

(* In every reachable state the audit log of a task is CREATE, then        *)
(* UPDATEs, then possibly DELETE, and the row is there exactly in between. *)
THEOREM AuditIsALife == Spec => []AuditTellsTheLife
<1>1. Init => AuditTellsTheLife
  BY DEF Init, AuditTellsTheLife, Exists
<1> QED
  BY <1>1, TypeCorrect, LifeStep, PTL DEF Spec

-----------------------------------------------------------------------------
(* Tasks created COMPLETED.                                                *)

(* A step leaves the log and the row of a task alone, or it is one of the  *)
(* three transactions, run by a request that had got to it.                *)
Transaction(r, t, action) ==
  /\ Log(r, t, action)
  /\ pc[r] = "write" /\ pc'[r] = "effects" /\ call' = call
  /\ action = "CREATE" => /\ call[r].op = "create"
                          /\ audit[t] = <<>>
                          /\ tasks'[t] = Inserted(t, call[r])
  /\ action = "UPDATE" => /\ call[r].op = "update"
                          /\ call[r].task = t
                          /\ Exists(t)
                          /\ tasks'[t] = Updated(r)
  /\ action = "DELETE" => /\ call[r].op = "remove"
                          /\ tasks'[t] = NoTask
  /\ action # "DELETE" => row'[r].id = t

(* What the three writes do to one task, and to nothing else.              *)
LEMMA WritesAreTransactions ==
  ASSUME TypeOK, NEW r \in Request, WriteCreate(r) \/ WriteUpdate(r) \/ WriteRemove(r)
  PROVE  \E t \in Task, action \in {"CREATE", "UPDATE", "DELETE"} :
           /\ Transaction(r, t, action)
           /\ \A u \in Task \ {t} : audit'[u] = audit[u] /\ tasks'[u] = tasks[u]
<1>1. CASE WriteCreate(r)
  <2>1. PICK t \in Task : /\ Fresh(t)
                          /\ tasks' = [tasks EXCEPT ![t] = Inserted(t, call[r])]
                          /\ row' = [row EXCEPT ![r] = Inserted(t, call[r])]
                          /\ Log(r, t, "CREATE")
    BY <1>1 DEF WriteCreate
  <2>2. Inserted(t, call[r]).id = t
    BY DEF Inserted
  <2>3. tasks'[t] = Inserted(t, call[r]) /\ row'[r] = Inserted(t, call[r])
    BY <2>1 DEF TypeOK
  <2>4. Transaction(r, t, "CREATE")
    BY <1>1, <2>1, <2>2, <2>3 DEF WriteCreate, Fresh, Goto, TypeOK, Transaction
  <2>5. \A u \in Task \ {t} : audit'[u] = audit[u] /\ tasks'[u] = tasks[u]
    BY <2>1 DEF Log, TypeOK
  <2> QED
    BY <2>4, <2>5
<1>2. CASE WriteUpdate(r)
  <2> DEFINE t == call[r].task
  <2>1. /\ Exists(t) /\ Log(r, t, "UPDATE")
        /\ tasks' = [tasks EXCEPT ![t] = Updated(r)]
        /\ row' = [row EXCEPT ![r] = Updated(r)]
    BY <1>2 DEF WriteUpdate
  <2>2. t \in Task /\ call[r].input \in Edits /\ tasks[t] \in TaskRow /\ tasks[t].id = t
    BY <1>2, <2>1, CallFields DEF WriteUpdate, TypeOK, LocalsFit, Exists
  <2>3. Updated(r).id = t
    BY <2>2, MergedIsARow DEF Updated
  <2>4. tasks'[t] = Updated(r) /\ row'[r] = Updated(r)
    BY <2>1, <2>2 DEF TypeOK
  <2>5. Transaction(r, t, "UPDATE")
    BY <1>2, <2>1, <2>3, <2>4 DEF WriteUpdate, Goto, TypeOK, Transaction
  <2>6. \A u \in Task \ {t} : audit'[u] = audit[u] /\ tasks'[u] = tasks[u]
    BY <2>1 DEF Log, TypeOK
  <2> QED
    BY <2>2, <2>5, <2>6
<1>3. CASE WriteRemove(r)
  <2> DEFINE t == call[r].task
  <2>1. t \in Task
    BY <1>3, CallFields DEF WriteRemove, TypeOK, LocalsFit
  <2>2. Transaction(r, t, "DELETE")
    BY <1>3, <2>1 DEF WriteRemove, Goto, TypeOK, Transaction
  <2>3. \A u \in Task \ {t} : audit'[u] = audit[u] /\ tasks'[u] = tasks[u]
    BY <1>3 DEF WriteRemove, Log, TypeOK
  <2> QED
    BY <2>1, <2>2, <2>3
<1> QED
  BY <1>1, <1>2, <1>3

(* Only the transactions write the tasks table or the audit log.           *)
LEMMA OnlyTransactionsWrite ==
  ASSUME TypeOK, [Next]_vars, NEW t \in Task
  PROVE  \/ audit'[t] = audit[t] /\ tasks'[t] = tasks[t]
         \/ \E r \in Request, action \in {"CREATE", "UPDATE", "DELETE"} : Transaction(r, t, action)
<1>1. CASE UNCHANGED <<tasks, audit>>
  BY <1>1
<1>2. CASE \E r \in Request : WriteCreate(r) \/ WriteUpdate(r) \/ WriteRemove(r)
  BY <1>2, WritesAreTransactions
<1> QED
  BY <1>1, <1>2 DEF Next, RequestStep, vars, Receive, ReadMissing, ReadForUpdate,
     ReadForRemove, CheckAssignee, WriteMissing, Effects, RemoveEmployee

(* A request past its transaction keeps its call and stays past it.        *)
LEMMA PastIsPast ==
  ASSUME TypeOK, [Next]_vars, NEW q \in Request, pc[q] \in {"effects", "done"}
  PROVE  pc'[q] \in {"effects", "done"} /\ call'[q] = call[q]
<1> USE DEF Goto, Answer, TypeOK
<1>1. ASSUME NEW r \in Request, Receive(r)
      PROVE  pc'[q] = pc[q] /\ call'[q] = call[q]
  BY <1>1 DEF Receive
<1>2. ASSUME NEW r \in Request, ReadMissing(r) \/ ReadForRemove(r)
      PROVE  pc'[q] = pc[q] /\ call'[q] = call[q]
  BY <1>2 DEF ReadMissing, ReadForRemove
<1>3. ASSUME NEW r \in Request, ReadForUpdate(r)
      PROVE  pc'[q] = pc[q] /\ call'[q] = call[q]
  BY <1>3 DEF ReadForUpdate
<1>4. ASSUME NEW r \in Request, CheckAssignee(r)
      PROVE  pc'[q] = pc[q] /\ call'[q] = call[q]
  BY <1>4 DEF CheckAssignee
<1>5. ASSUME NEW r \in Request, WriteCreate(r) \/ WriteUpdate(r) \/ WriteRemove(r) \/ WriteMissing(r)
      PROVE  pc'[q] = pc[q] /\ call'[q] = call[q]
  BY <1>5 DEF WriteCreate, WriteUpdate, WriteRemove, WriteMissing
<1>6. ASSUME NEW r \in Request, Effects(r)
      PROVE  pc'[q] \in {"effects", "done"} /\ call'[q] = call[q]
  BY <1>6 DEF Effects
<1>7. ASSUME NEW e \in Employee, RemoveEmployee(e)
      PROVE  pc'[q] = pc[q] /\ call'[q] = call[q]
  BY <1>7 DEF RemoveEmployee
<1>8. CASE UNCHANGED vars
  BY <1>8 DEF vars
<1> QED
  BY <1>1, <1>2, <1>3, <1>4, <1>5, <1>6, <1>7, <1>8 DEF Next, RequestStep

(* An update gets past its checks only by reading a row that is there and  *)
(* not completed.                                                          *)
LEMMA HowUpdatesGetPast ==
  ASSUME TypeOK, [Next]_vars, NEW q \in Request,
         pc'[q] \in {"assignee", "write"}, call'[q].op = "update"
  PROVE  /\ call'[q] = call[q]
         /\ \/ pc[q] \in {"assignee", "write"}
            \/ Exists(call[q].task) /\ tasks[call[q].task].status # "COMPLETED"
<1> USE DEF Goto, Answer, TypeOK
<1>1. ASSUME NEW r \in Request, Receive(r)
      PROVE  pc'[q] = pc[q] /\ call'[q] = call[q]
  BY <1>1 DEF Receive
<1>2. ASSUME NEW r \in Request, ReadMissing(r)
      PROVE  pc'[q] = pc[q] /\ call'[q] = call[q]
  BY <1>2 DEF ReadMissing
<1>3. ASSUME NEW r \in Request, ReadForUpdate(r)
      PROVE  /\ call'[q] = call[q]
             /\ \/ pc'[q] = pc[q]
                \/ Exists(call[q].task) /\ tasks[call[q].task].status # "COMPLETED"
  BY <1>3 DEF ReadForUpdate, Refusal
<1>4. ASSUME NEW r \in Request, ReadForRemove(r)
      PROVE  pc'[q] = pc[q] /\ call'[q] = call[q]
  BY <1>4 DEF ReadForRemove
<1>5. ASSUME NEW r \in Request, CheckAssignee(r)
      PROVE  call'[q] = call[q] /\ pc[q] \in {"assignee", "write"}
  BY <1>5 DEF CheckAssignee
<1>6. ASSUME NEW r \in Request, WriteCreate(r) \/ WriteUpdate(r) \/ WriteRemove(r) \/ WriteMissing(r)
      PROVE  pc'[q] = pc[q] /\ call'[q] = call[q]
  BY <1>6 DEF WriteCreate, WriteUpdate, WriteRemove, WriteMissing
<1>7. ASSUME NEW r \in Request, Effects(r)
      PROVE  pc'[q] = pc[q] /\ call'[q] = call[q]
  BY <1>7 DEF Effects
<1>8. ASSUME NEW e \in Employee, RemoveEmployee(e)
      PROVE  pc'[q] = pc[q] /\ call'[q] = call[q]
  BY <1>8 DEF RemoveEmployee
<1>9. CASE UNCHANGED vars
  BY <1>9 DEF vars
<1> QED
  BY <1>1, <1>2, <1>3, <1>4, <1>5, <1>6, <1>7, <1>8, <1>9 DEF Next, RequestStep

(* What Transaction appends, with the entries before it in their places.   *)
LEMMA TransactionAppends ==
  ASSUME TypeOK, NEW r \in Request, NEW t \in Task, NEW action \in {"CREATE", "UPDATE", "DELETE"},
         Transaction(r, t, action)
  PROVE  /\ Len(audit[t]) \in Nat
         /\ Len(audit'[t]) = Len(audit[t]) + 1
         /\ audit'[t][Len(audit[t]) + 1] = [action |-> action, req |-> r]
         /\ \A i \in 1..Len(audit[t]) : audit'[t][i] = audit[t][i]
<1>1. audit \in [Task -> Seq(Entry)] /\ Log(r, t, action)
  BY DEF TypeOK, Transaction
<1>2. audit'[t] = Append(audit[t], [action |-> action, req |-> r])
  BY <1>1, LogAppends, Zenon
<1>3. audit[t] \in Seq(Entry) /\ [action |-> action, req |-> r] \in Entry
  BY <1>1 DEF Entry
<1> QED
  BY <1>2, <1>3

(* A step writes the log of one task.                                      *)
LEMMA OneTransaction ==
  ASSUME TypeOK, NEW r \in Request, NEW q \in Request, NEW t \in Task, NEW u \in Task,
         NEW action \in {"CREATE", "UPDATE", "DELETE"}, Transaction(r, t, action),
         NEW a \in {"CREATE", "UPDATE", "DELETE"}, Transaction(q, u, a)
  PROVE  t = u
<1>1. ~(audit'[u] = audit[u])
  <2>1. /\ Len(audit[u]) \in Nat
        /\ Len(audit'[u]) = Len(audit[u]) + 1
        /\ audit'[u][Len(audit[u]) + 1] = [action |-> a, req |-> q]
        /\ \A i \in 1..Len(audit[u]) : audit'[u][i] = audit[u][i]
    BY TransactionAppends, Zenon
  <2> QED
    BY <2>1
<1>2. t # u => audit'[u] = audit[u]
  BY DEF Transaction, Log, TypeOK
<1> QED
  BY <1>1, <1>2

(* Every entry in the log after a step was there before, or it is the one  *)
(* a transaction appended.                                                 *)
LEMMA EntriesBeforeAndAfter ==
  ASSUME TypeOK, [Next]_vars, NEW t \in Task, NEW i \in 1..Len(audit'[t])
  PROVE  \/ /\ i \in 1..Len(audit[t])
            /\ audit'[t][i] = audit[t][i]
         \/ \E r \in Request, action \in {"CREATE", "UPDATE", "DELETE"} :
              /\ Transaction(r, t, action)
              /\ i = Len(audit[t]) + 1
              /\ audit'[t][i] = [action |-> action, req |-> r]
<1>1. CASE audit'[t] = audit[t]
  BY <1>1
<1>2. ASSUME NEW r \in Request, NEW action \in {"CREATE", "UPDATE", "DELETE"},
             Transaction(r, t, action)
      PROVE  \/ /\ i \in 1..Len(audit[t])
                /\ audit'[t][i] = audit[t][i]
             \/ /\ i = Len(audit[t]) + 1
                /\ audit'[t][i] = [action |-> action, req |-> r]
  <2>1. /\ Len(audit[t]) \in Nat
        /\ Len(audit'[t]) = Len(audit[t]) + 1
        /\ audit'[t][Len(audit[t]) + 1] = [action |-> action, req |-> r]
        /\ \A j \in 1..Len(audit[t]) : audit'[t][j] = audit[t][j]
    BY <1>2, TransactionAppends
  <2> QED
    BY <2>1
<1> QED
  BY <1>1, <1>2, OnlyTransactionsWrite

(* Whether a task was born completed is settled by its first entry.        *)
LEMMA BirthIsSettled ==
  ASSUME TypeOK, EntriesFit, [Next]_vars, NEW t \in Task, audit[t] # <<>>
  PROVE  audit'[t] # <<>> /\ (BornCompleted(t)' <=> BornCompleted(t))
<1>1. audit[t] \in Seq(Entry) /\ Len(audit[t]) \in Nat
  BY DEF TypeOK
<1>2. Len(audit[t]) > 0 /\ 1 \in 1..Len(audit[t])
  BY <1>1
<1>3. audit[t][1].req \in Request /\ pc[audit[t][1].req] \in {"effects", "done"}
  <2>1. audit[t][1] \in Entry
    BY <1>1, <1>2
  <2> QED
    BY <1>2, <2>1 DEF EntriesFit, Entry
<1>4. audit'[t] # <<>> /\ audit'[t][1] = audit[t][1]
  <2>1. CASE audit'[t] = audit[t]
    BY <2>1
  <2>2. ASSUME NEW r \in Request, NEW action \in {"CREATE", "UPDATE", "DELETE"},
               Transaction(r, t, action)
        PROVE  audit'[t] # <<>> /\ audit'[t][1] = audit[t][1]
    <3>1. /\ Len(audit'[t]) = Len(audit[t]) + 1
          /\ \A j \in 1..Len(audit[t]) : audit'[t][j] = audit[t][j]
      BY <2>2, TransactionAppends
    <3> QED
      BY <1>1, <1>2, <3>1
  <2> QED
    BY <2>1, <2>2, OnlyTransactionsWrite
<1>5. call'[audit[t][1].req] = call[audit[t][1].req]
  BY <1>3, PastIsPast
<1> QED
  BY <1>4, <1>5 DEF BornCompleted

(* Every step keeps FrozenInv: the checks of an update refuse a task born  *)
(* completed, and its row stays completed until it is removed.             *)
LEMMA FrozenStep == TypeOK /\ AuditTellsTheLife /\ FrozenInv /\ [Next]_vars => FrozenInv'
<1> SUFFICES ASSUME TypeOK, AuditTellsTheLife, FrozenInv, [Next]_vars
             PROVE  FrozenInv'
  OBVIOUS
<1>1. EntriesFit
  BY DEF FrozenInv
<1>2. TypeOK' /\ AuditTellsTheLife'
  BY TypeStep, LifeStep
<1>3. ASSUME NEW t \in Task, Exists(t)
      PROVE  audit[t] # <<>>
  BY <1>3 DEF AuditTellsTheLife
<1>4. EntriesFit'
  <2> SUFFICES ASSUME NEW t \in Task, NEW i \in 1..Len(audit'[t])
               PROVE  /\ pc'[audit'[t][i].req] \in {"effects", "done"}
                      /\ audit'[t][i].action = "CREATE" => call'[audit'[t][i].req].op = "create"
                      /\ audit'[t][i].action = "UPDATE" => call'[audit'[t][i].req].op = "update"
    BY DEF EntriesFit
  <2>1. CASE i \in 1..Len(audit[t]) /\ audit'[t][i] = audit[t][i]
    <3>1. audit[t][i] \in Entry
      BY <2>1 DEF TypeOK
    <3>2. audit[t][i].req \in Request /\ pc[audit[t][i].req] \in {"effects", "done"}
      BY <1>1, <2>1, <3>1 DEF EntriesFit, Entry
    <3>3. /\ pc'[audit[t][i].req] \in {"effects", "done"}
          /\ call'[audit[t][i].req] = call[audit[t][i].req]
      BY <3>2, PastIsPast
    <3> QED
      BY <1>1, <2>1, <3>3 DEF EntriesFit
  <2>2. ASSUME NEW r \in Request, NEW action \in {"CREATE", "UPDATE", "DELETE"},
               Transaction(r, t, action), audit'[t][i] = [action |-> action, req |-> r]
        PROVE  /\ pc'[audit'[t][i].req] \in {"effects", "done"}
               /\ audit'[t][i].action = "CREATE" => call'[audit'[t][i].req].op = "create"
               /\ audit'[t][i].action = "UPDATE" => call'[audit'[t][i].req].op = "update"
    BY <2>2 DEF Transaction
  <2> QED
    BY <2>1, <2>2, EntriesBeforeAndAfter
<1>5. ASSUME NEW r \in Request, NEW t \in Task, Transaction(r, t, "UPDATE")
      PROVE  audit[t] # <<>> /\ ~BornCompleted(t)
  BY <1>5 DEF Transaction, FrozenInv
<1>6. ASSUME NEW t \in Task, Exists(t)', BornCompleted(t)'
      PROVE  tasks'[t].status = "COMPLETED"
  <2>1. CASE audit'[t] = audit[t] /\ tasks'[t] = tasks[t]
    <3>1. Exists(t)
      BY <1>6, <2>1 DEF Exists
    <3>2. BornCompleted(t)
      BY <1>1, <1>3, <1>6, <3>1, BirthIsSettled
    <3> QED
      BY <2>1, <3>1, <3>2 DEF FrozenInv
  <2>2. ASSUME NEW r \in Request, Transaction(r, t, "CREATE")
        PROVE  tasks'[t].status = "COMPLETED"
    <3>1. call[r] \in Calls
      BY <2>2, CallFields DEF Transaction, TypeOK, LocalsFit
    <3>2. tasks'[t].status = call[r].input.status
      BY <2>2, <3>1, InsertedIsARow DEF Transaction
    <3>3. audit'[t][1].req = r
      <4>1. audit[t] = <<>>
        BY <2>2 DEF Transaction
      <4>2. audit'[t][Len(audit[t]) + 1] = [action |-> "CREATE", req |-> r]
        BY <2>2, TransactionAppends
      <4> QED
        BY <4>1, <4>2
    <3> QED
      BY <1>6, <2>2, <3>2, <3>3 DEF BornCompleted, Transaction
  <2>3. ASSUME NEW r \in Request, Transaction(r, t, "UPDATE")
        PROVE  FALSE
    BY <1>1, <1>5, <1>6, <2>3, BirthIsSettled
  <2>4. ASSUME NEW r \in Request, Transaction(r, t, "DELETE")
        PROVE  FALSE
    BY <1>6, <2>4 DEF Transaction, Exists
  <2> QED
    BY <2>1, <2>2, <2>3, <2>4, OnlyTransactionsWrite
<1>7. ASSUME NEW r \in Request, pc'[r] \in {"assignee", "write"}, call'[r].op = "update"
      PROVE  audit'[call'[r].task] # <<>> /\ ~BornCompleted(call[r].task)'
  <2>1. call'[r] \in Calls /\ call'[r].task \in Task
    BY <1>2, <1>7, CallFields DEF TypeOK, LocalsFit
  <2>2. /\ call'[r] = call[r]
        /\ \/ pc[r] \in {"assignee", "write"}
           \/ Exists(call[r].task) /\ tasks[call[r].task].status # "COMPLETED"
    BY <1>7, HowUpdatesGetPast
  <2>3. audit[call[r].task] # <<>> /\ ~BornCompleted(call[r].task)
    BY <1>3, <1>7, <2>1, <2>2 DEF FrozenInv
  <2>4. /\ audit'[call[r].task] # <<>>
        /\ call'[audit'[call[r].task][1].req].input.status # "COMPLETED"
    BY <1>1, <2>1, <2>2, <2>3, BirthIsSettled DEF BornCompleted
  <2> QED
    BY <2>2, <2>4 DEF BornCompleted
<1>8. BornCompletedIsFrozen'
  <2> SUFFICES ASSUME NEW t \in Task, NEW i \in 1..Len(audit'[t]), audit'[t][i].action = "UPDATE"
               PROVE  ~BornCompleted(t)'
    BY DEF BornCompletedIsFrozen
  <2>1. audit[t] # <<>> /\ ~BornCompleted(t)
    <3>1. CASE i \in 1..Len(audit[t]) /\ audit'[t][i] = audit[t][i]
      BY <3>1 DEF FrozenInv, BornCompletedIsFrozen
    <3>2. ASSUME NEW r \in Request, NEW action \in {"CREATE", "UPDATE", "DELETE"},
                 Transaction(r, t, action), audit'[t][i] = [action |-> action, req |-> r]
          PROVE  audit[t] # <<>> /\ ~BornCompleted(t)
      BY <1>5, <3>2
    <3> QED
      BY <3>1, <3>2, EntriesBeforeAndAfter
  <2> QED
    BY <1>1, <2>1, BirthIsSettled
<1> QED
  BY <1>4, <1>6, <1>7, <1>8 DEF FrozenInv

(* In every reachable state no task created COMPLETED has been updated,    *)
(* however the requests interleave.                                        *)
THEOREM BornCompletedStaysFrozen == Spec => []BornCompletedIsFrozen
<1>1. Init => FrozenInv
  BY DEF Init, FrozenInv, EntriesFit, BornCompletedIsFrozen, Exists
<1>2. FrozenInv => BornCompletedIsFrozen
  BY DEF FrozenInv
<1> QED
  BY <1>1, <1>2, TypeCorrect, AuditIsALife, FrozenStep, PTL DEF Spec

-----------------------------------------------------------------------------
(* What the checks are good for.                                           *)

(* An edit that a row does not refuse keeps the rules when it is merged    *)
(* into that row.                                                          *)
LEMMA AcceptedEditsAreGood ==
  ASSUME NEW task \in TaskRow, NEW actor \in Admin \cup Employee, NEW input \in Edits,
         Refusal(task, actor, input) = 0
  PROVE  /\ task.status # "COMPLETED"
         /\ Merge(task, input).dueDate >= Merge(task, input).startDate
         /\ actor \in Employee =>
              /\ task.assignedTo = actor
              /\ \A f \in Field \ {"status"} : Merge(task, input)[f] = task[f]
<1>1. /\ task.status # "COMPLETED"
      /\ actor \in Employee => task.assignedTo = actor /\ Keys(input) \ {"status"} = {}
      /\ ~(Coalesce(input.dueDate, task.dueDate) < Coalesce(input.startDate, task.startDate))
  BY DEF Refusal
<1>2. /\ Merge(task, input).startDate = Coalesce(input.startDate, task.startDate)
      /\ Merge(task, input).dueDate = Coalesce(input.dueDate, task.dueDate)
      /\ Merge(task, input).assignedTo = Coalesce(input.assignedTo, task.assignedTo)
      /\ Merge(task, input) \in TaskRow
  BY MergedIsARow DEF Merge, TaskRow
<1>3. Merge(task, input).dueDate \in Nat /\ Merge(task, input).startDate \in Nat
  BY <1>2, DateAssumption DEF TaskRow
<1>4. Merge(task, input).dueDate >= Merge(task, input).startDate
  BY <1>1, <1>2, <1>3
<1>5. ASSUME actor \in Employee, NEW f \in Field \ {"status"}
      PROVE  Merge(task, input)[f] = task[f]
  <2>1. input[f] = Undefined
    BY <1>1, <1>5 DEF Keys
  <2>2. f \in {"startDate", "dueDate", "assignedTo"}
    BY <1>5 DEF Field
  <2> QED
    BY <1>2, <2>1, <2>2 DEF Coalesce
<1> QED
  BY <1>1, <1>4, <1>5

(* Every step keeps ChecksInv: a request gets past its checks only by      *)
(* passing them, and then holds on to what it read.                        *)
LEMMA ChecksStep == TypeOK /\ ChecksInv /\ [Next]_vars => ChecksInv'
<1> SUFFICES ASSUME TypeOK, ChecksInv, [Next]_vars, NEW q \in Request,
                    pc'[q] \in {"assignee", "write"}, call'[q].op = "update"
             PROVE  Refusal(seen'[q], call'[q].actor, call'[q].input) = 0
  BY DEF ChecksInv, Refusal, Keys
<1> DEFINE Kept == pc[q] \in {"assignee", "write"} /\ call'[q] = call[q] /\ seen'[q] = seen[q]
<1>0. Kept => Refusal(seen'[q], call'[q].actor, call'[q].input) = 0
  BY DEF ChecksInv
<1> USE DEF Goto, Answer, TypeOK
<1>1. ASSUME NEW r \in Request, Receive(r)
      PROVE  Kept
  BY <1>1 DEF Receive
<1>2. ASSUME NEW r \in Request, ReadMissing(r) \/ ReadForRemove(r)
      PROVE  Kept
  BY <1>2, HowUpdatesGetPast DEF ReadMissing, ReadForRemove, LocalsFit
<1>3. ASSUME NEW r \in Request, ReadForUpdate(r)
      PROVE  Kept \/ Refusal(seen'[q], call'[q].actor, call'[q].input) = 0
  <2>1. CASE r # q
    BY <1>3, <2>1 DEF ReadForUpdate
  <2>2. CASE r = q
    <3>1. /\ Refusal(tasks[call[q].task], call[q].actor, call[q].input) = 0
          /\ seen'[q] = tasks[call[q].task] /\ call'[q] = call[q]
      BY <1>3, <2>2 DEF ReadForUpdate
    <3> QED
      BY <3>1
  <2> QED
    BY <2>1, <2>2
<1>4. ASSUME NEW r \in Request, CheckAssignee(r)
      PROVE  Kept
  BY <1>4 DEF CheckAssignee
<1>5. ASSUME NEW r \in Request, WriteCreate(r) \/ WriteUpdate(r) \/ WriteRemove(r) \/ WriteMissing(r)
      PROVE  Kept
  BY <1>5 DEF WriteCreate, WriteUpdate, WriteRemove, WriteMissing
<1>6. ASSUME NEW r \in Request, Effects(r)
      PROVE  Kept
  BY <1>6 DEF Effects
<1>7. ASSUME NEW e \in Employee, RemoveEmployee(e)
      PROVE  Kept
  BY <1>7 DEF RemoveEmployee
<1>8. ASSUME UNCHANGED vars
      PROVE  Kept
  BY <1>8 DEF vars
<1> HIDE DEF Kept, Goto, Answer, TypeOK
<1>9. Kept \/ Refusal(seen'[q], call'[q].actor, call'[q].input) = 0
  BY <1>1, <1>2, <1>3, <1>4, <1>5, <1>6, <1>7, <1>8 DEF Next, RequestStep
<1> QED
  BY <1>0, <1>9

(* The step in which an update gets past its transaction is WriteUpdate.   *)
LEMMA UpdatesWriteOnce ==
  ASSUME TypeOK, [Next]_vars, NEW q \in Request,
         pc[q] = "write", pc'[q] = "effects", call[q].op = "update"
  PROVE  Exists(call[q].task) /\ tasks'[call[q].task] = Updated(q)
<1> USE DEF Goto, Answer, TypeOK
<1>1. ASSUME NEW r \in Request, WriteUpdate(r)
      PROVE  r = q
  BY <1>1 DEF WriteUpdate
<1>2. ASSUME WriteUpdate(q)
      PROVE  Exists(call[q].task) /\ tasks'[call[q].task] = Updated(q)
  <2>1. call[q].task \in Task
    BY <1>2, CallFields DEF LocalsFit
  <2> QED
    BY <1>2, <2>1 DEF WriteUpdate
<1>3. ASSUME NEW r \in Request, Receive(r) \/ ReadMissing(r) \/ ReadForRemove(r)
      PROVE  FALSE
  BY <1>3 DEF Receive, ReadMissing, ReadForRemove
<1>4. ASSUME NEW r \in Request, ReadForUpdate(r)
      PROVE  FALSE
  BY <1>4 DEF ReadForUpdate
<1>5. ASSUME NEW r \in Request, CheckAssignee(r) \/ WriteMissing(r) \/ Effects(r)
      PROVE  FALSE
  BY <1>5 DEF CheckAssignee, WriteMissing, Effects
<1>6. ASSUME NEW r \in Request, WriteCreate(r) \/ WriteRemove(r)
      PROVE  FALSE
  BY <1>6 DEF WriteCreate, WriteRemove
<1>7. ASSUME NEW e \in Employee, RemoveEmployee(e)
      PROVE  FALSE
  BY <1>7 DEF RemoveEmployee
<1>8. ~UNCHANGED vars
  BY DEF vars
<1> QED
  BY <1>1, <1>2, <1>3, <1>4, <1>5, <1>6, <1>7, <1>8 DEF Next, RequestStep

(* Whatever runs beside it, an update that finds the row as it read it     *)
(* never edits a completed task, never leaves it due before it starts, and *)
(* changes only the status when an employee made it.                       *)
THEOREM UnracedEditsAreGood == Spec => UnracedEditsKeepTheRules
<1>1. Init => ChecksInv
  BY DEF Init, ChecksInv
<1>2. ASSUME TypeOK, ChecksInv, [Next]_vars, NEW r \in Request,
             pc[r] = "write", pc'[r] = "effects", call[r].op = "update", seen[r] = tasks[call[r].task]
      PROVE  /\ tasks[call[r].task].status # "COMPLETED"
             /\ tasks'[call[r].task].dueDate >= tasks'[call[r].task].startDate
             /\ call[r].actor \in Employee =>
                  /\ tasks[call[r].task].assignedTo = call[r].actor
                  /\ \A f \in Field \ {"status"} :
                       tasks'[call[r].task][f] = tasks[call[r].task][f]
  <2>1. seen[r] \in TaskRow /\ Refusal(seen[r], call[r].actor, call[r].input) = 0
    BY <1>2 DEF TypeOK, LocalsFit, ChecksInv
  <2>2. call[r].actor \in Admin \cup Employee /\ call[r].input \in Edits
    BY <1>2, CallFields DEF TypeOK, LocalsFit
  <2>3. tasks'[call[r].task] = Merge(seen[r], call[r].input)
    BY <1>2, UpdatesWriteOnce DEF Updated
  <2> QED
    BY <1>2, <2>1, <2>2, <2>3, AcceptedEditsAreGood
<1>3. TypeOK /\ ChecksInv /\ [Next]_vars =>
        \A r \in Request :
          LET t == call[r].task
          IN  (pc[r] = "write" /\ pc'[r] = "effects" /\ call[r].op = "update" /\ seen[r] = tasks[t]) =>
                /\ tasks[t].status # "COMPLETED"
                /\ tasks'[t].dueDate >= tasks'[t].startDate
                /\ call[r].actor \in Employee =>
                     /\ tasks[t].assignedTo = call[r].actor
                     /\ \A f \in Field \ {"status"} : tasks'[t][f] = tasks[t][f]
  BY <1>2
<1> QED
  BY <1>1, <1>3, TypeCorrect, ChecksStep, PTL DEF Spec, UnracedEditsKeepTheRules

-----------------------------------------------------------------------------
(* What an update leaves.                                                  *)

(* Entry i of the log of t is an update that completed the task.           *)
Completes(t, i) ==
  audit[t][i].action = "UPDATE" /\ call[audit[t][i].req].input.status = "COMPLETED"

(* An entry stays what it is.                                              *)
LEMMA EntriesKeep ==
  ASSUME TypeOK, EntriesFit, [Next]_vars, NEW t \in Task, NEW i \in 1..Len(audit[t])
  PROVE  /\ i \in 1..Len(audit'[t])
         /\ audit'[t][i] = audit[t][i]
         /\ call'[audit[t][i].req] = call[audit[t][i].req]
<1>1. audit[t][i] \in Entry /\ Len(audit[t]) \in Nat
  BY DEF TypeOK
<1>2. audit[t][i].req \in Request /\ pc[audit[t][i].req] \in {"effects", "done"}
  BY <1>1 DEF EntriesFit, Entry
<1>3. ASSUME NEW r \in Request, NEW action \in {"CREATE", "UPDATE", "DELETE"},
             Transaction(r, t, action)
      PROVE  i \in 1..Len(audit'[t]) /\ audit'[t][i] = audit[t][i]
  <2>1. /\ Len(audit'[t]) = Len(audit[t]) + 1
        /\ \A j \in 1..Len(audit[t]) : audit'[t][j] = audit[t][j]
    BY <1>3, TransactionAppends
  <2> QED
    BY <1>1, <2>1
<1>4. i \in 1..Len(audit'[t]) /\ audit'[t][i] = audit[t][i]
  BY <1>3, OnlyTransactionsWrite
<1> QED
  BY <1>2, <1>4, PastIsPast

(* Every step keeps CompletionIsRecorded: an insertion leaves the stamp    *)
(* out, an update adds to it exactly when its body completes the task.     *)
LEMMA CompletionStep ==
  TypeOK /\ EntriesFit /\ CompletionIsRecorded /\ [Next]_vars => CompletionIsRecorded'
<1> SUFFICES ASSUME TypeOK, EntriesFit, CompletionIsRecorded, [Next]_vars,
                    NEW t \in Task, Exists(t)'
             PROVE  tasks'[t].completedAt <=> \E i \in 1..Len(audit'[t]) : Completes(t, i)'
  BY DEF CompletionIsRecorded, Completes
<1>1. Exists(t) => (tasks[t].completedAt <=> \E i \in 1..Len(audit[t]) : Completes(t, i))
  BY DEF CompletionIsRecorded, Completes
<1>2. \A i \in 1..Len(audit[t]) : i \in 1..Len(audit'[t]) /\ (Completes(t, i)' <=> Completes(t, i))
  BY EntriesKeep DEF Completes
<1>3. CASE audit'[t] = audit[t] /\ tasks'[t] = tasks[t]
  <2>1. Exists(t)
    BY <1>3 DEF Exists
  <2> QED
    BY <1>1, <1>2, <1>3, <2>1
<1>4. ASSUME NEW r \in Request, NEW action \in {"CREATE", "UPDATE", "DELETE"},
             Transaction(r, t, action)
      PROVE  tasks'[t].completedAt <=> \E i \in 1..Len(audit'[t]) : Completes(t, i)'
  <2>1. PICK n \in Nat : /\ n = Len(audit[t])
                         /\ Len(audit'[t]) = n + 1
                         /\ audit'[t][n + 1] = [action |-> action, req |-> r]
    BY <1>4, TransactionAppends
  <2>2. (\E i \in 1..Len(audit'[t]) : Completes(t, i)')
          <=> \/ \E i \in 1..Len(audit[t]) : Completes(t, i)
              \/ Completes(t, n + 1)'
    <3>1. \A k \in Nat : 1..(k + 1) = 1..k \cup {k + 1}
      OBVIOUS
    <3>2. 1..Len(audit'[t]) = 1..n \cup {n + 1}
      BY <2>1, <3>1
    <3>3. \A i \in 1..n : Completes(t, i)' <=> Completes(t, i)
      BY <1>2, <2>1
    <3> QED
      BY <2>1, <3>2, <3>3
  <2>3. Completes(t, n + 1)' <=> action = "UPDATE" /\ call[r].input.status = "COMPLETED"
    BY <1>4, <2>1 DEF Completes, Transaction
  <2>4. CASE action = "CREATE"
    <3>1. audit[t] = <<>> /\ tasks'[t] = Inserted(t, call[r])
      BY <1>4, <2>4 DEF Transaction
    <3>2. 1..Len(audit[t]) = {}
      BY <3>1
    <3>3. ~tasks'[t].completedAt
      BY <3>1 DEF Inserted
    <3> QED
      BY <2>2, <2>3, <2>4, <3>2, <3>3
  <2>5. CASE action = "UPDATE"
    <3>1. Exists(t) /\ tasks'[t] = Merge(tasks[t], call[r].input)
      BY <1>4, <2>5 DEF Transaction, Updated
    <3>2. tasks[t] \in TaskRow
      BY <3>1 DEF TypeOK, Exists
    <3>3. tasks'[t].completedAt <=> tasks[t].completedAt \/ call[r].input.status = "COMPLETED"
      BY <3>1, <3>2 DEF Merge, TaskRow
    <3> QED
      BY <1>1, <2>2, <2>3, <2>5, <3>1, <3>3
  <2>6. CASE action = "DELETE"
    BY <1>4, <2>6 DEF Transaction, Exists
  <2> QED
    BY <2>4, <2>5, <2>6
<1> QED
  BY <1>3, <1>4, OnlyTransactionsWrite

(* In every reachable state a row bears the stamp of completion exactly    *)
(* when the log has an update that completed the task, so no race loses it.*)
THEOREM StampsAreTrue == Spec => []CompletionIsRecorded
<1>1. Init => FrozenInv /\ CompletionIsRecorded
  BY DEF Init, FrozenInv, EntriesFit, BornCompletedIsFrozen, CompletionIsRecorded, Exists
<1>2. FrozenInv => EntriesFit
  BY DEF FrozenInv
<1> QED
  BY <1>1, <1>2, TypeCorrect, AuditIsALife, FrozenStep, CompletionStep, PTL DEF Spec

(* A merge takes a field from the body when the body has it, from the row  *)
(* when it does not, and never takes the stamp back.                       *)
LEMMA MergedFields ==
  ASSUME NEW task \in TaskRow, NEW input \in Edits
  PROVE  /\ \A f \in Field : Merge(task, input)[f] = Coalesce(input[f], task[f])
         /\ task.completedAt => Merge(task, input).completedAt
<1>1. /\ Merge(task, input).status = Coalesce(input.status, task.status)
      /\ Merge(task, input).startDate = Coalesce(input.startDate, task.startDate)
      /\ Merge(task, input).dueDate = Coalesce(input.dueDate, task.dueDate)
      /\ Merge(task, input).assignedTo = Coalesce(input.assignedTo, task.assignedTo)
      /\ task.completedAt => Merge(task, input).completedAt
  BY DEF Merge, TaskRow
<1> QED
  BY <1>1 DEF Field

(* What a step does to a row it neither removes nor leaves: it is merged   *)
(* with the body of the request that the log then names last, and that     *)
(* request has passed the checks.                                          *)
LEMMA RowsChangeByMerging ==
  ASSUME TypeOK, AuditTellsTheLife, ChecksInv, [Next]_vars,
         NEW t \in Task, Exists(t), tasks'[t] \notin {NoTask, tasks[t]}
  PROVE  \E r \in Request :
           /\ audit'[t][Len(audit'[t])].req = r
           /\ tasks'[t] = Merge(tasks[t], call[r].input)
           /\ tasks[t] \in TaskRow /\ call[r].input \in Edits
           /\ call[r].actor \in Admin \cup Employee
           /\ call[r].actor \in Employee => Keys(call[r].input) \subseteq {"status"}
<1>1. PICK r \in Request, action \in {"CREATE", "UPDATE", "DELETE"} : Transaction(r, t, action)
  BY OnlyTransactionsWrite
<1>2. audit'[t][Len(audit'[t])] = [action |-> action, req |-> r]
  <2>1. /\ Len(audit[t]) \in Nat
        /\ Len(audit'[t]) = Len(audit[t]) + 1
        /\ audit'[t][Len(audit[t]) + 1] = [action |-> action, req |-> r]
        /\ \A i \in 1..Len(audit[t]) : audit'[t][i] = audit[t][i]
    BY <1>1, TransactionAppends, Zenon
  <2> QED
    BY <2>1
<1>3. action = "UPDATE"
  <2>1. action # "CREATE"
    <3>1. audit[t] # <<>>
      BY DEF AuditTellsTheLife
    <3> QED
      BY <1>1, <3>1 DEF Transaction
  <2>2. action # "DELETE"
    BY <1>1 DEF Transaction
  <2> QED
    BY <2>1, <2>2
<1>4. /\ pc[r] = "write" /\ call[r].op = "update" /\ call[r].task = t
      /\ tasks'[t] = Merge(tasks[t], call[r].input)
  BY <1>1, <1>3 DEF Transaction, Updated
<1>5. tasks[t] \in TaskRow
  BY DEF TypeOK, Exists
<1>6. call[r].actor \in Admin \cup Employee /\ call[r].input \in Edits
  BY <1>4, CallFields DEF TypeOK, LocalsFit
<1>7. call[r].actor \in Employee => Keys(call[r].input) \subseteq {"status"}
  <2>1. Refusal(seen[r], call[r].actor, call[r].input) = 0
    BY <1>4 DEF ChecksInv
  <2>2. call[r].actor \in Employee => Keys(call[r].input) \ {"status"} = {}
    BY <2>1 DEF Refusal
  <2> QED
    BY <2>2
<1> QED
  BY <1>2, <1>4, <1>5, <1>6, <1>7

(* However updates interleave, each writes the fields its body names and   *)
(* no others, and only an administrator's names more than the status.      *)
THEOREM UpdatesDoNotClobber == Spec => FieldsNotNamedSurvive
<1>1. ASSUME TypeOK, AuditTellsTheLife, ChecksInv, [Next]_vars,
             NEW t \in Task, Exists(t), tasks'[t] \notin {NoTask, tasks[t]}
      PROVE  LET r == audit'[t][Len(audit'[t])].req
             IN  /\ \A f \in Field : tasks'[t][f] # tasks[t][f] =>
                       tasks'[t][f] = call[r].input[f]
                 /\ \A f \in Field \ {"status"} : tasks'[t][f] # tasks[t][f] =>
                       call[r].actor \in Admin
                 /\ tasks[t].completedAt => tasks'[t].completedAt
  <2>1. PICK r \in Request :
          /\ audit'[t][Len(audit'[t])].req = r
          /\ tasks'[t] = Merge(tasks[t], call[r].input)
          /\ tasks[t] \in TaskRow /\ call[r].input \in Edits
          /\ call[r].actor \in Admin \cup Employee
          /\ call[r].actor \in Employee => Keys(call[r].input) \subseteq {"status"}
    BY <1>1, RowsChangeByMerging
  <2>2. /\ \A f \in Field : tasks'[t][f] = Coalesce(call[r].input[f], tasks[t][f])
        /\ tasks[t].completedAt => tasks'[t].completedAt
    BY <2>1, MergedFields
  <2>3. ASSUME NEW f \in Field \ {"status"}, tasks'[t][f] # tasks[t][f]
        PROVE  call[r].actor \in Admin
    BY <2>1, <2>2, <2>3 DEF Coalesce, Keys
  <2> QED
    BY <2>1, <2>2, <2>3 DEF Coalesce
<1>2. TypeOK /\ AuditTellsTheLife /\ ChecksInv /\ [Next]_vars =>
        \A t \in Task :
          (Exists(t) /\ tasks'[t] \notin {NoTask, tasks[t]}) =>
             LET r == audit'[t][Len(audit'[t])].req
             IN  /\ \A f \in Field : tasks'[t][f] # tasks[t][f] =>
                       tasks'[t][f] = call[r].input[f]
                 /\ \A f \in Field \ {"status"} : tasks'[t][f] # tasks[t][f] =>
                       call[r].actor \in Admin
                 /\ tasks[t].completedAt => tasks'[t].completedAt
  BY <1>1
<1>3. Init => ChecksInv
  BY DEF Init, ChecksInv
<1> QED
  BY <1>2, <1>3, TypeCorrect, AuditIsALife, ChecksStep, PTL DEF Spec, FieldsNotNamedSurvive

-----------------------------------------------------------------------------
(* What a client is told.                                                  *)

(* A request gets to be committed by its transaction, and stays so.        *)
LEMMA CommittedByWriting ==
  ASSUME TypeOK, [Next]_vars, NEW q \in Request
  PROVE  Committed(q)' <=> \/ Committed(q)
                           \/ \E t \in Task, action \in {"CREATE", "UPDATE", "DELETE"} : Transaction(q, t, action)
<1>1. ASSUME NEW t \in Task, NEW action \in {"CREATE", "UPDATE", "DELETE"}, Transaction(q, t, action)
      PROVE  Committed(q)'
  BY <1>1 DEF Transaction, Committed
<1>2. ASSUME NEW r \in Request, WriteCreate(r) \/ WriteUpdate(r) \/ WriteRemove(r)
      PROVE  \/ r = q /\ \E t \in Task, action \in {"CREATE", "UPDATE", "DELETE"} : Transaction(q, t, action)
             \/ Committed(q)' <=> Committed(q)
  <2>1. CASE r = q
    BY <1>2, <2>1, WritesAreTransactions
  <2>2. CASE r # q
    BY <1>2, <2>2 DEF WriteCreate, WriteUpdate, WriteRemove, Goto, TypeOK, Committed
  <2> QED
    BY <2>1, <2>2
<1>3. ASSUME NEW r \in Request, \/ Receive(r) \/ ReadMissing(r) \/ ReadForUpdate(r) \/ ReadForRemove(r)
                                \/ CheckAssignee(r) \/ WriteMissing(r) \/ Effects(r)
      PROVE  Committed(q)' <=> Committed(q)
  <2>1. CASE r # q
    <3>1. pc'[q] = pc[q] /\ reply'[q] = reply[q]
      BY <1>3, <2>1 DEF Receive, ReadMissing, ReadForUpdate, ReadForRemove, CheckAssignee,
                        WriteMissing, Effects, Answer, Goto, TypeOK
    <3> QED
      BY <3>1 DEF Committed
  <2>2. CASE r = q
    <3>1. CASE Receive(q)
      BY <3>1 DEF Receive, Goto, TypeOK, Committed
    <3>2. CASE ReadMissing(q)
      BY <3>2 DEF ReadMissing, Answer, Goto, TypeOK, LocalsFit, Committed
    <3>3. CASE ReadForUpdate(q)
      BY <3>3 DEF ReadForUpdate, Refusal, Answer, Goto, TypeOK, LocalsFit, Committed
    <3>4. CASE ReadForRemove(q)
      BY <3>4 DEF ReadForRemove, Goto, TypeOK, Committed
    <3>5. CASE CheckAssignee(q)
      BY <3>5 DEF CheckAssignee, Answer, Goto, TypeOK, LocalsFit, Committed
    <3>6. CASE WriteMissing(q)
      BY <3>6 DEF WriteMissing, Answer, Goto, TypeOK, LocalsFit, Committed
    <3>7. CASE Effects(q)
      BY <3>7 DEF Effects, Answer, Goto, TypeOK, Committed
    <3> QED
      BY <1>3, <2>2, <3>1, <3>2, <3>3, <3>4, <3>5, <3>6, <3>7
  <2> QED
    BY <2>1, <2>2
<1>4. CASE \E e \in Employee : RemoveEmployee(e)
  BY <1>4, <1>1 DEF RemoveEmployee, Committed
<1>5. CASE UNCHANGED vars
  BY <1>5, <1>1 DEF vars, Committed
<1> QED
  BY <1>1, <1>2, <1>3, <1>4, <1>5 DEF Next, RequestStep

(* A request has an entry about a task once its transaction wrote one.     *)
LEMMA LoggedStep ==
  ASSUME TypeOK, [Next]_vars, NEW r \in Request, NEW t \in Task
  PROVE  LoggedFor(r, t)' <=> \/ LoggedFor(r, t)
                              \/ \E action \in {"CREATE", "UPDATE", "DELETE"} : Transaction(r, t, action)
<1>1. audit \in [Task -> Seq(Entry)]
  BY DEF TypeOK
<1>2. CASE audit'[t] = audit[t]
  <2>1. ASSUME NEW action \in {"CREATE", "UPDATE", "DELETE"}, Transaction(r, t, action)
        PROVE  FALSE
    <3>1. Len(audit[t]) \in Nat /\ Len(audit'[t]) = Len(audit[t]) + 1
      BY <2>1, TransactionAppends
    <3> QED
      BY <1>2, <3>1
  <2> QED
    BY <1>2, <2>1 DEF LoggedFor
<1>3. ASSUME NEW q \in Request, NEW action \in {"CREATE", "UPDATE", "DELETE"}, Transaction(q, t, action)
      PROVE  LoggedFor(r, t)' <=> LoggedFor(r, t) \/ r = q
  <2>1. /\ Len(audit[t]) \in Nat
        /\ Len(audit'[t]) = Len(audit[t]) + 1
        /\ audit'[t][Len(audit[t]) + 1] = [action |-> action, req |-> q]
        /\ \A i \in 1..Len(audit[t]) : audit'[t][i] = audit[t][i]
    BY <1>3, TransactionAppends
  <2>2. DOMAIN audit[t] = 1..Len(audit[t]) /\ DOMAIN audit'[t] = 1..Len(audit'[t])
    <3>1. audit' \in [Task -> Seq(Entry)]
      BY <1>1, <1>3, LogAppends DEF Transaction
    <3> QED
      BY <1>1, <3>1
  <2> QED
    BY <2>1, <2>2 DEF LoggedFor
<1>4. ASSUME NEW q \in Request, NEW action \in {"CREATE", "UPDATE", "DELETE"}, Transaction(q, t, action),
             NEW a \in {"CREATE", "UPDATE", "DELETE"}, Transaction(r, t, a)
      PROVE  r = q
  BY <1>4 DEF Transaction, Goto, TypeOK, Log
<1> QED
  BY <1>2, <1>3, <1>4, OnlyTransactionsWrite

(* Between its transaction and its side effects a request holds on to the  *)
(* row it wrote.                                                           *)
LEMMA RowsAreHeld ==
  ASSUME TypeOK, [Next]_vars, NEW q \in Request, pc'[q] = "effects"
  PROVE  \/ pc[q] = "effects" /\ row'[q] = row[q] /\ call'[q] = call[q]
         \/ \E t \in Task, action \in {"CREATE", "UPDATE", "DELETE"} : Transaction(q, t, action)
<1> DEFINE Held == pc[q] = "effects" /\ row'[q] = row[q] /\ call'[q] = call[q]
<1>1. ASSUME NEW r \in Request, WriteCreate(r) \/ WriteUpdate(r) \/ WriteRemove(r), r # q
      PROVE  Held
  BY <1>1 DEF WriteCreate, WriteUpdate, WriteRemove, Goto, TypeOK
<1>2. ASSUME NEW r \in Request, Receive(r) \/ ReadMissing(r) \/ ReadForRemove(r)
      PROVE  Held
  BY <1>2 DEF Receive, ReadMissing, ReadForRemove, Answer, Goto, TypeOK
<1>3. ASSUME NEW r \in Request, ReadForUpdate(r)
      PROVE  Held
  BY <1>3 DEF ReadForUpdate, Answer, Goto, TypeOK
<1>4. ASSUME NEW r \in Request, CheckAssignee(r) \/ WriteMissing(r) \/ Effects(r)
      PROVE  Held
  BY <1>4 DEF CheckAssignee, WriteMissing, Effects, Answer, Goto, TypeOK
<1>5. ASSUME (\E e \in Employee : RemoveEmployee(e)) \/ UNCHANGED vars
      PROVE  Held
  BY <1>5 DEF RemoveEmployee, vars
<1> QED
  BY <1>1, <1>2, <1>3, <1>4, <1>5, WritesAreTransactions DEF Next, RequestStep

(* Events appear with the side effects of their request, as does the       *)
(* answer that goes with them.                                             *)
LEMMA EventsStep ==
  ASSUME TypeOK, [Next]_vars, NEW q \in Request
  PROVE  \/ Effects(q)
         \/ /\ EventsOf(q)' = EventsOf(q)
            /\ reply'[q] \in {200, 201} <=> reply[q] \in {200, 201}
            /\ reply[q] \in {200, 201} => call'[q] = call[q]
<1> DEFINE Same == /\ EventsOf(q)' = EventsOf(q)
                   /\ reply'[q] \in {200, 201} <=> reply[q] \in {200, 201}
                   /\ reply[q] \in {200, 201} => call'[q] = call[q]
<1>1. ASSUME NEW r \in Request, WriteCreate(r) \/ WriteUpdate(r) \/ WriteRemove(r)
      PROVE  Same
  BY <1>1 DEF WriteCreate, WriteUpdate, WriteRemove, EventsOf
<1>2. ASSUME NEW r \in Request, Receive(r)
      PROVE  Same
  BY <1>2 DEF Receive, EventsOf, TypeOK, LocalsFit
<1>3. ASSUME NEW r \in Request, ReadMissing(r) \/ WriteMissing(r)
      PROVE  Same
  BY <1>3 DEF ReadMissing, WriteMissing, Answer, EventsOf, TypeOK, LocalsFit
<1>4. ASSUME NEW r \in Request, ReadForUpdate(r)
      PROVE  Same
  BY <1>4 DEF ReadForUpdate, Refusal, Answer, EventsOf, TypeOK, LocalsFit
<1>5. ASSUME NEW r \in Request, ReadForRemove(r) \/ CheckAssignee(r)
      PROVE  Same
  BY <1>5 DEF ReadForRemove, CheckAssignee, Answer, EventsOf, TypeOK, LocalsFit
<1>6. ASSUME NEW r \in Request, Effects(r), r # q
      PROVE  Same
  <2>1. published' = published \cup Announcement(r) /\ reply'[q] = reply[q] /\ UNCHANGED call
    BY <1>6 DEF Effects, Answer, TypeOK
  <2>2. \A e \in Announcement(r) : e.req = r
    BY DEF Announcement, Event
  <2> QED
    BY <1>6, <2>1, <2>2 DEF EventsOf
<1>7. ASSUME (\E e \in Employee : RemoveEmployee(e)) \/ UNCHANGED vars
      PROVE  Same
  BY <1>7 DEF RemoveEmployee, vars, EventsOf
<1> QED
  BY <1>1, <1>2, <1>3, <1>4, <1>5, <1>6, <1>7 DEF Next, RequestStep

(* RepliesAreTrue, and what a request is about to announce is logged.      *)
RepliesInv ==
  /\ RepliesAreTrue
  /\ \A r \in Request : (pc[r] = "effects" /\ call[r].op # "remove") => LoggedFor(r, row[r].id)

(* Every step keeps what the clients are told true.                        *)
LEMMA RepliesStep == TypeOK /\ RepliesInv /\ [Next]_vars => RepliesInv'
<1> SUFFICES ASSUME TypeOK, RepliesInv, [Next]_vars
             PROVE  RepliesInv'
  OBVIOUS
<1>1. ASSUME NEW r \in Request
      PROVE  (\E t \in Task : LoggedFor(r, t)') <=> Committed(r)'
  BY LoggedStep, CommittedByWriting DEF RepliesInv, RepliesAreTrue
<1>2. ASSUME NEW r \in Request
      PROVE  /\ EventsOf(r)' # {} <=> (reply'[r] \in {200, 201} /\ call'[r].op # "remove")
             /\ \A e, f \in EventsOf(r)' : e = f
             /\ \A e \in EventsOf(r)' : e.task \in Task /\ LoggedFor(r, e.task)'
  <2>1. /\ EventsOf(r) # {} <=> (reply[r] \in {200, 201} /\ call[r].op # "remove")
        /\ \A e, f \in EventsOf(r) : e = f
        /\ \A e \in EventsOf(r) : e.task \in Task /\ LoggedFor(r, e.task)
    BY DEF RepliesInv, RepliesAreTrue, EventsOf, TypeOK, EventRow
  <2>4. \A t \in Task : LoggedFor(r, t) => LoggedFor(r, t)'
    BY LoggedStep
  <2>2. CASE Effects(r)
    <3>1. reply[r] = 0 /\ reply'[r] \in {200, 201} /\ call' = call
          /\ published' = published \cup Announcement(r) /\ call[r] \in Calls
      BY <2>2, CallFields DEF Effects, Answer, TypeOK, LocalsFit
    <3>2. EventsOf(r) = {} /\ \A e \in Announcement(r) : e.req = r
      BY <2>1, <3>1 DEF Announcement, Event
    <3>3. EventsOf(r)' = Announcement(r)
      BY <3>1, <3>2 DEF EventsOf
    <3>4. CASE call[r].op = "remove"
      <4>1. Announcement(r) = {}
        BY <3>4 DEF Announcement
      <4> QED
        BY <3>1, <3>3, <3>4, <4>1
    <3>5. CASE call[r].op # "remove"
      <4>1. \E type, to : Announcement(r) = {Event(r, type, to)}
        BY <3>1, <3>5, CallFields DEF Announcement
      <4>2. PICK type, to : Announcement(r) = {Event(r, type, to)}
        BY <4>1
      <4> DEFINE e == Event(r, type, to)
      <4>4. e.task = row[r].id
        BY DEF Event
      <4>3. e.task \in Task /\ LoggedFor(r, e.task)
        BY <2>2, <3>5, <4>4 DEF Effects, RepliesInv, TypeOK, LocalsFit, TaskRow
      <4> HIDE DEF e
      <4>5. Announcement(r) = {e}
        BY <4>2 DEF e
      <4> QED
        BY <2>4, <3>1, <3>3, <3>5, <4>5, <4>3
    <3> QED
      BY <3>4, <3>5
  <2>3. CASE ~Effects(r)
    <3>1. /\ EventsOf(r)' = EventsOf(r)
          /\ reply'[r] \in {200, 201} <=> reply[r] \in {200, 201}
          /\ reply[r] \in {200, 201} => call'[r] = call[r]
      BY <2>3, EventsStep
    <3> QED
      BY <2>1, <2>4, <3>1
  <2> QED
    BY <2>2, <2>3
<1>3. ASSUME NEW t \in Task, NEW u \in Task, NEW i \in 1..Len(audit'[t]), NEW j \in 1..Len(audit'[u]),
             audit'[t][i].req = audit'[u][j].req
      PROVE  t = u /\ i = j
  <2> DEFINE Old(x, k) == k \in DOMAIN audit[x] /\ audit'[x][k] = audit[x][k]
             New(x, k) == \E r \in Request, action \in {"CREATE", "UPDATE", "DELETE"} :
                            /\ Transaction(r, x, action)
                            /\ k = Len(audit[x]) + 1
                            /\ audit'[x][k] = [action |-> action, req |-> r]
  <2>0. \A x \in Task : DOMAIN audit[x] = 1..Len(audit[x])
    BY DEF TypeOK
  <2>1. (Old(t, i) \/ New(t, i)) /\ (Old(u, j) \/ New(u, j))
    BY <2>0, EntriesBeforeAndAfter
  <2>2. CASE Old(t, i) /\ Old(u, j)
    BY <1>3, <2>2 DEF RepliesInv, RepliesAreTrue
  <2>3. ASSUME NEW x \in Task, NEW y \in Task, NEW k, NEW l, Old(x, k), New(y, l),
               audit'[x][k].req = audit'[y][l].req
        PROVE  FALSE
    <3>1. PICK r \in Request, action \in {"CREATE", "UPDATE", "DELETE"} :
            Transaction(r, y, action) /\ audit'[y][l] = [action |-> action, req |-> r]
      BY <2>3
    <3>2. audit[x][k].req = r
      BY <2>3, <3>1
    <3>3. LoggedFor(r, x)
      BY <2>3, <3>2 DEF LoggedFor
    <3>4. Committed(r)
      BY <3>3 DEF RepliesInv, RepliesAreTrue
    <3>5. pc[r] = "write"
      BY <3>1 DEF Transaction
    <3>6. reply[r] = 0
      BY <3>5 DEF TypeOK, LocalsFit
    <3> QED
      BY <3>4, <3>5, <3>6 DEF Committed
  <2>4. CASE New(t, i) /\ New(u, j)
    <3>1. PICK r \in Request, action \in {"CREATE", "UPDATE", "DELETE"} :
            Transaction(r, t, action) /\ i = Len(audit[t]) + 1
      BY <2>4
    <3>2. PICK q \in Request, a \in {"CREATE", "UPDATE", "DELETE"} :
            Transaction(q, u, a) /\ j = Len(audit[u]) + 1
      BY <2>4
    <3> QED
      BY <3>1, <3>2, OneTransaction
  <2> HIDE DEF Old, New
  <2> QED
    BY <1>3, <2>1, <2>2, <2>3, <2>4
<1>4. ASSUME NEW r \in Request, pc'[r] = "effects", call'[r].op # "remove"
      PROVE  row'[r].id \in Task /\ \A t \in Task : t = row'[r].id => LoggedFor(r, t)'
  <2>1. CASE pc[r] = "effects" /\ row'[r] = row[r] /\ call'[r] = call[r]
    <3>1. row[r].id \in Task /\ LoggedFor(r, row[r].id)
      BY <1>4, <2>1 DEF RepliesInv, TypeOK, LocalsFit, TaskRow
    <3> QED
      BY <2>1, <3>1, LoggedStep
  <2>2. ASSUME NEW t \in Task, NEW action \in {"CREATE", "UPDATE", "DELETE"}, Transaction(r, t, action)
        PROVE  row'[r].id = t /\ LoggedFor(r, t)'
    <3>1. action # "DELETE"
      BY <1>4, <2>2 DEF Transaction
    <3> QED
      BY <2>2, <3>1, LoggedStep DEF Transaction
  <2> QED
    BY <1>4, <2>1, <2>2, RowsAreHeld
<1>5. \A t \in Task : DOMAIN audit'[t] = 1..Len(audit'[t])
  <2>1. audit' \in [Task -> Seq(Entry)]
    BY TypeStep DEF TypeOK
  <2> QED
    BY <2>1
<1>6. RepliesAreTrue'
  BY <1>1, <1>2, <1>3, <1>5 DEF RepliesAreTrue
<1>7. ASSUME NEW r \in Request, pc'[r] = "effects", call'[r].op # "remove"
      PROVE  LoggedFor(r, row[r].id)'
  <2>1. PICK t \in Task : t = row'[r].id /\ LoggedFor(r, t)'
    BY <1>4, <1>7
  <2> QED
    BY <2>1 DEF LoggedFor
<1> QED
  BY <1>6, <1>7 DEF RepliesInv

(* In every reachable state the answers tell the truth: a request answered *)
(* with success has one audit entry and one event about the same task, or  *)
(* no event if it removed it, and a refused one has left no trace.         *)
THEOREM AnswersAreTrue == Spec => []RepliesAreTrue
<1>1. Init => RepliesInv
  BY DEF Init, RepliesInv, RepliesAreTrue, Committed, LoggedFor, EventsOf
<1>2. RepliesInv => RepliesAreTrue
  BY DEF RepliesInv
<1> QED
  BY <1>1, <1>2, TypeCorrect, RepliesStep, PTL DEF Spec

-----------------------------------------------------------------------------
(* The register.                                                           *)

(* A step of r that writes nothing and neither commits r nor undoes that   *)
(* does not show in the register.                                          *)
LEMMA QuietSteps ==
  ASSUME TypeOK, NEW r \in Request, UNCHANGED <<tasks, audit>>,
         Committed(r)' <=> Committed(r),
         \A q \in Request \ {r} : pc'[q] = pc[q] /\ reply'[q] = reply[q]
  PROVE  UNCHANGED <<tasks, UsedIds, InEffect>>
<1>1. UsedIds' = UsedIds
  BY DEF UsedIds, Fresh
<1>2. \A q \in Request : Committed(q)' <=> Committed(q)
  BY DEF Committed
<1> QED
  BY <1>1, <1>2 DEF InEffect

(* A transaction puts its request, and no other, among those in effect.    *)
LEMMA TakingEffect ==
  ASSUME TypeOK, NEW r \in Request, pc[r] = "write", Goto(r, "effects"), UNCHANGED reply
  PROVE  r \notin InEffect /\ InEffect' = InEffect \cup {r}
<1>1. reply[r] = 0 /\ ~Committed(r)
  BY DEF TypeOK, LocalsFit, Committed
<1>2. Committed(r)'
  BY DEF Goto, TypeOK, Committed
<1>3. \A q \in Request \ {r} : Committed(q)' <=> Committed(q)
  BY DEF Goto, TypeOK, Committed
<1> QED
  BY <1>1, <1>2, <1>3 DEF InEffect

(* The ids in use change with the log: not by an entry for a used one.     *)
LEMMA IdsInUse ==
  ASSUME TypeOK, NEW r \in Request, NEW t \in Task,
         NEW action \in {"CREATE", "UPDATE", "DELETE"}, Log(r, t, action)
  PROVE  UsedIds' = UsedIds \cup {t}
<1>0. audit \in [Task -> Seq(Entry)]
  BY DEF TypeOK
<1>1. /\ audit'[t] = Append(audit[t], [action |-> action, req |-> r])
      /\ \A u \in Task \ {t} : audit'[u] = audit[u]
  BY <1>0 DEF Log
<1>2. audit[t] \in Seq(Entry) /\ [action |-> action, req |-> r] \in Entry
  BY <1>0 DEF Entry
<1>3. Len(audit'[t]) = Len(audit[t]) + 1 /\ Len(audit[t]) \in Nat
  BY <1>1, <1>2
<1>4. audit'[t] # <<>>
  BY <1>3
<1> QED
  BY <1>1, <1>4 DEF UsedIds, Fresh

(* A row in the table has a log, so its id is in use.                      *)
LEMMA RowsAreLogged ==
  ASSUME TypeOK, AuditTellsTheLife, NEW t \in Task, Exists(t)
  PROVE  t \in UsedIds
<1>1. Len(audit[t]) > 0
  BY DEF AuditTellsTheLife
<1>2. audit[t] # <<>>
  BY <1>1
<1> QED
  BY <1>2 DEF UsedIds, Fresh

(* The three transactions are the three operations of the register: what   *)
(* WriteCreate does is its Create.                                         *)
LEMMA CreateInRegister ==
  ASSUME TypeOK, NEW r \in Request, WriteCreate(r)
  PROVE  \E t \in Task : Register!Create(r, t)
<1>1. PICK t \in Task : /\ Fresh(t)
                        /\ tasks' = [tasks EXCEPT ![t] = Inserted(t, call[r])]
                        /\ Log(r, t, "CREATE")
  BY DEF WriteCreate
<1>2. r \notin InEffect /\ InEffect' = InEffect \cup {r}
  BY TakingEffect DEF WriteCreate
<1>3. t \notin UsedIds /\ UsedIds' = UsedIds \cup {t}
  BY <1>1, IdsInUse DEF UsedIds
<1>4. call[r] \in Calls /\ call[r].op = "create"
  BY DEF WriteCreate, TypeOK, NoCall
<1>5. Inserted(t, call[r]) = Inserted(t, [input |-> call[r].input, actor |-> call[r].actor])
  BY DEF Inserted
<1>6. Inserted(t, call[r]) \in NewRows(t)
  BY <1>4, <1>5, CallFields DEF NewRows
<1> QED
  BY <1>1, <1>2, <1>3, <1>6 DEF Register!Create, Register!TakeEffect

(* What WriteUpdate does is its Update.                                    *)
LEMMA UpdateInRegister ==
  ASSUME TypeOK, AuditTellsTheLife, NEW r \in Request, WriteUpdate(r)
  PROVE  \E t \in Task : Register!Update(r, t)
<1> DEFINE t == call[r].task
<1>1. /\ call[r] \in Calls /\ call[r].op = "update"
      /\ Exists(t) /\ Log(r, t, "UPDATE")
      /\ tasks' = [tasks EXCEPT ![t] = Merge(tasks[t], call[r].input)]
  BY DEF WriteUpdate, Updated, TypeOK, NoCall
<1>2. t \in Task /\ call[r].input \in Edits
  BY <1>1, CallFields
<1>3. r \notin InEffect /\ InEffect' = InEffect \cup {r}
  BY TakingEffect DEF WriteUpdate
<1>4. UsedIds' = UsedIds
  <2>1. UsedIds' = UsedIds \cup {t}
    BY <1>1, <1>2, IdsInUse
  <2>2. t \in UsedIds
    BY <1>1, <1>2, RowsAreLogged DEF UsedIds
  <2> QED
    BY <2>1, <2>2
<1>5. Merge(tasks[t], call[r].input) \in EditedRows(tasks[t])
  BY <1>2 DEF EditedRows
<1> QED
  BY <1>1, <1>2, <1>3, <1>4, <1>5 DEF Register!Update, Register!TakeEffect, Exists

(* What WriteRemove does is its Remove.                                    *)
LEMMA RemoveInRegister ==
  ASSUME TypeOK, AuditTellsTheLife, NEW r \in Request, WriteRemove(r)
  PROVE  \E t \in Task : Register!Remove(r, t)
<1> DEFINE t == call[r].task
<1>1. /\ call[r] \in Calls /\ call[r].op = "remove"
      /\ Exists(t) /\ Log(r, t, "DELETE")
      /\ tasks' = [tasks EXCEPT ![t] = NoTask]
  BY DEF WriteRemove, TypeOK, NoCall
<1>2. t \in Task
  BY <1>1, CallFields
<1>3. r \notin InEffect /\ InEffect' = InEffect \cup {r}
  BY TakingEffect DEF WriteRemove
<1>4. UsedIds' = UsedIds \cup {t} /\ t \in UsedIds
  BY <1>1, <1>2, IdsInUse, RowsAreLogged
<1>5. UsedIds' = UsedIds
  BY <1>4
<1> QED
  BY <1>1, <1>2, <1>3, <1>5 DEF Register!Remove, Register!TakeEffect, Exists

(* Every step is one of the register or does not show in it.               *)
LEMMA RegisterStep ==
  TypeOK /\ AuditTellsTheLife /\ [Next]_vars
    => [Register!Next]_<<tasks, UsedIds, InEffect>>
<1> SUFFICES ASSUME TypeOK, AuditTellsTheLife, [Next]_vars
             PROVE  [Register!Next]_<<tasks, UsedIds, InEffect>>
  OBVIOUS
<1>a. CASE \E r \in Request : RequestStep(r)
  <2> PICK r \in Request : RequestStep(r)
    BY <1>a
  <2>1. CASE WriteCreate(r)
    BY <2>1, CreateInRegister DEF Register!Next
  <2>2. CASE WriteUpdate(r)
    BY <2>2, UpdateInRegister DEF Register!Next
  <2>3. CASE WriteRemove(r)
    BY <2>3, RemoveInRegister DEF Register!Next
  <2>4. CASE \/ Receive(r) \/ ReadMissing(r) \/ ReadForUpdate(r) \/ ReadForRemove(r)
             \/ CheckAssignee(r) \/ WriteMissing(r) \/ Effects(r)
    <3>1. UNCHANGED <<tasks, audit>>
      BY <2>4 DEF Receive, ReadMissing, ReadForUpdate, ReadForRemove, CheckAssignee,
                  WriteMissing, Effects
    <3>2. \A q \in Request \ {r} : pc'[q] = pc[q] /\ reply'[q] = reply[q]
      BY <2>4 DEF Receive, ReadMissing, ReadForUpdate, ReadForRemove, CheckAssignee,
                  WriteMissing, Effects, Answer, Goto, TypeOK
    <3>3. Committed(r)' <=> Committed(r)
      <4>1. \A t \in Task, action \in {"CREATE", "UPDATE", "DELETE"} : ~Transaction(r, t, action)
        BY <3>1, NothingLogged DEF Transaction, TypeOK
      <4> QED
        BY <4>1, CommittedByWriting
    <3> QED
      BY <3>1, <3>2, <3>3, QuietSteps
  <2> QED
    BY <2>1, <2>2, <2>3, <2>4 DEF RequestStep
<1>b. CASE \E e \in Employee : RemoveEmployee(e)
  BY <1>b DEF RemoveEmployee, UsedIds, Fresh, InEffect, Committed
<1>c. CASE UNCHANGED vars
  BY <1>c DEF vars, UsedIds, Fresh, InEffect, Committed
<1> QED
  BY <1>a, <1>b, <1>c DEF Next

(* The task service implements the register: whatever requests interleave, *)
(* each takes effect at most once and in one step, on the row as it is     *)
(* then, and no id is given out twice.                                     *)
THEOREM ServiceIsARegister == Spec => ImplementsRegister
<1>1. Init => Register!Init
  BY DEF Init, Register!Init, UsedIds, Fresh, InEffect, Committed
<1> QED
  BY <1>1, TypeCorrect, AuditIsALife, RegisterStep, PTL
     DEF Spec, ImplementsRegister, Register!Spec

-----------------------------------------------------------------------------
(* Dashboards: their requests are those of TaskService.                   *)

(* A step of the dashboards is one of TaskService, or none of its own.     *)
LEMMA DashSteps == [DashNext]_dashVars => [Next]_vars
<1> SUFFICES ASSUME [DashNext]_dashVars
             PROVE  [Next]_vars
  OBVIOUS
<1>1. ASSUME NEW r \in Request, DashRequestStep(r)
      PROVE  Next
  <2>1. RequestStep(r)
    BY <1>1 DEF DashRequestStep, DashWrite, DashEffects, RequestStep
  <2> QED
    BY <2>1 DEF Next
<1>2. ASSUME NEW e \in Employee, DashRemoveEmployee(e)
      PROVE  Next
  BY <1>2 DEF DashRemoveEmployee, Next
<1>3. ASSUME NEW d \in Reader, ReaderStep(d)
      PROVE  UNCHANGED vars
  BY <1>3 DEF ReaderStep, Get, GetFails, Query, Fill
<1>4. ASSUME NEW k \in Key, ExpireKey(k)
      PROVE  UNCHANGED vars
  BY <1>4 DEF ExpireKey
<1>5. CASE UNCHANGED dashVars \/ DashAddEmployee
  BY <1>5 DEF dashVars, DashAddEmployee
<1> QED
  BY <1>1, <1>2, <1>3, <1>4, <1>5 DEF DashNext

(* So whatever TaskService promises holds beside the dashboards.           *)
THEOREM DashboardsChangeNoTask == DashSpec => Spec
<1>1. DashInit => Init
  BY DEF DashInit
<1> QED
  BY <1>1, DashSteps, PTL DEF DashSpec, Spec

-----------------------------------------------------------------------------
(* What a dashboard shows, and which writes change it.                     *)

(* A dashboard follows from the rows under its key and their status, and   *)
(* the administrator's from the employees, too.                            *)
LEMMA TruthDepends ==
  ASSUME NEW k \in Key, k = AdminKey => UNCHANGED <<removed, hired>>,
         RowsOf(k)' = RowsOf(k),
         \A t \in RowsOf(k) : tasks'[t].status = tasks[t].status
  PROVE  Truth(k)' = Truth(k)
<1>1. \A s \in Status :
        {t \in RowsOf(k)' : tasks'[t].status = s} = {t \in RowsOf(k) : tasks[t].status = s}
  OBVIOUS
<1>2. StatusCounts(k)' = StatusCounts(k)
  BY <1>1 DEF StatusCounts
<1>3. {t \in RowsOf(k)' : tasks'[t].status # "COMPLETED"} = {t \in RowsOf(k) : tasks[t].status # "COMPLETED"}
  OBVIOUS
<1>4. Rest(k)' = Rest(k)
  BY <1>3 DEF Rest
<1> QED
  BY <1>2, <1>4 DEF Truth, Result

(* A write of one task leaves the dashboards of the employees alone that   *)
(* neither had it nor get it.                                              *)
LEMMA OnlyAssigneesNotice ==
  ASSUME TypeOK, NEW t \in Task, \A u \in Task \ {t} : tasks'[u] = tasks[u],
         NEW k \in Employee,
         Exists(t) => tasks[t].assignedTo # k,
         Exists(t)' => tasks'[t].assignedTo # k
  PROVE  Truth(k)' = Truth(k)
<1>1. k \in Key /\ k # AdminKey
  BY AdminKeyAssumption DEF Key
<1>2. t \notin RowsOf(k) /\ t \notin RowsOf(k)'
  BY <1>1 DEF RowsOf
<1>3. \A u \in Task \ {t} : u \in RowsOf(k)' <=> u \in RowsOf(k)
  BY DEF RowsOf, Exists
<1>4. RowsOf(k) \subseteq Task /\ RowsOf(k)' \subseteq Task
  BY DEF RowsOf
<1> QED
  BY <1>1, <1>2, <1>3, <1>4, TruthDepends

(* The keys a request deletes after its transaction, and the one it misses *)
(* when the row was reassigned since it was read, are all those whose      *)
(* dashboards the transaction changed.                                     *)
LEMMA WritesAreNoticed ==
  ASSUME TypeOK, AuditTellsTheLife, NEW r \in Request,
         WriteCreate(r) \/ WriteUpdate(r) \/ WriteRemove(r),
         NEW k \in Key, Truth(k)' # Truth(k)
  PROVE  \/ k \in DeletedBy(Invalidated(r)')
         \/ ReadIsStale(r) /\ k = tasks[call[r].task].assignedTo
<1>1. CASE WriteCreate(r)
  <2>1. PICK t \in Task : /\ Fresh(t)
                          /\ tasks' = [tasks EXCEPT ![t] = Inserted(t, call[r])]
                          /\ row' = [row EXCEPT ![r] = Inserted(t, call[r])]
    BY <1>1 DEF WriteCreate
  <2>2. /\ row'[r] = tasks'[t] /\ \A u \in Task \ {t} : tasks'[u] = tasks[u]
        /\ call' = call /\ call[r].op = "create"
    BY <1>1, <2>1 DEF TypeOK, WriteCreate
  <2>3. ~Exists(t)
    BY <2>1 DEF AuditTellsTheLife, Fresh
  <2>4. Invalidated(r)' = {tasks'[t].assignedTo}
    BY <2>2 DEF Invalidated
  <2>5. k = AdminKey \/ k = tasks'[t].assignedTo
    BY <2>2, <2>3, OnlyAssigneesNotice DEF Key
  <2> QED
    BY <2>4, <2>5 DEF DeletedBy
<1>2. CASE WriteUpdate(r)
  <2> DEFINE t == call[r].task
  <2>1. /\ t \in Task /\ Exists(t) /\ call[r].input \in Edits /\ tasks[t] \in TaskRow
        /\ call' = call /\ seen' = seen /\ call[r].op = "update"
    BY <1>2, CallFields DEF WriteUpdate, TypeOK, LocalsFit, Exists
  <2>2. /\ tasks' = [tasks EXCEPT ![t] = Updated(r)]
        /\ row' = [row EXCEPT ![r] = Updated(r)]
    BY <1>2 DEF WriteUpdate
  <2>3. /\ row'[r] = tasks'[t] /\ \A u \in Task \ {t} : tasks'[u] = tasks[u]
        /\ tasks'[t] = Merge(tasks[t], call[r].input)
    BY <2>1, <2>2 DEF TypeOK, Updated
  <2>4. tasks'[t].assignedTo = Coalesce(call[r].input.assignedTo, tasks[t].assignedTo)
    BY <2>1, <2>3, MergedFields DEF Field
  <2>5. Invalidated(r)' = {tasks'[t].assignedTo} \cup (IF Reassigns(r) THEN {seen[r].assignedTo} ELSE {})
    BY <2>1, <2>3 DEF Invalidated, Reassigns
  <2>6. k \in {AdminKey, tasks[t].assignedTo, tasks'[t].assignedTo}
    BY <2>1, <2>3, OnlyAssigneesNotice DEF Key
  <2>7. CASE k = tasks[t].assignedTo /\ tasks[t].assignedTo # seen[r].assignedTo
    BY <2>1, <2>7 DEF ReadIsStale
  <2>8. CASE k = tasks[t].assignedTo /\ tasks[t].assignedTo = seen[r].assignedTo
    <3>1. k = tasks'[t].assignedTo \/ Reassigns(r)
      BY <2>4, <2>8 DEF Coalesce, Reassigns
    <3> QED
      BY <2>5, <2>8, <3>1 DEF DeletedBy
  <2>9. CASE k \in {AdminKey, tasks'[t].assignedTo}
    BY <2>5, <2>9 DEF DeletedBy
  <2> QED
    BY <2>6, <2>7, <2>8, <2>9
<1>3. CASE WriteRemove(r)
  <2> DEFINE t == call[r].task
  <2>1. /\ t \in Task /\ Exists(t) /\ call' = call /\ seen' = seen /\ call[r].op = "remove"
        /\ tasks' = [tasks EXCEPT ![t] = NoTask]
    BY <1>3, CallFields DEF WriteRemove, TypeOK, LocalsFit
  <2>2. ~Exists(t)' /\ \A u \in Task \ {t} : tasks'[u] = tasks[u]
    BY <2>1 DEF TypeOK, Exists
  <2>3. Invalidated(r)' = {seen[r].assignedTo}
    BY <2>1 DEF Invalidated
  <2>4. k = AdminKey \/ k = tasks[t].assignedTo
    BY <2>1, <2>2, OnlyAssigneesNotice DEF Key
  <2> QED
    BY <2>1, <2>3, <2>4 DEF DeletedBy, ReadIsStale
<1> QED
  BY <1>1, <1>2, <1>3
-----------------------------------------------------------------------------
(* A cached dashboard is fresh, or its staleness has a cause.              *)

(* Why: what a reader holds is the truth, unless its key is excused.       *)
Faithful(d) ==
  LET k == reading[d].key
      got == reading[d].got
  IN  reading[d].at = "fetch" =>
        /\ reading[d] = [at |-> "fetch", key |-> k, got |-> got]
        /\ k \in Key
        /\ DOMAIN got \subseteq Queries
        /\ got = [q \in DOMAIN got |-> got[q]]
        /\ k \in excused \/ \A q \in DOMAIN got : got[q] = Result(k, q)

ReadsInv ==
  /\ DOMAIN reading = Reader
  /\ DOMAIN cache = Key
  /\ \A d \in Reader : Faithful(d)

(* A step that leaves the tables alone leaves every dashboard alone.       *)
LEMMA TruthStays ==
  ASSUME UNCHANGED <<tasks, removed, hired>>, NEW k
  PROVE  Truth(k)' = Truth(k)
<1>1. RowsOf(k)' = RowsOf(k)
  BY DEF RowsOf, Exists
<1>2. StatusCounts(k)' = StatusCounts(k) /\ Rest(k)' = Rest(k)
  BY <1>1 DEF StatusCounts, Rest
<1> QED
  BY <1>2 DEF Truth, Result

(* A reader that takes no step stays faithful when its key keeps its       *)
(* excuse and either keeps its dashboard or gets an excuse.                *)
LEMMA WaitingIsFaithful ==
  ASSUME NEW d \in Reader, Faithful(d), reading'[d] = reading[d],
         reading[d].at = "fetch" =>
           /\ reading[d].key \in excused => reading[d].key \in excused'
           /\ Truth(reading[d].key)' = Truth(reading[d].key) \/ reading[d].key \in excused'
  PROVE  Faithful(d)'
<1> SUFFICES ASSUME reading[d].at = "fetch"
             PROVE  Faithful(d)'
  BY DEF Faithful
<1> DEFINE key == reading[d].key
           got == reading[d].got
<1>1. /\ reading[d] = [at |-> "fetch", key |-> key, got |-> got]
      /\ key \in Key /\ DOMAIN got \subseteq Queries /\ got = [q \in DOMAIN got |-> got[q]]
      /\ key \in excused \/ \A q \in DOMAIN got : got[q] = Result(key, q)
  BY DEF Faithful
<1>2. PICK k : k = key
  OBVIOUS
<1>3. k \in excused' \/ \A q \in DOMAIN got : got[q] = Result(k, q)'
  <2>1. CASE Truth(k)' = Truth(k)
    <3>1. \A q \in Queries : Result(k, q)' = Result(k, q)
      BY <2>1 DEF Truth
    <3> QED
      BY <1>1, <1>2, <3>1
  <2> QED
    BY <1>2, <2>1
<1>4. reading'[d].key = k /\ reading'[d].got = got
  BY <1>2
<1> QED
  BY <1>1, <1>2, <1>3, <1>4 DEF Faithful

(* A key whose cached value, whose dashboard and whose excuse do not       *)
(* change is as fresh as it was, unless a deletion that was about to run   *)
(* has run.                                                                *)
LEMMA StaleStays ==
  ASSUME NEW k \in Key, Stale(k) => k \in excused \/ DeletePending(k), Stale(k)',
         cache'[k] = cache[k], Truth(k)' = Truth(k), k \in excused => k \in excused'
  PROVE  k \in excused' \/ DeletePending(k)
BY DEF Stale

(* A deletion that is about to run stays so while its request takes no     *)
(* step.                                                                   *)
LEMMA PendingStays ==
  ASSUME NEW k, NEW q \in Request, pc[q] = "effects", k \in DeletedBy(Invalidated(q)),
         pc'[q] = pc[q], call'[q] = call[q], seen'[q] = seen[q], row'[q] = row[q]
  PROVE  DeletePending(k)'
<1>1. Invalidated(q)' = Invalidated(q)
  BY DEF Invalidated, Reassigns
<1> QED
  BY <1>1 DEF DeletePending, DeletedBy
(* A request holds its locals while another takes a step.                  *)
LEMMA OthersWait ==
  ASSUME TypeOK, NEW r \in Request, RequestStep(r), NEW q \in Request \ {r}
  PROVE  pc'[q] = pc[q] /\ call'[q] = call[q] /\ seen'[q] = seen[q] /\ row'[q] = row[q]
<1>1. CASE Receive(r) \/ ReadMissing(r) \/ ReadForRemove(r)
  BY <1>1 DEF Receive, ReadMissing, ReadForRemove, Answer, Goto, TypeOK
<1>2. CASE ReadForUpdate(r)
  BY <1>2 DEF ReadForUpdate, Answer, Goto, TypeOK
<1>3. CASE CheckAssignee(r) \/ WriteMissing(r) \/ Effects(r)
  BY <1>3 DEF CheckAssignee, WriteMissing, Effects, Answer, Goto, TypeOK
<1>4. CASE WriteCreate(r) \/ WriteUpdate(r) \/ WriteRemove(r)
  BY <1>4 DEF WriteCreate, WriteUpdate, WriteRemove, Goto, TypeOK
<1> QED
  BY <1>1, <1>2, <1>3, <1>4 DEF RequestStep

(* A request that has not written yet changes no dashboard and deletes no  *)
(* key.                                                                    *)
LEMMA ReadingRequestsAreQuiet ==
  ASSUME TypeOK, ReadsInv, StaleOnlyByRace, NEW r \in Request,
         Receive(r) \/ ReadMissing(r) \/ ReadForUpdate(r) \/ ReadForRemove(r)
           \/ CheckAssignee(r) \/ WriteMissing(r),
         UNCHANGED <<hired, cache, reading, excused>>
  PROVE  ReadsInv' /\ StaleOnlyByRace'
<1>1. UNCHANGED <<tasks, removed>> /\ pc[r] # "effects" /\ RequestStep(r)
  BY DEF Receive, ReadMissing, ReadForUpdate, ReadForRemove, CheckAssignee, WriteMissing, RequestStep
<1>2. \A k : Truth(k)' = Truth(k)
  BY <1>1, TruthStays
<1>3. ASSUME NEW d \in Reader
      PROVE  Faithful(d)'
  BY <1>2, WaitingIsFaithful DEF ReadsInv
<1>4. ASSUME NEW k \in Key, Stale(k)'
      PROVE  k \in excused' \/ DeletePending(k)'
  <2>1. k \in excused' \/ DeletePending(k)
    BY <1>2, <1>4, StaleStays DEF StaleOnlyByRace
  <2>2. ASSUME DeletePending(k)
        PROVE  DeletePending(k)'
    <3>1. PICK q \in Request : pc[q] = "effects" /\ k \in DeletedBy(Invalidated(q))
      BY <2>2 DEF DeletePending
    <3>2. q \in Request \ {r}
      BY <1>1, <3>1
    <3> QED
      BY <1>1, <3>1, <3>2, OthersWait, PendingStays
  <2> QED
    BY <2>1, <2>2
<1> QED
  BY <1>3, <1>4 DEF ReadsInv, StaleOnlyByRace

(* A transaction excuses the readers it overtakes and the key its request  *)
(* does not know of, and its request is about to delete the others.        *)
LEMMA WritesAreExcused ==
  ASSUME TypeOK, AuditTellsTheLife, ReadsInv, StaleOnlyByRace, NEW r \in Request, DashWrite(r)
  PROVE  ReadsInv' /\ StaleOnlyByRace'
<1>1. /\ WriteCreate(r) \/ WriteUpdate(r) \/ WriteRemove(r)
      /\ UNCHANGED <<cache, reading>>
      /\ excused \subseteq excused'
      /\ \A k \in Key : Fetching(k) # {} /\ Truth(k) # Truth(k)' => k \in excused'
      /\ \A k \in Key :
           ReadIsStale(r) /\ k = tasks[call[r].task].assignedTo /\ ~Settled(k) => k \in excused'
  BY DEF DashWrite
<1>2. /\ RequestStep(r) /\ pc[r] # "effects" /\ pc'[r] = "effects"
  BY <1>1 DEF WriteCreate, WriteUpdate, WriteRemove, Goto, RequestStep, TypeOK
<1>3. ASSUME NEW d \in Reader
      PROVE  Faithful(d)'
  <2>1. ASSUME NEW k \in Key, reading[d].at = "fetch", reading[d].key = k
        PROVE  Truth(k)' = Truth(k) \/ k \in excused'
    <3>1. Fetching(k) # {}
      BY <2>1 DEF Fetching
    <3> QED
      BY <1>1, <3>1
  <2>2. reading[d].at = "fetch" => \E k \in Key : reading[d].key = k
    BY DEF ReadsInv, Faithful
  <2>3. reading[d].at = "fetch" =>
          Truth(reading[d].key)' = Truth(reading[d].key) \/ reading[d].key \in excused'
    BY <1>1, <2>1, <2>2
  <2> QED
    BY <1>1, <2>3, WaitingIsFaithful DEF ReadsInv
<1>4. ASSUME NEW k \in Key, Stale(k)'
      PROVE  k \in excused' \/ DeletePending(k)'
  <2>1. CASE Truth(k)' # Truth(k)
    <3>1. ~Settled(k)
      BY <1>4 DEF Settled, Stale
    <3>2. k \in DeletedBy(Invalidated(r)') \/ k \in excused'
      BY <1>1, <2>1, <3>1, WritesAreNoticed
    <3> QED
      BY <1>2, <3>2 DEF DeletePending, DeletedBy
  <2>2. CASE Truth(k)' = Truth(k)
    <3>1. k \in excused' \/ DeletePending(k)
      BY <1>1, <1>4, <2>2, StaleStays DEF StaleOnlyByRace
    <3>2. ASSUME DeletePending(k)
          PROVE  DeletePending(k)'
      <4>1. PICK q \in Request : pc[q] = "effects" /\ k \in DeletedBy(Invalidated(q))
        BY <3>2 DEF DeletePending
      <4>2. q \in Request \ {r}
        BY <1>2, <4>1
      <4> QED
        BY <1>2, <4>1, <4>2, OthersWait, PendingStays
    <3> QED
      BY <3>1, <3>2
  <2> QED
    BY <2>1, <2>2
<1> QED
  BY <1>1, <1>3, <1>4 DEF ReadsInv, StaleOnlyByRace

(* An employee more or less changes the administrator's dashboard only, and *)
(* that one is excused while it is cached or being fetched.                *)
LEMMA StaffIsExcused ==
  ASSUME ReadsInv, StaleOnlyByRace, StaffChanges, UNCHANGED <<tasks, pc, call, seen, row>>
  PROVE  ReadsInv' /\ StaleOnlyByRace'
<1>1. /\ UNCHANGED <<tasks, pc, call, seen, row, cache, reading>>
      /\ excused' = excused \cup {k \in {AdminKey} : ~Settled(k)}
  BY DEF StaffChanges
<1>2. ASSUME NEW k \in Key, k # AdminKey
      PROVE  Truth(k)' = Truth(k)
  <2>1. RowsOf(k)' = RowsOf(k)
    BY <1>1 DEF RowsOf, Exists
  <2> QED
    BY <1>1, <1>2, <2>1, TruthDepends
<1>3. ASSUME NEW d \in Reader
      PROVE  Faithful(d)'
  <2>1. ASSUME NEW k \in Key, reading[d].at = "fetch", reading[d].key = k
        PROVE  Truth(k)' = Truth(k) \/ k \in excused'
    <3>1. ~Settled(k)
      BY <1>1, <2>1 DEF Settled
    <3> QED
      BY <1>1, <1>2, <3>1
  <2>2. reading[d].at = "fetch" => \E k \in Key : reading[d].key = k
    BY DEF ReadsInv, Faithful
  <2>3. reading[d].at = "fetch" =>
          Truth(reading[d].key)' = Truth(reading[d].key) \/ reading[d].key \in excused'
    BY <1>1, <2>1, <2>2
  <2> QED
    BY <1>1, <2>3, WaitingIsFaithful DEF ReadsInv
<1>4. ASSUME NEW k \in Key, Stale(k)'
      PROVE  k \in excused' \/ DeletePending(k)'
  <2>1. k \in excused' \/ DeletePending(k)
    <3>1. CASE k = AdminKey
      <4>1. ~Settled(k)
        BY <1>4 DEF Settled, Stale
      <4> QED
        BY <1>1, <3>1, <4>1
    <3>2. CASE k # AdminKey
      BY <1>1, <1>2, <1>4, <3>2, StaleStays DEF StaleOnlyByRace
    <3> QED
      BY <3>1, <3>2
  <2>2. DeletePending(k) => DeletePending(k)'
    BY <1>1 DEF DeletePending, DeletedBy, Invalidated, Reassigns
  <2> QED
    BY <2>1, <2>2
<1> QED
  BY <1>1, <1>3, <1>4 DEF ReadsInv, StaleOnlyByRace

(* The side effects delete the keys of what was written, or excuse them.   *)
LEMMA EffectsAreExcused ==
  ASSUME TypeOK, ReadsInv, StaleOnlyByRace, NEW r \in Request, DashEffects(r)
  PROVE  ReadsInv' /\ StaleOnlyByRace'
<1>1. UNCHANGED <<tasks, removed, hired, reading>> /\ RequestStep(r)
  BY DEF DashEffects, Effects, RequestStep
<1>2. PICK done \in SUBSET Invalidated(r) :
        /\ cache' = [k \in Key |-> IF k \in DeletedBy(done) THEN Missing ELSE cache[k]]
        /\ excused' = {k \in excused \cup (DeletedBy(Invalidated(r)) \ DeletedBy(done)) : ~Settled(k)}
  BY DEF DashEffects
<1>3. \A k : Truth(k)' = Truth(k)
  BY <1>1, TruthStays
<1>4. ASSUME NEW d \in Reader
      PROVE  Faithful(d)'
  <2>1. reading[d].at = "fetch" => ~Settled(reading[d].key)
    BY <1>1 DEF Settled
  <2>2. reading[d].at = "fetch" /\ reading[d].key \in excused => reading[d].key \in excused'
    BY <1>2, <2>1
  <2> QED
    BY <1>1, <1>3, <2>2, WaitingIsFaithful DEF ReadsInv
<1>5. ASSUME NEW k \in Key, Stale(k)'
      PROVE  k \in excused' \/ DeletePending(k)'
  <2>1. cache'[k] # Missing
    BY <1>5 DEF Stale
  <2>2. cache'[k] = cache[k] /\ k \notin DeletedBy(done) /\ ~Settled(k)
    BY <1>2, <2>1 DEF Settled
  <2>3. k \in excused => k \in excused'
    BY <1>2, <2>2
  <2>4. k \in excused' \/ DeletePending(k)
    BY <1>3, <1>5, <2>2, <2>3, StaleStays DEF StaleOnlyByRace
  <2>5. ASSUME DeletePending(k)
        PROVE  k \in excused' \/ DeletePending(k)'
    <3>1. PICK q \in Request : pc[q] = "effects" /\ k \in DeletedBy(Invalidated(q))
      BY <2>5 DEF DeletePending
    <3>2. CASE q = r
      BY <1>2, <2>2, <3>1, <3>2
    <3>3. CASE q # r
      <4>1. q \in Request \ {r}
        BY <3>3
      <4> QED
        BY <1>1, <3>1, <4>1, OthersWait, PendingStays
    <3> QED
      BY <3>2, <3>3
  <2> QED
    BY <2>4, <2>5
<1>6. DOMAIN cache' = Key
  BY <1>2
<1> QED
  BY <1>1, <1>4, <1>5, <1>6 DEF ReadsInv, StaleOnlyByRace

(* A deletion that is about to run is none of the readers' business.       *)
LEMMA PendingWhileReading ==
  ASSUME UNCHANGED vars, NEW k
  PROVE  DeletePending(k)' <=> DeletePending(k)
BY DEF vars, DeletePending, DeletedBy, Invalidated, Reassigns

(* A reader that misses and one that queries see the tables as they are.   *)
LEMMA QueriesAreFaithful ==
  ASSUME ReadsInv, StaleOnlyByRace, NEW d \in Reader, Get(d) \/ GetFails(d) \/ Query(d)
  PROVE  ReadsInv' /\ StaleOnlyByRace'
<1>1. UNCHANGED <<vars, hired, cache, excused>>
  BY DEF Get, GetFails, Query
<1>2. \A k : Truth(k)' = Truth(k)
  BY <1>1, TruthStays DEF vars
<1>3. \A k \in Key, q \in Queries : Result(k, q)' = Result(k, q)
  BY <1>2 DEF Truth
<1>4. /\ DOMAIN reading' = Reader
      /\ \A x \in Reader \ {d} : reading'[x] = reading[x]
  BY DEF ReadsInv, Get, GetFails, Query
<1>5. ASSUME NEW x \in Reader \ {d}
      PROVE  Faithful(x)'
  BY <1>1, <1>2, <1>4, WaitingIsFaithful DEF ReadsInv
<1>6. ASSUME Get(d) \/ GetFails(d)
      PROVE  Faithful(d)'
  <2>1. PICK k \in Key : reading'[d] \in {[at |-> "done"], [at |-> "fetch", key |-> k, got |-> <<>>]}
    BY <1>6 DEF ReadsInv, Get, GetFails
  <2>2. DOMAIN <<>> = {} /\ <<>> = [q \in {} |-> 0]
    OBVIOUS
  <2> QED
    BY <2>1, <2>2 DEF Faithful
<1>7. ASSUME Query(d)
      PROVE  Faithful(d)'
  <2> DEFINE key == reading[d].key
             got == reading[d].got
  <2>1. PICK q \in Queries \ DOMAIN got :
          reading' = [reading EXCEPT ![d].got =
            [p \in DOMAIN @ \cup {q} |-> IF p = q THEN Result(key, q) ELSE @[p]]]
    BY <1>7 DEF Query
  <2>2. /\ reading[d] = [at |-> "fetch", key |-> key, got |-> got]
        /\ key \in Key /\ DOMAIN got \subseteq Queries
        /\ key \in excused \/ \A p \in DOMAIN got : got[p] = Result(key, p)
    BY <1>7 DEF ReadsInv, Faithful, Query
  <2>3. PICK k \in Key : k = key
    BY <2>2
  <2>4. PICK new : new = [p \in DOMAIN got \cup {q} |-> IF p = q THEN Result(k, q) ELSE got[p]]
    OBVIOUS
  <2>5. reading'[d] = [at |-> "fetch", key |-> k, got |-> new]
    BY <2>1, <2>2, <2>3, <2>4 DEF ReadsInv
  <2>6. DOMAIN new \subseteq Queries /\ new = [p \in DOMAIN new |-> new[p]]
    BY <2>2, <2>4
  <2>7. k \in excused \/ \A p \in DOMAIN new : new[p] = Result(k, p)
    BY <2>2, <2>3, <2>4
  <2>8. k \in excused' \/ \A p \in DOMAIN new : new[p] = Result(k, p)'
    BY <1>1, <1>3, <2>6, <2>7
  <2> QED
    BY <2>5, <2>6, <2>8 DEF Faithful
<1>8. ASSUME NEW k \in Key, Stale(k)'
      PROVE  k \in excused' \/ DeletePending(k)'
  BY <1>1, <1>2, <1>8, StaleStays, PendingWhileReading DEF StaleOnlyByRace
<1> QED
  BY <1>1, <1>4, <1>5, <1>6, <1>7, <1>8 DEF ReadsInv, StaleOnlyByRace

(* A reader stores what it has: the truth, or what its key is excused for. *)
LEMMA FillsAreExcused ==
  ASSUME ReadsInv, StaleOnlyByRace, NEW d \in Reader, Fill(d)
  PROVE  ReadsInv' /\ StaleOnlyByRace'
<1> DEFINE key == reading[d].key
           got == reading[d].got
<1>1. UNCHANGED <<vars, hired>> /\ excused' = {x \in excused : ~Settled(x)} /\ DOMAIN got = Queries
  BY DEF Fill
<1>2. \A k : Truth(k)' = Truth(k)
  BY <1>1, TruthStays DEF vars
<1>3. /\ DOMAIN reading' = Reader /\ DOMAIN cache' = Key
      /\ \A x \in Reader \ {d} : reading'[x] = reading[x]
      /\ reading'[d] = [at |-> "done"]
  BY DEF ReadsInv, Fill
<1>4. ASSUME NEW x \in Reader \ {d}
      PROVE  Faithful(x)'
  <2>1. reading[x].at = "fetch" => ~Settled(reading[x].key)
    BY <1>3 DEF Settled
  <2>2. reading[x].at = "fetch" /\ reading[x].key \in excused => reading[x].key \in excused'
    BY <1>1, <2>1
  <2> QED
    BY <1>2, <1>3, <2>2, WaitingIsFaithful DEF ReadsInv
<1>5. Faithful(d)'
  BY <1>3 DEF Faithful
<1>6. ASSUME NEW k \in Key, Stale(k)'
      PROVE  k \in excused' \/ DeletePending(k)'
  <2>1. ~Settled(k)
    BY <1>6 DEF Settled, Stale
  <2>2. k \in excused => k \in excused'
    BY <1>1, <2>1
  <2>3. CASE cache'[k] = cache[k]
    BY <1>1, <1>2, <1>6, <2>2, <2>3, StaleStays, PendingWhileReading DEF StaleOnlyByRace
  <2>4. CASE cache'[k] # cache[k]
    <3>1. k = key /\ cache'[k] = got
      BY <2>4 DEF ReadsInv, Fill
    <3>2. /\ got = [q \in Queries |-> got[q]]
          /\ k \in excused \/ \A q \in Queries : got[q] = Result(k, q)
      BY <1>1, <3>1 DEF ReadsInv, Faithful, Fill
    <3>3. k \in excused \/ got = Truth(k)
      BY <3>2 DEF Truth
    <3> QED
      BY <1>2, <1>6, <2>2, <3>1, <3>3 DEF Stale
  <2> QED
    BY <2>3, <2>4
<1> QED
  BY <1>3, <1>4, <1>5, <1>6 DEF ReadsInv, StaleOnlyByRace

(* What the TTL takes away is not stale.                                   *)
LEMMA ExpiryIsExcused ==
  ASSUME ReadsInv, StaleOnlyByRace, NEW k \in Key, ExpireKey(k)
  PROVE  ReadsInv' /\ StaleOnlyByRace'
<1>1. /\ UNCHANGED <<vars, hired>> /\ UNCHANGED reading /\ excused' = {x \in excused : ~Settled(x)}
      /\ DOMAIN cache' = Key /\ cache'[k] = Missing
      /\ \A x \in Key \ {k} : cache'[x] = cache[x]
  BY DEF ExpireKey, ReadsInv
<1>2. \A x : Truth(x)' = Truth(x)
  BY <1>1, TruthStays DEF vars
<1>3. ASSUME NEW d \in Reader
      PROVE  Faithful(d)'
  <2>1. reading[d].at = "fetch" => ~Settled(reading[d].key)
    BY <1>1 DEF Settled
  <2>2. reading[d].at = "fetch" /\ reading[d].key \in excused => reading[d].key \in excused'
    BY <1>1, <2>1
  <2> QED
    BY <1>1, <1>2, <2>2, WaitingIsFaithful DEF ReadsInv
<1>4. ASSUME NEW x \in Key, Stale(x)'
      PROVE  x \in excused' \/ DeletePending(x)'
  <2>1. ~Settled(x) /\ x # k
    BY <1>1, <1>4 DEF Settled, Stale
  <2>2. x \in excused => x \in excused'
    BY <1>1, <2>1
  <2>3. cache'[x] = cache[x]
    BY <1>1, <2>1
  <2> QED
    BY <1>1, <1>2, <1>4, <2>2, <2>3, StaleStays, PendingWhileReading DEF StaleOnlyByRace
<1> QED
  BY <1>1, <1>3, <1>4 DEF ReadsInv, StaleOnlyByRace

(* Every step keeps the readers faithful and explains what it makes stale. *)
LEMMA FreshStep ==
  TypeOK /\ AuditTellsTheLife /\ ReadsInv /\ StaleOnlyByRace /\ [DashNext]_dashVars
    => ReadsInv' /\ StaleOnlyByRace'
<1> SUFFICES ASSUME TypeOK, AuditTellsTheLife, ReadsInv, StaleOnlyByRace, [DashNext]_dashVars
             PROVE  ReadsInv' /\ StaleOnlyByRace'
  OBVIOUS
<1>1. ASSUME NEW r \in Request, DashRequestStep(r)
      PROVE  ReadsInv' /\ StaleOnlyByRace'
  BY <1>1, ReadingRequestsAreQuiet, WritesAreExcused, EffectsAreExcused DEF DashRequestStep
<1>2. ASSUME DashAddEmployee \/ \E e \in Employee : DashRemoveEmployee(e)
      PROVE  ReadsInv' /\ StaleOnlyByRace'
  <2>1. StaffChanges /\ UNCHANGED <<tasks, pc, call, seen, row>>
    BY <1>2 DEF DashAddEmployee, DashRemoveEmployee, RemoveEmployee, vars
  <2> QED
    BY <2>1, StaffIsExcused
<1>3. ASSUME NEW d \in Reader, ReaderStep(d)
      PROVE  ReadsInv' /\ StaleOnlyByRace'
  BY <1>3, QueriesAreFaithful, FillsAreExcused DEF ReaderStep
<1>4. ASSUME NEW k \in Key, ExpireKey(k)
      PROVE  ReadsInv' /\ StaleOnlyByRace'
  BY <1>4, ExpiryIsExcused
<1>5. CASE UNCHANGED dashVars
  <2>1. UNCHANGED vars /\ UNCHANGED <<hired, cache, reading, excused>>
    BY <1>5 DEF dashVars
  <2>2. \A k : Truth(k)' = Truth(k)
    BY <2>1, TruthStays DEF vars
  <2>3. ASSUME NEW d \in Reader
        PROVE  Faithful(d)'
    BY <2>1, <2>2, WaitingIsFaithful DEF ReadsInv
  <2>4. ASSUME NEW k \in Key, Stale(k)'
        PROVE  k \in excused' \/ DeletePending(k)'
    BY <2>1, <2>2, <2>4, StaleStays, PendingWhileReading DEF StaleOnlyByRace
  <2> QED
    BY <2>1, <2>3, <2>4 DEF ReadsInv, StaleOnlyByRace
<1> QED
  BY <1>1, <1>2, <1>3, <1>4, <1>5 DEF DashNext

(* Nothing is cached or being read at first.                               *)
LEMMA FreshStart == DashInit => ReadsInv /\ StaleOnlyByRace
<1> SUFFICES ASSUME DashInit
             PROVE  ReadsInv /\ StaleOnlyByRace
  OBVIOUS
<1>1. \A d \in Reader : reading[d].at # "fetch"
  BY DEF DashInit
<1> QED
  BY <1>1 DEF DashInit, ReadsInv, Faithful, StaleOnlyByRace, Stale

(* A cached dashboard differs from the database only for a reason the code *)
(* gives: a deletion that is about to run, a write in the middle of a      *)
(* reader's queries, a row reassigned under the request that wrote it, an  *)
(* employee created, registered or removed, a failed DEL.                  *)
THEOREM StaleForAReason == DashSpec => []StaleOnlyByRace
BY FreshStart, FreshStep, DashboardsChangeNoTask, TypeCorrect, AuditIsALife, PTL DEF DashSpec

-----------------------------------------------------------------------------
(* What is cached is whole.                                                *)

(* A key is empty or has the results of both queries.                     *)
DashTypeOK ==
  /\ DOMAIN cache = Key /\ DOMAIN reading = Reader
  /\ \A k \in Key : cache[k] = Missing \/ DOMAIN cache[k] = Queries
  /\ \A d \in Reader : reading[d].at \in {"idle", "fetch", "done"}
  /\ excused \subseteq Key

(* A step of a request deletes keys or leaves them, and what it excuses is *)
(* the key of an assignee or a dashboard somebody is reading.              *)
LEMMA RequestsKeepDashboards ==
  ASSUME TypeOK, DashTypeOK, NEW r \in Request, DashRequestStep(r)
  PROVE  DashTypeOK'
<1>1. UNCHANGED reading
  BY DEF DashRequestStep, DashWrite, DashEffects
<1>2. CASE UNCHANGED <<cache, reading, excused>>
  BY <1>2 DEF DashTypeOK
<1>3. CASE DashWrite(r)
  <2>1. UNCHANGED cache
    BY <1>3 DEF DashWrite
  <2>2. excused' \subseteq Key
    BY <1>3 DEF DashWrite, DashTypeOK
  <2> QED
    BY <1>1, <2>1, <2>2 DEF DashTypeOK
<1>4. CASE DashEffects(r)
  <2>1. PICK done \in SUBSET Invalidated(r) :
          /\ cache' = [k \in Key |-> IF k \in DeletedBy(done) THEN Missing ELSE cache[k]]
          /\ excused' = {k \in excused \cup (DeletedBy(Invalidated(r)) \ DeletedBy(done)) : ~Settled(k)}
    BY <1>4 DEF DashEffects
  <2>2. DeletedBy(Invalidated(r)) \subseteq Key
    <3>1. pc[r] = "effects" /\ LocalsFit(r) /\ call[r] \in Calls
      BY <1>4 DEF DashEffects, Effects, TypeOK, LocalsFit
    <3>2. call[r].op # "create" => seen[r].assignedTo \in Employee
      BY <3>1 DEF LocalsFit, TaskRow
    <3>3. call[r].op # "remove" => row[r].assignedTo \in Employee
      BY <3>1 DEF LocalsFit, TaskRow
    <3>4. Invalidated(r) \subseteq Employee
      BY <3>1, <3>2, <3>3, CallFields DEF Invalidated
    <3> QED
      BY <3>4 DEF DeletedBy, Key
  <2> QED
    BY <1>1, <2>1, <2>2 DEF DashTypeOK
<1> QED
  BY <1>2, <1>3, <1>4 DEF DashRequestStep

(* dashboardService.getAdminDashboard and getEmployeeDashboard cache only  *)
(* what they have of both their queries: no reader, whatever is written or *)
(* deleted under it, leaves half a dashboard for the next one.             *)
THEOREM CachedIsWhole == DashSpec => []DashTypeOK
<1>1. DashInit => DashTypeOK /\ ReadsInv /\ StaleOnlyByRace
  BY FreshStart DEF DashInit, DashTypeOK
<1>2. TypeOK /\ ReadsInv /\ DashTypeOK /\ [DashNext]_dashVars => DashTypeOK'
  <2> SUFFICES ASSUME TypeOK, ReadsInv, DashTypeOK, [DashNext]_dashVars
               PROVE  DashTypeOK'
    OBVIOUS
  <2>1. ASSUME NEW d \in Reader, Get(d) \/ GetFails(d) \/ Query(d)
        PROVE  DashTypeOK'
    <3>1. UNCHANGED <<cache, excused>> /\ DOMAIN reading' = Reader
      BY <2>1 DEF Get, GetFails, Query, DashTypeOK
    <3>2. \A e \in Reader \ {d} : reading'[e] = reading[e]
      BY <2>1 DEF Get, GetFails, Query, DashTypeOK
    <3>3. reading'[d].at \in {"idle", "fetch", "done"}
      <4>1. CASE Get(d) \/ GetFails(d)
        BY <4>1 DEF Get, GetFails, DashTypeOK
      <4>2. CASE Query(d)
        BY <4>2 DEF Query, DashTypeOK, ReadsInv, Faithful
      <4> QED
        BY <2>1, <4>1, <4>2
    <3> QED
      BY <3>1, <3>2, <3>3 DEF DashTypeOK
  <2>2. ASSUME NEW d \in Reader, Fill(d)
        PROVE  DashTypeOK'
    <3>1. PICK k, got : k = reading[d].key /\ got = reading[d].got
      OBVIOUS
    <3>2. /\ DOMAIN got = Queries
          /\ cache' = [cache EXCEPT ![k] = got] \/ UNCHANGED cache
          /\ reading' = [reading EXCEPT ![d] = [at |-> "done"]]
          /\ excused' \subseteq excused
      BY <2>2, <3>1 DEF Fill
    <3> QED
      BY <3>2 DEF DashTypeOK
  <2>3. ASSUME NEW k \in Key, ExpireKey(k)
        PROVE  DashTypeOK'
    BY <2>3 DEF ExpireKey, DashTypeOK
  <2>4. ASSUME DashAddEmployee \/ \E e \in Employee : DashRemoveEmployee(e)
        PROVE  DashTypeOK'
    BY <2>4 DEF DashAddEmployee, DashRemoveEmployee, StaffChanges, DashTypeOK, Key
  <2>5. CASE UNCHANGED dashVars
    BY <2>5 DEF dashVars, DashTypeOK
  <2> QED
    BY <2>1, <2>2, <2>3, <2>4, <2>5, RequestsKeepDashboards DEF DashNext, ReaderStep
<1> QED
  BY <1>1, <1>2, FreshStep, AuditIsALife, DashboardsChangeNoTask, TypeCorrect, PTL DEF DashSpec
=============================================================================
