---------------------------- MODULE MCDashboard ----------------------------
(* A TLC instance of Dashboard that starts after one request, Author, has  *)
(* created the task t1: every other request meets a task that exists.      *)
EXTENDS Dashboard

CONSTANTS Author, FirstTask, First, Second

MCDate == {1}

NoField == [f \in Field |-> Undefined]

(* Tasks start with the first employee; an edit completes a task or hands  *)
(* it to the second.                                                       *)
MCNewTasks == {[status |-> "PENDING", startDate |-> 1, dueDate |-> 1, assignedTo |-> First]}

MCEdits == {[NoField EXCEPT !.status = "COMPLETED"], [NoField EXCEPT !.assignedTo = Second]}

(* A reachable state: Author's POST /tasks was answered, nothing is cached. *)
SeededInit ==
  \E c \in {x \in Calls : x.op = "create"} :
    LET task == Inserted(FirstTask, c)
    IN  /\ tasks = [t \in Task |-> IF t = FirstTask THEN task ELSE NoTask]
        /\ audit = [t \in Task |->
             IF t = FirstTask THEN <<[action |-> "CREATE", req |-> Author]>> ELSE <<>>]
        /\ removed = {}
        /\ pc = [r \in Request |-> IF r = Author THEN "done" ELSE "idle"]
        /\ call = [r \in Request |-> IF r = Author THEN c ELSE NoCall]
        /\ seen = [r \in Request |-> NoTask]
        /\ row = [r \in Request |-> NoTask]
        /\ reply = [r \in Request |-> IF r = Author THEN 201 ELSE 0]
        /\ published = {[req |-> Author, type |-> "TASK_ASSIGNED", task |-> FirstTask,
                         to |-> task.assignedTo]}
        /\ hired = 0
        /\ cache = [k \in Key |-> Missing]
        /\ reading = [d \in Reader |-> [at |-> "idle"]]
        /\ excused = {}

SeededSpec == SeededInit /\ [][DashNext]_dashVars /\ DashFairness
=============================================================================
