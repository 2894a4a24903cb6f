--------------------------- MODULE MCTaskService ---------------------------
(* TLC instances of TaskService: one admin, two employees, three dates.    *)
EXTENDS TaskService, TLC

MCDate == 0..2

MCNewTasks ==
  {[status |-> s, startDate |-> 1, dueDate |-> 1, assignedTo |-> e] :
     s \in {"PENDING", "COMPLETED"}, e \in Employee}

(* One field at a time, nothing at all, and a reassignment that completes. *)
NoField == [f \in Field |-> Undefined]

MCEdits ==
  {NoField}
    \cup {[NoField EXCEPT !.status = s] : s \in {"PENDING", "COMPLETED"}}
    \cup {[NoField EXCEPT !.assignedTo = e] : e \in Employee}
    \cup {[NoField EXCEPT !.startDate = 2, !.dueDate = 2],
          [NoField EXCEPT !.dueDate = 0],
          [NoField EXCEPT !.startDate = 0]}
    \cup {[NoField EXCEPT !.status = "COMPLETED", !.assignedTo = e] : e \in Employee}

RequestSymmetry == Permutations(Request)
=============================================================================
