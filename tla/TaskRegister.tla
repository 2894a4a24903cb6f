---------------------------- MODULE TaskRegister ----------------------------
(***************************************************************************)
(* What taskService promises of the tasks table, without its awaits: each  *)
(* request takes effect at most once and in one step; an id is used once;  *)
(* an edit changes the fields it names in the row as it then is.  Requests *)
(* that are refused do nothing.  TaskService implements this.              *)
(***************************************************************************)
CONSTANTS Task, Request, NoTask,
          New(_),            \* the rows an id may be created with
          Changes(_)         \* the rows an edit may make of a row

VARIABLES
  tasks,    \* id -> row, or NoTask
  used,     \* ids that have been given out
  done      \* requests that have taken effect

Init ==
  /\ tasks = [t \in Task |-> NoTask]
  /\ used = {} /\ done = {}

TakeEffect(r) == r \notin done /\ done' = done \cup {r}

Create(r, t) ==
  /\ TakeEffect(r)
  /\ t \notin used /\ used' = used \cup {t}
  /\ \E row \in New(t) : tasks' = [tasks EXCEPT ![t] = row]

Update(r, t) ==
  /\ TakeEffect(r)
  /\ tasks[t] # NoTask
  /\ \E row \in Changes(tasks[t]) : tasks' = [tasks EXCEPT ![t] = row]
  /\ UNCHANGED used

Remove(r, t) ==
  /\ TakeEffect(r)
  /\ tasks[t] # NoTask
  /\ tasks' = [tasks EXCEPT ![t] = NoTask]
  /\ UNCHANGED used

Next == \E r \in Request, t \in Task : Create(r, t) \/ Update(r, t) \/ Remove(r, t)

Spec == Init /\ [][Next]_<<tasks, used, done>>
=============================================================================
