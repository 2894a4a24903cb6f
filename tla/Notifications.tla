--------------------------- MODULE Notifications ---------------------------
(***************************************************************************)
(* The notification pipeline: task events and due-soon reminders on their  *)
(* way through Kafka to a notifications row, from there through the topic  *)
(* notification.created to the socket gateway and to the mailer.           *)
(*                                                                         *)
(* A queue is a partition.  No message has a key, so any partition of its  *)
(* topic may take it.  A consumer group handles one message at a time, and *)
(* its offsets are committed some time after that.  The process may crash  *)
(* at any point and comes back with the committed offsets.                 *)
(***************************************************************************)
EXTENDS Naturals, Sequences, FiniteSets

CONSTANTS
  Task,          \* tasks
  Event,         \* task events the API publishes, each once
  Sweep,         \* runs of the hourly job, each once
  TaskQueue,     \* partitions of task.assigned, task.updated and task.completed
  ReminderQueue, \* those of task.assigned, which carries the reminders too
  CreatedQueue,  \* partitions of notification.created
  MaxCrashes,    \* bound: crashes of the process
  MaxFaults,     \* bound: failed or repeated calls to Kafka, the database or SMTP
  None           \* no offset, no queue, a taskId set to null

ASSUME QueueAssumption ==
  /\ TaskQueue \cap CreatedQueue = {}
  /\ ReminderQueue \subseteq TaskQueue
  /\ None \notin TaskQueue \cup CreatedQueue
ASSUME NoneAssumption == None \notin Task /\ None \notin Nat
ASSUME EventAssumption == Event \cap (Sweep \X Task) = {}
ASSUME BoundAssumption == MaxCrashes \in Nat /\ MaxFaults \in Nat

VARIABLES
  tasks,      \* tasks that exist
  offered,    \* events and reminders handed to the producer
  log,        \* the messages of each queue
  pos,        \* next message of each queue, per consumer group
  committed,  \* committed offset, None before the first commit
  resolved,   \* queues a group has handled messages of since it committed or joined
  working,    \* the row the notification consumer has inserted and not announced
  rows,       \* the notifications table, in insertion order; a row's id is its place
  sent,       \* rows pushed by the socket gateway and mailed, in order
  sweeps,     \* where each run of the job is
  crashes,    \* crashes so far
  faults,     \* failed calls so far
  retried     \* sends repeated for want of an acknowledgement so far

failures == <<faults, retried>>
offsets == <<pos, committed, resolved>>
vars == <<tasks, offered, log, offsets, working, rows, sent, sweeps, crashes, failures>>

Queue == TaskQueue \cup CreatedQueue
Group == {"notification", "socket", "email"}
Topics(g) == IF g = "notification" THEN TaskQueue ELSE CreatedQueue

Idle == [queue |-> None, row |-> 0]

Init ==
  /\ tasks = Task
  /\ offered = {}
  /\ log = [q \in Queue |-> <<>>]
  /\ pos = [g \in Group |-> [q \in Topics(g) |-> 1]]
  /\ committed = [g \in Group |-> [q \in Topics(g) |-> None]]
  /\ resolved = [g \in Group |-> {}]
  /\ working = Idle
  /\ rows = <<>>
  /\ sent = [g \in Group \ {"notification"} |-> <<>>]
  /\ sweeps = [s \in Sweep |-> [at |-> "idle"]]
  /\ crashes = 0 /\ faults = 0 /\ retried = 0

MayFail == faults + retried < MaxFaults
Fault == MayFail /\ faults' = faults + 1 /\ UNCHANGED retried
NoFault == UNCHANGED failures

(* producer.send to a partition of a topic.  It retries five times: when   *)
(* all fail the message is dropped (the callers catch and log), and when   *)
(* only an acknowledgement was lost the message is there twice.            *)
Send(topic, m) ==
  \E q \in topic :
    \/ log' = [log EXCEPT ![q] = Append(@, m)] /\ NoFault
    \/ Fault /\ UNCHANGED log
    \/ /\ MayFail /\ retried' = retried + 1 /\ UNCHANGED faults
       /\ log' = [log EXCEPT ![q] = @ \o <<m, m>>]

-----------------------------------------------------------------------------
(* Producers.                                                              *)

(* safePublish after a task mutation; an error is logged and dropped.      *)
Publish(e) ==
  /\ e \notin offered
  /\ offered' = offered \cup {e}
  /\ \E t \in tasks : Send(TaskQueue, [event |-> e, task |-> t, dueSoon |-> FALSE])
  /\ UNCHANGED <<tasks, offsets, working, rows, sent, sweeps, crashes>>

(* A task is deleted: ON DELETE SET NULL on its notifications.             *)
DeleteTask(t) ==
  /\ t \in tasks
  /\ tasks' = tasks \ {t}
  /\ rows' = [n \in DOMAIN rows |-> IF rows[n].task = t THEN [rows[n] EXCEPT !.task = None]
                                                        ELSE rows[n]]
  /\ UNCHANGED <<offered, log, offsets, working, sent, sweeps, crashes, failures>>

(* runDueSoonSweep: one query for the open tasks due within a day, which   *)
(* are any of those that exist.                                            *)
SweepStart(s) ==
  /\ sweeps[s].at = "idle"
  /\ \E due \in SUBSET tasks \ {{}} : sweeps' = [sweeps EXCEPT ![s] = [at |-> "check", todo |-> due]]
  /\ UNCHANGED <<tasks, offered, log, offsets, working, rows, sent, crashes, failures>>

Reminded(t) == \E n \in DOMAIN rows : rows[n].task = t /\ rows[n].dueSoon

(* existsDueSoonForTask for the next task of the list.                     *)
SweepCheck(s) ==
  /\ sweeps[s].at = "check"
  /\ \E t \in sweeps[s].todo :
       sweeps' = [sweeps EXCEPT ![s] =
         IF ~Reminded(t) THEN [at |-> "publish", todo |-> @.todo \ {t}, task |-> t]
         ELSE IF @.todo = {t} THEN [at |-> "done"]
         ELSE [at |-> "check", todo |-> @.todo \ {t}]]
  /\ UNCHANGED <<tasks, offered, log, offsets, working, rows, sent, crashes, failures>>

(* publishTaskDueSoon, awaited; safePublish swallows an error.             *)
SweepPublish(s) ==
  LET e == <<s, sweeps[s].task>>
  IN  /\ sweeps[s].at = "publish"
      /\ offered' = offered \cup {e}
      /\ Send(ReminderQueue, [event |-> e, task |-> sweeps[s].task, dueSoon |-> TRUE])
      /\ sweeps' = [sweeps EXCEPT ![s] = IF @.todo = {} THEN [at |-> "done"]
                                         ELSE [at |-> "check", todo |-> @.todo]]
      /\ UNCHANGED <<tasks, offsets, working, rows, sent, crashes>>

-----------------------------------------------------------------------------
(* Consumers.                                                              *)

(* eachMessage is called with the next message of some partition of the    *)
(* group's topics, one call at a time.                                     *)
HasNext(g, q) == q \in Topics(g) /\ pos[g][q] <= Len(log[q])

NextMessage(g, q) == log[q][pos[g][q]]

(* eachMessage returns, having caught whatever was thrown: the message is  *)
(* done either way.                                                        *)
Resolve(g, q) ==
  /\ pos' = [pos EXCEPT ![g][q] = @ + 1]
  /\ resolved' = [resolved EXCEPT ![g] = @ \cup {q}]

(* Mutant of InsertRow: a task that has a notification gets no other.      *)
InsertRowOncePerTask(q) ==
  LET m == NextMessage("notification", q)
      known == \E n \in DOMAIN rows : rows[n].task = m.task
  IN  /\ working = Idle
      /\ HasNext("notification", q)
      /\ m.task \in tasks
      /\ IF known
           THEN Resolve("notification", q) /\ UNCHANGED <<rows, working>>
           ELSE /\ rows' = Append(rows, m)
                /\ working' = [queue |-> q, row |-> Len(rows) + 1]
                /\ UNCHANGED <<pos, resolved>>
      /\ UNCHANGED <<tasks, offered, log, committed, sent, sweeps, crashes, failures>>

(* The notification consumer's INSERT.  The foreign key refuses a row for  *)
(* a task that is gone.                                                    *)
InsertRow(q) ==
  LET m == NextMessage("notification", q)
  IN  /\ working = Idle
      /\ HasNext("notification", q)
      /\ m.task \in tasks
      /\ rows' = Append(rows, m)
      /\ working' = [queue |-> q, row |-> Len(rows) + 1]
      /\ UNCHANGED <<tasks, offered, log, offsets, sent, sweeps, crashes, failures>>

(* Mutants of InsertFails: the row announced whether or not it is there,   *)
(* and the error of the foreign key thrown on, so that Kafka hands the     *)
(* message out again and again.                                            *)
InsertFailsAnnounced(q) ==
  /\ working = Idle
  /\ HasNext("notification", q)
  /\ NextMessage("notification", q).task \notin tasks
  /\ Send(CreatedQueue, Len(rows) + 1)
  /\ Resolve("notification", q)
  /\ UNCHANGED <<tasks, offered, committed, working, rows, sent, sweeps, crashes>>

InsertFailsThrown(q) ==
  /\ working = Idle
  /\ HasNext("notification", q)
  /\ NextMessage("notification", q).task \in tasks /\ Fault
  /\ UNCHANGED <<tasks, offered, log, offsets, working, rows, sent, sweeps, crashes>>

InsertFails(q) ==
  /\ working = Idle
  /\ HasNext("notification", q)
  /\ \/ NextMessage("notification", q).task \notin tasks /\ NoFault
     \/ NextMessage("notification", q).task \in tasks /\ Fault
  /\ Resolve("notification", q)
  /\ UNCHANGED <<tasks, offered, log, committed, working, rows, sent, sweeps, crashes>>

(* Mutant of Announce: the error of the publish thrown on.                 *)
AnnounceThrown(q) ==
  /\ working.queue = q
  /\ \/ /\ Send(CreatedQueue, working.row) /\ UNCHANGED faults
        /\ Resolve("notification", q)
     \/ Fault /\ UNCHANGED <<log, pos, resolved>>
  /\ working' = Idle
  /\ UNCHANGED <<tasks, offered, committed, rows, sent, sweeps, crashes>>

(* ... then its publishEvent of the row.                                   *)
Announce(q) ==
  /\ working.queue = q
  /\ Send(CreatedQueue, working.row)
  /\ Resolve("notification", q)
  /\ working' = Idle
  /\ UNCHANGED <<tasks, offered, committed, rows, sent, sweeps, crashes>>

(* The socket gateway emits to the room of the user, the mailer sends.     *)
Deliver(g, q) ==
  /\ g # "notification"
  /\ HasNext(g, q)
  /\ \/ sent' = [sent EXCEPT ![g] = Append(@, NextMessage(g, q))] /\ NoFault
     \/ g = "email" /\ Fault /\ UNCHANGED sent
  /\ Resolve(g, q)
  /\ UNCHANGED <<tasks, offered, log, committed, working, rows, sweeps, crashes>>

(* kafkajs commits what a group has resolved at the end of a batch.        *)
Commit(g) ==
  /\ g = "notification" => working = Idle
  /\ resolved[g] # {}
  /\ committed' = [committed EXCEPT ![g] =
       [q \in Topics(g) |-> IF q \in resolved[g] THEN pos[g][q] ELSE @[q]]]
  /\ resolved' = [resolved EXCEPT ![g] = {}]
  /\ UNCHANGED <<tasks, offered, log, pos, working, rows, sent, sweeps, crashes, failures>>

(* The process dies and is restarted.  fromBeginning: false sends a group  *)
(* that never committed to the end of the partition.                       *)
Restart(g, q) == IF committed[g][q] = None THEN Len(log[q]) + 1 ELSE committed[g][q]

Crash ==
  /\ crashes < MaxCrashes
  /\ crashes' = crashes + 1
  /\ pos' = [g \in Group |-> [q \in Topics(g) |-> Restart(g, q)]]
  /\ resolved' = [g \in Group |-> {}]
  /\ working' = Idle
  /\ sweeps' = [s \in Sweep |-> IF sweeps[s].at = "idle" THEN sweeps[s] ELSE [at |-> "done"]]
  /\ UNCHANGED <<tasks, offered, log, committed, rows, sent, failures>>

ConsumerStep(g) ==
  \E q \in Topics(g) :
    \/ Deliver(g, q)
    \/ g = "notification" /\ (InsertRow(q) \/ InsertFails(q) \/ Announce(q))

SweepStep(s) == SweepStart(s) \/ SweepCheck(s) \/ SweepPublish(s)

Next ==
  \/ \E e \in Event : Publish(e)
  \/ \E t \in Task : DeleteTask(t)
  \/ \E s \in Sweep : SweepStep(s)
  \/ \E g \in Group : ConsumerStep(g) \/ Commit(g)
  \/ Crash

Spec == Init /\ [][Next]_vars

(* The consumers poll for ever; nothing else has to happen.                *)
FairSpec == Spec /\ \A g \in Group : WF_vars(ConsumerStep(g))

-----------------------------------------------------------------------------

Copies(e) == {n \in DOMAIN rows : rows[n].event = e}
Deliveries(g, n) == {i \in DOMAIN sent[g] : sent[g][i] = n}

(* "Published to notification.created, after the notification row is       *)
(* persisted": whatever is announced, pushed or mailed is a row, so a      *)
(* client that refetches on a push finds it.                               *)
PersistedFirst ==
  /\ \A q \in CreatedQueue : \A i \in DOMAIN log[q] : log[q][i] \in DOMAIN rows
  /\ \A g \in DOMAIN sent : \A i \in DOMAIN sent[g] : sent[g][i] \in DOMAIN rows

(* An event makes a second row, and a row a second push or mail, only when *)
(* a send was retried or a crash made Kafka hand the message out again.    *)
DuplicatesNeedFaults ==
  LET most == (1 + retried) * (1 + crashes)
  IN  /\ \A n \in DOMAIN rows : Cardinality(Copies(rows[n].event)) <= most
      /\ \A g \in DOMAIN sent : \A n \in DOMAIN rows : Cardinality(Deliveries(g, n)) <= most

(* Nothing is lost but for a reason: an event the consumer has passed has  *)
(* its row, unless the task is gone, a call failed or the process crashed. *)
PassedMeansStored ==
  \A q \in TaskQueue : \A i \in 1..pos["notification"][q] - 1 :
    LET m == log[q][i]
    IN  Copies(m.event) = {} => m.task \notin tasks \/ faults + crashes > 0

(* Every consumer group gets to the end of its queues: no message, not     *)
(* even one that can never be stored, holds up those behind it.            *)
EventuallyDrained ==
  <>[](working = Idle /\ \A g \in Group : \A q \in Topics(g) : pos[g][q] = Len(log[q]) + 1)

=============================================================================
