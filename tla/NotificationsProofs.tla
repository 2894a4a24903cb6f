------------------------- MODULE NotificationsProofs -------------------------
(***************************************************************************)
(* Theorems about Notifications, for any numbers of tasks, events, sweeps, *)
(* partitions, crashes and faults: what is announced is stored, what is    *)
(* passed is stored or excused, and nothing is repeated without a cause.   *)
(***************************************************************************)
EXTENDS Notifications, FiniteSetTheorems, TLAPS

(* An event of the API, or the reminder of a sweep for a task.             *)
Source == Event \cup (Sweep \X Task)
Message == [event: Source, task: Task, dueSoon: BOOLEAN]
Row == [event: Source, task: Task \cup {None}, dueSoon: BOOLEAN]

SweepState ==
  [at: {"idle", "done"}] \cup [at: {"check"}, todo: SUBSET Task]
    \cup [at: {"publish"}, todo: SUBSET Task, task: Task]

(* The messages a queue can hold: events before the row, row ids after it. *)
Carried(q) == IF q \in TaskQueue THEN Message ELSE Nat

Delivering == Group \ {"notification"}

CountersOK == crashes \in Nat /\ faults \in Nat /\ retried \in Nat

SweepsOK == tasks \subseteq Task /\ offered \subseteq Source /\ sweeps \in [Sweep -> SweepState]

LogOK == DOMAIN log = Queue /\ \A q \in Queue : log[q] \in Seq(Carried(q))

(* A group stands at a message, or behind the last one; it restarts where  *)
(* it once stood.                                                          *)
OffsetsOK ==
  /\ DOMAIN pos = Group /\ DOMAIN committed = Group
  /\ \A g \in Group :
       /\ DOMAIN pos[g] = Topics(g) /\ DOMAIN committed[g] = Topics(g)
       /\ resolved[g] \subseteq Topics(g)
       /\ \A q \in Topics(g) :
            /\ pos[g][q] \in 1..Len(log[q]) + 1
            /\ committed[g][q] \in (1..Len(log[q]) + 1) \cup {None}

RowsOK ==
  /\ rows \in Seq(Row)
  /\ working = Idle \/ /\ working \in [queue: TaskQueue, row: 1..Len(rows)]
                       /\ pos["notification"][working.queue] <= Len(log[working.queue])
  /\ sent \in [Delivering -> Seq(Nat)]

TypeOK == CountersOK /\ SweepsOK /\ LogOK /\ OffsetsOK /\ RowsOK

(* The row of the message being handled is that of its event.              *)
WorkInv ==
  working # Idle => rows[working.row].event = NextMessage("notification", working.queue).event

(* Each event is handed to the producer once: a sweep has not offered what *)
(* it still has to.                                                        *)
OfferedOnce ==
  /\ \A s \in Sweep : sweeps[s].at = "idle" => \A t \in Task : <<s, t>> \notin offered
  /\ \A s \in Sweep : sweeps[s].at \in {"check", "publish"} =>
       \A t \in sweeps[s].todo : <<s, t>> \notin offered
  /\ \A s \in Sweep : sweeps[s].at = "publish" =>
       sweeps[s].task \notin sweeps[s].todo /\ <<s, sweeps[s].task>> \notin offered

(* The places of an event in the queues, and those the consumer has passed *)
(* or is at: each handling of one makes at most one row, and a crash hands *)
(* each out at most once more.                                             *)
Places(topic) == {p \in topic \X Nat : p[2] \in 1..Len(log[p[1]])}
Of(e) == {p \in Places(TaskQueue) : log[p[1]][p[2]].event = e}
Begun(e) ==
  {p \in Of(e) : \/ p[2] < pos["notification"][p[1]]
                 \/ working.queue = p[1] /\ p[2] = pos["notification"][p[1]]}

CopiesInv ==
  \A e \in Source :
    /\ IsFiniteSet(Of(e)) /\ Cardinality(Of(e)) <= 1 + retried
    /\ e \notin offered => Of(e) = {}
    /\ Cardinality(Copies(e)) <= Cardinality(Of(e)) * crashes + Cardinality(Begun(e))

(* The same one topic further, for each row and each of the two groups.    *)
Naming(n) == {p \in Places(CreatedQueue) : log[p[1]][p[2]] = n}
Passed(g, n) == {p \in Naming(n) : p[2] < pos[g][p[1]]}

DeliveriesInv ==
  \A n \in Nat :
    /\ IsFiniteSet(Naming(n)) /\ Cardinality(Naming(n)) <= 1 + retried
    /\ n = working.row \/ n \notin DOMAIN rows => Naming(n) = {}
    /\ \A g \in Delivering :
         Cardinality(Deliveries(g, n)) <= Cardinality(Naming(n)) * crashes + Cardinality(Passed(g, n))

-----------------------------------------------------------------------------
(* The operators the actions are built from.                               *)

(* The queues of the two topics, what they carry, and who reads them.      *)
LEMMA Queues ==
  /\ Topics("notification") = TaskQueue
  /\ \A g \in Delivering : g \in Group /\ Topics(g) = CreatedQueue
  /\ \A q \in TaskQueue : q \in Queue /\ Carried(q) = Message /\ q # None
  /\ \A q \in CreatedQueue : q \in Queue /\ q \notin TaskQueue /\ Carried(q) = Nat
  /\ \A g \in Group : Topics(g) \subseteq Queue /\ (g # "notification" => g \in Delivering)
BY QueueAssumption DEF Topics, Delivering, Group, Queue, Carried

(* Queues only grow, by at most two copies of one message at the end of    *)
(* one of them, and by two only when a send was repeated.                  *)
Grows(topic, m) ==
  \E q \in topic, k \in 0..2 :
    /\ \A p \in Queue \ {q} : log'[p] = log[p]
    /\ Len(log'[q]) = Len(log[q]) + k
    /\ \A i \in 1..Len(log[q]) : log'[q][i] = log[q][i]
    /\ \A i \in Len(log[q]) + 1..Len(log[q]) + k : log'[q][i] = m
    /\ k = 2 => retried' = retried + 1

FailuresGrow ==
  faults' \in Nat /\ retried' \in Nat /\ faults' >= faults /\ retried' >= retried

(* A send appends the message, once or, retried, twice, to one queue, or   *)
(* fails.                                                                  *)
LEMMA SendGrows ==
  ASSUME LogOK, CountersOK, NEW topic \in SUBSET Queue, NEW m, \A q \in topic : m \in Carried(q),
         Send(topic, m)
  PROVE  LogOK' /\ Grows(topic, m) /\ FailuresGrow
<1>1. PICK q \in topic :
        \/ log' = [log EXCEPT ![q] = Append(@, m)] /\ NoFault
        \/ Fault /\ UNCHANGED log
        \/ /\ MayFail /\ retried' = retried + 1 /\ UNCHANGED faults
           /\ log' = [log EXCEPT ![q] = @ \o <<m, m>>]
  BY DEF Send
<1>2. q \in Queue /\ log[q] \in Seq(Carried(q)) /\ m \in Carried(q) /\ DOMAIN log = Queue
  BY DEF LogOK
<1>3. FailuresGrow
  BY <1>1 DEF FailuresGrow, NoFault, Fault, failures, CountersOK
<1>4. CASE log' = [log EXCEPT ![q] = Append(@, m)] /\ NoFault
  <2>1. log'[q] = Append(log[q], m) /\ \A p \in Queue \ {q} : log'[p] = log[p]
    BY <1>2, <1>4
  <2>2. /\ Len(log'[q]) = Len(log[q]) + 1 /\ log'[q] \in Seq(Carried(q))
        /\ \A i \in 1..Len(log[q]) : log'[q][i] = log[q][i]
        /\ \A i \in Len(log[q]) + 1..Len(log[q]) + 1 : log'[q][i] = m
    BY <1>2, <2>1
  <2>3. LogOK'
    BY <1>2, <1>4, <2>1, <2>2 DEF LogOK, Carried
  <2>4. Grows(topic, m)
    BY <2>1, <2>2 DEF Grows
  <2> QED
    BY <1>3, <2>3, <2>4
<1>5. CASE Fault /\ UNCHANGED log
  <2>1. LogOK'
    BY <1>5 DEF LogOK, Carried
  <2>2. Len(log[q]) \in Nat
    BY <1>2
  <2>3. Grows(topic, m)
    BY <1>5, <2>2 DEF Grows
  <2> QED
    BY <1>3, <2>1, <2>3
<1>6. CASE retried' = retried + 1 /\ log' = [log EXCEPT ![q] = @ \o <<m, m>>]
  <2>1. log'[q] = log[q] \o <<m, m>> /\ \A p \in Queue \ {q} : log'[p] = log[p]
    BY <1>2, <1>6
  <2>2. /\ Len(log'[q]) = Len(log[q]) + 2 /\ log'[q] \in Seq(Carried(q))
        /\ \A i \in 1..Len(log[q]) : log'[q][i] = log[q][i]
        /\ \A i \in Len(log[q]) + 1..Len(log[q]) + 2 : log'[q][i] = m
    BY <1>2, <2>1
  <2>3. LogOK'
    BY <1>2, <1>6, <2>1, <2>2 DEF LogOK, Carried
  <2>4. retried' = retried + 1 /\ 2 \in 0..2
    BY <1>6
  <2>5. Grows(topic, m)
    <3> SUFFICES \E j \in topic, k \in 0..2 :
                   /\ \A p \in Queue \ {j} : log'[p] = log[p]
                   /\ Len(log'[j]) = Len(log[j]) + k
                   /\ \A i \in 1..Len(log[j]) : log'[j][i] = log[j][i]
                   /\ \A i \in Len(log[j]) + 1..Len(log[j]) + k : log'[j][i] = m
                   /\ k = 2 => retried' = retried + 1
      BY DEF Grows
    <3> WITNESS q \in topic, 2 \in 0..2
    <3> QED
      BY <2>1, <2>2, <2>4
  <2> QED
    BY <1>3, <2>3, <2>5
<1> QED
  BY <1>1, <1>4, <1>5, <1>6

(* What was in a queue stays where it was.                                 *)
LogKept ==
  \A q \in Queue : /\ Len(log[q]) \in Nat /\ Len(log'[q]) \in Nat /\ Len(log'[q]) >= Len(log[q])
                   /\ \A i \in 1..Len(log[q]) : log'[q][i] = log[q][i]

(* What was in a log stays where it was.                                   *)
LEMMA GrowsKeeps ==
  ASSUME LogOK, LogOK', NEW topic \in SUBSET Queue, NEW m, Grows(topic, m)
  PROVE  LogKept
<1>1. \A q \in Queue : Len(log[q]) \in Nat /\ Len(log'[q]) \in Nat
  BY DEF LogOK
<1> QED
  BY <1>1 DEF Grows, LogKept

(* So it does when nothing is sent.                                        *)
LEMMA SameLogKept ==
  ASSUME LogOK, UNCHANGED log
  PROVE  LogOK' /\ LogKept
BY DEF LogOK, LogKept, Carried

(* eachMessage returns: the group goes on to the next message.             *)
LEMMA ResolveMoves ==
  ASSUME OffsetsOK, LogOK, NEW g \in Group, NEW q \in Topics(g), Resolve(g, q)
  PROVE  /\ DOMAIN pos' = Group /\ \A h \in Group : DOMAIN pos'[h] = Topics(h)
         /\ pos'[g][q] = pos[g][q] + 1
         /\ \A h \in Group : \A p \in Topics(h) : (h # g \/ p # q) => pos'[h][p] = pos[h][p]
         /\ \A h \in Group : resolved'[h] \subseteq resolved[h] \cup {q} /\ (h # g => resolved'[h] = resolved[h])
<1>1. DOMAIN pos = Group /\ \A h \in Group : DOMAIN pos[h] = Topics(h)
  BY DEF OffsetsOK
<1>2. pos' = [pos EXCEPT ![g] = [pos[g] EXCEPT ![q] = pos[g][q] + 1]]
  BY DEF Resolve
<1>3. pos'[g] = [pos[g] EXCEPT ![q] = pos[g][q] + 1] /\ \A h \in Group \ {g} : pos'[h] = pos[h]
  BY <1>1, <1>2
<1> QED
  BY <1>1, <1>2, <1>3 DEF Resolve

-----------------------------------------------------------------------------
(* The types.                                                              *)

(* The actions, one by one.                                                *)
LEMMA Steps ==
  ASSUME [Next]_vars
  PROVE  \/ \E e \in Event : Publish(e)
         \/ \E t \in Task : DeleteTask(t)
         \/ \E s \in Sweep : SweepStart(s)
         \/ \E s \in Sweep : SweepCheck(s)
         \/ \E s \in Sweep : SweepPublish(s)
         \/ \E g \in Delivering, q \in CreatedQueue : Deliver(g, q)
         \/ \E q \in TaskQueue : InsertRow(q)
         \/ \E q \in TaskQueue : InsertFails(q)
         \/ \E q \in TaskQueue : Announce(q)
         \/ \E g \in Group : Commit(g)
         \/ Crash
         \/ UNCHANGED vars
<1>1. CASE \E g \in Group : ConsumerStep(g)
  <2> PICK g \in Group : ConsumerStep(g)
    BY <1>1
  <2>1. PICK q \in Topics(g) :
          Deliver(g, q) \/ (g = "notification" /\ (InsertRow(q) \/ InsertFails(q) \/ Announce(q)))
    BY DEF ConsumerStep
  <2>2. CASE Deliver(g, q)
    BY <2>1, <2>2, Queues DEF Deliver
  <2> QED
    BY <2>1, <2>2, Queues
<1> QED
  BY <1>1 DEF Next, SweepStep

(* At the start nothing has been sent.                                     *)
LEMMA InitTypes == ASSUME Init PROVE TypeOK /\ WorkInv /\ OfferedOnce
<1>1. CountersOK /\ SweepsOK
  BY DEF Init, CountersOK, SweepsOK, SweepState
<1>2. LogOK /\ \A q \in Queue : log[q] = <<>> /\ Len(log[q]) = 0
  BY DEF Init, LogOK, Carried
<1>3. OffsetsOK
  BY <1>2, Queues DEF Init, OffsetsOK
<1>4. RowsOK /\ working = Idle
  BY DEF Init, RowsOK, Delivering
<1>5. OfferedOnce
  BY DEF Init, OfferedOnce
<1> QED
  BY <1>1, <1>2, <1>3, <1>4, <1>5 DEF TypeOK, WorkInv

(* What a sweep publishes, and what the consumer announces.                *)
LEMMA Published ==
  ASSUME TypeOK
  PROVE  /\ \A s \in Sweep : sweeps[s].at = "publish" =>
              /\ sweeps[s].task \in Task /\ sweeps[s].todo \in SUBSET Task
              /\ <<s, sweeps[s].task>> \in Source
              /\ [event |-> <<s, sweeps[s].task>>, task |-> sweeps[s].task, dueSoon |-> TRUE] \in Message
         /\ \A q \in TaskQueue : working.queue = q =>
              /\ working \in [queue: TaskQueue, row: 1..Len(rows)]
              /\ working.row \in 1..Len(rows) /\ working.row \in Nat /\ Len(rows) \in Nat
              /\ HasNext("notification", q)
<1>1. ASSUME NEW s \in Sweep, sweeps[s].at = "publish"
      PROVE  sweeps[s].task \in Task /\ sweeps[s].todo \in SUBSET Task
  BY <1>1 DEF TypeOK, SweepsOK, SweepState
<1>2. ASSUME NEW q \in TaskQueue, working.queue = q
      PROVE  /\ working \in [queue: TaskQueue, row: 1..Len(rows)]
             /\ HasNext("notification", q) /\ Len(rows) \in Nat
  BY <1>2, Queues DEF TypeOK, RowsOK, Idle, HasNext
<1> QED
  BY <1>1, <1>2 DEF Source, Message

(* A send that appends to one topic, and which messages it may be.         *)
LEMMA PublishSends ==
  ASSUME TypeOK, NEW e \in Event, Publish(e)
  PROVE  \E t \in Task : LET m == [event |-> e, task |-> t, dueSoon |-> FALSE]
                         IN  m \in Message /\ Send(TaskQueue, m)
BY DEF Publish, TypeOK, SweepsOK, Message, Source

NeverLess == crashes' >= crashes /\ faults' >= faults /\ retried' >= retried

(* Logs only grow, and the counters of failures never fall.                *)
LEMMA LogGrows ==
  ASSUME TypeOK, [Next]_vars
  PROVE  LogOK' /\ LogKept /\ CountersOK' /\ NeverLess
<1>1. LogOK /\ CountersOK /\ TaskQueue \in SUBSET Queue /\ CreatedQueue \in SUBSET Queue
      /\ ReminderQueue \in SUBSET Queue /\ ReminderQueue \subseteq TaskQueue
  BY QueueAssumption DEF TypeOK, Queue
<1>2. ASSUME NEW topic \in SUBSET Queue, NEW m, \A q \in topic : m \in Carried(q),
             Send(topic, m), UNCHANGED crashes
      PROVE  LogOK' /\ LogKept /\ CountersOK' /\ NeverLess
  <2>1. LogOK' /\ Grows(topic, m) /\ FailuresGrow
    BY <1>1, <1>2, SendGrows
  <2> QED
    BY <1>1, <1>2, <2>1, GrowsKeeps DEF FailuresGrow, CountersOK, NeverLess
<1>3. CASE \E e \in Event : Publish(e)
  <2>1. PICK e \in Event : Publish(e)
    BY <1>3
  <2>2. PICK t \in Task : LET m == [event |-> e, task |-> t, dueSoon |-> FALSE]
                          IN  m \in Message /\ Send(TaskQueue, m)
    BY <2>1, PublishSends
  <2>3. UNCHANGED crashes
    BY <2>1 DEF Publish
  <2> QED
    BY <1>1, <1>2, <2>2, <2>3, Queues
<1>4. CASE \E s \in Sweep : SweepPublish(s)
  <2>1. PICK s \in Sweep : SweepPublish(s)
    BY <1>4
  <2>2. LET m == [event |-> <<s, sweeps[s].task>>, task |-> sweeps[s].task, dueSoon |-> TRUE]
        IN  m \in Message /\ Send(ReminderQueue, m) /\ UNCHANGED crashes
    BY <2>1, Published DEF SweepPublish
  <2> QED
    BY <1>1, <1>2, <2>2, Queues
<1>5. CASE \E q \in TaskQueue : Announce(q)
  <2>1. PICK q \in TaskQueue : Announce(q)
    BY <1>5
  <2>2. working.row \in Nat /\ Send(CreatedQueue, working.row) /\ UNCHANGED crashes
    BY <2>1, Published DEF Announce
  <2> QED
    BY <1>1, <1>2, <2>2, Queues
<1>6. CASE UNCHANGED log /\ CountersOK' /\ NeverLess
  BY <1>1, <1>6, SameLogKept
<1>7. \/ \E e \in Event : Publish(e)
      \/ \E s \in Sweep : SweepPublish(s)
      \/ \E q \in TaskQueue : Announce(q)
      \/ UNCHANGED log /\ CountersOK' /\ NeverLess
  BY <1>1, Steps DEF DeleteTask, SweepStart, SweepCheck, Deliver, InsertRow, InsertFails, Commit, Crash,
                     vars, failures, Fault, NoFault, CountersOK, NeverLess
<1> QED
  BY <1>3, <1>4, <1>5, <1>6, <1>7

(* A sweep stays a sweep.                                                  *)
LEMMA SweepsStep ==
  ASSUME TypeOK, [Next]_vars
  PROVE  SweepsOK'
<1>1. SweepsOK
  BY DEF TypeOK
<1>2. ASSUME NEW s \in Sweep, NEW x \in SweepState, sweeps' = [sweeps EXCEPT ![s] = x]
      PROVE  sweeps' \in [Sweep -> SweepState]
  BY <1>1, <1>2 DEF SweepsOK
<1>3. CASE \E s \in Sweep : SweepStart(s)
  <2>1. PICK s \in Sweep, due \in SUBSET tasks :
          sweeps' = [sweeps EXCEPT ![s] = [at |-> "check", todo |-> due]]
    BY <1>3 DEF SweepStart
  <2>2. [at |-> "check", todo |-> due] \in SweepState
    BY <1>1 DEF SweepsOK, SweepState
  <2> QED
    BY <1>1, <1>2, <1>3, <2>1, <2>2 DEF SweepStart, SweepsOK
<1>4. CASE \E s \in Sweep : SweepCheck(s)
  <2>1. PICK s \in Sweep : SweepCheck(s)
    BY <1>4
  <2>2. sweeps[s].todo \in SUBSET Task
    BY <1>1, <2>1 DEF SweepCheck, SweepsOK, SweepState
  <2>3. PICK t \in sweeps[s].todo :
          \/ sweeps' = [sweeps EXCEPT ![s] = [at |-> "publish", todo |-> sweeps[s].todo \ {t}, task |-> t]]
          \/ sweeps' = [sweeps EXCEPT ![s] = [at |-> "done"]]
          \/ sweeps' = [sweeps EXCEPT ![s] = [at |-> "check", todo |-> sweeps[s].todo \ {t}]]
    BY <1>1, <2>1 DEF SweepCheck, SweepsOK
  <2>4. /\ [at |-> "publish", todo |-> sweeps[s].todo \ {t}, task |-> t] \in SweepState
        /\ [at |-> "done"] \in SweepState
        /\ [at |-> "check", todo |-> sweeps[s].todo \ {t}] \in SweepState
    BY <2>2 DEF SweepState
  <2>5. sweeps' \in [Sweep -> SweepState]
    BY <1>2, <2>3, <2>4
  <2> QED
    BY <1>1, <2>1, <2>5 DEF SweepCheck, SweepsOK
<1>5. CASE \E s \in Sweep : SweepPublish(s)
  <2>1. PICK s \in Sweep : SweepPublish(s)
    BY <1>5
  <2>2. /\ <<s, sweeps[s].task>> \in Source /\ sweeps[s].todo \in SUBSET Task
        /\ offered' = offered \cup {<<s, sweeps[s].task>>} /\ UNCHANGED tasks
    BY <2>1, Published DEF SweepPublish
  <2>3. \/ sweeps' = [sweeps EXCEPT ![s] = [at |-> "done"]]
        \/ sweeps' = [sweeps EXCEPT ![s] = [at |-> "check", todo |-> sweeps[s].todo]]
    BY <1>1, <2>1 DEF SweepPublish, SweepsOK
  <2>4. [at |-> "done"] \in SweepState /\ [at |-> "check", todo |-> sweeps[s].todo] \in SweepState
    BY <2>2 DEF SweepState
  <2>5. sweeps' \in [Sweep -> SweepState]
    BY <1>2, <2>3, <2>4
  <2> QED
    BY <1>1, <2>2, <2>5 DEF SweepsOK
<1>6. CASE \/ UNCHANGED sweeps
           \/ sweeps' = [s \in Sweep |-> IF sweeps[s].at = "idle" THEN sweeps[s] ELSE [at |-> "done"]]
  <2>1. [at |-> "done"] \in SweepState
    BY DEF SweepState
  <2>2. sweeps' \in [Sweep -> SweepState]
    BY <1>1, <1>6, <2>1 DEF SweepsOK
  <2>3. CASE \E e \in Event : Publish(e)
    BY <1>1, <2>2, <2>3 DEF Publish, SweepsOK, Source
  <2>4. CASE UNCHANGED offered /\ tasks' \subseteq tasks
    BY <1>1, <2>2, <2>4 DEF SweepsOK
  <2> QED
    BY <1>3, <1>4, <1>5, <2>3, <2>4, Steps
    DEF DeleteTask, Deliver, InsertRow, InsertFails, Announce, Commit, Crash, vars
<1> QED
  BY <1>3, <1>4, <1>5, <1>6, Steps
  DEF Publish, DeleteTask, Deliver, InsertRow, InsertFails, Announce, Commit, Crash, vars

(* No group commits beyond the end of a log.                               *)
LEMMA OffsetsStep ==
  ASSUME TypeOK, [Next]_vars
  PROVE  OffsetsOK'
<1>1. OffsetsOK /\ LogOK /\ LogKept
  BY LogGrows DEF TypeOK
<1>2. \A g \in Group : \A q \in Topics(g) : Len(log[q]) \in Nat /\ Len(log'[q]) \in Nat /\ Len(log[q]) <= Len(log'[q])
  BY <1>1, Queues DEF LogKept
<1>3. ASSUME NEW g \in Group, NEW q \in Topics(g), HasNext(g, q), Resolve(g, q), UNCHANGED committed
      PROVE  OffsetsOK'
  <2>1. /\ DOMAIN pos' = Group /\ \A h \in Group : DOMAIN pos'[h] = Topics(h)
        /\ pos'[g][q] = pos[g][q] + 1
        /\ \A h \in Group : \A p \in Topics(h) : (h # g \/ p # q) => pos'[h][p] = pos[h][p]
        /\ \A h \in Group : resolved'[h] \subseteq resolved[h] \cup {q} /\ (h # g => resolved'[h] = resolved[h])
    BY <1>1, <1>3, ResolveMoves
  <2>2. pos[g][q] \in Nat /\ pos[g][q] <= Len(log[q])
    BY <1>1, <1>2, <1>3 DEF HasNext, OffsetsOK
  <2>3. ASSUME NEW h \in Group, NEW p \in Topics(h)
        PROVE  /\ pos'[h][p] \in 1..Len(log'[p]) + 1
               /\ committed'[h][p] \in (1..Len(log'[p]) + 1) \cup {None}
    <3>1. pos[h][p] \in 1..Len(log[p]) + 1 /\ committed[h][p] \in (1..Len(log[p]) + 1) \cup {None}
      BY <1>1 DEF OffsetsOK
    <3>2. CASE h = g /\ p = q
      BY <1>2, <1>3, <2>1, <2>2, <3>1, <3>2
    <3>3. CASE h # g \/ p # q
      BY <1>2, <1>3, <2>1, <3>1, <3>3
    <3> QED
      BY <3>2, <3>3
  <2>4. \A h \in Group : resolved'[h] \subseteq Topics(h)
    BY <1>1, <2>1 DEF OffsetsOK
  <2> QED
    BY <1>1, <1>3, <2>1, <2>3, <2>4 DEF OffsetsOK, Topics, Group
<1>4. CASE \E g \in Group : \E q \in Topics(g) : HasNext(g, q) /\ Resolve(g, q) /\ UNCHANGED committed
  BY <1>3, <1>4
<1>5. CASE \E g \in Group : Commit(g)
  <2>1. PICK g \in Group : Commit(g)
    BY <1>5
  <2>2. DOMAIN committed' = Group /\ DOMAIN committed'[g] = Topics(g)
        /\ \A q \in Topics(g) : committed'[g][q] \in {pos[g][q], committed[g][q]}
    BY <1>1, <2>1 DEF Commit, OffsetsOK
  <2>3. \A h \in Group \ {g} : committed'[h] = committed[h]
    BY <1>1, <2>1 DEF Commit, OffsetsOK
  <2>4. UNCHANGED <<pos, log>> /\ \A h \in Group : resolved'[h] \subseteq Topics(h)
    BY <1>1, <2>1 DEF Commit, OffsetsOK
  <2>5. ASSUME NEW h \in Group
        PROVE  /\ DOMAIN pos'[h] = Topics(h) /\ DOMAIN committed'[h] = Topics(h)
               /\ \A q \in Topics(h) :
                    /\ pos'[h][q] \in 1..Len(log'[q]) + 1
                    /\ committed'[h][q] \in (1..Len(log'[q]) + 1) \cup {None}
    <3>1. CASE h = g
      BY <1>1, <2>2, <2>4, <3>1 DEF OffsetsOK
    <3>2. CASE h # g
      BY <1>1, <2>3, <2>4, <3>2 DEF OffsetsOK
    <3> QED
      BY <3>1, <3>2
  <2> QED
    BY <1>1, <2>2, <2>4, <2>5 DEF OffsetsOK, Topics, Group
<1>6. CASE Crash
  <2>1. \A g \in Group : \A q \in Topics(g) :
          Restart(g, q) \in 1..Len(log[q]) + 1 /\ committed[g][q] \in (1..Len(log[q]) + 1) \cup {None}
    BY <1>1, <1>2 DEF Restart, OffsetsOK
  <2> QED
    BY <1>1, <1>6, <2>1 DEF Crash, OffsetsOK, Topics, Group
<1>7. CASE UNCHANGED offsets
  <2>1. \A g \in Group : \A q \in Topics(g) : 
          /\ pos[g][q] \in 1..Len(log'[q]) + 1
          /\ committed[g][q] \in (1..Len(log'[q]) + 1) \cup {None}
    BY <1>1, <1>2 DEF OffsetsOK
  <2> QED
    BY <1>1, <1>7, <2>1 DEF OffsetsOK, offsets, Topics, Group
<1> QED
  <2>1. ASSUME NEW q \in TaskQueue, Announce(q)
        PROVE  HasNext("notification", q)
    BY <2>1, Published DEF Announce
  <2>2. \/ \E g \in Group : \E q \in Topics(g) : HasNext(g, q) /\ Resolve(g, q) /\ UNCHANGED committed
        \/ \E g \in Group : Commit(g)
        \/ Crash
        \/ UNCHANGED offsets
    <3>1. ASSUME NEW q \in TaskQueue, InsertFails(q) \/ Announce(q)
          PROVE  HasNext("notification", q) /\ Resolve("notification", q) /\ UNCHANGED committed
      BY <2>1, <3>1 DEF InsertFails, Announce
    <3>2. ASSUME NEW g \in Delivering, NEW q \in CreatedQueue, Deliver(g, q)
          PROVE  HasNext(g, q) /\ Resolve(g, q) /\ UNCHANGED committed
      BY <3>2 DEF Deliver
    <3>3. "notification" \in Group
      BY DEF Group
    <3> QED
      BY <3>1, <3>2, <3>3, Queues, Steps
      DEF Publish, DeleteTask, SweepStart, SweepCheck, SweepPublish, InsertRow, vars, offsets
  <2> QED
    BY <1>4, <1>5, <1>6, <1>7, <2>2

(* No row is lost, or changes what it is about; a deleted task leaves its  *)
(* notifications without one.                                              *)
LEMMA RowsGrow ==
  ASSUME TypeOK, [Next]_vars
  PROVE  /\ rows' \in Seq(Row) /\ Len(rows) \in Nat /\ Len(rows') \in Nat /\ Len(rows) <= Len(rows')
         /\ \A n \in 1..Len(rows) : rows'[n].event = rows[n].event
<1>1. rows \in Seq(Row) /\ Len(rows) \in Nat /\ DOMAIN rows = 1..Len(rows)
  BY DEF TypeOK, RowsOK
<1>2. CASE \E t \in Task : DeleteTask(t)
  <2>1. PICK t \in Task :
          rows' = [n \in DOMAIN rows |-> IF rows[n].task = t THEN [rows[n] EXCEPT !.task = None]
                                                             ELSE rows[n]]
    BY <1>2 DEF DeleteTask
  <2>2. \A n \in 1..Len(rows) : rows[n] \in Row
    BY <1>1
  <2>3. \A n \in 1..Len(rows) :
          /\ rows'[n] \in Row /\ rows'[n].event = rows[n].event
    BY <1>1, <2>1, <2>2 DEF Row
  <2>4. rows' = [n \in 1..Len(rows) |-> rows'[n]] /\ DOMAIN rows' = 1..Len(rows)
    BY <1>1, <2>1
  <2>5. rows' \in Seq(Row) /\ Len(rows') = Len(rows)
    BY <1>1, <2>3, <2>4
  <2> QED
    BY <1>1, <2>3, <2>5
<1>3. CASE \E q \in TaskQueue : InsertRow(q)
  <2>1. PICK q \in TaskQueue : InsertRow(q)
    BY <1>3
  <2>2. NextMessage("notification", q) \in Message
    BY <2>1, Queues DEF TypeOK, LogOK, OffsetsOK, InsertRow, HasNext, NextMessage, Group
  <2>3. Message \subseteq Row
    BY DEF Message, Row
  <2>4. rows' = Append(rows, NextMessage("notification", q)) /\ NextMessage("notification", q) \in Row
    BY <2>1, <2>2, <2>3 DEF InsertRow
  <2> QED
    BY <1>1, <2>4
<1>4. CASE UNCHANGED rows
  BY <1>1, <1>4
<1> QED
  BY <1>2, <1>3, <1>4, Steps
  DEF Publish, SweepStart, SweepCheck, SweepPublish, Deliver, InsertFails, Announce, Commit, Crash, vars

(* The message a delivery group handles next is a row id.                  *)
LEMMA Delivered ==
  ASSUME TypeOK, NEW g \in Delivering, NEW q \in CreatedQueue, Deliver(g, q)
  PROVE  /\ NextMessage(g, q) \in Nat
         /\ pos[g][q] \in 1..Len(log[q]) /\ pos[g][q] \in Nat /\ Len(log[q]) \in Nat
         /\ \/ sent' = [sent EXCEPT ![g] = Append(@, NextMessage(g, q))]
            \/ UNCHANGED sent
<1>1. g \in Group /\ q \in Topics(g) /\ q \in Queue /\ Carried(q) = Nat
  BY Queues
<1>2. pos[g][q] \in 1..Len(log[q]) + 1 /\ log[q] \in Seq(Nat)
  BY <1>1 DEF TypeOK, OffsetsOK, LogOK
<1> QED
  BY <1>2 DEF Deliver, HasNext, NextMessage

(* A row stays a row.                                                      *)
LEMMA RowsStep ==
  ASSUME TypeOK, [Next]_vars
  PROVE  RowsOK'
<1>1. RowsOK /\ LogOK /\ LogKept /\ OffsetsOK
  BY LogGrows DEF TypeOK
<1>2. rows' \in Seq(Row) /\ Len(rows) \in Nat /\ Len(rows') \in Nat /\ Len(rows) <= Len(rows')
  BY RowsGrow
<1>3. sent' \in [Delivering -> Seq(Nat)]
  <2>1. CASE \E g \in Delivering, q \in CreatedQueue : Deliver(g, q)
    <3>1. PICK g \in Delivering, q \in CreatedQueue : Deliver(g, q)
      BY <2>1
    <3>2. CASE sent' = [sent EXCEPT ![g] = Append(@, NextMessage(g, q))]
      <4>1. Append(sent[g], NextMessage(g, q)) \in Seq(Nat)
        BY <1>1, <3>1, Delivered DEF RowsOK
      <4> QED
        BY <1>1, <3>2, <4>1 DEF RowsOK
    <3> QED
      BY <1>1, <3>1, <3>2, Delivered DEF RowsOK
  <2>2. CASE UNCHANGED sent
    BY <1>1, <2>2 DEF RowsOK
  <2> QED
    BY <2>1, <2>2, Steps
    DEF Publish, DeleteTask, SweepStart, SweepCheck, SweepPublish, InsertRow, InsertFails, Announce,
        Commit, Crash, vars
<1>4. working' = Idle
      \/ /\ working' \in [queue: TaskQueue, row: 1..Len(rows')]
         /\ pos'["notification"][working'.queue] <= Len(log'[working'.queue])
  <2>1. CASE \E q \in TaskQueue : InsertRow(q)
    <3>1. PICK q \in TaskQueue : InsertRow(q)
      BY <2>1
    <3>2. working' = [queue |-> q, row |-> Len(rows) + 1] /\ Len(rows') = Len(rows) + 1
      BY <1>1, <3>1 DEF InsertRow, RowsOK
    <3>3. pos'["notification"][q] <= Len(log'[q])
      BY <3>1 DEF InsertRow, HasNext, offsets
    <3> QED
      BY <1>2, <3>2, <3>3
  <2>2. CASE working' = Idle
    BY <2>2
  <2>3. CASE UNCHANGED working /\ UNCHANGED pos["notification"]
    <3>1. CASE working \in [queue: TaskQueue, row: 1..Len(rows)]
      <4>1. pos["notification"][working.queue] \in 1..Len(log[working.queue]) + 1
            /\ Len(log[working.queue]) <= Len(log'[working.queue])
            /\ Len(log[working.queue]) \in Nat /\ Len(log'[working.queue]) \in Nat
        BY <1>1, <3>1, Queues DEF OffsetsOK, LogKept, Group
      <4> QED
        BY <1>1, <1>2, <2>3, <3>1, <4>1 DEF RowsOK
    <3> QED
      BY <1>1, <2>3, <3>1 DEF RowsOK
  <2>4. ASSUME NEW g \in Delivering, NEW q \in CreatedQueue, Deliver(g, q)
        PROVE  UNCHANGED working /\ UNCHANGED pos["notification"]
    BY <1>1, <2>4, ResolveMoves, Queues DEF Deliver, Delivering, Resolve, OffsetsOK
  <2>5. ASSUME NEW q \in TaskQueue, InsertFails(q)
        PROVE  working' = Idle
    BY <2>5 DEF InsertFails
  <2> QED
    BY <2>1, <2>2, <2>3, <2>4, <2>5, Steps
    DEF Publish, DeleteTask, SweepStart, SweepCheck, SweepPublish, Announce, Commit, Crash, vars, offsets
<1> QED
  BY <1>2, <1>3, <1>4 DEF RowsOK

(* Every step keeps the types.                                             *)
LEMMA TypeStep ==
  ASSUME TypeOK, [Next]_vars
  PROVE  TypeOK'
BY LogGrows, SweepsStep, OffsetsStep, RowsStep DEF TypeOK

(* Type correctness: in particular no consumer group ever stands behind    *)
(* the end of a queue, or restarts there.                                  *)
THEOREM TypeCorrect == Spec => []TypeOK
BY InitTypes, TypeStep, PTL DEF Spec

-----------------------------------------------------------------------------
(* What is announced is stored, and what is passed is stored or excused.   *)

(* A row pushed, mailed or announced is there already; the consumer        *)
(* announces only what it has inserted.                                    *)
LEMMA PersistedStep ==
  ASSUME TypeOK, PersistedFirst, [Next]_vars
  PROVE  PersistedFirst'
<1>1. LogOK /\ LogOK' /\ LogKept /\ RowsOK /\ OffsetsOK
  BY LogGrows DEF TypeOK
<1>2. DOMAIN rows = 1..Len(rows) /\ DOMAIN rows' = 1..Len(rows') /\ DOMAIN rows \subseteq DOMAIN rows'
  BY RowsGrow
<1>3. \A q \in CreatedQueue : /\ q \in Queue /\ Len(log[q]) \in Nat /\ Len(log'[q]) \in Nat
                              /\ DOMAIN log[q] = 1..Len(log[q]) /\ DOMAIN log'[q] = 1..Len(log'[q])
  BY <1>1, Queues DEF LogOK, Carried
<1>4. ASSUME NEW q \in CreatedQueue, NEW i \in DOMAIN log'[q]
      PROVE  log'[q][i] \in DOMAIN rows'
  <2>1. CASE i \in 1..Len(log[q])
    BY <1>1, <1>2, <1>3, <2>1 DEF PersistedFirst, LogKept
  <2>2. CASE i \in Len(log[q]) + 1..Len(log'[q])
    <3>1. Len(log'[q]) # Len(log[q])
      BY <1>3, <2>2
    <3>2. CASE \E p \in TaskQueue : Announce(p)
      <4>1. PICK p \in TaskQueue : Announce(p)
        BY <3>2
      <4>2. working.row \in DOMAIN rows /\ working.row \in Nat
        BY <1>2, <4>1, Published DEF Announce
      <4>3. Grows(CreatedQueue, working.row)
        <5>1. Send(CreatedQueue, working.row) /\ CreatedQueue \in SUBSET Queue /\ CountersOK
          BY <4>1 DEF Announce, Queue, TypeOK
        <5> QED
          BY <1>1, <4>2, <5>1, SendGrows, Queues
      <4>4. log'[q][i] = working.row
        BY <1>3, <2>2, <4>3 DEF Grows
      <4> QED
        BY <1>2, <4>2, <4>4
    <3>3. CASE \E e \in Event : Publish(e)
      <4>1. PICK e \in Event, t \in Task :
              LET m == [event |-> e, task |-> t, dueSoon |-> FALSE]
              IN  m \in Message /\ Send(TaskQueue, m)
        BY <3>3, PublishSends
      <4> QED
        BY <1>1, <1>3, <3>1, <4>1, Queues DEF Send, LogOK
    <3>4. CASE \E s \in Sweep : SweepPublish(s)
      <4>1. PICK s \in Sweep : \E m : Send(ReminderQueue, m)
        BY <3>4 DEF SweepPublish
      <4> QED
        BY <1>1, <1>3, <3>1, <4>1, Queues, QueueAssumption DEF Send, LogOK
    <3> QED
      BY <3>1, <3>2, <3>3, <3>4, Steps
      DEF DeleteTask, SweepStart, SweepCheck, Deliver, InsertRow, InsertFails, Commit, Crash, vars
  <2> QED
    BY <1>3, <2>1, <2>2
<1>5. ASSUME NEW g \in DOMAIN sent', NEW i \in DOMAIN sent'[g]
      PROVE  sent'[g][i] \in DOMAIN rows'
  <2>1. DOMAIN sent = Delivering /\ \A h \in Delivering : sent[h] \in Seq(Nat)
    BY <1>1 DEF RowsOK
  <2>2. CASE UNCHANGED sent
    BY <1>2, <1>5, <2>1, <2>2 DEF PersistedFirst
  <2>3. CASE \E h \in Delivering, q \in CreatedQueue : Deliver(h, q)
    <3>1. PICK h \in Delivering, q \in CreatedQueue : Deliver(h, q)
      BY <2>3
    <3>2. NextMessage(h, q) \in DOMAIN rows
      BY <1>3, <3>1, Delivered DEF PersistedFirst, NextMessage
    <3>3. CASE sent' = [sent EXCEPT ![h] = Append(@, NextMessage(h, q))]
      <4>1. /\ g \in Delivering /\ sent'[h] = Append(sent[h], NextMessage(h, q))
            /\ g # h => sent'[g] = sent[g]
        BY <2>1, <3>3
      <4>2. CASE g = h
        BY <1>2, <2>1, <3>2, <4>1, <4>2 DEF PersistedFirst
      <4>3. CASE g # h
        BY <1>2, <2>1, <4>1, <4>3 DEF PersistedFirst
      <4> QED
        BY <4>2, <4>3
    <3> QED
      BY <2>2, <3>1, <3>3, Delivered
  <2> QED
    BY <2>2, <2>3, Steps
    DEF Publish, DeleteTask, SweepStart, SweepCheck, SweepPublish, InsertRow, InsertFails, Announce,
        Commit, Crash, vars
<1> QED
  BY <1>4, <1>5 DEF PersistedFirst

(* "Published to notification.created, after the notification row is       *)
(* persisted": a client that refetches on a push finds the row.            *)
THEOREM AnnouncedIsStored == Spec => []PersistedFirst
<1>1. ASSUME Init PROVE PersistedFirst
  <2>1. \A q \in CreatedQueue : log[q] = <<>>
    BY <1>1 DEF Init, Queue
  <2>2. \A g \in DOMAIN sent : sent[g] = <<>>
    BY <1>1 DEF Init
  <2> QED
    BY <2>1, <2>2 DEF PersistedFirst
<1> QED
  BY <1>1, InitTypes, TypeStep, PersistedStep, PTL DEF Spec

(* Only the consumer of the task topics moves on in them.                  *)
LEMMA NotificationMoves ==
  ASSUME TypeOK, [Next]_vars
  PROVE  \/ \E q \in TaskQueue :
              /\ InsertFails(q) \/ Announce(q)
              /\ pos'["notification"][q] = pos["notification"][q] + 1
              /\ \A p \in TaskQueue \ {q} : pos'["notification"][p] = pos["notification"][p]
         \/ Crash
         \/ UNCHANGED pos["notification"]
<1>1. OffsetsOK /\ LogOK /\ "notification" \in Group /\ Topics("notification") = TaskQueue
  BY Queues DEF TypeOK, Group
<1>2. ASSUME NEW q \in TaskQueue, InsertFails(q) \/ Announce(q)
      PROVE  /\ pos'["notification"][q] = pos["notification"][q] + 1
             /\ \A p \in TaskQueue \ {q} : pos'["notification"][p] = pos["notification"][p]
  <2>1. Resolve("notification", q)
    BY <1>2 DEF InsertFails, Announce
  <2> QED
    BY <1>1, <2>1, ResolveMoves
<1>3. ASSUME NEW g \in Delivering, NEW q \in CreatedQueue, Deliver(g, q)
      PROVE  UNCHANGED pos["notification"]
  BY <1>1, <1>3 DEF Deliver, Delivering, Resolve, OffsetsOK
<1> QED
  BY <1>2, <1>3, Steps
  DEF Publish, DeleteTask, SweepStart, SweepCheck, SweepPublish, InsertRow, Commit, vars, offsets

(* The row being announced stays that of its message.                      *)
LEMMA WorkStep ==
  ASSUME TypeOK, WorkInv, [Next]_vars
  PROVE  WorkInv'
<1>1. RowsOK /\ LogOK /\ LogKept /\ OffsetsOK
  BY LogGrows DEF TypeOK
<1>2. /\ Len(rows) \in Nat /\ \A n \in 1..Len(rows) : rows'[n].event = rows[n].event
  BY RowsGrow
<1>3. CASE \E q \in TaskQueue : InsertRow(q)
  <2>1. PICK q \in TaskQueue : InsertRow(q)
    BY <1>3
  <2>2. /\ working' = [queue |-> q, row |-> Len(rows) + 1]
        /\ rows' = Append(rows, NextMessage("notification", q))
        /\ UNCHANGED <<log, pos>>
    BY <2>1 DEF InsertRow, offsets
  <2>3. rows'[Len(rows) + 1] = NextMessage("notification", q)
    BY <1>1, <2>2 DEF RowsOK
  <2>4. NextMessage("notification", q)' = NextMessage("notification", q)
    BY <2>2 DEF NextMessage
  <2> QED
    BY <2>2, <2>3, <2>4 DEF WorkInv, NextMessage
<1>4. CASE working' = Idle
  BY <1>4 DEF WorkInv
<1>5. CASE UNCHANGED working /\ UNCHANGED pos["notification"] /\ working # Idle
  <2>1. /\ working \in [queue: TaskQueue, row: 1..Len(rows)]
        /\ pos["notification"][working.queue] <= Len(log[working.queue])
    BY <1>1, <1>5 DEF RowsOK
  <2>2. pos["notification"][working.queue] \in 1..Len(log[working.queue])
    BY <1>1, <2>1, Queues DEF OffsetsOK, Group, LogKept
  <2>3. NextMessage("notification", working.queue)' = NextMessage("notification", working.queue)
    BY <1>1, <1>5, <2>1, <2>2, Queues DEF LogKept, NextMessage
  <2> QED
    BY <1>2, <1>5, <2>1, <2>3 DEF WorkInv, NextMessage
<1>6. ASSUME NEW q \in TaskQueue, InsertFails(q) \/ Announce(q)
      PROVE  working' = Idle
  BY <1>6 DEF InsertFails, Announce
<1>7. Crash => working' = Idle
  BY DEF Crash
<1> QED
  BY <1>3, <1>4, <1>5, <1>6, <1>7, NotificationMoves, Steps
  DEF Publish, DeleteTask, SweepStart, SweepCheck, SweepPublish, Deliver, Commit, vars

(* A message is passed with its row stored, unless something went wrong.   *)
LEMMA PassedStep ==
  ASSUME TypeOK, WorkInv, PassedMeansStored, [Next]_vars
  PROVE  PassedMeansStored'
<1>1. RowsOK /\ LogOK /\ LogKept /\ OffsetsOK /\ CountersOK /\ CountersOK' /\ NeverLess
  BY LogGrows DEF TypeOK
<1>2. /\ Len(rows) \in Nat /\ Len(rows') \in Nat /\ Len(rows) <= Len(rows')
      /\ DOMAIN rows = 1..Len(rows) /\ DOMAIN rows' = 1..Len(rows')
      /\ \A n \in 1..Len(rows) : rows'[n].event = rows[n].event
  BY RowsGrow
<1>3. \A e : Copies(e) \subseteq Copies(e)'
  BY <1>2 DEF Copies
<1>4. tasks' \subseteq tasks
  BY Steps DEF Publish, DeleteTask, SweepStart, SweepCheck, SweepPublish, Deliver, InsertRow, InsertFails,
               Announce, Commit, Crash, vars
<1>5. \A q \in TaskQueue : /\ Len(log[q]) \in Nat /\ pos["notification"][q] \in 1..Len(log[q]) + 1
                           /\ \A i \in 1..Len(log[q]) : log'[q][i] = log[q][i]
  BY <1>1, Queues DEF OffsetsOK, Group, LogKept
<1>6. /\ faults + crashes > 0 => faults' + crashes' > 0
      /\ Crash \/ Fault => faults' + crashes' > 0
  <2>1. /\ crashes \in Nat /\ faults \in Nat /\ crashes' \in Nat /\ faults' \in Nat
        /\ crashes' >= crashes /\ faults' >= faults
    BY <1>1 DEF CountersOK, NeverLess
  <2>2. \A i, j, k, l \in Nat : k >= i /\ l >= j =>
          /\ i + j > 0 => k + l > 0
          /\ k = i + 1 => k + l > 0
          /\ l = j + 1 => k + l > 0
    OBVIOUS
  <2>3. /\ faults + crashes > 0 => faults' + crashes' > 0
        /\ faults' = faults + 1 => faults' + crashes' > 0
        /\ crashes' = crashes + 1 => faults' + crashes' > 0
    BY <2>1, <2>2
  <2> QED
    BY <2>3 DEF Crash, Fault
<1> SUFFICES ASSUME NEW q \in TaskQueue, NEW i \in 1..pos'["notification"][q] - 1,
                    NEW m, m = log'[q][i], Copies(m.event)' = {}
             PROVE  m.task \notin tasks' \/ faults' + crashes' > 0
  BY DEF PassedMeansStored
<1>7. CASE i \in 1..pos["notification"][q] - 1
  <2>1. m = log[q][i]
    BY <1>5, <1>7
  <2>2. Copies(m.event) = {}
    BY <1>3, <2>1
  <2>3. m.task \notin tasks \/ faults + crashes > 0
    BY <1>7, <2>1, <2>2 DEF PassedMeansStored
  <2> QED
    BY <1>4, <1>6, <2>3
<1>8. CASE Crash
  BY <1>8, <1>6
<1>9. CASE i \notin 1..pos["notification"][q] - 1 /\ ~Crash
  <2>1. PICK p \in TaskQueue :
          /\ InsertFails(p) \/ Announce(p)
          /\ pos'["notification"][p] = pos["notification"][p] + 1
          /\ \A r \in TaskQueue \ {p} : pos'["notification"][r] = pos["notification"][r]
    BY <1>9, NotificationMoves
  <2>2. p = q /\ i = pos["notification"][q]
    BY <1>5, <1>9, <2>1
  <2>3. HasNext("notification", q)
    BY <2>1, <2>2, Published DEF InsertFails, Announce
  <2>4. m = NextMessage("notification", q)
    BY <1>5, <2>2, <2>3 DEF HasNext, NextMessage
  <2>5. CASE InsertFails(q)
    <3>1. CASE NextMessage("notification", q).task \notin tasks
      BY <1>4, <2>4, <3>1
    <3>2. CASE Fault
      BY <1>6, <3>2
    <3> QED
      BY <2>5, <3>1, <3>2 DEF InsertFails
  <2>6. CASE Announce(q)
    <3>1. working.row \in 1..Len(rows) /\ working # Idle /\ working.queue = q
      BY <2>6, Published, Queues DEF Announce, Idle
    <3>2. working.row \in Copies(NextMessage("notification", q).event)
      BY <1>2, <3>1 DEF WorkInv, Copies
    <3> QED
      BY <1>3, <2>4, <3>2
  <2> QED
    BY <2>1, <2>2, <2>5, <2>6
<1> QED
  BY <1>7, <1>8, <1>9

(* Nothing is lost but for a reason: a message the consumer has passed has *)
(* its row, unless its task is gone, a call failed or the process crashed. *)
(* The consumer passes a message in the step that announces its row        *)
(* (WorkInv), or in the one in which the INSERT is refused.                *)
THEOREM PassedIsStored == Spec => []PassedMeansStored
<1>1. ASSUME Init PROVE PassedMeansStored
  BY <1>1, Queues DEF Init, PassedMeansStored, Group
<1> QED
  BY <1>1, InitTypes, TypeStep, WorkStep, PassedStep, PTL DEF Spec

-----------------------------------------------------------------------------
(* Nothing is repeated without a cause.  First what is sent, and when.     *)

(* An event that has been offered is not offered again.                    *)
LEMMA OfferedStep ==
  ASSUME TypeOK, OfferedOnce, [Next]_vars
  PROVE  OfferedOnce'
<1>1. sweeps \in [Sweep -> SweepState] /\ tasks \subseteq Task
  BY DEF TypeOK, SweepsOK
<1>2. CASE \E e \in Event : Publish(e)
  <2>1. PICK e \in Event : offered' = offered \cup {e} /\ UNCHANGED sweeps
    BY <1>2 DEF Publish
  <2>2. \A s \in Sweep, t \in Task : <<s, t>> # e
    BY EventAssumption
  <2>3. \A s \in Sweep : sweeps[s].at = "publish" => sweeps[s].task \in Task
    BY Published
  <2>4. \A s \in Sweep : sweeps[s].at \in {"check", "publish"} => sweeps[s].todo \in SUBSET Task
    BY <1>1 DEF SweepState
  <2> QED
    BY <2>1, <2>2, <2>3, <2>4 DEF OfferedOnce
<1>3. ASSUME NEW s \in Sweep, NEW x \in SweepState, sweeps' = [sweeps EXCEPT ![s] = x], UNCHANGED offered,
             x.at # "idle",
             x.at \in {"check", "publish"} => \A t \in x.todo : <<s, t>> \notin offered,
             x.at = "publish" => x.task \notin x.todo /\ <<s, x.task>> \notin offered
      PROVE  OfferedOnce'
  <2>1. sweeps'[s] = x /\ \A r \in Sweep \ {s} : sweeps'[r] = sweeps[r]
    BY <1>1, <1>3
  <2> QED
    BY <1>3, <2>1 DEF OfferedOnce
<1>4. CASE \E s \in Sweep : SweepStart(s)
  <2>1. PICK s \in Sweep, due \in SUBSET tasks :
          /\ sweeps' = [sweeps EXCEPT ![s] = [at |-> "check", todo |-> due]]
          /\ sweeps[s].at = "idle" /\ UNCHANGED offered
    BY <1>4 DEF SweepStart
  <2>2. [at |-> "check", todo |-> due] \in SweepState
    BY <1>1 DEF SweepState
  <2>3. \A t \in due : <<s, t>> \notin offered
    BY <1>1, <2>1 DEF OfferedOnce
  <2> QED
    BY <1>3, <2>1, <2>2, <2>3
<1>5. CASE \E s \in Sweep : SweepCheck(s)
  <2>1. PICK s \in Sweep : SweepCheck(s)
    BY <1>5
  <2>2. /\ sweeps[s].todo \in SUBSET Task /\ UNCHANGED offered
        /\ \A t \in sweeps[s].todo : <<s, t>> \notin offered
    BY <1>1, <2>1 DEF SweepCheck, SweepState, OfferedOnce
  <2>3. PICK t \in sweeps[s].todo :
          \/ sweeps' = [sweeps EXCEPT ![s] = [at |-> "publish", todo |-> sweeps[s].todo \ {t}, task |-> t]]
          \/ sweeps' = [sweeps EXCEPT ![s] = [at |-> "done"]]
          \/ sweeps' = [sweeps EXCEPT ![s] = [at |-> "check", todo |-> sweeps[s].todo \ {t}]]
    BY <1>1, <2>1 DEF SweepCheck
  <2>4. /\ [at |-> "publish", todo |-> sweeps[s].todo \ {t}, task |-> t] \in SweepState
        /\ [at |-> "done"] \in SweepState
        /\ [at |-> "check", todo |-> sweeps[s].todo \ {t}] \in SweepState
    BY <2>2 DEF SweepState
  <2>5. CASE sweeps' = [sweeps EXCEPT ![s] = [at |-> "publish", todo |-> sweeps[s].todo \ {t}, task |-> t]]
    BY <1>3, <2>2, <2>4, <2>5
  <2>6. CASE sweeps' = [sweeps EXCEPT ![s] = [at |-> "done"]]
    BY <1>3, <2>2, <2>4, <2>6
  <2>7. CASE sweeps' = [sweeps EXCEPT ![s] = [at |-> "check", todo |-> sweeps[s].todo \ {t}]]
    BY <1>3, <2>2, <2>4, <2>7
  <2> QED
    BY <2>3, <2>5, <2>6, <2>7
<1>6. CASE \E s \in Sweep : SweepPublish(s)
  <2>1. PICK s \in Sweep : SweepPublish(s)
    BY <1>6
  <2>2. /\ sweeps[s].task \in Task /\ sweeps[s].todo \in SUBSET Task
        /\ sweeps[s].task \notin sweeps[s].todo /\ \A t \in sweeps[s].todo : <<s, t>> \notin offered
        /\ offered' = offered \cup {<<s, sweeps[s].task>>}
    BY <2>1, Published DEF SweepPublish, OfferedOnce
  <2>3. /\ sweeps'[s] \in {[at |-> "done"], [at |-> "check", todo |-> sweeps[s].todo]}
        /\ \A r \in Sweep \ {s} : sweeps'[r] = sweeps[r]
    BY <1>1, <2>1 DEF SweepPublish
  <2>4. \A r \in Sweep \ {s} : \A t : <<r, t>> \in offered' <=> <<r, t>> \in offered
    BY <2>2
  <2>5. \A t \in sweeps[s].todo : <<s, t>> \notin offered'
    BY <2>2
  <2> QED
    BY <2>3, <2>4, <2>5 DEF OfferedOnce
<1>7. CASE Crash
  BY <1>1, <1>7 DEF Crash, OfferedOnce
<1> QED
  BY <1>2, <1>4, <1>5, <1>6, <1>7, Steps
  DEF DeleteTask, Deliver, InsertRow, InsertFails, Announce, Commit, vars, OfferedOnce

(* A step sends an event for the first time, announces the row the         *)
(* consumer has just inserted, or sends nothing.                           *)
LEMMA Sends ==
  ASSUME TypeOK, OfferedOnce, [Next]_vars
  PROVE  \/ \E m \in Message :
              /\ m.event \notin offered /\ offered' = offered \cup {m.event} /\ Grows(TaskQueue, m)
              /\ UNCHANGED <<pos, working, rows, sent, crashes>>
         \/ /\ UNCHANGED offered
            /\ \E q \in TaskQueue : Announce(q) /\ Grows(CreatedQueue, working.row)
         \/ UNCHANGED <<offered, log>>
<1>1. LogOK /\ CountersOK /\ TaskQueue \in SUBSET Queue /\ CreatedQueue \in SUBSET Queue
      /\ ReminderQueue \in SUBSET Queue /\ ReminderQueue \subseteq TaskQueue
  BY QueueAssumption DEF TypeOK, Queue
<1>2. ASSUME NEW e \in Event, Publish(e)
      PROVE  \E m \in Message :
               /\ m.event \notin offered /\ offered' = offered \cup {m.event} /\ Grows(TaskQueue, m)
               /\ UNCHANGED <<pos, working, rows, sent, crashes>>
  <2>1. PICK t \in Task : LET m == [event |-> e, task |-> t, dueSoon |-> FALSE]
                          IN  m \in Message /\ Send(TaskQueue, m)
    BY <1>2, PublishSends
  <2>2. Grows(TaskQueue, [event |-> e, task |-> t, dueSoon |-> FALSE])
    BY <1>1, <2>1, SendGrows, Queues
  <2> QED
    BY <1>2, <2>1, <2>2 DEF Publish, offsets
<1>3. ASSUME NEW s \in Sweep, SweepPublish(s)
      PROVE  \E m \in Message :
               /\ m.event \notin offered /\ offered' = offered \cup {m.event} /\ Grows(TaskQueue, m)
               /\ UNCHANGED <<pos, working, rows, sent, crashes>>
  <2> DEFINE m == [event |-> <<s, sweeps[s].task>>, task |-> sweeps[s].task, dueSoon |-> TRUE]
  <2>1. /\ m \in Message /\ m.event \notin offered /\ offered' = offered \cup {m.event}
        /\ Send(ReminderQueue, m) /\ UNCHANGED <<pos, working, rows, sent, crashes>>
    BY <1>3, Published DEF SweepPublish, OfferedOnce, offsets
  <2> HIDE DEF m
  <2>2. Grows(ReminderQueue, m)
    BY <1>1, <2>1, SendGrows, Queues
  <2>3. Grows(TaskQueue, m)
    BY <1>1, <2>2 DEF Grows
  <2> QED
    BY <2>1, <2>3
<1>4. ASSUME NEW q \in TaskQueue, Announce(q)
      PROVE  Grows(CreatedQueue, working.row) /\ UNCHANGED offered
  <2>1. working.row \in Nat /\ Send(CreatedQueue, working.row) /\ UNCHANGED offered
    BY <1>4, Published DEF Announce
  <2> QED
    BY <1>1, <2>1, SendGrows, Queues
<1> QED
  BY <1>2, <1>3, <1>4, Steps
  DEF DeleteTask, SweepStart, SweepCheck, Deliver, InsertRow, InsertFails, Commit, Crash, vars

(* Counting.  C are the results (rows, deliveries) of the messages at the  *)
(* places O, those at B having been handled since the last of k crashes:   *)
(* handling one more makes at most one more result, and a crash may hand   *)
(* every message out again.                                                *)
LEMMA Products ==
  \A i, k \in Nat : /\ i * k \in Nat /\ i * (k + 1) = i * k + i
                    /\ \A j \in Nat, r \in Nat : i <= j => i * k <= j * k
OBVIOUS

(* A bound by tries and the begun outlives one more begun.                 *)
LEMMA Counting ==
  ASSUME NEW O, IsFiniteSet(O), NEW B \in SUBSET O, NEW BB \in SUBSET O,
         NEW C, IsFiniteSet(C), NEW k \in Nat,
         Cardinality(C) <= Cardinality(O) * k + Cardinality(B)
  PROVE  /\ B \subseteq BB => Cardinality(C) <= Cardinality(O) * k + Cardinality(BB)
         /\ \A p \in BB : \A x : B \subseteq BB \ {p} =>
              Cardinality(C \cup {x}) <= Cardinality(O) * k + Cardinality(BB)
         /\ Cardinality(C) <= Cardinality(O) * (k + 1) + Cardinality(BB)
<1> DEFINE i == Cardinality(O)  j == Cardinality(O) * k  c == Cardinality(C)
           b == Cardinality(B)  bb == Cardinality(BB)
<1>1. i \in Nat /\ j \in Nat /\ c \in Nat /\ Cardinality(O) * (k + 1) = j + i
  BY FS_CardinalityType, Products
<1>2. /\ b \in Nat /\ bb \in Nat /\ b <= i /\ IsFiniteSet(BB)
      /\ B \subseteq BB => b <= bb
  <2>1. IsFiniteSet(B) /\ IsFiniteSet(BB) /\ b <= i
    BY FS_Subset
  <2> QED
    BY <2>1, FS_Subset, FS_CardinalityType
<1>3. ASSUME NEW p \in BB, NEW x, B \subseteq BB \ {p}
      PROVE  Cardinality(C \cup {x}) <= j + bb
  <2>1. Cardinality(C \cup {x}) \in {c, c + 1}
    BY FS_AddElement
  <2>2. IsFiniteSet(BB \ {p}) /\ Cardinality(BB \ {p}) = bb - 1
    BY <1>2, FS_RemoveElement
  <2>3. b <= bb - 1
    BY <1>3, <2>2, FS_Subset
  <2> QED
    BY <1>1, <1>2, <2>1, <2>3
<1> HIDE DEF j, c, b, bb, i
<1>4. c <= j + b
  BY DEF c, j, b
<1>5. /\ B \subseteq BB => c <= j + bb
      /\ c <= (j + i) + bb
  BY <1>1, <1>2, <1>4
<1> QED
  BY <1>1, <1>3, <1>5 DEF c, j, bb

(* Where nothing was offered there is nothing to count.                    *)
LEMMA CountingFromNone ==
  ASSUME NEW B, NEW O, NEW OO, IsFiniteSet(OO), NEW BB \in SUBSET OO, NEW C, NEW k \in Nat,
         O = {}, B \in SUBSET O, IsFiniteSet(C), Cardinality(C) <= Cardinality(O) * k + Cardinality(B)
  PROVE  Cardinality(C) <= Cardinality(OO) * k + Cardinality(BB)
<1>1. Cardinality(O) = 0 /\ Cardinality(B) = 0
  BY FS_EmptySet
<1>2. Cardinality(C) = 0
  <2>1. 0 * k + 0 = 0
    BY Products
  <2> QED
    BY <1>1, <2>1, FS_CardinalityType
<1>3. Cardinality(OO) \in Nat /\ Cardinality(BB) \in Nat
  BY FS_CardinalityType, FS_Subset
<1>4. Cardinality(OO) * k \in Nat
  BY <1>3, Products
<1> QED
  BY <1>2, <1>3, <1>4

(* The sizes of the smallest sets.                                         *)
LEMMA OneOrTwo ==
  ASSUME NEW x, NEW y
  PROVE  /\ IsFiniteSet({}) /\ Cardinality({}) = 0
         /\ IsFiniteSet({x}) /\ Cardinality({x}) = 1
         /\ IsFiniteSet({x} \cup {y}) /\ Cardinality({x} \cup {y}) \in {1, 2}
<1>1. IsFiniteSet({x}) /\ Cardinality({x}) = 1
  BY FS_Singleton
<1>2. IsFiniteSet({x} \cup {y}) /\ Cardinality({x} \cup {y}) = IF y \in {x} THEN 1 ELSE 1 + 1
  BY <1>1, FS_AddElement
<1> QED
  BY <1>1, <1>2, FS_EmptySet

(* The places a send adds.                                                 *)
LEMMA NewPlaces ==
  ASSUME LogOK, NEW topic \in SUBSET Queue, NEW m, Grows(topic, m)
  PROVE  \E N : /\ IsFiniteSet(N) /\ Cardinality(N) \in 0..2 /\ N \cap Places(topic) = {}
                /\ Cardinality(N) = 2 => retried' = retried + 1
                /\ Places(topic)' = Places(topic) \cup N
                /\ \A p \in N : log'[p[1]][p[2]] = m
                /\ \A p \in Places(topic) : log'[p[1]][p[2]] = log[p[1]][p[2]]
<1>1. PICK q \in topic, k \in 0..2 :
        /\ \A p \in Queue \ {q} : log'[p] = log[p]
        /\ Len(log'[q]) = Len(log[q]) + k
        /\ \A i \in 1..Len(log[q]) : log'[q][i] = log[q][i]
        /\ \A i \in Len(log[q]) + 1..Len(log[q]) + k : log'[q][i] = m
        /\ k = 2 => retried' = retried + 1
  BY DEF Grows
<1>2. \A p \in topic : Len(log[p]) \in Nat /\ p \in Queue
  BY DEF LogOK
<1> DEFINE n == Len(log[q])
           N == {q} \X (n + 1..n + k)
<1>3. n \in Nat
  BY <1>2
<1> HIDE DEF N
<1>4. IsFiniteSet(N) /\ Cardinality(N) \in 0..2 /\ (Cardinality(N) = 2 => retried' = retried + 1)
  <2> DEFINE x == <<q, n + 1>>  y == <<q, n + 2>>
  <2>1. /\ k = 0 => N = {}
        /\ k = 1 => N = {x}
        /\ k = 2 => N = {x} \cup {y}
    BY <1>3 DEF N
  <2> HIDE DEF x, y
  <2>2. /\ IsFiniteSet({}) /\ Cardinality({}) = 0
        /\ IsFiniteSet({x}) /\ Cardinality({x}) = 1
        /\ IsFiniteSet({x} \cup {y}) /\ Cardinality({x} \cup {y}) \in {1, 2}
    BY OneOrTwo
  <2>3. CASE k = 0
    BY <2>1, <2>2, <2>3
  <2>4. CASE k = 1
    BY <2>1, <2>2, <2>4
  <2>5. CASE k = 2
    <3>1. IsFiniteSet(N) /\ Cardinality(N) \in 0..2
      BY <2>1, <2>2, <2>5
    <3>2. retried' = retried + 1
      BY <1>1, <2>5
    <3> QED
      BY <3>1, <3>2
  <2> QED
    BY <2>3, <2>4, <2>5
<1>5. N \cap Places(topic) = {}
  BY <1>3 DEF N, Places
<1>6. Places(topic)' = Places(topic) \cup N
  <2>1. Places(topic)' = {p \in topic \X Nat : p[2] \in 1..Len(log'[p[1]])}
    BY DEF Places
  <2>2. ASSUME NEW r \in topic, NEW i \in Nat
        PROVE  i \in 1..Len(log'[r]) <=> i \in 1..Len(log[r]) \/ (r = q /\ i \in n + 1..n + k)
    BY <1>1, <1>2, <1>3
  <2> QED
    BY <1>3, <2>1, <2>2 DEF N, Places
<1>7. \A p \in N : log'[p[1]][p[2]] = m
  BY <1>1 DEF N
<1>8. \A p \in Places(topic) : log'[p[1]][p[2]] = log[p[1]][p[2]]
  BY <1>1, <1>2 DEF Places
<1> QED
  BY <1>4, <1>5, <1>6, <1>7, <1>8

(* Copies and deliveries can be counted.                                   *)
LEMMA Finite ==
  ASSUME TypeOK
  PROVE  /\ \A e : IsFiniteSet(Copies(e))
         /\ \A g \in Delivering : \A n : IsFiniteSet(Deliveries(g, n))
<1>1. ASSUME NEW e
      PROVE  IsFiniteSet(Copies(e))
  <2>1. Len(rows) \in Nat /\ DOMAIN rows = 1..Len(rows)
    BY DEF TypeOK, RowsOK
  <2>2. IsFiniteSet(1..Len(rows)) /\ Copies(e) \in SUBSET (1..Len(rows))
    BY <2>1, FS_Interval DEF Copies
  <2> QED
    BY <2>2, FS_Subset
<1>2. ASSUME NEW g \in Delivering, NEW n
      PROVE  IsFiniteSet(Deliveries(g, n))
  <2>1. Len(sent[g]) \in Nat /\ DOMAIN sent[g] = 1..Len(sent[g])
    BY DEF TypeOK, RowsOK
  <2>2. IsFiniteSet(1..Len(sent[g])) /\ Deliveries(g, n) \in SUBSET (1..Len(sent[g]))
    BY <2>1, FS_Interval DEF Deliveries
  <2> QED
    BY <2>2, FS_Subset
<1> QED
  BY <1>1, <1>2

(* The rows and the handled places of an event under one step.             *)
LEMMA CopiesMove ==
  ASSUME TypeOK, [Next]_vars, NEW e
  PROVE  /\ IsFiniteSet(Copies(e))
         /\ \/ Copies(e)' = Copies(e)
            \/ \E q \in TaskQueue :
                 /\ InsertRow(q) /\ e = NextMessage("notification", q).event
                 /\ Copies(e)' = Copies(e) \cup {Len(rows) + 1}
<1>1. /\ rows \in Seq(Row) /\ Len(rows) \in Nat /\ DOMAIN rows = 1..Len(rows)
      /\ Len(rows') \in Nat /\ DOMAIN rows' = 1..Len(rows')
      /\ \A n \in 1..Len(rows) : rows'[n].event = rows[n].event
  BY RowsGrow DEF TypeOK, RowsOK
<1>2. IsFiniteSet(Copies(e))
  BY Finite
<1>3. ASSUME NEW q \in TaskQueue, InsertRow(q)
      PROVE  IF e = NextMessage("notification", q).event
               THEN Copies(e)' = Copies(e) \cup {Len(rows) + 1}
               ELSE Copies(e)' = Copies(e)
  <2>1. rows' = Append(rows, NextMessage("notification", q))
    BY <1>3 DEF InsertRow
  <2>2. Len(rows') = Len(rows) + 1 /\ rows'[Len(rows) + 1] = NextMessage("notification", q)
    BY <1>1, <2>1
  <2> QED
    BY <1>1, <2>2 DEF Copies
<1>4. CASE \A q \in TaskQueue : ~InsertRow(q)
  <2>1. DOMAIN rows' = DOMAIN rows
    BY <1>4, Steps
    DEF Publish, DeleteTask, SweepStart, SweepCheck, SweepPublish, Deliver, InsertFails, Announce, Commit,
        Crash, vars
  <2>2. Copies(e)' = Copies(e)
    BY <1>1, <2>1 DEF Copies
  <2> QED
    BY <1>2, <2>2
<1> QED
  BY <1>2, <1>3, <1>4

(* Without a crash what is begun stays so, and an insertion begins one     *)
(* more.                                                                   *)
LEMMA BegunMoves ==
  ASSUME TypeOK, [Next]_vars, NEW e, Of(e)' = Of(e), ~Crash
  PROVE  /\ Begun(e) \subseteq Begun(e)'
         /\ \A q \in TaskQueue : InsertRow(q) /\ e = NextMessage("notification", q).event =>
              \E p \in Begun(e)' : Begun(e) \subseteq Begun(e)' \ {p}
<1>1. \A q \in TaskQueue : /\ Len(log[q]) \in Nat /\ pos["notification"][q] \in 1..Len(log[q]) + 1 /\ q # None
                           /\ pos["notification"][q] \in Nat
  BY Queues DEF TypeOK, OffsetsOK, LogOK, Group
<1>2. \A p \in Of(e) : p[1] \in TaskQueue /\ p[2] \in Nat
  BY DEF Of, Places
<1>3. CASE \E q \in TaskQueue : InsertRow(q)
  <2>1. PICK q \in TaskQueue : InsertRow(q)
    BY <1>3
  <2>2. /\ working = Idle /\ working'.queue = q /\ UNCHANGED <<pos, log>> /\ HasNext("notification", q)
    BY <2>1 DEF InsertRow, offsets
  <2>3. Begun(e) = {p \in Of(e) : p[2] < pos["notification"][p[1]]}
    BY <1>1, <1>2, <2>2 DEF Begun, Idle
  <2>4. Begun(e)' = {p \in Of(e) : \/ p[2] < pos["notification"][p[1]]
                                   \/ q = p[1] /\ p[2] = pos["notification"][p[1]]}
    BY <2>2 DEF Begun
  <2>5. ASSUME e = NextMessage("notification", q).event
        PROVE  <<q, pos["notification"][q]>> \in Begun(e)' /\ <<q, pos["notification"][q]>> \notin Begun(e)
    <3>1. <<q, pos["notification"][q]>> \in Of(e)
      BY <1>1, <2>2, <2>5 DEF Of, Places, NextMessage, HasNext
    <3> QED
      BY <1>1, <2>3, <2>4, <3>1
  <2>6. \A p \in TaskQueue : InsertRow(p) => p = q
    BY <2>2 DEF InsertRow
  <2> QED
    BY <2>3, <2>4, <2>5, <2>6
<1>4. CASE \E q \in TaskQueue : InsertFails(q) \/ Announce(q)
  <2>1. PICK q \in TaskQueue :
          /\ InsertFails(q) \/ Announce(q)
          /\ pos'["notification"][q] = pos["notification"][q] + 1
          /\ \A p \in TaskQueue \ {q} : pos'["notification"][p] = pos["notification"][p]
    <3>1. PICK q \in TaskQueue : InsertFails(q) \/ Announce(q)
      BY <1>4
    <3>2. Resolve("notification", q) /\ "notification" \in Group /\ q \in Topics("notification")
      BY <3>1 DEF InsertFails, Announce, Group, Topics
    <3> QED
      BY <3>1, <3>2, ResolveMoves, Queues DEF TypeOK
  <2>2. working.queue \in {None, q}
    BY <2>1 DEF InsertFails, Announce, Idle
  <2>3. ASSUME NEW p \in Begun(e)
        PROVE  p \in Begun(e)'
    <3>1. p \in Of(e) /\ p[1] \in TaskQueue /\ p[2] \in Nat
      BY <1>2 DEF Begun
    <3>2. p[2] < pos'["notification"][p[1]]
      BY <1>1, <2>1, <2>2, <2>3, <3>1 DEF Begun
    <3> QED
      BY <3>1, <3>2 DEF Begun
  <2>4. \A p \in TaskQueue : ~InsertRow(p)
    <3>1. ASSUME NEW p \in TaskQueue, InsertRow(p)
          PROVE  FALSE
      BY <1>1, <2>1, <3>1, Queues DEF InsertRow, offsets
    <3> QED
      BY <3>1
  <2> QED
    BY <2>3, <2>4
<1>5. CASE UNCHANGED pos["notification"] /\ UNCHANGED working /\ \A q \in TaskQueue : ~InsertRow(q)
  BY <1>5 DEF Begun
<1> QED
  BY <1>3, <1>4, <1>5, NotificationMoves, Steps
  DEF Publish, DeleteTask, SweepStart, SweepCheck, SweepPublish, Deliver, Commit, vars

(* A send is counted with its second copy only if it was repeated.         *)
LEMMA SentPlaces ==
  ASSUME NEW N, IsFiniteSet(N), Cardinality(N) \in 0..2,
         Cardinality(N) = 2 => retried' = retried + 1, CountersOK, CountersOK'
  PROVE  Cardinality(N) <= 1 + retried'
<1>1. retried \in Nat /\ retried' \in Nat
  BY DEF CountersOK
<1>2. \A n \in 0..2, i, j \in Nat : (n = 2 => j = i + 1) => n <= 1 + j
  OBVIOUS
<1> QED
  BY <1>1, <1>2

(* A bound by the retries outlives a retry.                                *)
LEMMA StillFew ==
  ASSUME NEW O, IsFiniteSet(O), Cardinality(O) <= 1 + retried, CountersOK, CountersOK', NeverLess
  PROVE  Cardinality(O) <= 1 + retried'
<1>1. retried \in Nat /\ retried' \in Nat /\ retried' >= retried /\ Cardinality(O) \in Nat
  BY FS_CardinalityType DEF CountersOK, NeverLess
<1>2. \A n, i, j \in Nat : j >= i /\ n <= 1 + i => n <= 1 + j
  OBVIOUS
<1> QED
  BY <1>1, <1>2

(* Every step keeps the bound on the copies.                               *)
LEMMA CopiesStep ==
  ASSUME TypeOK, OfferedOnce, CopiesInv, [Next]_vars
  PROVE  CopiesInv'
<1>1. LogOK /\ LogKept /\ CountersOK /\ CountersOK' /\ NeverLess /\ TaskQueue \in SUBSET Queue
  BY LogGrows DEF TypeOK, Queue
<1> SUFFICES ASSUME NEW e \in Source
             PROVE  /\ IsFiniteSet(Of(e)') /\ Cardinality(Of(e)') <= 1 + retried'
                    /\ e \notin offered' => Of(e)' = {}
                    /\ Cardinality(Copies(e)') <= Cardinality(Of(e)') * crashes' + Cardinality(Begun(e)')
  BY DEF CopiesInv
<1>2. /\ IsFiniteSet(Of(e)) /\ Cardinality(Of(e)) <= 1 + retried
      /\ e \notin offered => Of(e) = {}
      /\ Cardinality(Copies(e)) <= Cardinality(Of(e)) * crashes + Cardinality(Begun(e))
      /\ IsFiniteSet(Copies(e)) /\ crashes \in Nat
  BY <1>1, CopiesMove DEF CopiesInv, CountersOK
<1>3. Begun(e) \in SUBSET Of(e) /\ Begun(e)' \in SUBSET (Of(e)')
  BY DEF Begun
<1>4. ASSUME NEW m \in Message, m.event \notin offered, offered' = offered \cup {m.event},
             Grows(TaskQueue, m), UNCHANGED <<pos, working, rows, sent, crashes>>
      PROVE  /\ IsFiniteSet(Of(e)') /\ Cardinality(Of(e)') <= 1 + retried'
             /\ e \notin offered' => Of(e)' = {}
             /\ Cardinality(Copies(e)') <= Cardinality(Of(e)') * crashes' + Cardinality(Begun(e)')
  <2>1. PICK N : /\ IsFiniteSet(N) /\ Cardinality(N) \in 0..2
                 /\ Cardinality(N) = 2 => retried' = retried + 1
                 /\ Places(TaskQueue)' = Places(TaskQueue) \cup N /\ N \cap Places(TaskQueue) = {}
                 /\ \A p \in N : log'[p[1]][p[2]] = m
                 /\ \A p \in Places(TaskQueue) : log'[p[1]][p[2]] = log[p[1]][p[2]]
    BY <1>1, <1>4, NewPlaces
  <2>2. Of(e)' = IF e = m.event THEN Of(e) \cup N ELSE Of(e)
    BY <2>1 DEF Of
  <2>3. Copies(e)' = Copies(e) /\ crashes' = crashes
    BY <1>4 DEF Copies
  <2>4. CASE e = m.event
    <3>1. Of(e) = {} /\ Of(e)' = N
      BY <1>2, <1>4, <2>2, <2>4
    <3>2. Cardinality(N) <= 1 + retried'
      BY <1>1, <2>1, SentPlaces
    <3>3. Cardinality(Copies(e)) <= Cardinality(N) * crashes + Cardinality(Begun(e)')
      BY <1>2, <1>3, <2>1, <3>1, CountingFromNone
    <3> QED
      BY <1>4, <2>1, <2>3, <2>4, <3>1, <3>2, <3>3
  <2>5. CASE e # m.event
    <3>1. Of(e)' = Of(e)
      BY <2>2, <2>5
    <3>2. Begun(e)' = Begun(e)
      BY <1>4, <3>1 DEF Begun
    <3>3. Cardinality(Of(e)) <= 1 + retried'
      BY <1>1, <1>2, StillFew
    <3> QED
      BY <1>2, <1>4, <2>3, <3>1, <3>2, <3>3
  <2> QED
    BY <2>4, <2>5
<1>5. CASE UNCHANGED offered /\ \A q \in TaskQueue : log'[q] = log[q]
  <2>1. Places(TaskQueue)' = Places(TaskQueue)
        /\ \A p \in Places(TaskQueue) : log'[p[1]][p[2]] = log[p[1]][p[2]]
    BY <1>5 DEF Places
  <2>2. Of(e)' = Of(e)
    BY <2>1 DEF Of
  <2>3. Cardinality(Of(e)) <= 1 + retried'
    BY <1>1, <1>2, StillFew
  <2>4. Begun(e)' \in SUBSET Of(e)
    BY <1>3, <2>2
  <2>5. Cardinality(Copies(e)') <= Cardinality(Of(e)) * crashes' + Cardinality(Begun(e)')
    <3>1. /\ Begun(e) \subseteq Begun(e)' =>
               Cardinality(Copies(e)) <= Cardinality(Of(e)) * crashes + Cardinality(Begun(e)')
          /\ \A p \in Begun(e)' : \A x : Begun(e) \subseteq Begun(e)' \ {p} =>
               Cardinality(Copies(e) \cup {x}) <= Cardinality(Of(e)) * crashes + Cardinality(Begun(e)')
          /\ Cardinality(Copies(e)) <= Cardinality(Of(e)) * (crashes + 1) + Cardinality(Begun(e)')
      BY <1>2, <1>3, <2>4, Counting
    <3>2. CASE Crash
      <4>1. crashes' = crashes + 1 /\ Copies(e)' = Copies(e)
        BY <3>2 DEF Crash, Copies
      <4> QED
        BY <3>1, <4>1
    <3>3. CASE ~Crash
      <4>1. crashes' = crashes
        BY <3>3, Steps
        DEF Publish, DeleteTask, SweepStart, SweepCheck, SweepPublish, Deliver, InsertRow, InsertFails,
            Announce, Commit, vars
      <4>2. /\ Begun(e) \subseteq Begun(e)'
            /\ \A q \in TaskQueue : InsertRow(q) /\ e = NextMessage("notification", q).event =>
                 \E p \in Begun(e)' : Begun(e) \subseteq Begun(e)' \ {p}
        BY <2>2, <3>3, BegunMoves
      <4> QED
        BY <3>1, <4>1, <4>2, CopiesMove
    <3> QED
      BY <3>2, <3>3
  <2> QED
    BY <1>2, <1>5, <2>2, <2>3, <2>5
<1>6. ASSUME NEW m, Grows(CreatedQueue, m)
      PROVE  \A q \in TaskQueue : log'[q] = log[q]
  BY <1>1, <1>6, Queues DEF Grows
<1> QED
  BY <1>4, <1>5, <1>6, Sends

(* The same one topic further.                                             *)
LEMMA DeliveriesMove ==
  ASSUME TypeOK, [Next]_vars, NEW g \in Delivering, NEW n
  PROVE  /\ IsFiniteSet(Deliveries(g, n))
         /\ \/ Deliveries(g, n)' = Deliveries(g, n)
            \/ \E q \in CreatedQueue : \E x :
                 /\ Deliver(g, q) /\ n = NextMessage(g, q)
                 /\ Deliveries(g, n)' = Deliveries(g, n) \cup {x}
<1>1. DOMAIN sent = Delivering /\ sent[g] \in Seq(Nat) /\ Len(sent[g]) \in Nat /\ DOMAIN sent[g] = 1..Len(sent[g])
  BY DEF TypeOK, RowsOK
<1>2. IsFiniteSet(Deliveries(g, n))
  BY Finite
<1>3. ASSUME NEW h \in Delivering, NEW q \in CreatedQueue, Deliver(h, q)
      PROVE  \/ Deliveries(g, n)' = Deliveries(g, n)
             \/ h = g /\ n = NextMessage(g, q) /\ \E x : Deliveries(g, n)' = Deliveries(g, n) \cup {x}
  <2>1. CASE sent' = [sent EXCEPT ![h] = Append(@, NextMessage(h, q))]
    <3>1. CASE h = g
      <4>1. sent'[g] = Append(sent[g], NextMessage(g, q))
        BY <1>1, <2>1, <3>1
      <4>2. /\ DOMAIN sent'[g] = 1..Len(sent[g]) + 1
            /\ \A i \in 1..Len(sent[g]) : sent'[g][i] = sent[g][i]
            /\ sent'[g][Len(sent[g]) + 1] = NextMessage(g, q)
        BY <1>1, <4>1, <1>3, <3>1, Delivered
      <4>3. CASE n = NextMessage(g, q)
        <5>1. Deliveries(g, n)' = Deliveries(g, n) \cup {Len(sent[g]) + 1}
          BY <1>1, <4>2, <4>3 DEF Deliveries
        <5> QED
          BY <3>1, <4>3, <5>1
      <4>4. CASE n # NextMessage(g, q)
        <5>1. Deliveries(g, n)' = Deliveries(g, n)
          BY <1>1, <4>2, <4>4 DEF Deliveries
        <5> QED
          BY <5>1
      <4> QED
        BY <4>3, <4>4
    <3>2. CASE h # g
      BY <1>1, <2>1, <3>2 DEF Deliveries
    <3> QED
      BY <3>1, <3>2
  <2>2. CASE UNCHANGED sent
    BY <2>2 DEF Deliveries
  <2> QED
    BY <1>3, <2>1, <2>2, Delivered
<1>4. CASE UNCHANGED sent
  BY <1>2, <1>4 DEF Deliveries
<1> QED
  BY <1>2, <1>3, <1>4, Steps
  DEF Publish, DeleteTask, SweepStart, SweepCheck, SweepPublish, InsertRow, InsertFails, Announce, Commit,
      Crash, vars

(* Without a crash what is passed stays so, and a delivery passes one      *)
(* more.                                                                   *)
LEMMA PassedMoves ==
  ASSUME TypeOK, [Next]_vars, NEW g \in Delivering, NEW n, Naming(n)' = Naming(n), ~Crash
  PROVE  /\ Passed(g, n) \subseteq Passed(g, n)'
         /\ \A q \in CreatedQueue : Deliver(g, q) /\ n = NextMessage(g, q) =>
              \E p \in Passed(g, n)' : Passed(g, n) \subseteq Passed(g, n)' \ {p}
<1>1. /\ g \in Group /\ Topics(g) = CreatedQueue
      /\ \A q \in CreatedQueue : pos[g][q] \in Nat
  BY Queues DEF TypeOK, OffsetsOK
<1>2. \A p \in Naming(n) : p[1] \in CreatedQueue /\ p[2] \in Nat
  BY DEF Naming, Places
<1>3. ASSUME NEW h \in Group, NEW q \in Topics(h), Resolve(h, q)
      PROVE  /\ Passed(g, n) \subseteq Passed(g, n)'
             /\ h = g => /\ pos'[g][q] = pos[g][q] + 1
                         /\ \A p \in CreatedQueue \ {q} : pos'[g][p] = pos[g][p]
  <2>1. /\ pos'[h][q] = pos[h][q] + 1
        /\ \A i \in Group : \A p \in Topics(i) : (i # h \/ p # q) => pos'[i][p] = pos[i][p]
    BY <1>3, ResolveMoves DEF TypeOK
  <2>2. \A p \in CreatedQueue : pos'[g][p] = pos[g][p] \/ pos'[g][p] = pos[g][p] + 1
    BY <1>1, <2>1
  <2>3. ASSUME NEW p \in Passed(g, n)
        PROVE  p \in Passed(g, n)'
    <3>1. p \in Naming(n) /\ p[1] \in CreatedQueue /\ p[2] \in Nat /\ p[2] < pos[g][p[1]]
      BY <1>2 DEF Passed
    <3>2. p[2] < pos'[g][p[1]]
      BY <1>1, <2>2, <3>1
    <3> QED
      BY <3>1, <3>2 DEF Passed
  <2> QED
    BY <1>1, <2>1, <2>3
<1>4. ASSUME NEW q \in CreatedQueue, Deliver(g, q), n = NextMessage(g, q)
      PROVE  <<q, pos[g][q]>> \in Passed(g, n)' /\ <<q, pos[g][q]>> \notin Passed(g, n)
  <2>1. <<q, pos[g][q]>> \in Naming(n)
    BY <1>4, Delivered DEF Naming, Places, NextMessage
  <2>2. pos'[g][q] = pos[g][q] + 1
    BY <1>1, <1>3, <1>4 DEF Deliver
  <2> QED
    BY <1>1, <2>1, <2>2 DEF Passed
<1>5. Passed(g, n) \subseteq Passed(g, n)'
  <2>1. CASE UNCHANGED pos
    BY <2>1 DEF Passed
  <2>2. ASSUME NEW q \in TaskQueue, InsertFails(q) \/ Announce(q)
        PROVE  Passed(g, n) \subseteq Passed(g, n)'
    BY <1>3, <2>2, Queues DEF InsertFails, Announce, Group
  <2>3. ASSUME NEW h \in Delivering, NEW q \in CreatedQueue, Deliver(h, q)
        PROVE  Passed(g, n) \subseteq Passed(g, n)'
    BY <1>3, <2>3, Queues DEF Deliver
  <2> QED
    BY <2>1, <2>2, <2>3, Steps
    DEF Publish, DeleteTask, SweepStart, SweepCheck, SweepPublish, InsertRow, Commit, vars, offsets
<1> QED
  BY <1>4, <1>5

(* Every step keeps the bound on the deliveries.                           *)
LEMMA DeliveriesStep ==
  ASSUME TypeOK, OfferedOnce, DeliveriesInv, [Next]_vars
  PROVE  DeliveriesInv'
<1>1. LogOK /\ LogKept /\ CountersOK /\ CountersOK' /\ NeverLess /\ CreatedQueue \in SUBSET Queue
  BY LogGrows DEF TypeOK, Queue
<1>2. /\ Len(rows) \in Nat /\ Len(rows') \in Nat /\ Len(rows) <= Len(rows')
      /\ DOMAIN rows = 1..Len(rows) /\ DOMAIN rows' = 1..Len(rows')
  BY RowsGrow DEF TypeOK, RowsOK
<1> SUFFICES ASSUME NEW n \in Nat
             PROVE  /\ IsFiniteSet(Naming(n)') /\ Cardinality(Naming(n)') <= 1 + retried'
                    /\ n = working'.row \/ n \notin DOMAIN rows' => Naming(n)' = {}
                    /\ \A g \in Delivering :
                         Cardinality(Deliveries(g, n)') <= Cardinality(Naming(n)') * crashes'
                                                            + Cardinality(Passed(g, n)')
  BY DEF DeliveriesInv
<1>3. /\ IsFiniteSet(Naming(n)) /\ Cardinality(Naming(n)) <= 1 + retried
      /\ n = working.row \/ n \notin DOMAIN rows => Naming(n) = {}
      /\ crashes \in Nat
      /\ \A g \in Delivering :
           /\ IsFiniteSet(Deliveries(g, n))
           /\ Cardinality(Deliveries(g, n)) <= Cardinality(Naming(n)) * crashes + Cardinality(Passed(g, n))
  BY <1>1, DeliveriesMove DEF DeliveriesInv, CountersOK
<1>4. \A g \in Delivering : Passed(g, n) \in SUBSET Naming(n) /\ Passed(g, n)' \in SUBSET (Naming(n)')
  BY DEF Passed
<1>5. Cardinality(Naming(n)) <= 1 + retried'
  BY <1>1, <1>3, StillFew
<1>6. ASSUME NEW q \in TaskQueue, Announce(q), Grows(CreatedQueue, working.row)
      PROVE  /\ IsFiniteSet(Naming(n)') /\ Cardinality(Naming(n)') <= 1 + retried'
             /\ n = working'.row \/ n \notin DOMAIN rows' => Naming(n)' = {}
             /\ \A g \in Delivering :
                  Cardinality(Deliveries(g, n)') <= Cardinality(Naming(n)') * crashes'
                                                     + Cardinality(Passed(g, n)')
  <2>1. PICK N : /\ IsFiniteSet(N) /\ Cardinality(N) \in 0..2
                 /\ Cardinality(N) = 2 => retried' = retried + 1
                 /\ Places(CreatedQueue)' = Places(CreatedQueue) \cup N /\ N \cap Places(CreatedQueue) = {}
                 /\ \A p \in N : log'[p[1]][p[2]] = working.row
                 /\ \A p \in Places(CreatedQueue) : log'[p[1]][p[2]] = log[p[1]][p[2]]
    BY <1>1, <1>6, NewPlaces
  <2>2. Naming(n)' = IF n = working.row THEN Naming(n) \cup N ELSE Naming(n)
    BY <2>1 DEF Naming
  <2>3. working.row \in DOMAIN rows /\ working'.row = 0 /\ 0 \notin DOMAIN rows
        /\ UNCHANGED <<rows, sent, crashes>>
    BY <1>2, <1>6, Published DEF Announce, Idle
  <2>4. \A g \in Delivering : Deliveries(g, n)' = Deliveries(g, n)
    BY <2>3 DEF Deliveries
  <2>5. CASE n = working.row
    <3>1. Naming(n) = {} /\ Naming(n)' = N
      BY <1>3, <2>2, <2>5
    <3>2. Cardinality(N) <= 1 + retried'
      BY <1>1, <2>1, SentPlaces
    <3>3. \A g \in Delivering :
            Cardinality(Deliveries(g, n)) <= Cardinality(N) * crashes + Cardinality(Passed(g, n)')
      <4> TAKE g \in Delivering
      <4>1. /\ Passed(g, n) \in SUBSET Naming(n) /\ Passed(g, n)' \in SUBSET N
            /\ IsFiniteSet(Deliveries(g, n))
            /\ Cardinality(Deliveries(g, n)) <= Cardinality(Naming(n)) * crashes + Cardinality(Passed(g, n))
        BY <1>3, <1>4, <3>1
      <4> QED
        BY <1>3, <2>1, <3>1, <4>1, CountingFromNone
    <3> QED
      BY <2>1, <2>3, <2>4, <2>5, <3>1, <3>2, <3>3
  <2>6. CASE n # working.row
    <3>1. Naming(n)' = Naming(n)
      BY <2>2, <2>6
    <3>2. \A g \in Delivering : Passed(g, n)' = Passed(g, n)
      <4>1. \A g \in Delivering : g # "notification"
        BY DEF Delivering
      <4>2. \A g \in Delivering : pos'[g] = pos[g]
        BY <1>6, <4>1, Queues DEF Announce, Resolve, TypeOK, OffsetsOK
      <4> QED
        BY <3>1, <4>2 DEF Passed
    <3> QED
      BY <1>3, <1>5, <2>3, <2>4, <2>6, <3>1, <3>2
  <2> QED
    BY <2>5, <2>6
<1>7. CASE \A q \in CreatedQueue : log'[q] = log[q]
  <2>1. Places(CreatedQueue)' = Places(CreatedQueue)
        /\ \A p \in Places(CreatedQueue) : log'[p[1]][p[2]] = log[p[1]][p[2]]
    BY <1>7 DEF Places
  <2>2. Naming(n)' = Naming(n)
    BY <2>1 DEF Naming
  <2>3. n = working'.row \/ n \notin DOMAIN rows' => Naming(n)' = {}
    <3>1. working'.row = working.row \/ working'.row \notin DOMAIN rows
      <4>1. Idle.row = 0 /\ 0 \notin DOMAIN rows /\ Len(rows) + 1 \notin DOMAIN rows
        BY <1>2 DEF Idle
      <4>2. \A q \in TaskQueue : InsertRow(q) => working'.row = Len(rows) + 1
        BY DEF InsertRow
      <4> QED
        BY <4>1, <4>2, Steps
        DEF Publish, DeleteTask, SweepStart, SweepCheck, SweepPublish, Deliver, InsertFails, Announce, Commit,
            Crash, vars
    <3>2. DOMAIN rows \subseteq DOMAIN rows'
      BY <1>2
    <3> QED
      BY <1>3, <2>2, <3>1, <3>2
  <2>4. ASSUME NEW g \in Delivering
        PROVE  Cardinality(Deliveries(g, n)') <= Cardinality(Naming(n)) * crashes' + Cardinality(Passed(g, n)')
    <3>1. Passed(g, n) \in SUBSET Naming(n) /\ Passed(g, n)' \in SUBSET Naming(n)
      BY <1>4, <2>2
    <3>2. /\ Passed(g, n) \subseteq Passed(g, n)' =>
               Cardinality(Deliveries(g, n)) <= Cardinality(Naming(n)) * crashes + Cardinality(Passed(g, n)')
          /\ \A p \in Passed(g, n)' : \A x : Passed(g, n) \subseteq Passed(g, n)' \ {p} =>
               Cardinality(Deliveries(g, n) \cup {x}) <= Cardinality(Naming(n)) * crashes
                                                           + Cardinality(Passed(g, n)')
          /\ Cardinality(Deliveries(g, n)) <= Cardinality(Naming(n)) * (crashes + 1)
                                                + Cardinality(Passed(g, n)')
      BY <1>3, <3>1, Counting
    <3>3. CASE Crash
      <4>1. crashes' = crashes + 1 /\ Deliveries(g, n)' = Deliveries(g, n)
        BY <3>3 DEF Crash, Deliveries
      <4> QED
        BY <3>2, <4>1
    <3>4. CASE ~Crash
      <4>1. crashes' = crashes
        BY <3>4, Steps
        DEF Publish, DeleteTask, SweepStart, SweepCheck, SweepPublish, Deliver, InsertRow, InsertFails,
            Announce, Commit, vars
      <4>2. /\ Passed(g, n) \subseteq Passed(g, n)'
            /\ \A q \in CreatedQueue : Deliver(g, q) /\ n = NextMessage(g, q) =>
                 \E p \in Passed(g, n)' : Passed(g, n) \subseteq Passed(g, n)' \ {p}
        BY <2>2, <3>4, PassedMoves
      <4> QED
        BY <3>2, <4>1, <4>2, DeliveriesMove
    <3> QED
      BY <3>3, <3>4
  <2> QED
    BY <1>3, <1>5, <2>2, <2>3, <2>4
<1>8. ASSUME NEW m, Grows(TaskQueue, m)
      PROVE  \A q \in CreatedQueue : log'[q] = log[q]
  BY <1>1, <1>8, Queues DEF Grows, Queue
<1> QED
  BY <1>6, <1>7, <1>8, Sends

(* At the start there is nothing to count.                                 *)
LEMMA InitCounts == ASSUME Init PROVE CopiesInv /\ DeliveriesInv
<1>1. /\ \A q \in Queue : log[q] = <<>> /\ Len(log[q]) = 0
      /\ rows = <<>> /\ crashes = 0 /\ retried = 0 /\ DOMAIN rows = {}
      /\ \A g \in Delivering : sent[g] = <<>> /\ DOMAIN sent[g] = {}
  BY DEF Init, Delivering
<1>2. Places(TaskQueue) = {} /\ Places(CreatedQueue) = {}
  BY <1>1 DEF Places, Queue
<1>3. \A e : Of(e) = {} /\ Begun(e) = {} /\ Copies(e) = {}
  BY <1>1, <1>2 DEF Of, Begun, Copies
<1>4. \A n : Naming(n) = {} /\ \A g \in Delivering : Passed(g, n) = {} /\ Deliveries(g, n) = {}
  BY <1>1, <1>2 DEF Naming, Passed, Deliveries
<1>5. \A A, B, C : A = {} /\ B = {} /\ C = {} =>
        /\ IsFiniteSet(A) /\ Cardinality(A) <= 1 + retried
        /\ Cardinality(C) <= Cardinality(A) * crashes + Cardinality(B)
  <2>1. IsFiniteSet({}) /\ Cardinality({}) = 0
    BY FS_EmptySet
  <2>2. 0 <= 1 + 0 /\ 0 <= 0 * 0 + 0
    OBVIOUS
  <2> QED
    BY <1>1, <2>1, <2>2
<1>6. CopiesInv
  BY <1>3, <1>5 DEF CopiesInv
<1>7. DeliveriesInv
  BY <1>4, <1>5 DEF DeliveriesInv
<1> QED
  BY <1>6, <1>7

(* What the counts come to.                                                *)
LEMMA AtMost ==
  ASSUME NEW O, IsFiniteSet(O), NEW B \in SUBSET O, NEW C, IsFiniteSet(C), CountersOK,
         Cardinality(O) <= 1 + retried, Cardinality(C) <= Cardinality(O) * crashes + Cardinality(B)
  PROVE  Cardinality(C) <= (1 + retried) * (1 + crashes)
<1>1. /\ Cardinality(O) \in Nat /\ Cardinality(B) \in Nat /\ Cardinality(C) \in Nat
      /\ Cardinality(B) <= Cardinality(O) /\ crashes \in Nat /\ retried \in Nat
  BY FS_Subset, FS_CardinalityType DEF CountersOK
<1>2. \A i, j, k, c, b \in Nat : i <= 1 + j /\ b <= i /\ c <= i * k + b => c <= (1 + j) * (1 + k)
  <2> TAKE i, j, k, c, b \in Nat
  <2> HAVE i <= 1 + j /\ b <= i /\ c <= i * k + b
  <2>1. i * k <= (1 + j) * k /\ i * k \in Nat /\ (1 + j) * k \in Nat
    BY Products
  <2>2. (1 + j) * (1 + k) = (1 + j) * k + (1 + j)
    BY Products
  <2> QED
    BY <2>1, <2>2
<1> QED
  BY <1>1, <1>2

(* An event makes a second row, and a row a second push or mail, only when *)
(* a send was repeated or a crash made Kafka hand the message out again;   *)
(* and never more of them than that allows.                                *)
THEOREM RepeatsHaveCauses == Spec => []DuplicatesNeedFaults
<1>1. ASSUME TypeOK, CopiesInv, DeliveriesInv
      PROVE  DuplicatesNeedFaults
  <2>1. ASSUME NEW n \in DOMAIN rows
        PROVE  Cardinality(Copies(rows[n].event)) <= (1 + retried) * (1 + crashes)
    <3> DEFINE e == rows[n].event
    <3>1. CASE e \in Source
      <4>1. /\ IsFiniteSet(Of(e)) /\ Cardinality(Of(e)) <= 1 + retried
            /\ Cardinality(Copies(e)) <= Cardinality(Of(e)) * crashes + Cardinality(Begun(e))
            /\ Begun(e) \in SUBSET Of(e) /\ IsFiniteSet(Copies(e))
        BY <1>1, <3>1, Finite DEF CopiesInv, Begun
      <4> QED
        BY <1>1, <4>1, AtMost DEF TypeOK
    <3>2. e \in Source
      <4>1. rows[n] \in Row
        BY <1>1 DEF TypeOK, RowsOK
      <4> QED
        BY <4>1 DEF Row
    <3> QED
      BY <3>1, <3>2
  <2>2. ASSUME NEW g \in Delivering, NEW n \in DOMAIN rows
        PROVE  Cardinality(Deliveries(g, n)) <= (1 + retried) * (1 + crashes)
    <3>1. n \in Nat
      BY <1>1 DEF TypeOK, RowsOK
    <3>2. /\ IsFiniteSet(Naming(n)) /\ Cardinality(Naming(n)) <= 1 + retried
          /\ Cardinality(Deliveries(g, n)) <= Cardinality(Naming(n)) * crashes + Cardinality(Passed(g, n))
          /\ Passed(g, n) \in SUBSET Naming(n) /\ IsFiniteSet(Deliveries(g, n))
      BY <1>1, <3>1, Finite DEF DeliveriesInv, Passed
    <3> QED
      BY <1>1, <3>2, AtMost DEF TypeOK
  <2>3. DOMAIN sent = Delivering
    BY <1>1 DEF TypeOK, RowsOK
  <2> QED
    BY <2>1, <2>2, <2>3 DEF DuplicatesNeedFaults
<1> QED
  BY <1>1, InitTypes, InitCounts, TypeStep, OfferedStep, CopiesStep, DeliveriesStep, PTL DEF Spec

=============================================================================
