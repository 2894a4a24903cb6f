------------------------------- MODULE Server -------------------------------
(***************************************************************************)
(* The life of one API process (server.ts): it connects to PostgreSQL,     *)
(* Redis and Kafka, listens, and on a signal shuts down in the opposite    *)
(* order, while requests, websockets and consumers are at work.  What a    *)
(* request is about is in the other modules.                               *)
(***************************************************************************)
EXTENDS Naturals, Sequences, FiniteSets

CONSTANTS
  Request,     \* requests the process can be handling at a time
  Socket,      \* websockets clients can hold open
  Signal,      \* SIGTERM, SIGINT: each sent at most once to a process
  MaxStarts    \* bound on the starts of the process

VARIABLES
  stage,       \* how far start() has come
  clients,     \* the Kafka clients that are connected
  kafkaReady,  \* server.ts's flag
  db,          \* Prisma is connected
  accepting,   \* the HTTP server takes new connections
  shutdown,    \* where the shutdown of each signal is
  open,        \* requests being handled and websockets: open connections
  consuming,   \* the notification consumer is inside eachMessage
  early,       \* history: a signal came before the server listened
  starts       \* starts so far

vars == <<stage, clients, kafkaReady, db, accepting, shutdown, open, consuming, early, starts>>

(* The order of startKafka.                                                *)
Client == <<"producer", "notification", "socket", "email">>
Consumer == {"notification", "socket", "email"}

ASSUME ServerAssumption == Request \cap Socket = {} /\ MaxStarts \in Nat \ {0}

NoShutdown == [s \in Signal |-> "none"]
Asked == \E s \in Signal : shutdown[s] # "none"
Alive == stage \notin {"down", "exited"}

Init ==
  /\ stage = "down" /\ clients = {} /\ kafkaReady = FALSE /\ db = FALSE
  /\ accepting = FALSE /\ shutdown = NoShutdown
  /\ open = {} /\ consuming = FALSE
  /\ early = FALSE /\ starts = 0

-----------------------------------------------------------------------------

(* start(): connect to PostgreSQL and to Redis, start Kafka, listen.  What *)
(* fails before Kafka ends the process; a Kafka client that fails only     *)
(* ends startKafka, with those before it connected and kafkaReady unset.   *)
Boot ==
  /\ stage \in {"down", "exited"} /\ starts < MaxStarts
  /\ stage' = "prisma" /\ starts' = starts + 1
  /\ shutdown' = NoShutdown /\ early' = FALSE
  /\ UNCHANGED <<clients, kafkaReady, db, accepting, open, consuming>>

(* What is left of a process that has ended.                               *)
Ended ==
  /\ stage' = "exited" /\ clients' = {} /\ kafkaReady' = FALSE /\ db' = FALSE
  /\ accepting' = FALSE /\ open' = {} /\ consuming' = FALSE
  /\ UNCHANGED <<shutdown, early, starts>>

Connect ==
  /\ stage \in {"prisma", "redis"}
  /\ \/ /\ stage' = IF stage = "prisma" THEN "redis" ELSE "kafka"
        /\ db' = (db \/ stage = "prisma")
        /\ UNCHANGED <<clients, kafkaReady, early, starts, accepting, shutdown, open, consuming>>
     \/ Ended

StartClient ==
  /\ stage = "kafka"
  /\ \/ LET n == Cardinality(clients) + 1
        IN  /\ clients' = clients \cup {Client[n]}
            /\ stage' = IF n = Len(Client) THEN "ready" ELSE stage
            /\ kafkaReady' = (n = Len(Client))
     \/ stage' = "ready" /\ UNCHANGED <<clients, kafkaReady>>
  /\ UNCHANGED <<db, early, starts, accepting, shutdown, open, consuming>>

(* A close event that is due is delivered before the next I/O.             *)
Listen ==
  /\ stage = "ready" /\ \A s \in Signal : shutdown[s] # "closing"
  /\ stage' = "up" /\ accepting' = TRUE
  /\ UNCHANGED <<clients, kafkaReady, db, early, starts, shutdown, open, consuming>>

(* A message arrives at the notification consumer, which works on it and   *)
(* is done; consumer.disconnect() waits for the second.                    *)
Consume ==
  /\ "notification" \in clients
  /\ consuming' = ~consuming
  /\ UNCHANGED <<stage, clients, kafkaReady, db, accepting, shutdown, open, early, starts>>

-----------------------------------------------------------------------------

(* shutdown(signal): server.close stops listening and calls back when the  *)
(* last connection is gone; each signal brings a callback of its own.      *)
Kill(s) ==
  /\ Alive /\ shutdown[s] = "none"
  /\ shutdown' = [shutdown EXCEPT ![s] = "closing"]
  /\ accepting' = FALSE
  /\ early' = (early \/ stage # "up")
  /\ UNCHANGED <<stage, clients, kafkaReady, db, starts, open, consuming>>

Goto(s, label) == shutdown' = [shutdown EXCEPT ![s] = label]

(* Mutants of Closed: the connections are not waited for; a server that    *)
(* never listened has nothing to close.                                    *)
ClosedAtOnce(s) ==
  /\ shutdown[s] = "closing"
  /\ Goto(s, IF kafkaReady THEN "consumers" ELSE "prisma")
  /\ UNCHANGED <<stage, clients, kafkaReady, db, early, starts, accepting, open, consuming>>

ClosedIfUp(s) ==
  /\ shutdown[s] = "closing" /\ stage = "up" /\ ~accepting
  /\ open = {}
  /\ Goto(s, IF kafkaReady THEN "consumers" ELSE "prisma")
  /\ UNCHANGED <<stage, clients, kafkaReady, db, early, starts, accepting, open, consuming>>

Closed(s) ==
  /\ shutdown[s] = "closing" /\ ~accepting
  /\ open = {}
  /\ Goto(s, IF kafkaReady THEN "consumers" ELSE "prisma")
  /\ UNCHANGED <<stage, clients, kafkaReady, db, early, starts, accepting, open, consuming>>

StopConsumers(s) ==
  /\ shutdown[s] = "consumers" /\ ~consuming
  /\ clients' = clients \ Consumer
  /\ Goto(s, "producer")
  /\ UNCHANGED <<stage, kafkaReady, db, early, starts, accepting, open, consuming>>

DisconnectProducer(s) ==
  /\ shutdown[s] = "producer"
  /\ clients' = clients \ {"producer"}
  /\ Goto(s, "prisma")
  /\ UNCHANGED <<stage, kafkaReady, db, early, starts, accepting, open, consuming>>

DisconnectPrisma(s) ==
  /\ shutdown[s] = "prisma"
  /\ db' = FALSE
  /\ Goto(s, "exit")
  /\ UNCHANGED <<stage, clients, kafkaReady, early, starts, accepting, open, consuming>>

(* process.exit, or an unhandled rejection of one of the awaits above.     *)
Exit(s) == shutdown[s] \in {"consumers", "producer", "prisma", "exit"} /\ Alive /\ Ended

Shutdown(s) ==
  Alive /\ (Closed(s) \/ StopConsumers(s) \/ DisconnectProducer(s) \/ DisconnectPrisma(s) \/ Exit(s))

-----------------------------------------------------------------------------

(* Requests come and are answered; websockets come and go.                 *)
Open(c) ==
  /\ accepting /\ c \notin open
  /\ open' = open \cup {c}
  /\ UNCHANGED <<stage, clients, kafkaReady, db, accepting, shutdown, consuming, early, starts>>

Close(c) ==
  /\ c \in open
  /\ open' = open \ {c}
  /\ UNCHANGED <<stage, clients, kafkaReady, db, accepting, shutdown, consuming, early, starts>>

Next ==
  \/ Boot \/ Connect \/ StartClient \/ Listen \/ Consume
  \/ \E s \in Signal : Kill(s) \/ Shutdown(s)
  \/ \E c \in Request \cup Socket : Open(c) \/ Close(c)

(* start, shutdown, the handlers and the consumers run on.  Nobody has to  *)
(* send a request or a signal, or to leave a websocket.                    *)
Fairness ==
  /\ WF_vars(Connect) /\ WF_vars(StartClient) /\ WF_vars(Listen)
  /\ WF_vars(consuming /\ Consume)
  /\ \A s \in Signal : WF_vars(Shutdown(s))
  /\ \A r \in Request : WF_vars(Close(r))

Spec == Init /\ [][Next]_vars /\ Fairness

-----------------------------------------------------------------------------

(* The shutdown takes the database away last: no request, and no consumer  *)
(* in the middle of a message, is left without it.  Two cases escape: a    *)
(* process that was told to stop before it listened, and one whose Kafka   *)
(* start failed half way, which does not stop the consumers it has.        *)
NothingLeftBehind ==
  (Asked /\ Alive /\ ~db) =>
    /\ early \/ open \cap Request = {}
    /\ early \/ "notification" \notin clients \/ ~kafkaReady

(* A process that was asked to stop does, once no websocket is open: the   *)
(* shutdown waits for requests in flight and for messages being handled,   *)
(* and nothing waits for it.                                               *)
StopsWhenAsked == (Asked /\ Alive /\ open \cap Socket = {}) ~> (stage = "exited")
=============================================================================
