---------------------------- MODULE ServerProofs ----------------------------
(***************************************************************************)
(* Theorems about module Server, for any numbers of requests, websockets,  *)
(* signals and starts: the shutdown takes the database away last, and no   *)
(* consumer runs without the producer.                                     *)
(***************************************************************************)
EXTENDS Server, FiniteSetTheorems, TLAPS

Labels == {"none", "closing", "consumers", "producer", "prisma", "exit"}
PastClose == {"consumers", "producer", "prisma", "exit"}
PastConsumers == {"producer", "prisma", "exit"}

TypeOK ==
  /\ shutdown \in [Signal -> Labels]
  /\ early \in BOOLEAN /\ db \in BOOLEAN /\ kafkaReady \in BOOLEAN

(* What a process that was told to stop no earlier than it listened has    *)
(* behind it at each point of its shutdown.                                *)
InOrder ==
  /\ Asked => stage = "up" /\ ~accepting
  /\ \A s \in Signal : shutdown[s] \in PastClose => open = {}
  /\ \A s \in Signal :
       (shutdown[s] \in PastConsumers /\ kafkaReady) => "notification" \notin clients
  /\ stage # "prisma" => db \/ \E s \in Signal : shutdown[s] = "exit"

OrderInv == TypeOK /\ (Alive /\ ~early => InOrder)

-----------------------------------------------------------------------------

(* A process that has ended has nothing to keep in order.                  *)
LEMMA EndedKeepsOrder ==
  ASSUME TypeOK, Ended
  PROVE  OrderInv'
BY DEF TypeOK, Ended, OrderInv, Alive

(* The steps of start(): nobody has asked yet, or it was too early.        *)
LEMMA StartKeepsOrder ==
  ASSUME OrderInv, Boot \/ Connect \/ StartClient \/ Listen
  PROVE  OrderInv'
<1>1. CASE Boot
  <2>1. TypeOK'
    BY <1>1 DEF Boot, OrderInv, TypeOK, NoShutdown, Labels
  <2>2. ~Asked'
    BY <1>1 DEF Boot, Asked, NoShutdown
  <2>3. stage' = "prisma" /\ \A s \in Signal : shutdown'[s] = "none"
    BY <1>1 DEF Boot, NoShutdown
  <2> QED
    BY <2>1, <2>2, <2>3 DEF OrderInv, InOrder, PastClose, PastConsumers
<1>2. CASE ~Alive' \/ early'
  <2>1. TypeOK'
    BY <1>2 DEF OrderInv, TypeOK, Boot, Connect, Ended, StartClient, Listen, NoShutdown, Labels
  <2> QED
    BY <1>2, <2>1 DEF OrderInv
<1>3. CASE Alive' /\ ~early' /\ ~Boot
  <2>1. Alive /\ ~early /\ UNCHANGED shutdown
    BY <1>3 DEF Connect, Ended, StartClient, Listen, Alive
  <2>2. InOrder
    BY <2>1 DEF OrderInv
  <2>3. stage # "up"
    BY <1>3 DEF Connect, StartClient, Listen
  <2>4. ~Asked
    BY <2>2, <2>3 DEF InOrder
  <2>5. \A s \in Signal : shutdown[s] = "none"
    BY <2>4 DEF Asked
  <2>6. TypeOK'
    BY <1>3 DEF OrderInv, TypeOK, Connect, Ended, StartClient, Listen
  <2>7. stage' # "prisma" => db'
    BY <1>3, <2>2, <2>5 DEF InOrder, Connect, Ended, StartClient, Listen, Alive
  <2> QED
    BY <2>1, <2>5, <2>6, <2>7 DEF OrderInv, InOrder, Asked, PastClose, PastConsumers
<1> QED
  BY <1>1, <1>2, <1>3 DEF OrderInv, TypeOK, Boot, Connect, Ended, StartClient, Listen

(* A signal: the first one that comes in time finds the database there.    *)
LEMMA KillKeepsOrder ==
  ASSUME OrderInv, NEW s \in Signal, Kill(s)
  PROVE  OrderInv'
<1>1. TypeOK'
  BY DEF Kill, OrderInv, TypeOK, Labels
<1>2. ASSUME Alive', ~early'
      PROVE  InOrder'
  <2>1. Alive /\ ~early /\ stage = "up"
    BY <1>2 DEF Kill, Alive, OrderInv, TypeOK
  <2>2. InOrder
    BY <2>1 DEF OrderInv
  <2>3. stage' = "up" /\ ~accepting'
    BY <2>1 DEF Kill
  <2>4. \A t \in Signal : shutdown'[t] \in PastClose => shutdown[t] = shutdown'[t]
    BY DEF Kill, OrderInv, TypeOK, PastClose
  <2>5. \A t \in Signal : shutdown[t] = "exit" => shutdown'[t] = "exit"
    BY DEF Kill, OrderInv, TypeOK
  <2>6. UNCHANGED <<open, clients, kafkaReady, db>>
    BY DEF Kill
  <2> QED
    BY <2>1, <2>2, <2>3, <2>4, <2>5, <2>6 DEF InOrder, PastClose, PastConsumers
<1> QED
  BY <1>1, <1>2 DEF OrderInv

(* The steps of the callback: each is taken with the one before it done.   *)
LEMMA ShutdownKeepsOrder ==
  ASSUME OrderInv, NEW s \in Signal, Shutdown(s)
  PROVE  OrderInv'
<1> USE DEF PastClose, PastConsumers
<1>1. CASE Exit(s)
  BY <1>1, EndedKeepsOrder DEF Exit, OrderInv
<1>2. CASE ~Exit(s)
  <2>1. TypeOK' /\ UNCHANGED <<stage, accepting, kafkaReady, early, open>> /\ Alive
    BY <1>2 DEF Shutdown, Closed, StopConsumers, DisconnectProducer, DisconnectPrisma, Goto,
                OrderInv, TypeOK, Labels
  <2>2. ASSUME ~early
        PROVE  InOrder'
    <3>1. InOrder
      BY <2>1, <2>2 DEF OrderInv
    <3>2. Asked
      BY <1>2 DEF Shutdown, Closed, StopConsumers, DisconnectProducer, DisconnectPrisma, Asked
    <3>3. stage' = "up" /\ ~accepting'
      BY <2>1, <3>1, <3>2 DEF InOrder
    <3>4. \A t \in Signal \ {s} : shutdown'[t] = shutdown[t]
      BY <1>2 DEF Shutdown, Closed, StopConsumers, DisconnectProducer, DisconnectPrisma, Goto,
                  OrderInv, TypeOK
    <3>5. open' = {}
      BY <1>2, <2>1, <3>1 DEF Shutdown, Closed, StopConsumers, DisconnectProducer,
                              DisconnectPrisma, InOrder
    <3>6. clients' \subseteq clients
      BY <1>2 DEF Shutdown, Closed, StopConsumers, DisconnectProducer, DisconnectPrisma
    <3>7. (shutdown'[s] \in PastConsumers /\ kafkaReady) => "notification" \notin clients'
      <4>1. CASE Closed(s)
        BY <4>1 DEF Closed, Goto, OrderInv, TypeOK
      <4>2. CASE StopConsumers(s)
        BY <4>2 DEF StopConsumers, Consumer
      <4>3. CASE DisconnectProducer(s) \/ DisconnectPrisma(s)
        BY <4>3, <3>1, <3>6 DEF DisconnectProducer, DisconnectPrisma, InOrder
      <4> QED
        BY <1>2, <4>1, <4>2, <4>3 DEF Shutdown
    <3>8. db' \/ \E t \in Signal : shutdown'[t] = "exit"
      <4>1. CASE DisconnectPrisma(s)
        BY <4>1 DEF DisconnectPrisma, Goto, OrderInv, TypeOK
      <4>2. CASE ~DisconnectPrisma(s)
        <5>1. UNCHANGED db /\ shutdown[s] # "exit"
          BY <1>2, <4>2 DEF Shutdown, Closed, StopConsumers, DisconnectProducer
        <5>2. db \/ \E t \in Signal : shutdown[t] = "exit"
          BY <2>1, <3>1, <3>3 DEF InOrder
        <5> QED
          BY <3>4, <5>1, <5>2
      <4> QED
        BY <4>1, <4>2
    <3> QED
      BY <2>1, <3>1, <3>3, <3>4, <3>5, <3>6, <3>7, <3>8 DEF InOrder
  <2> QED
    BY <2>1, <2>2 DEF OrderInv
<1> QED
  BY <1>1, <1>2

(* Connections and messages: a server that was asked opens no more.        *)
LEMMA TrafficKeepsOrder ==
  ASSUME OrderInv,
         Consume \/ \E c \in Request \cup Socket : Open(c) \/ Close(c)
  PROVE  OrderInv'
<1>1. UNCHANGED <<stage, clients, kafkaReady, db, accepting, shutdown, early>>
  BY DEF Consume, Open, Close
<1>2. TypeOK'
  BY <1>1 DEF OrderInv, TypeOK
<1>3. (open' = {}) \/ (open # {}) \/ accepting
  BY DEF Consume, Open, Close
<1>4. ASSUME Alive', ~early'
      PROVE  InOrder'
  <2>1. InOrder
    BY <1>1, <1>4 DEF OrderInv, Alive
  <2>2. \A s \in Signal : shutdown[s] \in PastClose => Asked
    BY DEF Asked, PastClose
  <2> QED
    BY <1>1, <1>3, <2>1, <2>2 DEF InOrder, Asked
<1> QED
  BY <1>2, <1>4 DEF OrderInv

(* Whatever fails to start and whenever the signals come, OrderInv holds.  *)
LEMMA StepsKeepOrder == OrderInv /\ [Next]_vars => OrderInv'
<1> SUFFICES ASSUME OrderInv, [Next]_vars
             PROVE  OrderInv'
  OBVIOUS
<1>1. CASE Boot \/ Connect \/ StartClient \/ Listen
  BY <1>1, StartKeepsOrder
<1>2. CASE Consume \/ \E c \in Request \cup Socket : Open(c) \/ Close(c)
  BY <1>2, TrafficKeepsOrder
<1>3. CASE \E s \in Signal : Kill(s)
  BY <1>3, KillKeepsOrder
<1>4. CASE \E s \in Signal : Shutdown(s)
  BY <1>4, ShutdownKeepsOrder
<1>5. CASE UNCHANGED vars
  BY <1>5 DEF vars, OrderInv, TypeOK, InOrder, Alive, Asked
<1> QED
  BY <1>1, <1>2, <1>3, <1>4, <1>5 DEF Next

(* shutdown() takes the database away last: requests, and the consumer in  *)
(* the middle of a message, never lose it to a signal that came in time.   *)
THEOREM DatabaseGoesLast == Spec => []NothingLeftBehind
<1>1. Init => OrderInv
  BY DEF Init, OrderInv, TypeOK, NoShutdown, Labels, Alive
<1>2. OrderInv => NothingLeftBehind
  BY DEF OrderInv, InOrder, NothingLeftBehind, PastClose, PastConsumers
<1> QED
  BY <1>1, <1>2, StepsKeepOrder, PTL DEF Spec

-----------------------------------------------------------------------------
(* The Kafka clients.                                                      *)

(* The clients that are connected are the first so many of startKafka.     *)
Connected ==
  {{}, {"producer"}, {"producer", "notification"}, {"producer", "notification", "socket"},
   {"producer", "notification", "socket", "email"}}

ClientsInOrder == clients \in Connected

(* Why: they connect one by one before there is a kafkaReady for a shutdown *)
(* to go by, and of two shutdowns that disconnect them the later one finds *)
(* the consumers gone where the earlier one left them.                     *)
ClientsInv ==
  /\ TypeOK
  /\ ClientsInOrder
  /\ kafkaReady => stage \in {"ready", "up"}
  /\ stage \in {"down", "exited", "prisma", "redis"} => clients = {}
  /\ stage = "kafka" => clients # {"producer", "notification", "socket", "email"}
  /\ Alive => \A s \in Signal :
       /\ shutdown[s] \in {"consumers", "producer"} => kafkaReady
       /\ shutdown[s] = "producer" => clients \subseteq {"producer"}

(* What a set of clients has connected and what comes next.                *)
LEMMA NextClient ==
  /\ Client[1] = "producer" /\ Client[2] = "notification" /\ Client[3] = "socket"
  /\ Client[4] = "email" /\ Len(Client) = 4
  /\ Cardinality({}) = 0 /\ Cardinality({"producer"}) = 1
  /\ Cardinality({"producer", "notification"}) = 2
  /\ Cardinality({"producer", "notification", "socket"}) = 3
<1>1. /\ Client[1] = "producer" /\ Client[2] = "notification" /\ Client[3] = "socket"
      /\ Client[4] = "email" /\ Len(Client) = 4
  BY DEF Client
<1>2. IsFiniteSet({}) /\ Cardinality({}) = 0
  BY FS_EmptySet
<1>3. IsFiniteSet({"producer"}) /\ Cardinality({"producer"}) = 1
  BY FS_Singleton
<1>4. /\ IsFiniteSet({"producer", "notification"})
      /\ Cardinality({"producer", "notification"}) = 2
  <2>1. {"producer", "notification"} = {"producer"} \cup {"notification"}
    OBVIOUS
  <2> QED
    BY <1>3, <2>1, FS_AddElement
<1>5. Cardinality({"producer", "notification", "socket"}) = 3
  <2>1. /\ {"producer", "notification", "socket"} = {"producer", "notification"} \cup {"socket"}
        /\ "socket" \notin {"producer", "notification"}
    OBVIOUS
  <2> QED
    BY <1>4, <2>1, FS_AddElement
<1> QED
  BY <1>1, <1>2, <1>3, <1>4, <1>5

(* start(): the next client, or none any more.                             *)
LEMMA StartConnectsInOrder ==
  ASSUME ClientsInv, Boot \/ Connect \/ StartClient \/ Listen
  PROVE  ClientsInv'
<1>1. CASE Boot
  BY <1>1 DEF Boot, NoShutdown, ClientsInv, ClientsInOrder, TypeOK, Labels, Alive
<1>2. CASE Connect
  <2>1. CASE Ended
    BY <2>1 DEF Ended, ClientsInv, ClientsInOrder, Connected, TypeOK, Alive
  <2>2. CASE ~Ended
    <3>1. /\ stage \in {"prisma", "redis"} /\ stage' \in {"redis", "kafka"}
          /\ db' = (db \/ stage = "prisma")
          /\ UNCHANGED <<clients, kafkaReady, early, shutdown>>
      BY <1>2, <2>2 DEF Connect
    <3>2. clients' = {} /\ clients' \in Connected /\ TypeOK'
      BY <3>1 DEF ClientsInv, Connected, TypeOK
    <3> QED
      BY <3>1, <3>2 DEF ClientsInv, ClientsInOrder, Alive
  <2> QED
    BY <2>1, <2>2
<1>3. CASE StartClient
  <2>1. stage = "kafka" /\ ~kafkaReady /\ clients \in Connected
        /\ clients # {"producer", "notification", "socket", "email"}
    BY <1>3 DEF StartClient, ClientsInv, ClientsInOrder
  <2>2. CASE stage' = "ready" /\ UNCHANGED <<clients, kafkaReady>>
    BY <1>3, <2>1, <2>2 DEF StartClient, ClientsInv, ClientsInOrder, TypeOK, Alive
  <2>3. ASSUME NEW n, n = Cardinality(clients) + 1, clients' = clients \cup {Client[n]},
               stage' = IF n = Len(Client) THEN "ready" ELSE stage,
               kafkaReady' = (n = Len(Client))
        PROVE  ClientsInv'
    <3>1. /\ clients' \in Connected
          /\ kafkaReady' \in BOOLEAN
          /\ kafkaReady' => stage' = "ready"
          /\ ~kafkaReady' => /\ stage' = "kafka"
                             /\ clients' # {"producer", "notification", "socket", "email"}
      <4>1. CASE clients = {}
        <5>1. n = 1 /\ clients' = clients \cup {"producer"}
          BY <2>3, <4>1, NextClient
        <5> QED
          BY <2>1, <2>3, <4>1, <5>1, NextClient DEF Connected
      <4>2. CASE clients = {"producer"}
        <5>1. n = 2 /\ clients' = clients \cup {"notification"}
          BY <2>3, <4>2, NextClient
        <5> QED
          BY <2>1, <2>3, <4>2, <5>1, NextClient DEF Connected
      <4>3. CASE clients = {"producer", "notification"}
        <5>1. n = 3 /\ clients' = clients \cup {"socket"}
          BY <2>3, <4>3, NextClient
        <5> QED
          BY <2>1, <2>3, <4>3, <5>1, NextClient DEF Connected
      <4>4. CASE clients = {"producer", "notification", "socket"}
        <5>1. n = 4 /\ clients' = clients \cup {"email"}
          BY <2>3, <4>4, NextClient
        <5> QED
          BY <2>1, <2>3, <4>4, <5>1, NextClient DEF Connected
      <4> QED
        BY <2>1, <4>1, <4>2, <4>3, <4>4 DEF Connected
    <3>2. \A s \in Signal : shutdown[s] \notin {"consumers", "producer"}
      BY <2>1 DEF ClientsInv, Alive
    <3> QED
      BY <1>3, <2>1, <3>1, <3>2 DEF StartClient, ClientsInv, ClientsInOrder, TypeOK
  <2> QED
    BY <1>3, <2>2, <2>3 DEF StartClient
<1>4. CASE Listen
  BY <1>4 DEF Listen, ClientsInv, ClientsInOrder, TypeOK, Alive
<1> QED
  BY <1>1, <1>2, <1>3, <1>4

(* shutdown: the consumers go together and before the producer.            *)
LEMMA ShutdownDisconnectsInOrder ==
  ASSUME ClientsInv, NEW s \in Signal, Kill(s) \/ Shutdown(s)
  PROVE  ClientsInv'
<1>1. Alive /\ shutdown \in [Signal -> Labels]
  BY DEF Kill, Shutdown, ClientsInv, ClientsInOrder, TypeOK
<1>2. CASE Kill(s)
  BY <1>1, <1>2 DEF Kill, ClientsInv, ClientsInOrder, TypeOK, Alive, Labels
<1>3. CASE Closed(s)
  <2>1. shutdown' = [shutdown EXCEPT ![s] = IF kafkaReady THEN "consumers" ELSE "prisma"]
    BY <1>3 DEF Closed, Goto
  <2> QED
    BY <1>1, <1>3, <2>1 DEF Closed, ClientsInv, ClientsInOrder, TypeOK, Alive, Labels
<1>4. CASE StopConsumers(s)
  <2>1. kafkaReady /\ stage \in {"ready", "up"}
    BY <1>1, <1>4 DEF StopConsumers, ClientsInv
  <2>2. clients' = clients \ {"notification", "socket", "email"}
    BY <1>4 DEF StopConsumers, Consumer
  <2>3. clients' \in {{}, {"producer"}}
    BY <2>2 DEF ClientsInv, ClientsInOrder, Connected
  <2>4. UNCHANGED <<stage, kafkaReady, db, early>> /\ shutdown' = [shutdown EXCEPT ![s] = "producer"]
    BY <1>4 DEF StopConsumers, Goto
  <2> QED
    BY <1>1, <2>1, <2>3, <2>4 DEF ClientsInv, ClientsInOrder, Connected, TypeOK, Alive, Labels
<1>5. CASE DisconnectProducer(s)
  <2>1. kafkaReady /\ stage \in {"ready", "up"} /\ clients \subseteq {"producer"}
    BY <1>1, <1>5 DEF DisconnectProducer, ClientsInv
  <2>2. clients' = {}
    BY <1>5, <2>1 DEF DisconnectProducer
  <2>3. UNCHANGED <<stage, kafkaReady, db, early>> /\ shutdown' = [shutdown EXCEPT ![s] = "prisma"]
    BY <1>5 DEF DisconnectProducer, Goto
  <2> QED
    BY <1>1, <2>1, <2>2, <2>3 DEF ClientsInv, ClientsInOrder, Connected, TypeOK, Alive, Labels
<1>6. CASE DisconnectPrisma(s)
  BY <1>1, <1>6 DEF DisconnectPrisma, Goto, ClientsInv, ClientsInOrder, TypeOK, Alive, Labels
<1>7. CASE Exit(s)
  BY <1>7 DEF Exit, Ended, ClientsInv, ClientsInOrder, Connected, TypeOK, Alive
<1> QED
  BY <1>2, <1>3, <1>4, <1>5, <1>6, <1>7 DEF Shutdown

(* startKafka and shutdown: however far the start comes and however many   *)
(* signals cut across it, the clients that are connected are the first so  *)
(* many, so a consumer is never connected without the producer it          *)
(* publishes through.                                                      *)
THEOREM ConsumersHaveTheirProducer == Spec => []ClientsInOrder
<1>1. Init => ClientsInv
  BY DEF Init, NoShutdown, ClientsInv, ClientsInOrder, Connected, TypeOK, Labels, Alive
<1>2. ClientsInv /\ [Next]_vars => ClientsInv'
  <2> SUFFICES ASSUME ClientsInv, [Next]_vars
               PROVE  ClientsInv'
    OBVIOUS
  <2>1. CASE Consume \/ (\E c \in Request \cup Socket : Open(c) \/ Close(c)) \/ UNCHANGED vars
    <3>1. UNCHANGED <<stage, clients, kafkaReady, db, shutdown, early>>
      BY <2>1 DEF Consume, Open, Close, vars
    <3> QED
      BY <3>1 DEF ClientsInv, ClientsInOrder, TypeOK, Alive
  <2> QED
    BY <2>1, StartConnectsInOrder, ShutdownDisconnectsInOrder DEF Next
<1>3. ClientsInv => ClientsInOrder
  BY DEF ClientsInv
<1> QED
  BY <1>1, <1>2, <1>3, PTL DEF Spec
=============================================================================
