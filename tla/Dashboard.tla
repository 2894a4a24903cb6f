----------------------------- MODULE Dashboard -----------------------------
(***************************************************************************)
(* dashboardService and the cache-aside helpers of utils/cache.ts, running *)
(* beside TaskService: the same requests, whose last step also deletes     *)
(* cached dashboards, readers that fill the cache, and employees who come  *)
(* and go, which deletes nothing.                                          *)
(*                                                                         *)
(* The backend talks to Redis over one connection, which executes commands *)
(* in the order they are issued, so issuing a command is executing it.     *)
(* The race is between the queries of a reader and its SET.                *)
(*                                                                         *)
(* Left out of the cached values: the overdue count, which changes with    *)
(* the clock, and the recent activity of the administrator, which changes  *)
(* with every audit entry, those of logins and profile edits among them;   *)
(* nothing but the TTL keeps these two up to date.                         *)
(***************************************************************************)
EXTENDS TaskService

CONSTANTS
  Reader,       \* GET /dashboard requests, each made once
  AdminKey,     \* dashboard:admin
  RedisFails,   \* TRUE when Redis commands may fail
  MaxHired      \* bound: how many employees are added

VARIABLES
  hired,        \* employees added to the table since the start, beside those of Employee
  cache,        \* Redis: dashboard key -> cached value, or Missing
  reading,      \* where each reader is: the key it fetches, what it has, or whether it is done
  excused       \* history: the keys whose staleness is explained (see StaleOnlyByRace)

dashVars == <<vars, hired, cache, reading, excused>>

ASSUME AdminKeyAssumption == AdminKey \notin Employee
ASSUME RedisFailsAssumption == RedisFails \in BOOLEAN
ASSUME MaxHiredAssumption == MaxHired \in Nat

Key == {AdminKey} \cup Employee

Missing == [value |-> "missing"]

-----------------------------------------------------------------------------
(* The queries of a dashboard.  Each sees the tables when it runs.         *)

RowsOf(k) == {t \in Task : Exists(t) /\ (k = AdminKey \/ tasks[t].assignedTo = k)}

(* tasksByStatus and statusCounts: a count for each status.                *)
StatusCounts(k) == [s \in Status |-> Cardinality({t \in RowsOf(k) : tasks[t].status = s})]

(* The other queries: totals for the administrator, the deadlines ahead    *)
(* for an employee.                                                        *)
Rest(k) ==
  IF k = AdminKey
    THEN [employees |-> Cardinality(Employee \ removed) + hired, tasks |-> Cardinality(RowsOf(k))]
    ELSE [upcoming |-> {t \in RowsOf(k) : tasks[t].status # "COMPLETED"}]

Queries == {"counts", "rest"}

Result(k, q) == IF q = "counts" THEN StatusCounts(k) ELSE Rest(k)

Truth(k) == [q \in Queries |-> Result(k, q)]

-----------------------------------------------------------------------------

DashInit ==
  /\ Init
  /\ hired = 0
  /\ cache = [k \in Key |-> Missing]
  /\ reading = [d \in Reader |-> [at |-> "idle"]]
  /\ excused = {}

(* Readers that have asked for k and not yet stored or answered it.        *)
Fetching(k) == {d \in Reader : reading[d].at = "fetch" /\ reading[d].key = k}

(* redis.get: a hit is answered; a miss, or a failed read, is fetched.     *)
Get(d) ==
  /\ reading[d].at = "idle"
  /\ \E k \in Key :
       reading' = [reading EXCEPT ![d] =
         IF cache[k] # Missing THEN [at |-> "done"]
                               ELSE [at |-> "fetch", key |-> k, got |-> <<>>]]
  /\ UNCHANGED <<vars, hired, cache, excused>>

GetFails(d) ==
  /\ RedisFails
  /\ reading[d].at = "idle"
  /\ \E k \in Key : reading' = [reading EXCEPT ![d] = [at |-> "fetch", key |-> k, got |-> <<>>]]
  /\ UNCHANGED <<vars, hired, cache, excused>>

(* One of the queries Promise.all waits for, in any order.                 *)
Query(d) ==
  /\ reading[d].at = "fetch"
  /\ \E q \in Queries \ DOMAIN reading[d].got :
       reading' = [reading EXCEPT ![d].got =
         [p \in DOMAIN @ \cup {q} |-> IF p = q THEN Result(reading[d].key, q) ELSE @[p]]]
  /\ UNCHANGED <<vars, hired, cache, excused>>

(* The keys of a set no longer need an excuse once nothing is cached and   *)
(* nobody is about to store an old value.                                  *)
Settled(k) == cache'[k] = Missing /\ \A d \in Reader :
                ~(reading'[d].at = "fetch" /\ reading'[d].key = k)

(* redis.set with a TTL is not awaited; the fresh value is answered.       *)
Fill(d) ==
  LET k == reading[d].key
  IN  /\ reading[d].at = "fetch"
      /\ DOMAIN reading[d].got = Queries
      /\ \/ cache' = [cache EXCEPT ![k] = reading[d].got]
         \/ RedisFails /\ UNCHANGED cache
      /\ reading' = [reading EXCEPT ![d] = [at |-> "done"]]
      /\ excused' = {x \in excused : ~Settled(x)}
      /\ UNCHANGED <<vars, hired>>

(* Mutant of ExpireKey: the administrator's key stored without a TTL.      *)
ExpireEmployeeKey(k) ==
  /\ k # AdminKey
  /\ cache[k] # Missing
  /\ cache' = [cache EXCEPT ![k] = Missing]
  /\ UNCHANGED reading
  /\ excused' = {x \in excused : ~Settled(x)}
  /\ UNCHANGED <<vars, hired>>

(* The TTL of a key runs out.                                              *)
ExpireKey(k) ==
  /\ cache[k] # Missing
  /\ cache' = [cache EXCEPT ![k] = Missing]
  /\ UNCHANGED reading
  /\ excused' = {x \in excused : ~Settled(x)}
  /\ UNCHANGED <<vars, hired>>

(* dashboardService.invalidate deletes the admin key with one employee's;  *)
(* a request calls it for each employee of Invalidated(r), and a failed    *)
(* DEL is only logged.                                                     *)
DeletedBy(employees) == employees \cup (IF employees = {} THEN {} ELSE {AdminKey})

DashEffects(r) ==
  /\ Effects(r)
  /\ UNCHANGED <<hired, reading>>
  /\ \E done \in SUBSET Invalidated(r) :
       /\ ~RedisFails => done = Invalidated(r)
       /\ cache' = [k \in Key |-> IF k \in DeletedBy(done) THEN Missing ELSE cache[k]]
       /\ excused' = {k \in excused \cup (DeletedBy(Invalidated(r)) \ DeletedBy(done)) : ~Settled(k)}

(* A write explains what a reader in the middle of its queries will store, *)
(* and, when the row was reassigned between the read and the write, what   *)
(* the employee it has now keeps cached: nobody deletes that key.          *)
ReadIsStale(r) ==
  /\ call[r].op \in {"update", "remove"}
  /\ Exists(call[r].task)
  /\ tasks[call[r].task].assignedTo # seen[r].assignedTo

DashWrite(r) ==
  /\ WriteCreate(r) \/ WriteUpdate(r) \/ WriteRemove(r)
  /\ UNCHANGED <<hired, cache, reading>>
  /\ excused' = excused
       \cup {k \in Key : Fetching(k) # {} /\ Truth(k) # Truth(k)'}
       \cup {k \in Key : ReadIsStale(r) /\ k = tasks[call[r].task].assignedTo /\ ~Settled(k)}

(* An employee more or less changes the administrator's totals, and no key *)
(* is deleted: what is cached or being fetched now is excused.             *)
StaffChanges ==
  /\ UNCHANGED <<cache, reading>>
  /\ excused' = excused \cup {k \in {AdminKey} : ~Settled(k)}

(* employeeService.create by an administrator, or authService.register by  *)
(* anyone: account and profile in one transaction.                         *)
DashAddEmployee ==
  /\ hired < MaxHired
  /\ hired' = hired + 1
  /\ StaffChanges
  /\ UNCHANGED vars

(* employeeService.remove.                                                 *)
DashRemoveEmployee(e) ==
  /\ RemoveEmployee(e)
  /\ StaffChanges
  /\ UNCHANGED hired

DashRequestStep(r) ==
  \/ /\ \/ Receive(r)
        \/ ReadMissing(r) \/ ReadForUpdate(r) \/ ReadForRemove(r)
        \/ CheckAssignee(r) \/ WriteMissing(r)
     /\ UNCHANGED <<hired, cache, reading, excused>>
  \/ DashWrite(r)
  \/ DashEffects(r)

ReaderStep(d) == Get(d) \/ GetFails(d) \/ Query(d) \/ Fill(d)

DashNext ==
  \/ \E r \in Request : DashRequestStep(r)
  \/ DashAddEmployee
  \/ \E e \in Employee : DashRemoveEmployee(e)
  \/ \E d \in Reader : ReaderStep(d)
  \/ \E k \in Key : ExpireKey(k)

DashSpec == DashInit /\ [][DashNext]_dashVars

(* Node runs every continuation it has, the database and Redis answer, and *)
(* Redis expires what it was told to expire.  Nobody has to call the API.  *)
DashFairness ==
  /\ \A r \in Request : WF_dashVars(DashRequestStep(r) /\ pc[r] # "idle")
  /\ \A d \in Reader : WF_dashVars(Query(d) \/ Fill(d))
  /\ \A k \in Key : WF_dashVars(ExpireKey(k))

DashFairSpec == DashSpec /\ DashFairness

-----------------------------------------------------------------------------

Stale(k) == cache[k] # Missing /\ cache[k] # Truth(k)

(* A request has written and not yet deleted the keys of what it wrote.    *)
DeletePending(k) == \E r \in Request : pc[r] = "effects" /\ k \in DeletedBy(Invalidated(r))

(* A cached dashboard differs from the database only while the deletion is *)
(* about to run, or for one of the reasons recorded in excused: a write in *)
(* the middle of a reader's queries, a row reassigned under the request    *)
(* that wrote it, an employee created, registered or removed, a failed     *)
(* DEL.  Every sequential mutation of tasks deletes all the keys it makes  *)
(* stale, the old assignee's too.                                          *)
StaleOnlyByRace == \A k \in Key : Stale(k) => k \in excused \/ DeletePending(k)

(* The TTL heals everything: once the writes are over, every dashboard is  *)
(* right or absent for good.                                               *)
EventuallyFresh == \A k \in Key : <>[]~Stale(k)

=============================================================================
