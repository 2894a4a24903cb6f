------------------------------ MODULE Accounts ------------------------------
(***************************************************************************)
(* Who has an account: registration (authService.register) and the         *)
(* administrators' management of employees (employeeService.create, update *)
(* and remove) over the users, employees and audit_logs tables.            *)
(*                                                                         *)
(* Every handler looks first and writes later, in one transaction; between *)
(* the two any other request may run, and any await may fail.  A user and  *)
(* the employee made with it share an identity here.  Names follow the     *)
(* address without its checks, and passwords belong to AuthSession.        *)
(***************************************************************************)
EXTENDS Naturals, Sequences

CONSTANTS
  User,       \* accounts that can be generated, those of Admin at the start
  Admin,
  Email,      \* addresses, as the validators normalise them
  Profile,    \* departments and designations
  Request,    \* HTTP requests, each made once
  Undefined,  \* a field that a body leaves out
  None        \* a row that is not there

VARIABLES
  users,      \* the users table
  employees,  \* the employees table
  audit,      \* the audit_logs table: which request wrote about whom
  pc,         \* where each request is
  call,       \* what each request asks for
  reply,      \* the HTTP status it was answered with, 0 before that
  late        \* history: requests about an employee removed before they came

tables == <<users, employees, audit>>
vars == <<tables, pc, call, reply, late>>

UserRow == [email: Email, active: BOOLEAN]
EmployeeRow == [profile: Profile, deleted: BOOLEAN]
Entry == [request: Request, id: User]

ASSUME AccountsAssumption ==
  /\ Admin \subseteq User
  /\ Undefined \notin Email /\ Undefined \notin Profile
  /\ None \notin UserRow /\ None \notin EmployeeRow

Calls ==
  [op: {"register"}, email: Email, profile: Profile]
    \cup [op: {"create"}, by: Admin, email: Email, profile: Profile]
    \cup [op: {"update"}, by: Admin, id: User \ Admin,
          email: Email \cup {Undefined}, profile: Profile \cup {Undefined}]
    \cup [op: {"remove"}, by: Admin, id: User \ Admin]

NoCall == [op |-> "none"]

(* The seed makes the administrators' accounts, without a profile.         *)
Init ==
  /\ \E address \in [Admin -> Email] :
       /\ \A a, b \in Admin : address[a] = address[b] => a = b
       /\ users = [u \in User |->
            IF u \in Admin THEN [email |-> address[u], active |-> TRUE] ELSE None]
  /\ employees = [u \in User |-> None]
  /\ audit = << >>
  /\ pc = [r \in Request |-> "idle"]
  /\ call = [r \in Request |-> NoCall]
  /\ reply = [r \in Request |-> 0]
  /\ late = {}

Taken(e) == \E u \in User : users[u] # None /\ users[u].email = e
Removed(u) == employees[u] # None /\ employees[u].deleted

Goto(r, label) == pc' = [pc EXCEPT ![r] = label]

Answer(r, status) ==
  /\ Goto(r, "done")
  /\ reply' = [reply EXCEPT ![r] = status]

(* A transaction committed; the process may die before it says so.         *)
Done(r, status) == Answer(r, status) \/ Answer(r, 500)

Creates(r) == call[r].op \in {"register", "create"}

(* Identifiers are generated: an employee is asked for by one that exists. *)
Receive(r) ==
  /\ pc[r] = "idle"
  /\ \E c \in Calls :
       /\ c.op \in {"update", "remove"} => employees[c.id] # None
       /\ call' = [call EXCEPT ![r] = c]
       /\ late' = IF c.op \in {"update", "remove"} /\ Removed(c.id)
                    THEN late \cup {r} ELSE late
       /\ Goto(r, IF c.op \in {"register", "create"} THEN "lookup" ELSE "find")
  /\ UNCHANGED <<tables, reply>>

(* Mutant of Finds: the filter on isDeleted is left out.                   *)
FindsDeleted(u) == employees[u] # None

(* employeeRepository.findById.                                            *)
Finds(u) == employees[u] # None /\ ~employees[u].deleted

(* Mutant of Find: an address that is left out is looked up all the same.  *)
FindLooksUp(r) ==
  LET c == call[r]
  IN  /\ pc[r] = "find"
      /\ IF ~Finds(c.id)
           THEN Answer(r, 404)
           ELSE /\ Goto(r, IF c.op = "update" /\ c.email # users[c.id].email
                             THEN "lookup" ELSE "write")
                /\ UNCHANGED reply
      /\ UNCHANGED <<tables, call, late>>

(* update and remove begin with the employee.  An address that is not the  *)
(* one just read has to be looked up.                                      *)
Find(r) ==
  LET c == call[r]
  IN  /\ pc[r] = "find"
      /\ IF ~Finds(c.id)
           THEN Answer(r, 404)
           ELSE /\ Goto(r, IF c.op = "update" /\ c.email \notin {Undefined, users[c.id].email}
                             THEN "lookup" ELSE "write")
                /\ UNCHANGED reply
      /\ UNCHANGED <<tables, call, late>>

(* userRepository.findByEmail, for a new account or a new address.         *)
Lookup(r) ==
  /\ pc[r] = "lookup"
  /\ IF Taken(call[r].email)
       THEN Answer(r, 409)
       ELSE Goto(r, "write") /\ UNCHANGED reply
  /\ UNCHANGED <<tables, call, late>>

Log(r, u) == audit' = Append(audit, [request |-> r, id |-> u])

(* Mutant of Insert: no unique index behind the lookup.                    *)
InsertUnchecked(r) ==
  /\ pc[r] = "write" /\ Creates(r)
  /\ \E u \in User :
       /\ users[u] = None
       /\ users' = [users EXCEPT ![u] = [email |-> call[r].email, active |-> TRUE]]
       /\ employees' = [employees EXCEPT ![u] = [profile |-> call[r].profile, deleted |-> FALSE]]
       /\ Log(r, u)
  /\ Done(r, 201)
  /\ UNCHANGED <<call, late>>

(* The transaction of register and create: account, profile, audit entry.  *)
Insert(r) ==
  /\ pc[r] = "write" /\ Creates(r)
  /\ ~Taken(call[r].email)
  /\ \E u \in User :
       /\ users[u] = None
       /\ users' = [users EXCEPT ![u] = [email |-> call[r].email, active |-> TRUE]]
       /\ employees' = [employees EXCEPT ![u] = [profile |-> call[r].profile, deleted |-> FALSE]]
       /\ Log(r, u)
  /\ Done(r, 201)
  /\ UNCHANGED <<call, late>>

(* A body names a field or leaves it as it is.                             *)
Named(value, old) == IF value = Undefined THEN old ELSE value

(* Another account has the address that update wants to write.             *)
Clash(r) ==
  \E u \in User \ {call[r].id} : users[u] # None /\ users[u].email = call[r].email

(* Mutant of WriteUpdate: the profile is written as one that is there.     *)
WriteUpdateRevives(r) ==
  LET c == call[r]
  IN  /\ pc[r] = "write" /\ c.op = "update"
      /\ ~Clash(r)
      /\ users' = [users EXCEPT ![c.id].email = Named(c.email, @)]
      /\ employees' = [employees EXCEPT ![c.id] =
           [profile |-> Named(c.profile, @.profile), deleted |-> FALSE]]
      /\ Log(r, c.id)
      /\ Done(r, 200)
      /\ UNCHANGED <<call, late>>

(* The transaction of update writes by id, whatever became of the rows.    *)
WriteUpdate(r) ==
  LET c == call[r]
  IN  /\ pc[r] = "write" /\ c.op = "update"
      /\ ~Clash(r)
      /\ users' = [users EXCEPT ![c.id].email = Named(c.email, @)]
      /\ employees' = [employees EXCEPT ![c.id].profile = Named(c.profile, @)]
      /\ Log(r, c.id)
      /\ Done(r, 200)
      /\ UNCHANGED <<call, late>>

(* Mutants of Refuse: no transaction around the two updates, and a caught  *)
(* P2002.                                                                  *)
RefusePartly(r) ==
  LET c == call[r]
  IN  /\ pc[r] = "write"
      /\ c.op = "update" /\ Clash(r)
      /\ employees' = [employees EXCEPT ![c.id].profile = Named(c.profile, @)]
      /\ Answer(r, 409)
      /\ UNCHANGED <<users, audit, call, late>>

RefuseSilently(r) ==
  /\ pc[r] = "write"
  /\ Creates(r) /\ Taken(call[r].email)
  /\ Answer(r, 201)
  /\ UNCHANGED <<tables, call, late>>

(* P2002 of the unique index rolls the transaction back.                   *)
Refuse(r) ==
  /\ pc[r] = "write"
  /\ \/ Creates(r) /\ Taken(call[r].email)
     \/ call[r].op = "update" /\ Clash(r)
  /\ Answer(r, 409)
  /\ UNCHANGED <<tables, call, late>>

(* The transaction of remove: the profile goes, and the login with it.     *)
WriteRemove(r) ==
  LET c == call[r]
  IN  /\ pc[r] = "write" /\ c.op = "remove"
      /\ employees' = [employees EXCEPT ![c.id].deleted = TRUE]
      /\ users' = [users EXCEPT ![c.id].active = FALSE]
      /\ Log(r, c.id)
      /\ Done(r, 200)
      /\ UNCHANGED <<call, late>>

(* A query is rejected or the process dies before the commit.              *)
Fail(r) ==
  /\ pc[r] \in {"find", "lookup", "write"}
  /\ Answer(r, 500)
  /\ UNCHANGED <<tables, call, late>>

Next == \E r \in Request :
  \/ Receive(r) \/ Find(r) \/ Lookup(r)
  \/ Insert(r) \/ WriteUpdate(r) \/ WriteRemove(r)
  \/ Refuse(r) \/ Fail(r)

Spec == Init /\ [][Next]_vars

-----------------------------------------------------------------------------

(* Every variable has its type; a request about an employee is about rows  *)
(* that are there, and one that looks an address up was given one.         *)
TypeOK ==
  /\ users \in [User -> UserRow \cup {None}]
  /\ employees \in [User -> EmployeeRow \cup {None}]
  /\ audit \in Seq(Entry)
  /\ pc \in [Request -> {"idle", "find", "lookup", "write", "done"}]
  /\ call \in [Request -> Calls \cup {NoCall}]
  /\ reply \in [Request -> {0, 200, 201, 404, 409, 500}]
  /\ late \subseteq Request
  /\ \A r \in Request :
       /\ pc[r] # "idle" => call[r] # NoCall
       /\ pc[r] = "find" => ~Creates(r)
       /\ pc[r] = "lookup" => call[r].op # "remove"
       /\ call[r].op \in {"update", "remove"} => employees[call[r].id] # None
       /\ pc[r] = "lookup" => call[r].email # Undefined
  /\ \A u \in User : employees[u] # None => users[u] # None

(* One account per address, although register, create and update look the  *)
(* address up before their transactions: a race must end in the 409 of the *)
(* unique index and never in two accounts that share a login.              *)
OneAccountPerAddress ==
  \A u, v \in User :
    users[u] # None /\ users[v] # None /\ users[u].email = users[v].email => u = v

(* schema.prisma: a user that is no administrator has an employee record.  *)
(* And the login is off exactly when the profile is deleted, whichever     *)
(* edits and removals of one employee race.                                *)
LoginsMatchProfiles ==
  \A u \in User :
    /\ u \notin Admin => (users[u] = None <=> employees[u] = None)
    /\ users[u] # None => (users[u].active <=> ~Removed(u))

(* A removed employee is gone for the administrators: no edit or removal   *)
(* that comes after the removal succeeds.  (One that found the employee    *)
(* before it still does.)                                                  *)
RemovedAreGone == \A r \in late : reply[r] \in {0, 404, 500}

(* The audit log is complete and in order: replayed, it gives the tables.  *)
(* Edits of different fields both survive, an edit never undoes a removal, *)
(* and what failed or was refused left nothing in either.                  *)
Apply(row, c) ==
  CASE c.op \in {"register", "create"} -> [email |-> c.email, profile |-> c.profile, deleted |-> FALSE]
    [] c.op = "update" ->
         [row EXCEPT !.email = Named(c.email, @), !.profile = Named(c.profile, @)]
    [] OTHER -> [row EXCEPT !.deleted = TRUE]

Rows(log, asked, u) ==
  LET row[n \in 0..Len(log)] ==
        IF n = 0 THEN None
        ELSE IF log[n].id = u THEN Apply(row[n - 1], asked[log[n].request])
        ELSE row[n - 1]
  IN  row

Replayed(u) == Rows(audit, call, u)[Len(audit)]

TableRow(u) ==
  IF employees[u] = None THEN None
  ELSE [email |-> users[u].email, profile |-> employees[u].profile,
        deleted |-> employees[u].deleted]

TablesReplayTheLog == \A u \in User : Replayed(u) = TableRow(u)

(* An answer tells the client what happened: success means one audit entry *)
(* by this request and a refusal none; a conflict means that another       *)
(* request or an administrator had taken the address, a 404 that the       *)
(* employee was removed.                                                   *)
Logged(r) == \E i \in DOMAIN audit : audit[i].request = r

HasHad(r, e) ==
  \/ \E a \in Admin : users[a].email = e
  \/ \E i \in DOMAIN audit :
       LET c == call[audit[i].request]
       IN  audit[i].request # r /\ c.op # "remove" /\ c.email = e

AnswersAreTrue ==
  \A r \in Request :
    /\ reply[r] \in {200, 201} => Logged(r)
    /\ Logged(r) => reply[r] \in {200, 201, 500}
    /\ \A i, j \in DOMAIN audit : audit[i].request = audit[j].request => i = j
    /\ reply[r] = 409 => HasHad(r, call[r].email)
    /\ reply[r] = 404 => Removed(call[r].id)
=============================================================================
