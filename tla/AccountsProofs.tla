--------------------------- MODULE AccountsProofs ---------------------------
(***************************************************************************)
(* Theorems about Accounts, for every value of its constants.              *)
(***************************************************************************)
EXTENDS Accounts, TLAPS, WellFoundedInduction

-----------------------------------------------------------------------------
(* The operators the actions are built from.                               *)

(* A call names one of the four operations, with the fields it has.        *)
LEMMA CallFields ==
  ASSUME NEW c \in Calls
  PROVE  /\ c.op \in {"register", "create", "update", "remove"}
         /\ c.op \in {"register", "create"} => c.email \in Email /\ c.profile \in Profile
         /\ c.op = "update" => /\ c.email \in Email \cup {Undefined}
                               /\ c.profile \in Profile \cup {Undefined}
         /\ c.op \in {"update", "remove"} => c.id \in User \ Admin
         /\ c # NoCall
BY DEF Calls, NoCall

(* The control part of TypeOK, to cite without the rest.                   *)
LEMMA ControlParts ==
  ASSUME TypeOK
  PROVE  /\ pc \in [Request -> {"idle", "find", "lookup", "write", "done"}]
         /\ reply \in [Request -> {0, 200, 201, 404, 409, 500}]
BY DEF TypeOK

(* Going on and answering keep the control state well typed.               *)
LEMMA GotoTyped ==
  ASSUME pc \in [Request -> {"idle", "find", "lookup", "write", "done"}],
         NEW r \in Request, NEW label \in {"find", "lookup", "write", "done"},
         Goto(r, label)
  PROVE  /\ pc' \in [Request -> {"idle", "find", "lookup", "write", "done"}]
         /\ pc'[r] = label
         /\ \A q \in Request \ {r} : pc'[q] = pc[q]
BY DEF Goto

(* An error is an answer of its request alone.                             *)
LEMMA AnswerTyped ==
  ASSUME pc \in [Request -> {"idle", "find", "lookup", "write", "done"}],
         reply \in [Request -> {0, 200, 201, 404, 409, 500}],
         NEW r \in Request, NEW status \in {200, 201, 404, 409, 500},
         Answer(r, status)
  PROVE  /\ pc' \in [Request -> {"idle", "find", "lookup", "write", "done"}]
         /\ pc'[r] = "done"
         /\ \A q \in Request \ {r} : pc'[q] = pc[q] /\ reply'[q] = reply[q]
         /\ reply' \in [Request -> {0, 200, 201, 404, 409, 500}]
         /\ reply'[r] = status
BY DEF Answer, Goto

(* So is a success.                                                        *)
LEMMA DoneTyped ==
  ASSUME pc \in [Request -> {"idle", "find", "lookup", "write", "done"}],
         reply \in [Request -> {0, 200, 201, 404, 409, 500}],
         NEW r \in Request, NEW status \in {200, 201}, Done(r, status)
  PROVE  /\ pc' \in [Request -> {"idle", "find", "lookup", "write", "done"}]
         /\ pc'[r] = "done"
         /\ \A q \in Request \ {r} : pc'[q] = pc[q] /\ reply'[q] = reply[q]
         /\ reply' \in [Request -> {0, 200, 201, 404, 409, 500}]
         /\ reply'[r] \in {status, 500}
<1>1. CASE Answer(r, status)
  BY <1>1, AnswerTyped
<1>2. CASE Answer(r, 500)
  BY <1>2, AnswerTyped
<1> QED
  BY <1>1, <1>2 DEF Done

(* Logging appends one entry.                                              *)
LEMMA LogTyped ==
  ASSUME audit \in Seq(Entry), NEW r \in Request, NEW u \in User, Log(r, u)
  PROVE  audit' \in Seq(Entry)
BY DEF Log, Entry

-----------------------------------------------------------------------------
(* What the transactions do to the two tables.                             *)

(* A create adds a login and a profile under an id that is free.           *)
LEMMA InsertTables ==
  ASSUME TypeOK, NEW r \in Request, Insert(r)
  PROVE  \E u \in User :
           /\ users[u] = None /\ employees[u] = None
           /\ ~Taken(call[r].email)
           /\ users' \in [User -> UserRow \cup {None}]
           /\ employees' \in [User -> EmployeeRow \cup {None}]
           /\ users'[u] = [email |-> call[r].email, active |-> TRUE]
           /\ users'[u] # None /\ employees'[u] # None
           /\ employees'[u].deleted = FALSE
           /\ \A v \in User \ {u} : users'[v] = users[v] /\ employees'[v] = employees[v]
           /\ audit' \in Seq(Entry)
<1>1. PICK u \in User :
        /\ users[u] = None
        /\ users' = [users EXCEPT ![u] = [email |-> call[r].email, active |-> TRUE]]
        /\ employees' = [employees EXCEPT ![u] = [profile |-> call[r].profile, deleted |-> FALSE]]
        /\ Log(r, u)
  BY DEF Insert
<1>2. call[r] \in Calls /\ call[r].op \in {"register", "create"}
  BY DEF Insert, Creates, TypeOK
<1>3. /\ [email |-> call[r].email, active |-> TRUE] \in UserRow
      /\ [profile |-> call[r].profile, deleted |-> FALSE] \in EmployeeRow
  BY <1>2, CallFields DEF UserRow, EmployeeRow
<1>4. employees[u] = None
  BY <1>1 DEF TypeOK
<1>5. audit' \in Seq(Entry)
  BY <1>1, LogTyped DEF TypeOK
<1>6. ~Taken(call[r].email)
  BY DEF Insert
<1>7. users \in [User -> UserRow \cup {None}] /\ employees \in [User -> EmployeeRow \cup {None}]
  BY DEF TypeOK
<1> QED
  BY <1>1, <1>3, <1>4, <1>5, <1>6, <1>7, AccountsAssumption

(* An update names the address of one employee, who stays as active as     *)
(* before.                                                                 *)
LEMMA UpdateTables ==
  ASSUME TypeOK, NEW r \in Request, WriteUpdate(r)
  PROVE  LET c == call[r]
         IN  /\ c.id \in User \ Admin
             /\ users[c.id] # None /\ employees[c.id] # None
             /\ users'[c.id].active = users[c.id].active
             /\ users'[c.id].email = Named(c.email, users[c.id].email)
             /\ employees'[c.id].deleted = employees[c.id].deleted
             /\ users'[c.id] \in UserRow /\ employees'[c.id] \in EmployeeRow
             /\ users' \in [User -> UserRow \cup {None}]
             /\ employees' \in [User -> EmployeeRow \cup {None}]
             /\ \A v \in User \ {c.id} : users'[v] = users[v] /\ employees'[v] = employees[v]
             /\ audit' \in Seq(Entry)
<1> DEFINE c == call[r]
<1>1. c \in Calls /\ c.op = "update"
  BY DEF WriteUpdate, TypeOK, NoCall
<1>2. /\ c.id \in User \ Admin
      /\ c.email \in Email \cup {Undefined} /\ c.profile \in Profile \cup {Undefined}
  BY <1>1, CallFields
<1>3. employees[c.id] \in EmployeeRow /\ users[c.id] \in UserRow
  BY <1>1, <1>2 DEF TypeOK
<1>4. /\ Named(c.email, users[c.id].email) \in Email
      /\ Named(c.profile, employees[c.id].profile) \in Profile
  BY <1>2, <1>3 DEF Named, UserRow, EmployeeRow
<1>5. /\ users' = [users EXCEPT ![c.id] = [users[c.id] EXCEPT !.email = Named(c.email, users[c.id].email)]]
      /\ employees' = [employees EXCEPT ![c.id] =
           [employees[c.id] EXCEPT !.profile = Named(c.profile, employees[c.id].profile)]]
  BY DEF WriteUpdate
<1>6. /\ [users[c.id] EXCEPT !.email = Named(c.email, users[c.id].email)] \in UserRow
      /\ [employees[c.id] EXCEPT !.profile = Named(c.profile, employees[c.id].profile)] \in EmployeeRow
  BY <1>3, <1>4 DEF UserRow, EmployeeRow
<1>7. audit' \in Seq(Entry)
  BY <1>2, LogTyped DEF WriteUpdate, TypeOK
<1>8. users \in [User -> UserRow \cup {None}] /\ employees \in [User -> EmployeeRow \cup {None}]
  BY DEF TypeOK
<1>9. /\ users'[c.id].active = users[c.id].active
      /\ users'[c.id].email = Named(c.email, users[c.id].email)
      /\ employees'[c.id].deleted = employees[c.id].deleted
  BY <1>2, <1>3, <1>5, <1>8 DEF UserRow, EmployeeRow
<1>10. /\ users'[c.id] \in UserRow /\ employees'[c.id] \in EmployeeRow
       /\ users' \in [User -> UserRow \cup {None}]
       /\ employees' \in [User -> EmployeeRow \cup {None}]
       /\ \A v \in User \ {c.id} : users'[v] = users[v] /\ employees'[v] = employees[v]
  BY <1>2, <1>5, <1>6, <1>8
<1>11. users[c.id] # None /\ employees[c.id] # None
  BY <1>3, AccountsAssumption
<1> QED
  BY <1>2, <1>7, <1>9, <1>10, <1>11

(* A removal ends the login and the profile of one employee together.      *)
LEMMA RemoveTables ==
  ASSUME TypeOK, NEW r \in Request, WriteRemove(r)
  PROVE  LET c == call[r]
         IN  /\ c.id \in User \ Admin
             /\ users[c.id] # None /\ employees[c.id] # None
             /\ users'[c.id].active = FALSE
             /\ users'[c.id].email = users[c.id].email
             /\ employees'[c.id].deleted = TRUE
             /\ users'[c.id] \in UserRow /\ employees'[c.id] \in EmployeeRow
             /\ users' \in [User -> UserRow \cup {None}]
             /\ employees' \in [User -> EmployeeRow \cup {None}]
             /\ \A v \in User \ {c.id} : users'[v] = users[v] /\ employees'[v] = employees[v]
             /\ audit' \in Seq(Entry)
<1> DEFINE c == call[r]
<1>1. c \in Calls /\ c.op = "remove"
  BY DEF WriteRemove, TypeOK, NoCall
<1>2. c.id \in User \ Admin
  BY <1>1, CallFields
<1>3. employees[c.id] \in EmployeeRow /\ users[c.id] \in UserRow
  BY <1>1, <1>2 DEF TypeOK
<1>4. /\ users' = [users EXCEPT ![c.id] = [users[c.id] EXCEPT !.active = FALSE]]
      /\ employees' = [employees EXCEPT ![c.id] = [employees[c.id] EXCEPT !.deleted = TRUE]]
  BY DEF WriteRemove
<1>5. /\ [users[c.id] EXCEPT !.active = FALSE] \in UserRow
      /\ [employees[c.id] EXCEPT !.deleted = TRUE] \in EmployeeRow
  BY <1>3 DEF UserRow, EmployeeRow
<1>6. audit' \in Seq(Entry)
  BY <1>2, LogTyped DEF WriteRemove, TypeOK
<1>7. users \in [User -> UserRow \cup {None}] /\ employees \in [User -> EmployeeRow \cup {None}]
  BY DEF TypeOK
<1>8. /\ users'[c.id].active = FALSE
      /\ users'[c.id].email = users[c.id].email
      /\ employees'[c.id].deleted = TRUE
  BY <1>2, <1>3, <1>4, <1>7 DEF UserRow, EmployeeRow
<1>9. /\ users'[c.id] \in UserRow /\ employees'[c.id] \in EmployeeRow
      /\ users' \in [User -> UserRow \cup {None}]
      /\ employees' \in [User -> EmployeeRow \cup {None}]
      /\ \A v \in User \ {c.id} : users'[v] = users[v] /\ employees'[v] = employees[v]
  BY <1>2, <1>4, <1>5, <1>7
<1>10. users[c.id] # None /\ employees[c.id] # None
  BY <1>3, AccountsAssumption
<1> QED
  BY <1>2, <1>6, <1>8, <1>9, <1>10

-----------------------------------------------------------------------------
(* Type correctness: one lemma per kind of step.                           *)

(* At the start no request is made.                                        *)
LEMMA InitTyped == Init => TypeOK
<1> SUFFICES ASSUME Init PROVE TypeOK
  OBVIOUS
<1>1. PICK address \in [Admin -> Email] :
        users = [u \in User |->
          IF u \in Admin THEN [email |-> address[u], active |-> TRUE] ELSE None]
  BY DEF Init
<1>2. users \in [User -> UserRow \cup {None}]
  BY <1>1 DEF UserRow
<1>3. \A r \in Request : call[r] = NoCall /\ pc[r] = "idle"
  BY DEF Init
<1>4. \A r \in Request : call[r].op = "none"
  BY <1>3 DEF NoCall
<1> QED
  BY <1>2, <1>3, <1>4 DEF Init, TypeOK, Creates

(* A request that comes in is one of the calls.                            *)
LEMMA ReceiveTyped ==
  ASSUME TypeOK, NEW r \in Request, Receive(r)
  PROVE  TypeOK'
<1>1. PICK c \in Calls :
        /\ c.op \in {"update", "remove"} => employees[c.id] # None
        /\ call' = [call EXCEPT ![r] = c]
        /\ late' = IF c.op \in {"update", "remove"} /\ Removed(c.id)
                     THEN late \cup {r} ELSE late
        /\ Goto(r, IF c.op \in {"register", "create"} THEN "lookup" ELSE "find")
  BY DEF Receive
<1> DEFINE label == IF c.op \in {"register", "create"} THEN "lookup" ELSE "find"
<1>2. /\ pc' \in [Request -> {"idle", "find", "lookup", "write", "done"}]
      /\ pc'[r] = label
      /\ \A q \in Request \ {r} : pc'[q] = pc[q]
  BY <1>1, GotoTyped, ControlParts
<1>3. UNCHANGED <<users, employees, audit, reply>>
  BY DEF Receive, tables
<1>4. call' \in [Request -> Calls \cup {NoCall}] /\ call'[r] = c
      /\ \A q \in Request \ {r} : call'[q] = call[q]
  BY <1>1 DEF TypeOK
<1>5. late' \subseteq Request
  BY <1>1 DEF TypeOK
<1>6. ASSUME NEW q \in Request
      PROVE  /\ pc'[q] # "idle" => call'[q] # NoCall
             /\ pc'[q] = "find" => ~(call'[q].op \in {"register", "create"})
             /\ pc'[q] = "lookup" => call'[q].op # "remove"
             /\ call'[q].op \in {"update", "remove"} => employees[call'[q].id] # None
             /\ pc'[q] = "lookup" => call'[q].email # Undefined
  <2>1. CASE q = r
    BY <1>1, <1>2, <1>4, <2>1, CallFields, AccountsAssumption
  <2>2. CASE q # r
    BY <1>2, <1>4, <2>2 DEF TypeOK, Creates
  <2> QED
    BY <2>1, <2>2
<1>7. \A u \in User : employees[u] # None => users[u] # None
  BY DEF TypeOK
<1>8. /\ users \in [User -> UserRow \cup {None}]
      /\ employees \in [User -> EmployeeRow \cup {None}]
      /\ audit \in Seq(Entry)
      /\ reply \in [Request -> {0, 200, 201, 404, 409, 500}]
  BY DEF TypeOK
<1> QED
  BY <1>2, <1>3, <1>4, <1>5, <1>6, <1>7, <1>8 DEF TypeOK, Creates

(* A step that changes pc and reply of one request and nothing else.       *)
LEMMA ControlTyped ==
  ASSUME TypeOK, NEW r \in Request,
         UNCHANGED <<users, employees, audit, call, late>>,
         pc' \in [Request -> {"idle", "find", "lookup", "write", "done"}],
         reply' \in [Request -> {0, 200, 201, 404, 409, 500}],
         pc[r] # "idle",
         \A q \in Request \ {r} : pc'[q] = pc[q],
         pc'[r] \in {"lookup", "write", "done"},
         pc'[r] = "lookup" => call[r].op # "remove" /\ call[r].email # Undefined
  PROVE  TypeOK'
<1>1. ASSUME NEW q \in Request
      PROVE  /\ pc'[q] # "idle" => call[q] # NoCall
             /\ pc'[q] = "find" => ~Creates(q)
             /\ pc'[q] = "lookup" => call[q].op # "remove"
             /\ call[q].op \in {"update", "remove"} => employees[call[q].id] # None
             /\ pc'[q] = "lookup" => call[q].email # Undefined
  BY DEF TypeOK
<1>2. /\ users \in [User -> UserRow \cup {None}]
      /\ employees \in [User -> EmployeeRow \cup {None}]
      /\ audit \in Seq(Entry)
      /\ call \in [Request -> Calls \cup {NoCall}]
      /\ late \subseteq Request
      /\ \A u \in User : employees[u] # None => users[u] # None
  BY DEF TypeOK
<1> QED
  BY <1>1, <1>2 DEF TypeOK, Creates

(* An answer that leaves the tables as they are.                           *)
LEMMA RefusalTyped ==
  ASSUME TypeOK, NEW r \in Request, NEW status \in {404, 409, 500},
         pc[r] # "idle", Answer(r, status),
         UNCHANGED <<users, employees, audit, call, late>>
  PROVE  TypeOK'
<1>1. /\ pc' \in [Request -> {"idle", "find", "lookup", "write", "done"}]
      /\ reply' \in [Request -> {0, 200, 201, 404, 409, 500}]
      /\ pc'[r] = "done"
      /\ \A q \in Request \ {r} : pc'[q] = pc[q]
  BY ControlParts, AnswerTyped
<1> QED
  BY <1>1, ControlTyped

(* Reading the employee moves one request.                                 *)
LEMMA FindTyped ==
  ASSUME TypeOK, NEW r \in Request, Find(r)
  PROVE  TypeOK'
<1> DEFINE c == call[r]
           label == IF c.op = "update" /\ c.email \notin {Undefined, users[c.id].email}
                      THEN "lookup" ELSE "write"
<1>1. pc[r] = "find" /\ UNCHANGED <<users, employees, audit, call, late>>
  BY DEF Find, tables
<1>2. CASE ~Finds(c.id)
  <2>1. Answer(r, 404)
    BY <1>2 DEF Find
  <2> QED
    BY <1>1, <2>1, RefusalTyped
<1>3. CASE Finds(c.id)
  <2>1. Goto(r, label) /\ reply' = reply
    BY <1>3 DEF Find
  <2>2. /\ pc' \in [Request -> {"idle", "find", "lookup", "write", "done"}]
        /\ pc'[r] = label
        /\ \A q \in Request \ {r} : pc'[q] = pc[q]
    BY <2>1, ControlParts, GotoTyped
  <2>3. reply' \in [Request -> {0, 200, 201, 404, 409, 500}]
    BY <2>1, ControlParts
  <2> QED
    BY <1>1, <2>2, <2>3, ControlTyped
<1> QED
  BY <1>2, <1>3

(* So does looking for the address.                                        *)
LEMMA LookupTyped ==
  ASSUME TypeOK, NEW r \in Request, Lookup(r)
  PROVE  TypeOK'
<1>1. pc[r] = "lookup" /\ UNCHANGED <<users, employees, audit, call, late>>
  BY DEF Lookup, tables
<1>2. CASE Taken(call[r].email)
  <2>1. Answer(r, 409)
    BY <1>2 DEF Lookup
  <2> QED
    BY <1>1, <2>1, RefusalTyped
<1>3. CASE ~Taken(call[r].email)
  <2>1. Goto(r, "write") /\ reply' = reply
    BY <1>3 DEF Lookup
  <2>2. /\ pc' \in [Request -> {"idle", "find", "lookup", "write", "done"}]
        /\ pc'[r] = "write"
        /\ \A q \in Request \ {r} : pc'[q] = pc[q]
    BY <2>1, ControlParts, GotoTyped
  <2>3. reply' \in [Request -> {0, 200, 201, 404, 409, 500}]
    BY <2>1, ControlParts
  <2> QED
    BY <1>1, <2>2, <2>3, ControlTyped
<1> QED
  BY <1>2, <1>3

(* And a refusal, or a failure.                                            *)
LEMMA AnsweredTyped ==
  ASSUME TypeOK, NEW r \in Request, Refuse(r) \/ Fail(r)
  PROVE  TypeOK'
<1>1. /\ pc[r] # "idle"
      /\ Answer(r, 409) \/ Answer(r, 500)
      /\ UNCHANGED <<users, employees, audit, call, late>>
  BY DEF Refuse, Fail, tables
<1>2. ASSUME NEW status \in {409, 500}, Answer(r, status)
      PROVE  TypeOK'
  BY <1>1, <1>2, RefusalTyped
<1> QED
  BY <1>1, <1>2

(* A transaction leaves no row out and takes none away.                    *)
LEMMA CommittedTyped ==
  ASSUME TypeOK, NEW r \in Request, NEW u \in User,
         pc[r] = "write",
         users' \in [User -> UserRow \cup {None}],
         employees' \in [User -> EmployeeRow \cup {None}],
         users'[u] # None /\ employees'[u] # None,
         \A v \in User \ {u} : users'[v] = users[v] /\ employees'[v] = employees[v],
         audit' \in Seq(Entry), UNCHANGED <<call, late>>,
         Done(r, 200) \/ Done(r, 201)
  PROVE  TypeOK'
<1>1. /\ pc' \in [Request -> {"idle", "find", "lookup", "write", "done"}]
      /\ pc'[r] = "done"
      /\ \A q \in Request \ {r} : pc'[q] = pc[q]
      /\ reply' \in [Request -> {0, 200, 201, 404, 409, 500}]
  BY DoneTyped, ControlParts
<1>2. \A v \in User : employees'[v] # None => users'[v] # None
  BY DEF TypeOK
<1>3. \A v \in User : employees[v] # None => employees'[v] # None
  OBVIOUS
<1>4. ASSUME NEW q \in Request, call[q].op \in {"update", "remove"}
      PROVE  call[q].id \in User
  BY <1>4, CallFields DEF TypeOK, NoCall
<1>5. ASSUME NEW q \in Request
      PROVE  /\ pc'[q] # "idle" => call[q] # NoCall
             /\ pc'[q] = "find" => ~Creates(q)
             /\ pc'[q] = "lookup" => call[q].op # "remove"
             /\ call[q].op \in {"update", "remove"} => employees'[call[q].id] # None
             /\ pc'[q] = "lookup" => call[q].email # Undefined
  BY <1>1, <1>3, <1>4 DEF TypeOK
<1>6. call \in [Request -> Calls \cup {NoCall}] /\ late \subseteq Request
  BY DEF TypeOK
<1> QED
  BY <1>1, <1>2, <1>5, <1>6 DEF TypeOK, Creates

(* Every step keeps the types.                                             *)
LEMMA NextTyped == TypeOK /\ [Next]_vars => TypeOK'
<1> SUFFICES ASSUME TypeOK, [Next]_vars PROVE TypeOK'
  OBVIOUS
<1>1. ASSUME NEW r \in Request, Receive(r) PROVE TypeOK'
  BY <1>1, ReceiveTyped
<1>2. ASSUME NEW r \in Request, Find(r) PROVE TypeOK'
  BY <1>2, FindTyped
<1>3. ASSUME NEW r \in Request, Lookup(r) PROVE TypeOK'
  BY <1>3, LookupTyped
<1>4. ASSUME NEW r \in Request, Insert(r) PROVE TypeOK'
  <2>1. pc[r] = "write" /\ Done(r, 201) /\ UNCHANGED <<call, late>>
    BY <1>4 DEF Insert
  <2> QED
    BY <1>4, <2>1, InsertTables, CommittedTyped
<1>5. ASSUME NEW r \in Request, WriteUpdate(r) PROVE TypeOK'
  <2>1. pc[r] = "write" /\ Done(r, 200) /\ UNCHANGED <<call, late>>
    BY <1>5 DEF WriteUpdate
  <2>2. users'[call[r].id] # None /\ employees'[call[r].id] # None
    BY <1>5, UpdateTables, AccountsAssumption
  <2> QED
    BY <1>5, <2>1, <2>2, UpdateTables, CommittedTyped
<1>6. ASSUME NEW r \in Request, WriteRemove(r) PROVE TypeOK'
  <2>1. pc[r] = "write" /\ Done(r, 200) /\ UNCHANGED <<call, late>>
    BY <1>6 DEF WriteRemove
  <2>2. users'[call[r].id] # None /\ employees'[call[r].id] # None
    BY <1>6, RemoveTables, AccountsAssumption
  <2> QED
    BY <1>6, <2>1, <2>2, RemoveTables, CommittedTyped
<1>7. ASSUME NEW r \in Request, Refuse(r) \/ Fail(r) PROVE TypeOK'
  BY <1>7, AnsweredTyped
<1>8. CASE UNCHANGED vars
  BY <1>8 DEF vars, tables, TypeOK, Creates
<1> QED
  BY <1>1, <1>2, <1>3, <1>4, <1>5, <1>6, <1>7, <1>8 DEF Next

(* TypeOK: every request about an employee holds rows that are there.      *)
THEOREM TypeCorrect == Spec => []TypeOK
<1> QED
  BY InitTyped, NextTyped, PTL DEF Spec

-----------------------------------------------------------------------------
(* Which steps touch the two tables.                                       *)

(* Only the three transactions change the tables.                          *)
LEMMA TableSteps ==
  ASSUME [Next]_vars
  PROVE  \/ UNCHANGED <<users, employees>>
         \/ \E r \in Request : Insert(r) \/ WriteUpdate(r) \/ WriteRemove(r)
<1>1. ASSUME NEW r \in Request,
             Receive(r) \/ Find(r) \/ Lookup(r) \/ Refuse(r) \/ Fail(r)
      PROVE  UNCHANGED <<users, employees>>
  BY <1>1 DEF Receive, Find, Lookup, Refuse, Fail, tables
<1>2. CASE UNCHANGED vars
  BY <1>2 DEF vars, tables
<1> QED
  BY <1>1, <1>2 DEF Next

-----------------------------------------------------------------------------
(* One account per address.  What is inserted is not taken, and what an    *)
(* edit writes is no other account's.                                      *)

(* The unique key keeps an address with one account.                       *)
LEMMA AddressesPreserved ==
  TypeOK /\ OneAccountPerAddress /\ [Next]_vars => OneAccountPerAddress'
<1> SUFFICES ASSUME TypeOK, OneAccountPerAddress, [Next]_vars
             PROVE  OneAccountPerAddress'
  OBVIOUS
<1>1. CASE UNCHANGED <<users, employees>>
  BY <1>1 DEF OneAccountPerAddress
<1>2. ASSUME NEW r \in Request, Insert(r) PROVE OneAccountPerAddress'
  <2>1. PICK u \in User :
          /\ ~Taken(call[r].email)
          /\ users'[u] = [email |-> call[r].email, active |-> TRUE]
          /\ \A v \in User \ {u} : users'[v] = users[v]
    BY <1>2, InsertTables
  <2>2. users'[u].email = call[r].email
    BY <2>1
  <2>3. \A v \in User \ {u} : users'[v] # None => users'[v].email # call[r].email
    BY <2>1 DEF Taken
  <2> QED
    BY <2>1, <2>2, <2>3 DEF OneAccountPerAddress
<1>3. ASSUME NEW r \in Request, WriteUpdate(r) PROVE OneAccountPerAddress'
  <2> DEFINE u == call[r].id
  <2>1. /\ u \in User /\ users[u] # None
        /\ users'[u].email = Named(call[r].email, users[u].email)
        /\ \A v \in User \ {u} : users'[v] = users[v]
    BY <1>3, UpdateTables
  <2>2. \A v \in User \ {u} : users[v] # None => users[v].email # call[r].email
    BY <1>3 DEF WriteUpdate, Clash
  <2>3. \A v \in User \ {u} : users[v] # None => users[v].email # users[u].email
    BY <2>1 DEF OneAccountPerAddress
  <2>4. \A v \in User \ {u} : users'[v] # None => users'[v].email # users'[u].email
    BY <2>1, <2>2, <2>3 DEF Named
  <2> QED
    BY <2>1, <2>4 DEF OneAccountPerAddress
<1>4. ASSUME NEW r \in Request, WriteRemove(r) PROVE OneAccountPerAddress'
  <2>1. \A v \in User : /\ users'[v] # None => users[v] # None
                        /\ users[v] # None => users'[v].email = users[v].email
    BY <1>4, RemoveTables
  <2> QED
    BY <2>1 DEF OneAccountPerAddress
<1> QED
  BY <1>1, <1>2, <1>3, <1>4, TableSteps

(* OneAccountPerAddress: the lookups of racing requests may all pass, the  *)
(* accounts they leave have addresses of their own.                        *)
THEOREM AddressesAreUnique == Spec => []OneAccountPerAddress
<1>1. Init => OneAccountPerAddress
  <2> SUFFICES ASSUME Init PROVE OneAccountPerAddress
    OBVIOUS
  <2>1. PICK address \in [Admin -> Email] :
          /\ \A a, b \in Admin : address[a] = address[b] => a = b
          /\ users = [u \in User |->
               IF u \in Admin THEN [email |-> address[u], active |-> TRUE] ELSE None]
    BY DEF Init
  <2>2. \A u \in User : users[u] # None => u \in Admin /\ users[u].email = address[u]
    BY <2>1
  <2> QED
    BY <2>1, <2>2 DEF OneAccountPerAddress
<1> QED
  BY <1>1, AddressesPreserved, TypeCorrect, PTL DEF Spec

-----------------------------------------------------------------------------
(* Logins and profiles.                                                    *)

(* A transaction changes login and profile alike.                          *)
LEMMA LoginsPreserved ==
  TypeOK /\ LoginsMatchProfiles /\ [Next]_vars => LoginsMatchProfiles'
<1> SUFFICES ASSUME TypeOK, LoginsMatchProfiles, [Next]_vars
             PROVE  LoginsMatchProfiles'
  OBVIOUS
<1>1. CASE UNCHANGED <<users, employees>>
  BY <1>1 DEF LoginsMatchProfiles, Removed
<1>2. ASSUME NEW r \in Request, Insert(r) PROVE LoginsMatchProfiles'
  <2>1. PICK u \in User :
          /\ users'[u] = [email |-> call[r].email, active |-> TRUE]
          /\ users'[u] # None /\ employees'[u] # None
          /\ employees'[u].deleted = FALSE
          /\ \A v \in User \ {u} : users'[v] = users[v] /\ employees'[v] = employees[v]
    BY <1>2, InsertTables
  <2>2. users'[u].active
    BY <2>1
  <2> QED
    BY <2>1, <2>2 DEF LoginsMatchProfiles, Removed
<1>3. ASSUME NEW r \in Request, WriteUpdate(r) PROVE LoginsMatchProfiles'
  <2> DEFINE u == call[r].id
  <2>1. /\ u \in User \ Admin /\ users[u] # None /\ employees[u] # None
        /\ users'[u] # None /\ employees'[u] # None
        /\ users'[u].active = users[u].active
        /\ employees'[u].deleted = employees[u].deleted
        /\ \A v \in User \ {u} : users'[v] = users[v] /\ employees'[v] = employees[v]
    BY <1>3, UpdateTables, AccountsAssumption
  <2> QED
    BY <2>1 DEF LoginsMatchProfiles, Removed
<1>4. ASSUME NEW r \in Request, WriteRemove(r) PROVE LoginsMatchProfiles'
  <2> DEFINE u == call[r].id
  <2>1. /\ u \in User \ Admin
        /\ users'[u] # None /\ employees'[u] # None
        /\ users'[u].active = FALSE /\ employees'[u].deleted = TRUE
        /\ \A v \in User \ {u} : users'[v] = users[v] /\ employees'[v] = employees[v]
    BY <1>4, RemoveTables, AccountsAssumption
  <2> QED
    BY <2>1 DEF LoginsMatchProfiles, Removed
<1> QED
  BY <1>1, <1>2, <1>3, <1>4, TableSteps

(* LoginsMatchProfiles: edits that race a removal bring neither half back. *)
THEOREM LoginsGoWithProfiles == Spec => []LoginsMatchProfiles
<1>1. Init => LoginsMatchProfiles
  <2> SUFFICES ASSUME Init PROVE LoginsMatchProfiles
    OBVIOUS
  <2>1. PICK address \in [Admin -> Email] :
          users = [u \in User |->
            IF u \in Admin THEN [email |-> address[u], active |-> TRUE] ELSE None]
    BY DEF Init
  <2>2. \A u \in User : /\ u \notin Admin => users[u] = None
                        /\ users[u] # None => users[u].active
                        /\ employees[u] = None
    BY <2>1 DEF Init
  <2> QED
    BY <2>2 DEF LoginsMatchProfiles, Removed
<1> QED
  BY <1>1, LoginsPreserved, TypeCorrect, PTL DEF Spec

-----------------------------------------------------------------------------
(* Removed employees.  RemovedAreGone says nothing of the way to an answer;*)
(* what is inductive is that a late request is still to look, or has been  *)
(* told, and that its employee remains removed.                            *)

GoneInv ==
  /\ \A r \in Request : pc[r] = "idle" => reply[r] = 0
  /\ \A r \in late :
       /\ pc[r] \in {"find", "done"} /\ reply[r] \in {0, 404, 500}
       /\ call[r].op \in {"update", "remove"} /\ Removed(call[r].id)

(* No step undoes a removal.                                               *)
LEMMA RemovalsLast ==
  ASSUME TypeOK, [Next]_vars, NEW u \in User, Removed(u)
  PROVE  Removed(u)'
<1>1. CASE UNCHANGED <<users, employees>>
  BY <1>1 DEF Removed
<1>2. ASSUME NEW r \in Request, Insert(r) PROVE Removed(u)'
  BY <1>2, InsertTables DEF Removed
<1>3. ASSUME NEW r \in Request, WriteUpdate(r) PROVE Removed(u)'
  <2>1. employees'[call[r].id] # None
    BY <1>3, UpdateTables, AccountsAssumption
  <2> QED
    BY <1>3, <2>1, UpdateTables DEF Removed
<1>4. ASSUME NEW r \in Request, WriteRemove(r) PROVE Removed(u)'
  <2>1. employees'[call[r].id] # None
    BY <1>4, RemoveTables, AccountsAssumption
  <2> QED
    BY <1>4, <2>1, RemoveTables DEF Removed
<1> QED
  BY <1>1, <1>2, <1>3, <1>4, TableSteps

(* What a step of a request does to its own control state: a late one is   *)
(* refused, and nobody starts twice.                                       *)
LEMMA GoneSteps ==
  ASSUME TypeOK, GoneInv, NEW r \in Request,
         \/ Find(r) \/ Lookup(r) \/ Insert(r) \/ WriteUpdate(r) \/ WriteRemove(r)
         \/ Refuse(r) \/ Fail(r)
  PROVE  /\ UNCHANGED <<call, late>>
         /\ \A q \in Request \ {r} : pc'[q] = pc[q] /\ reply'[q] = reply[q]
         /\ pc'[r] # "idle"
         /\ r \in late => pc'[r] = "done" /\ reply'[r] \in {404, 500}
<1>1. CASE Find(r)
  <2>1. CASE ~Finds(call[r].id)
    <3>1. Answer(r, 404)
      BY <1>1, <2>1 DEF Find
    <3> QED
      BY <1>1, <3>1, AnswerTyped, ControlParts DEF Find
  <2>2. CASE Finds(call[r].id)
    <3>1. r \notin late
      BY <2>2 DEF GoneInv, Finds, Removed
    <3>2. /\ UNCHANGED <<call, late, reply>>
          /\ \E label \in {"lookup", "write"} : Goto(r, label)
      BY <1>1, <2>2 DEF Find
    <3> QED
      BY <3>1, <3>2, GotoTyped, ControlParts
  <2> QED
    BY <2>1, <2>2
<1>2. CASE Lookup(r)
  <2>1. r \notin late
    BY <1>2 DEF Lookup, GoneInv
  <2>2. CASE Answer(r, 409)
    BY <1>2, <2>1, <2>2, AnswerTyped, ControlParts DEF Lookup
  <2>3. CASE Goto(r, "write") /\ UNCHANGED reply
    BY <1>2, <2>1, <2>3, GotoTyped, ControlParts DEF Lookup
  <2> QED
    BY <1>2, <2>2, <2>3 DEF Lookup
<1>3. CASE Insert(r) \/ WriteUpdate(r) \/ WriteRemove(r)
  <2>1. r \notin late
    BY <1>3 DEF Insert, WriteUpdate, WriteRemove, GoneInv
  <2>2. UNCHANGED <<call, late>> /\ (Done(r, 200) \/ Done(r, 201))
    BY <1>3 DEF Insert, WriteUpdate, WriteRemove
  <2> QED
    BY <2>1, <2>2, DoneTyped, ControlParts
<1>4. CASE Refuse(r)
  <2>1. r \notin late
    BY <1>4 DEF Refuse, GoneInv
  <2>2. UNCHANGED <<call, late>> /\ Answer(r, 409)
    BY <1>4 DEF Refuse
  <2> QED
    BY <2>1, <2>2, AnswerTyped, ControlParts
<1>5. CASE Fail(r)
  <2>1. UNCHANGED <<call, late>> /\ Answer(r, 500)
    BY <1>5 DEF Fail
  <2> QED
    BY <2>1, AnswerTyped, ControlParts
<1> QED
  BY <1>1, <1>2, <1>3, <1>4, <1>5

(* Whoever is gone stays so.                                               *)
LEMMA GonePreserved == TypeOK /\ GoneInv /\ [Next]_vars => GoneInv'
<1> SUFFICES ASSUME TypeOK, GoneInv, [Next]_vars PROVE GoneInv'
  OBVIOUS
<1>1. \A r \in late : r \in Request /\ call[r].id \in User
  BY CallFields DEF GoneInv, TypeOK, NoCall
<1>3. ASSUME NEW r \in Request, Receive(r) PROVE GoneInv'
  <2>1. PICK c \in Calls :
          /\ call' = [call EXCEPT ![r] = c]
          /\ late' = IF c.op \in {"update", "remove"} /\ Removed(c.id)
                       THEN late \cup {r} ELSE late
          /\ Goto(r, IF c.op \in {"register", "create"} THEN "lookup" ELSE "find")
    BY <1>3 DEF Receive
  <2>2. /\ UNCHANGED <<users, employees, reply>> /\ pc[r] = "idle"
    BY <1>3 DEF Receive, tables
  <2>3. /\ call'[r] = c /\ \A q \in Request \ {r} : call'[q] = call[q]
        /\ pc'[r] = IF c.op \in {"register", "create"} THEN "lookup" ELSE "find"
        /\ \A q \in Request \ {r} : pc'[q] = pc[q]
    BY <2>1 DEF TypeOK, Goto
  <2>4. r \notin late /\ reply[r] = 0
    BY <2>2 DEF GoneInv
  <2>5. \A u : Removed(u)' <=> Removed(u)
    BY <2>2 DEF Removed
  <2>6. ASSUME NEW q \in late'
        PROVE  /\ pc'[q] \in {"find", "done"} /\ reply'[q] \in {0, 404, 500}
               /\ call'[q].op \in {"update", "remove"}
               /\ employees[call'[q].id] # None /\ employees[call'[q].id].deleted
    BY <1>1, <2>1, <2>2, <2>3, <2>4, <2>6 DEF GoneInv, Removed
  <2>7. \A q \in Request : pc'[q] = "idle" => reply'[q] = 0
    BY <2>2, <2>3 DEF GoneInv
  <2> QED
    BY <2>2, <2>6, <2>7 DEF GoneInv, Removed
<1>4. ASSUME NEW r \in Request,
             \/ Find(r) \/ Lookup(r) \/ Insert(r) \/ WriteUpdate(r) \/ WriteRemove(r)
             \/ Refuse(r) \/ Fail(r)
      PROVE  GoneInv'
  <2>1. /\ UNCHANGED <<call, late>>
        /\ \A q \in Request \ {r} : pc'[q] = pc[q] /\ reply'[q] = reply[q]
        /\ pc'[r] # "idle"
        /\ r \in late => pc'[r] = "done" /\ reply'[r] \in {404, 500}
    BY <1>4, GoneSteps
  <2>2. \A q \in late : employees'[call[q].id] # None /\ employees'[call[q].id].deleted
    BY <1>1, RemovalsLast DEF GoneInv, Removed
  <2> QED
    BY <1>1, <2>1, <2>2 DEF GoneInv, Removed
<1>5. CASE UNCHANGED vars
  BY <1>5 DEF vars, tables, GoneInv, Removed
<1> QED
  BY <1>3, <1>4, <1>5 DEF Next

(* RemovedAreGone: no edit or removal that comes after the removal of its  *)
(* employee succeeds.                                                      *)
THEOREM RemovedStayGone == Spec => []RemovedAreGone
<1>1. Init => GoneInv
  BY DEF Init, GoneInv
<1>2. GoneInv => RemovedAreGone
  BY DEF GoneInv, RemovedAreGone
<1> QED
  BY <1>1, <1>2, GonePreserved, TypeCorrect, PTL DEF Spec

-----------------------------------------------------------------------------
(* What a client is told.                                                  *)

(* The kinds of step, by what they do to the answers: a request arrives,   *)
(* looks and goes on, is refused, or commits.                              *)
OthersStay(r) == \A q \in Request \ {r} : pc'[q] = pc[q] /\ reply'[q] = reply[q] /\ call'[q] = call[q]

Starts(r) ==
  /\ pc[r] = "idle" /\ pc'[r] # "done" /\ OthersStay(r)
  /\ UNCHANGED <<users, employees, audit, reply>>

Looks(r) ==
  /\ pc[r] \notin {"idle", "done"} /\ pc'[r] # "done" /\ OthersStay(r)
  /\ UNCHANGED <<users, employees, audit, call, reply>>

Refuses(r) ==
  /\ pc[r] \notin {"idle", "done"} /\ pc'[r] = "done" /\ OthersStay(r)
  /\ UNCHANGED <<users, employees, audit, call>>
  /\ reply'[r] \in {404, 409, 500}
  /\ reply'[r] = 409 => Taken(call[r].email)
  /\ reply'[r] = 404 => call[r].id \in User /\ Removed(call[r].id)

Commits(r) ==
  /\ pc[r] \notin {"idle", "done"} /\ pc'[r] = "done" /\ OthersStay(r)
  /\ UNCHANGED call
  /\ reply'[r] \in {200, 201, 500}
  /\ \E u \in User : Log(r, u)
  /\ \A v \in User : users'[v] # None =>
       \/ users[v] # None /\ users'[v].email = users[v].email
       \/ call[r].op # "remove" /\ call[r].email = users'[v].email
  /\ \A a \in Admin : users[a] # None => users'[a] = users[a]

(* A request that finds no employee was sent for one that was removed.     *)
LEMMA FindKinds ==
  ASSUME TypeOK, NEW r \in Request, Find(r)
  PROVE  Looks(r) \/ Refuses(r)
<1>1. pc[r] = "find" /\ UNCHANGED <<users, employees, audit, call>>
  BY DEF Find, tables
<1>2. CASE Answer(r, 404) /\ ~Finds(call[r].id)
  <2>1. call[r] \in Calls /\ call[r].op \in {"update", "remove"}
    BY <1>1, CallFields DEF TypeOK, Creates
  <2>2. employees[call[r].id] # None
    BY <2>1 DEF TypeOK
  <2>3. call[r].id \in User /\ Removed(call[r].id)
    BY <1>2, <2>1, <2>2, CallFields DEF Finds, Removed
  <2> QED
    BY <1>1, <1>2, <2>3, AnswerTyped, ControlParts DEF Refuses, OthersStay
<1>3. CASE UNCHANGED reply /\ \E label \in {"lookup", "write"} : Goto(r, label)
  BY <1>1, <1>3, GotoTyped, ControlParts DEF Looks, OthersStay
<1> QED
  BY <1>2, <1>3 DEF Find

(* A lookup, a violated index and a failure refuse.                        *)
LEMMA RefusalKinds ==
  ASSUME TypeOK, NEW r \in Request, Lookup(r) \/ Refuse(r) \/ Fail(r)
  PROVE  Looks(r) \/ Refuses(r)
<1>1. pc[r] \in {"find", "lookup", "write"} /\ UNCHANGED <<users, employees, audit, call>>
  BY DEF Lookup, Refuse, Fail, tables
<1>2. CASE Answer(r, 409) /\ Taken(call[r].email)
  BY <1>1, <1>2, AnswerTyped, ControlParts DEF Refuses, OthersStay
<1>3. CASE Answer(r, 500)
  BY <1>1, <1>3, AnswerTyped, ControlParts DEF Refuses, OthersStay
<1>4. CASE UNCHANGED reply /\ Goto(r, "write")
  BY <1>1, <1>4, GotoTyped, ControlParts DEF Looks, OthersStay
<1>5. Clash(r) => Taken(call[r].email)
  BY DEF Clash, Taken
<1> QED
  BY <1>2, <1>3, <1>4, <1>5 DEF Lookup, Refuse, Fail

(* The transactions commit: an address in the table is as it was, or it is *)
(* the one the request asked for, and no administrator's changes.          *)
LEMMA CommitKinds ==
  ASSUME TypeOK, NEW r \in Request, Insert(r) \/ WriteUpdate(r) \/ WriteRemove(r)
  PROVE  Commits(r)
<1>1. /\ pc[r] = "write" /\ UNCHANGED call
      /\ Done(r, 200) \/ Done(r, 201)
  BY DEF Insert, WriteUpdate, WriteRemove
<1>2. /\ pc'[r] = "done" /\ OthersStay(r)
      /\ reply'[r] \in {200, 201, 500}
  BY <1>1, DoneTyped, ControlParts DEF OthersStay
<1> DEFINE Addresses ==
      /\ \E u \in User : Log(r, u)
      /\ \A v \in User : users'[v] # None =>
           \/ users[v] # None /\ users'[v].email = users[v].email
           \/ call[r].op # "remove" /\ call[r].email = users'[v].email
      /\ \A a \in Admin : users[a] # None => users'[a] = users[a]
<1>3. ASSUME Insert(r) PROVE Addresses
  <2>1. PICK u \in User :
          /\ users[u] = None /\ users'[u] = [email |-> call[r].email, active |-> TRUE]
          /\ \A v \in User \ {u} : users'[v] = users[v]
    BY <1>3, InsertTables
  <2>2. call[r].op # "remove" /\ \E v \in User : Log(r, v)
    BY <1>3 DEF Insert, Creates
  <2> QED
    BY <2>1, <2>2, AccountsAssumption
<1>4. ASSUME WriteUpdate(r) PROVE Addresses
  <2> DEFINE c == call[r]
  <2>1. /\ c.id \in User \ Admin /\ users[c.id] # None
        /\ users'[c.id].email = Named(c.email, users[c.id].email)
        /\ \A v \in User \ {c.id} : users'[v] = users[v]
    BY <1>4, UpdateTables
  <2>2. c.op # "remove" /\ Log(r, c.id)
    BY <1>4 DEF WriteUpdate
  <2>3. \A v \in User : users'[v] # None =>
           \/ users[v] # None /\ users'[v].email = users[v].email
           \/ c.op # "remove" /\ c.email = users'[v].email
    BY <2>1, <2>2 DEF Named
  <2>4. \A a \in Admin : users'[a] = users[a]
    BY <2>1, AccountsAssumption
  <2> QED
    BY <2>1, <2>2, <2>3, <2>4
<1>5. ASSUME WriteRemove(r) PROVE Addresses
  <2> DEFINE c == call[r]
  <2>1. /\ c.id \in User \ Admin /\ users[c.id] # None
        /\ users'[c.id].email = users[c.id].email
        /\ \A v \in User \ {c.id} : users'[v] = users[v]
    BY <1>5, RemoveTables
  <2>2. Log(r, c.id)
    BY <1>5 DEF WriteRemove
  <2>3. \A v \in User : users'[v] # None => users[v] # None /\ users'[v].email = users[v].email
    BY <2>1
  <2>4. \A a \in Admin : users'[a] = users[a]
    BY <2>1, AccountsAssumption
  <2> QED
    BY <2>1, <2>2, <2>3, <2>4
<1> QED
  BY <1>1, <1>2, <1>3, <1>4, <1>5 DEF Commits

(* Every step is of one of these kinds.                                    *)
LEMMA StepKinds ==
  ASSUME TypeOK, [Next]_vars
  PROVE  \/ UNCHANGED <<users, employees, audit, pc, call, reply>>
         \/ \E r \in Request : Starts(r) \/ Looks(r) \/ Refuses(r) \/ Commits(r)
<1>1. ASSUME NEW r \in Request, Receive(r)
      PROVE  Starts(r)
  <2>1. PICK c \in Calls : /\ call' = [call EXCEPT ![r] = c]
                           /\ Goto(r, IF c.op \in {"register", "create"} THEN "lookup" ELSE "find")
    BY <1>1 DEF Receive
  <2> QED
    BY <1>1, <2>1, ControlParts DEF Receive, tables, Goto, Starts, OthersStay, TypeOK
<1>2. CASE UNCHANGED vars
  BY <1>2 DEF vars, tables
<1> QED
  BY <1>1, <1>2, FindKinds, RefusalKinds, CommitKinds DEF Next

(* The answers are true; a request is answered at its end; and the address *)
(* of every account but an administrator's is one some entry of the log    *)
(* gave it, which is what a conflict is about.                             *)
Given(e, i) == call[audit[i].request].op # "remove" /\ call[audit[i].request].email = e

AnswersInv ==
  /\ AnswersAreTrue
  /\ \A r \in Request : /\ reply[r] # 0 <=> pc[r] = "done"
                        /\ reply[r] = 404 => call[r].id \in User
  /\ \A a \in Admin : users[a] # None
  /\ \A u \in User \ Admin : users[u] # None => \E i \in DOMAIN audit : Given(users[u].email, i)

(* An entry of the log stays, with the call it stands for.                 *)
LEMMA EntriesStay ==
  ASSUME TypeOK, AnswersInv, [Next]_vars, NEW i \in DOMAIN audit
  PROVE  /\ audit[i].request \in Request
         /\ i \in DOMAIN audit' /\ audit'[i] = audit[i]
         /\ call'[audit[i].request] = call[audit[i].request]
<1>1. audit \in Seq(Entry) /\ audit[i] \in Entry
  BY DEF TypeOK
<1>2. audit[i].request \in Request /\ pc[audit[i].request] = "done"
  <2>1. audit[i].request \in Request
    BY <1>1 DEF Entry
  <2>2. Logged(audit[i].request)
    BY DEF Logged
  <2> QED
    BY <2>1, <2>2 DEF AnswersInv, AnswersAreTrue
<1>3. ASSUME NEW r \in Request, NEW u \in User, Log(r, u)
      PROVE  i \in DOMAIN audit' /\ audit'[i] = audit[i]
  BY <1>1, <1>3 DEF Log, Entry
<1>4. i \in DOMAIN audit' /\ audit'[i] = audit[i]
  BY <1>3, StepKinds DEF Starts, Looks, Refuses, Commits
<1>5. call'[audit[i].request] = call[audit[i].request]
  BY <1>2, StepKinds DEF Starts, Looks, Refuses, Commits, OthersStay
<1> QED
  BY <1>2, <1>4, <1>5

(* An administrator keeps the address, and a given one was given for good. *)
LEMMA HadStays ==
  ASSUME TypeOK, AnswersInv, [Next]_vars, NEW q \in Request, NEW e, HasHad(q, e)
  PROVE  HasHad(q, e)'
<1>1. \A a \in Admin : users'[a] = users[a]
  BY StepKinds DEF AnswersInv, Starts, Looks, Refuses, Commits
<1> QED
  BY <1>1, EntriesStay DEF HasHad

(* An address that is taken is an administrator's, or some request that    *)
(* was answered before has given it.                                       *)
LEMMA TakenWasHad ==
  ASSUME TypeOK, AnswersInv, NEW r \in Request, reply[r] = 0, NEW e, Taken(e)
  PROVE  HasHad(r, e)
<1>1. PICK u \in User : users[u] # None /\ users[u].email = e
  BY DEF Taken
<1>2. CASE u \in Admin
  BY <1>1, <1>2 DEF HasHad
<1>3. CASE u \notin Admin
  <2>1. PICK i \in DOMAIN audit : Given(e, i)
    BY <1>1, <1>3 DEF AnswersInv
  <2>2. audit[i].request # r
    BY DEF AnswersInv, AnswersAreTrue, Logged
  <2> QED
    BY <2>1, <2>2 DEF Given, HasHad
<1> QED
  BY <1>2, <1>3

(* What the log says of a request changes when it commits.                 *)
LEMMA LoggedStep ==
  ASSUME TypeOK, [Next]_vars, NEW q \in Request
  PROVE  Logged(q)' <=> Logged(q) \/ Commits(q)
<1>1. audit \in Seq(Entry)
  BY DEF TypeOK
<1>2. ASSUME NEW r \in Request, Commits(r)
      PROVE  Logged(q)' <=> Logged(q) \/ q = r
  <2>1. PICK u \in User : audit' = Append(audit, [request |-> r, id |-> u])
    BY <1>2 DEF Commits, Log
  <2>2. [request |-> r, id |-> u] \in Entry
    BY DEF Entry
  <2>3. /\ DOMAIN audit = 1..Len(audit) /\ Len(audit) \in Nat
        /\ DOMAIN audit' = 1..Len(audit) + 1
        /\ \A i \in 1..Len(audit) : audit'[i] = audit[i]
        /\ audit'[Len(audit) + 1] = [request |-> r, id |-> u]
    BY <1>1, <2>1, <2>2
  <2>4. \A k \in Nat : \A i \in 1..k : i \in 1..(k + 1)
    OBVIOUS
  <2>5. \A k \in Nat : k + 1 \in 1..(k + 1) /\ \A i \in 1..(k + 1) : i \in 1..k \/ i = k + 1
    OBVIOUS
  <2> QED
    BY <2>3, <2>4, <2>5 DEF Logged
<1>3. ASSUME NEW r \in Request, Commits(r), Commits(q)
      PROVE  q = r
  BY <1>3 DEF Commits, OthersStay
<1>4. ASSUME UNCHANGED audit
      PROVE  ~Commits(q)
  <2> SUFFICES ASSUME Commits(q) PROVE FALSE
    OBVIOUS
  <2>1. PICK u \in User : audit' = Append(audit, [request |-> q, id |-> u])
    BY DEF Commits, Log
  <2>2. [request |-> q, id |-> u] \in Entry
    BY DEF Entry
  <2>3. Len(audit') = Len(audit) + 1 /\ Len(audit) \in Nat
    BY <1>1, <2>1, <2>2
  <2> QED
    BY <1>4, <2>3
<1>5. CASE UNCHANGED audit
  BY <1>4, <1>5 DEF Logged
<1> QED
  BY <1>2, <1>3, <1>5, StepKinds DEF Starts, Looks, Refuses

(* Every step keeps AnswersInv.                                            *)
LEMMA AnswersStep == TypeOK /\ AnswersInv /\ [Next]_vars => AnswersInv'
<1> SUFFICES ASSUME TypeOK, AnswersInv, [Next]_vars
             PROVE  AnswersInv'
  OBVIOUS
<1>0. pc \in [Request -> {"idle", "find", "lookup", "write", "done"}]
  BY DEF TypeOK
<1>1. ASSUME NEW q \in Request
      PROVE  reply'[q] # 0 <=> pc'[q] = "done"
  BY <1>0, StepKinds DEF AnswersInv, Starts, Looks, Refuses, Commits, OthersStay
<1>2. ASSUME NEW q \in Request
      PROVE  /\ reply'[q] \in {200, 201} => Logged(q)'
             /\ Logged(q)' => reply'[q] \in {200, 201, 500}
  <2>1. CASE Commits(q)
    BY <2>1, LoggedStep DEF Commits
  <2>2. CASE reply'[q] = reply[q] /\ ~Commits(q)
    BY <2>2, LoggedStep DEF AnswersInv, AnswersAreTrue
  <2>3. CASE Refuses(q) /\ ~Commits(q)
    <3>1. reply[q] = 0
      BY <2>3 DEF Refuses, AnswersInv
    <3>2. ~Logged(q)'
      BY <2>3, <3>1, LoggedStep DEF AnswersInv, AnswersAreTrue
    <3> QED
      BY <2>3, <3>2 DEF Refuses
  <2>4. Commits(q) \/ Refuses(q) \/ reply'[q] = reply[q]
    BY StepKinds DEF Starts, Looks, Refuses, Commits, OthersStay
  <2> QED
    BY <2>1, <2>2, <2>3, <2>4
<1>3. ASSUME NEW q \in Request
      PROVE  /\ reply'[q] = 409 => HasHad(q, call[q].email)'
             /\ reply'[q] = 404 => call'[q].id \in User /\ Removed(call[q].id)'
  <2>1. CASE Refuses(q)
    <3>1. reply[q] = 0 /\ call'[q] = call[q] /\ UNCHANGED <<users, employees, audit, call>>
      BY <2>1 DEF Refuses, AnswersInv
    <3>2. reply'[q] = 409 => HasHad(q, call[q].email)
      BY <2>1, <3>1, TakenWasHad DEF Refuses
    <3>3. reply'[q] = 404 => call[q].id \in User /\ Removed(call[q].id)
      BY <2>1 DEF Refuses
    <3> QED
      BY <3>1, <3>2, <3>3 DEF HasHad, Removed
  <2>2. CASE Commits(q)
    BY <2>2 DEF Commits
  <2>3. CASE reply'[q] = reply[q]
    <3>1. CASE reply[q] \in {404, 409}
      <4>1. call'[q] = call[q]
        BY <3>1, StepKinds DEF AnswersInv, Starts, Looks, Refuses, Commits, OthersStay
      <4>2. PICK c : c = call[q] /\ c = call'[q]
        BY <4>1
      <4>3. reply[q] = 409 => HasHad(q, c.email)
        <5>1. reply[q] = 409 => HasHad(q, call[q].email)
          BY DEF AnswersInv, AnswersAreTrue
        <5> QED
          BY <4>2, <5>1 DEF HasHad
      <4>4. reply[q] = 409 => HasHad(q, c.email)'
        BY <4>3, HadStays
      <4>5. reply[q] = 404 => c.id \in User /\ Removed(c.id)
        <5>1. reply[q] = 404 => call[q].id \in User /\ Removed(call[q].id)
          BY DEF AnswersInv, AnswersAreTrue
        <5> QED
          BY <4>2, <5>1 DEF Removed
      <4>6. reply[q] = 404 => c.id \in User /\ Removed(c.id)'
        BY <4>5, RemovalsLast
      <4> QED
        BY <2>3, <4>2, <4>4, <4>6 DEF HasHad, Removed
    <3> QED
      BY <2>3, <3>1
  <2> QED
    BY <2>1, <2>2, <2>3, StepKinds DEF Starts, Looks, Refuses, Commits, OthersStay
<1>4. ASSUME NEW i \in DOMAIN audit', NEW j \in DOMAIN audit', audit'[i].request = audit'[j].request
      PROVE  i = j
  <2>1. audit \in Seq(Entry)
    BY DEF TypeOK
  <2>2. CASE UNCHANGED audit
    <3>1. i \in DOMAIN audit /\ j \in DOMAIN audit /\ audit[i].request = audit[j].request
      BY <1>4, <2>2
    <3>2. \A k, l \in DOMAIN audit : audit[k].request = audit[l].request => k = l
      <4>1. audit[i].request \in Request
        BY <3>1, EntriesStay
      <4> QED
        BY <4>1 DEF AnswersInv, AnswersAreTrue
    <3> QED
      BY <3>1, <3>2
  <2>3. ASSUME NEW r \in Request, Commits(r)
        PROVE  i = j
    <3>1. \A k \in DOMAIN audit : audit[k].request # r
      BY <2>3 DEF Commits, AnswersInv, AnswersAreTrue, Logged
    <3>2. PICK u \in User : audit' = Append(audit, [request |-> r, id |-> u])
      BY <2>3 DEF Commits, Log
    <3>3. [request |-> r, id |-> u] \in Entry
      BY DEF Entry
    <3>4. /\ DOMAIN audit = 1..Len(audit) /\ Len(audit) \in Nat
          /\ DOMAIN audit' = 1..Len(audit) + 1
          /\ \A k \in 1..Len(audit) : audit'[k] = audit[k]
          /\ audit'[Len(audit) + 1] = [request |-> r, id |-> u]
      BY <2>1, <3>2, <3>3
    <3>5. \A k \in Nat : \A l \in 1..(k + 1) : l \in 1..k \/ l = k + 1
      OBVIOUS
    <3>6. \A k, l \in DOMAIN audit : audit[k].request = audit[l].request => k = l
      BY DEF AnswersInv, AnswersAreTrue
    <3> QED
      BY <1>4, <3>1, <3>4, <3>5, <3>6
  <2> QED
    BY <2>2, <2>3, StepKinds DEF Starts, Looks, Refuses
<1>5. \A a \in Admin : users'[a] # None
  BY StepKinds DEF AnswersInv, Starts, Looks, Refuses, Commits
<1>6. ASSUME NEW v \in User \ Admin, users'[v] # None
      PROVE  \E i \in DOMAIN audit' : Given(users[v].email, i)'
  <2>1. CASE users[v] # None /\ users'[v].email = users[v].email
    <3>1. PICK i \in DOMAIN audit : Given(users[v].email, i)
      BY <2>1 DEF AnswersInv
    <3>2. i \in DOMAIN audit' /\ audit'[i] = audit[i] /\ call'[audit[i].request] = call[audit[i].request]
      BY EntriesStay
    <3> QED
      BY <2>1, <3>1, <3>2 DEF Given
  <2>2. ASSUME NEW r \in Request, Commits(r), call[r].op # "remove", call[r].email = users'[v].email
        PROVE  \E i \in DOMAIN audit' : Given(users[v].email, i)'
    <3>1. Logged(r)'
      BY <2>2, LoggedStep
    <3>2. PICK i \in DOMAIN audit' : audit'[i].request = r
      BY <3>1 DEF Logged
    <3> QED
      BY <2>2, <3>2 DEF Given, Commits
  <2>3. ASSUME NEW r \in Request, Commits(r)
        PROVE  \/ users[v] # None /\ users'[v].email = users[v].email
               \/ call[r].op # "remove" /\ call[r].email = users'[v].email
    BY <1>6, <2>3 DEF Commits
  <2> QED
    BY <1>6, <2>1, <2>2, <2>3, StepKinds DEF Starts, Looks, Refuses
<1> QED
  BY <1>1, <1>2, <1>3, <1>4, <1>5, <1>6 DEF AnswersInv, AnswersAreTrue

(* At the start nobody was answered.                                       *)
LEMMA AnswersStart == Init => AnswersInv
<1> SUFFICES ASSUME Init PROVE AnswersInv
  OBVIOUS
<1>1. PICK address \in [Admin -> Email] :
        users = [u \in User |->
          IF u \in Admin THEN [email |-> address[u], active |-> TRUE] ELSE None]
  BY DEF Init
<1>2. \A a \in Admin : users[a] # None
  <2>1. \A a \in Admin : users[a] \in UserRow
    BY <1>1, AccountsAssumption DEF UserRow
  <2> QED
    BY <2>1, AccountsAssumption
<1>3. \A u \in User \ Admin : users[u] = None
  BY <1>1
<1>4. audit = << >> /\ \A r \in Request : reply[r] = 0 /\ pc[r] = "idle"
  BY DEF Init
<1> QED
  BY <1>2, <1>3, <1>4 DEF AnswersInv, AnswersAreTrue, Logged

(* In every reachable state the answers tell what happened: success has    *)
(* one entry in the log and a refusal none, a 409 means that somebody else *)
(* had the address, a 404 that the employee was removed.                   *)
THEOREM AnswersTellTheTruth == Spec => []AnswersAreTrue
<1>1. AnswersInv => AnswersAreTrue
  BY DEF AnswersInv
<1> QED
  BY <1>1, AnswersStart, TypeCorrect, AnswersStep, PTL DEF Spec

-----------------------------------------------------------------------------
(* The replay of the log.  Rows is a recursive function; what is said of   *)
(* it for logs of every length follows from the least number at which it   *)
(* would fail.                                                             *)

(* A set of numbers that is not empty has a least member.                  *)
LEMMA LeastNumber ==
  ASSUME NEW T, T \subseteq Nat, T # {}
  PROVE  \E m \in T : \A k \in T : m <= k
<1> DEFINE R == OpToRel(<, Nat)
<1>1. IsWellFoundedOn(R, Nat)
  BY NatLessThanWellFounded, Zenon
<1> HIDE DEF R
<1>2. PICK m \in T : \A k \in T : <<k, m>> \notin R
  BY <1>1, WFMin
<1>3. \A k, n \in Nat : k < n => <<k, n>> \in R
  BY DEF R, OpToRel
<1>4. \A k, n \in Nat : ~(k < n) => n <= k
  OBVIOUS
<1> QED
  BY <1>2, <1>3, <1>4

(* The row after entry n, given the row before it.                         *)
After(log, asked, u, n, row) ==
  IF log[n].id = u THEN Apply(row, asked[log[n].request]) ELSE row

(* The rows after each of the first m entries.                             *)
IsHistory(f, log, asked, u, m) ==
  f = [n \in 0..m |-> IF n = 0 THEN None ELSE After(log, asked, u, n, f[n - 1])]

(* There are such rows for a log of any length.                            *)
LEMMA HistoriesExist ==
  ASSUME NEW log, NEW asked, NEW u, NEW m \in Nat
  PROVE  \E f : IsHistory(f, log, asked, u, m)
<1> DEFINE T == {n \in Nat : ~ \E f : IsHistory(f, log, asked, u, n)}
<1> SUFFICES ASSUME T # {} PROVE FALSE
  OBVIOUS
<1>1. PICK k \in T : \A n \in T : k <= n
  BY LeastNumber
<1>2. k # 0
  <2> DEFINE f == [n \in 0..0 |-> None]
  <2>1. IsHistory(f, log, asked, u, 0)
    BY DEF IsHistory
  <2> QED
    BY <2>1
<1>3. k - 1 \in Nat /\ ~(k <= k - 1)
  BY <1>2
<1>4. PICK f : IsHistory(f, log, asked, u, k - 1)
  BY <1>1, <1>3
<1> DEFINE g == [n \in 0..k |-> IF n = k THEN After(log, asked, u, k, f[k - 1]) ELSE f[n]]
<1>5. IsHistory(g, log, asked, u, k)
  <2> DEFINE h == [n \in 0..k |-> IF n = 0 THEN None ELSE After(log, asked, u, n, g[n - 1])]
  <2>1. ASSUME NEW n \in 0..k PROVE g[n] = h[n]
    <3>1. CASE n = k
      BY <3>1, <1>2, <1>3
    <3>2. CASE n = 0
      BY <3>2, <1>2, <1>3, <1>4 DEF IsHistory
    <3>3. CASE n # k /\ n # 0
      <4>1. n \in 0..(k - 1) /\ n - 1 \in 0..k /\ n - 1 # k
        BY <3>3
      <4>2. f[n] = After(log, asked, u, n, f[n - 1])
        BY <3>3, <4>1, <1>4 DEF IsHistory
      <4>3. g[n] = f[n] /\ g[n - 1] = f[n - 1]
        BY <3>3, <4>1
      <4> QED
        BY <3>3, <4>2, <4>3
    <3> QED
      BY <3>1, <3>2, <3>3
  <2>2. g = h
    BY <2>1
  <2> QED
    BY <2>2 DEF IsHistory
<1> QED
  BY <1>5

(* Rows is what its recursive definition says.                             *)
LEMMA RowsAreAHistory ==
  ASSUME NEW log \in Seq(Entry), NEW asked, NEW u
  PROVE  IsHistory(Rows(log, asked, u), log, asked, u, Len(log))
<1>1. Len(log) \in Nat
  OBVIOUS
<1>2. \E f : IsHistory(f, log, asked, u, Len(log))
  BY <1>1, HistoriesExist
<1> QED
  BY <1>2 DEF IsHistory, Rows, After

(* The first m entries are the same, and so are the calls they stand for.  *)
SameUpTo(m, log, asked, longer, later) ==
  \A n \in 1..m : /\ longer[n] = log[n]
                  /\ later[log[n].request] = asked[log[n].request]

(* The row after m entries depends on nothing that comes later.            *)
LEMMA HistoriesAgree ==
  ASSUME NEW log, NEW asked, NEW longer, NEW later, NEW u, NEW f, NEW g,
         NEW m \in Nat, NEW k \in Nat, m <= k,
         IsHistory(f, log, asked, u, m), IsHistory(g, longer, later, u, k),
         SameUpTo(m, log, asked, longer, later)
  PROVE  g[m] = f[m]
<1> DEFINE T == {n \in 0..m : g[n] # f[n]}
<1> SUFFICES ASSUME T # {} PROVE FALSE
  OBVIOUS
<1>1. PICK n \in T : \A i \in T : n <= i
  <2>1. T \subseteq Nat
    OBVIOUS
  <2> QED
    BY <2>1, LeastNumber
<1>2. n \in 0..m /\ n \in 0..k
  OBVIOUS
<1>3. n # 0
  BY <1>1, <1>2 DEF IsHistory
<1>4. n - 1 \in 0..m /\ ~(n <= n - 1)
  BY <1>2, <1>3
<1>5. g[n - 1] = f[n - 1]
  BY <1>1, <1>4
<1>6. f[n] = After(log, asked, u, n, f[n - 1])
  BY <1>2, <1>3 DEF IsHistory
<1>7. g[n] = After(longer, later, u, n, g[n - 1])
  BY <1>2, <1>3 DEF IsHistory
<1>8. n \in 1..m
  BY <1>2, <1>3
<1>9. longer[n] = log[n] /\ later[log[n].request] = asked[log[n].request]
  BY <1>8 DEF SameUpTo
<1> QED
  BY <1>1, <1>5, <1>6, <1>7, <1>9 DEF After

(* A log that has grown is replayed as before up to where it was.          *)
LEMMA ReplayStays ==
  ASSUME NEW log \in Seq(Entry), NEW longer \in Seq(Entry), NEW asked, NEW later, NEW u,
         Len(log) <= Len(longer), SameUpTo(Len(log), log, asked, longer, later)
  PROVE  Rows(longer, later, u)[Len(log)] = Rows(log, asked, u)[Len(log)]
<1>1. Len(log) \in Nat /\ Len(longer) \in Nat
  OBVIOUS
<1> QED
  BY <1>1, RowsAreAHistory, HistoriesAgree

(* One entry more is one call more, applied to the row of its employee.    *)
LEMMA ReplayGrows ==
  ASSUME NEW log \in Seq(Entry), NEW entry \in Entry, NEW asked, NEW later, NEW u,
         SameUpTo(Len(log), log, asked, log, later)
  PROVE  Rows(Append(log, entry), later, u)[Len(log) + 1] =
           LET row == Rows(log, asked, u)[Len(log)]
           IN  IF entry.id = u THEN Apply(row, later[entry.request]) ELSE row
<1> DEFINE longer == Append(log, entry)
           k == Len(log) + 1
<1>1. /\ longer \in Seq(Entry) /\ Len(longer) = k
      /\ Len(log) \in Nat /\ k \in Nat /\ Len(log) <= k /\ k - 1 = Len(log) /\ k # 0 /\ k \in 0..k
  OBVIOUS
<1>2. longer[k] = entry /\ \A n \in 1..Len(log) : longer[n] = log[n]
  OBVIOUS
<1> HIDE DEF longer
<1>3. SameUpTo(Len(log), log, asked, longer, later)
  BY <1>2 DEF SameUpTo
<1>4. Rows(longer, later, u)[Len(log)] = Rows(log, asked, u)[Len(log)]
  BY <1>1, <1>3, ReplayStays
<1>5. IsHistory(Rows(longer, later, u), longer, later, u, k)
  BY <1>1, RowsAreAHistory
<1> DEFINE rows == Rows(longer, later, u)
<1> HIDE DEF k, rows
<1>6. rows[k] = After(longer, later, u, k, rows[k - 1])
  BY <1>1, <1>5 DEF IsHistory, rows
<1>7. Rows(longer, later, u)[k] = After(longer, later, u, k, Rows(log, asked, u)[Len(log)])
  BY <1>1, <1>4, <1>6 DEF rows
<1>8. Rows(longer, later, u)[k] =
        IF entry.id = u THEN Apply(Rows(log, asked, u)[Len(log)], later[entry.request])
                        ELSE Rows(log, asked, u)[Len(log)]
  BY <1>2, <1>7 DEF After
<1> QED
  BY <1>8 DEF longer, k

(* An insertion makes the row that its call describes.                     *)
LEMMA InsertedRow ==
  ASSUME TypeOK, NEW r \in Request, Insert(r)
  PROVE  \E u \in User :
           /\ Log(r, u)
           /\ TableRow(u)' = Apply(TableRow(u), call[r])
           /\ \A v \in User \ {u} : TableRow(v)' = TableRow(v)
<1>1. PICK u \in User :
        /\ users[u] = None
        /\ users' = [users EXCEPT ![u] = [email |-> call[r].email, active |-> TRUE]]
        /\ employees' = [employees EXCEPT ![u] = [profile |-> call[r].profile, deleted |-> FALSE]]
        /\ Log(r, u)
  BY DEF Insert
<1>2. call[r] \in Calls /\ call[r].op \in {"register", "create"}
  BY DEF Insert, Creates, TypeOK
<1>3. users \in [User -> UserRow \cup {None}] /\ employees \in [User -> EmployeeRow \cup {None}]
  BY DEF TypeOK
<1>4. [profile |-> call[r].profile, deleted |-> FALSE] \in EmployeeRow
  BY <1>2, CallFields DEF EmployeeRow
<1>5. \A v \in User \ {u} : users'[v] = users[v] /\ employees'[v] = employees[v]
  BY <1>1, <1>3
<1>6. /\ users'[u].email = call[r].email
      /\ employees'[u] # None
      /\ employees'[u].profile = call[r].profile /\ employees'[u].deleted = FALSE
  BY <1>1, <1>3, <1>4, AccountsAssumption
<1>7. Apply(TableRow(u), call[r]) =
        [email |-> call[r].email, profile |-> call[r].profile, deleted |-> FALSE]
  BY <1>2 DEF Apply
<1> QED
  BY <1>1, <1>5, <1>6, <1>7 DEF TableRow

(* What an edit makes of a row.                                            *)
LEMMA EditedRow ==
  ASSUME NEW email, NEW profile, NEW deleted, NEW c, c.op = "update",
         NEW row, row = [email |-> email, profile |-> profile, deleted |-> deleted]
  PROVE  Apply(row, c) = [email |-> Named(c.email, email),
                          profile |-> Named(c.profile, profile), deleted |-> deleted]
<1>1. Apply(row, c) = [row EXCEPT !.email = Named(c.email, @), !.profile = Named(c.profile, @)]
  BY DEF Apply
<1> QED
  BY <1>1

(* What a removal makes of a row.                                          *)
LEMMA MarkedRow ==
  ASSUME NEW email, NEW profile, NEW deleted, NEW row, NEW new,
         row = [email |-> email, profile |-> profile, deleted |-> deleted],
         new = [row EXCEPT !.deleted = TRUE]
  PROVE  new = [email |-> email, profile |-> profile, deleted |-> TRUE]
OBVIOUS

(* An edit changes the fields it names, a removal the mark alone.          *)
LEMMA WrittenRow ==
  ASSUME TypeOK, NEW r \in Request, WriteUpdate(r) \/ WriteRemove(r)
  PROVE  \E u \in User :
           /\ Log(r, u)
           /\ TableRow(u)' = Apply(TableRow(u), call[r])
           /\ \A v \in User \ {u} : TableRow(v)' = TableRow(v)
<1>1. PICK c \in Calls : c = call[r] /\ c.op \in {"update", "remove"}
  BY DEF WriteUpdate, WriteRemove, TypeOK, NoCall
<1>0. PICK u \in User : u = c.id
  BY <1>1, CallFields
<1>2. users \in [User -> UserRow \cup {None}] /\ employees \in [User -> EmployeeRow \cup {None}]
  BY DEF TypeOK
<1>3. u \in User /\ employees[u] # None /\ users[u] # None
  BY <1>0, <1>1 DEF TypeOK
<1>4. employees[u] \in EmployeeRow /\ users[u] \in UserRow
  BY <1>2, <1>3
<1>5. TableRow(u) = [email |-> users[u].email, profile |-> employees[u].profile,
                     deleted |-> employees[u].deleted]
  BY <1>3 DEF TableRow
<1>8. PICK email, profile, deleted :
        /\ email = users[u].email /\ profile = employees[u].profile
        /\ deleted = employees[u].deleted
        /\ TableRow(u) = [email |-> email, profile |-> profile, deleted |-> deleted]
  BY <1>5
<1>6. CASE WriteUpdate(r)
  <2>1. c.op = "update" /\ Log(r, u)
    BY <1>0, <1>1, <1>6 DEF WriteUpdate
  <2>2. /\ users' = [users EXCEPT ![u] = [users[u] EXCEPT !.email = Named(c.email, users[u].email)]]
        /\ employees' = [employees EXCEPT ![u] =
             [employees[u] EXCEPT !.profile = Named(c.profile, employees[u].profile)]]
    BY <1>0, <1>1, <1>6 DEF WriteUpdate
  <2>3. /\ users'[u].email = Named(c.email, users[u].email)
        /\ employees'[u].profile = Named(c.profile, employees[u].profile)
        /\ employees'[u].deleted = employees[u].deleted
    BY <1>2, <1>3, <1>4, <2>2 DEF UserRow, EmployeeRow
  <2>4. employees'[u] # None
    BY <1>0, <1>1, <1>6, <1>3, UpdateTables, AccountsAssumption
  <2>5. \A v \in User \ {u} : users'[v] = users[v] /\ employees'[v] = employees[v]
    BY <1>0, <1>1, <1>6, UpdateTables
  <2>6. Apply(TableRow(u), c) =
          [email |-> Named(c.email, users[u].email),
           profile |-> Named(c.profile, employees[u].profile), deleted |-> employees[u].deleted]
    BY <1>8, <2>1, EditedRow
  <2>7. TableRow(u)' = [email |-> users'[u].email, profile |-> employees'[u].profile,
                        deleted |-> employees'[u].deleted]
    BY <2>4 DEF TableRow
  <2>8. TableRow(u)' = Apply(TableRow(u), c)
    BY <2>3, <2>6, <2>7
  <2>9. \A v \in User \ {u} : TableRow(v)' = TableRow(v)
    BY <2>5 DEF TableRow
  <2> QED
    BY <1>1, <2>1, <2>8, <2>9
<1>7. CASE WriteRemove(r)
  <2>1. c.op = "remove" /\ Log(r, u)
    BY <1>0, <1>1, <1>7 DEF WriteRemove
  <2>2. /\ users' = [users EXCEPT ![u] = [users[u] EXCEPT !.active = FALSE]]
        /\ employees' = [employees EXCEPT ![u] = [employees[u] EXCEPT !.deleted = TRUE]]
    BY <1>0, <1>1, <1>7 DEF WriteRemove
  <2>3. /\ users'[u].email = users[u].email
        /\ employees'[u].profile = employees[u].profile
        /\ employees'[u].deleted = TRUE
    BY <1>2, <1>3, <1>4, <2>2 DEF UserRow, EmployeeRow
  <2>4. employees'[u] # None
    BY <1>0, <1>1, <1>7, <1>3, RemoveTables, AccountsAssumption
  <2>5. \A v \in User \ {u} : users'[v] = users[v] /\ employees'[v] = employees[v]
    BY <1>0, <1>1, <1>7, RemoveTables
  <2>6. Apply(TableRow(u), c) = [TableRow(u) EXCEPT !.deleted = TRUE]
    BY <2>1 DEF Apply
  <2>7. TableRow(u)' = [email |-> users'[u].email, profile |-> employees'[u].profile,
                        deleted |-> employees'[u].deleted]
    BY <2>4 DEF TableRow
  <2>8. TableRow(u)' = Apply(TableRow(u), c)
    <3>1. PICK row, new, later : row = TableRow(u) /\ new = Apply(row, c) /\ later = TableRow(u)'
      OBVIOUS
    <3>2. /\ row = [email |-> email, profile |-> profile, deleted |-> deleted]
          /\ new = [row EXCEPT !.deleted = TRUE]
      BY <1>8, <2>6, <3>1
    <3>3. new = [email |-> email, profile |-> profile, deleted |-> TRUE]
      BY <3>2, MarkedRow
    <3>4. later = [email |-> email, profile |-> profile, deleted |-> TRUE]
      BY <1>8, <2>3, <2>7, <3>1
    <3> QED
      BY <3>1, <3>3, <3>4
  <2>9. \A v \in User \ {u} : TableRow(v)' = TableRow(v)
    BY <2>5 DEF TableRow
  <2> QED
    BY <1>1, <2>1, <2>8, <2>9
<1> QED
  BY <1>0, <1>1, <1>6, <1>7

(* The log is replayed over a log that has grown by what was committed.    *)
LEMMA ReplayPreserved ==
  TypeOK /\ AnswersInv /\ TablesReplayTheLog /\ [Next]_vars => TablesReplayTheLog'
<1> SUFFICES ASSUME TypeOK, AnswersInv, TablesReplayTheLog, [Next]_vars,
                    NEW v \in User
             PROVE  Replayed(v)' = TableRow(v)'
  BY DEF TablesReplayTheLog
<1>1. audit \in Seq(Entry) /\ Replayed(v) = TableRow(v)
  BY DEF TypeOK, TablesReplayTheLog
<1>2. \A n \in 1..Len(audit) : call'[audit[n].request] = call[audit[n].request]
  <2>1. DOMAIN audit = 1..Len(audit)
    BY <1>1
  <2> QED
    BY <2>1, EntriesStay
<1>3. SameUpTo(Len(audit), audit, call, audit, call')
  BY <1>2 DEF SameUpTo
<1>4. CASE UNCHANGED <<users, employees, audit>>
  <2>1. TableRow(v)' = TableRow(v)
    BY <1>4 DEF TableRow
  <2>2. Rows(audit, call', v)[Len(audit)] = Rows(audit, call, v)[Len(audit)]
    <3>1. Len(audit) <= Len(audit)
      BY <1>1
    <3> QED
      BY <1>1, <1>3, <3>1, ReplayStays
  <2> QED
    BY <1>1, <1>4, <2>1, <2>2 DEF Replayed
<1>5. ASSUME NEW r \in Request, Insert(r) \/ WriteUpdate(r) \/ WriteRemove(r)
      PROVE  Replayed(v)' = TableRow(v)'
  <2>1. PICK u \in User :
          /\ Log(r, u)
          /\ TableRow(u)' = Apply(TableRow(u), call[r])
          /\ \A w \in User \ {u} : TableRow(w)' = TableRow(w)
    BY <1>5, InsertedRow, WrittenRow
  <2> DEFINE entry == [request |-> r, id |-> u]
  <2>2. entry \in Entry /\ audit' = Append(audit, entry)
    BY <2>1 DEF Entry, Log
  <2>3. call' = call
    BY <1>5 DEF Insert, WriteUpdate, WriteRemove
  <2>4. Len(audit') = Len(audit) + 1
    BY <1>1, <2>2
  <2>5. Rows(Append(audit, entry), call', v)[Len(audit) + 1] =
          IF u = v THEN Apply(Replayed(v), call'[r]) ELSE Replayed(v)
    BY <1>1, <1>3, <2>2, ReplayGrows DEF Replayed
  <2>6. Replayed(v)' = IF u = v THEN Apply(TableRow(v), call[r]) ELSE TableRow(v)
    BY <1>1, <2>2, <2>3, <2>4, <2>5 DEF Replayed
  <2> QED
    BY <2>1, <2>6
<1>6. UNCHANGED <<users, employees, audit>>
        \/ \E r \in Request : Insert(r) \/ WriteUpdate(r) \/ WriteRemove(r)
  <2>1. ASSUME NEW r \in Request,
               Receive(r) \/ Find(r) \/ Lookup(r) \/ Refuse(r) \/ Fail(r)
        PROVE  UNCHANGED <<users, employees, audit>>
    BY <2>1 DEF Receive, Find, Lookup, Refuse, Fail, tables
  <2>2. CASE UNCHANGED vars
    BY <2>2 DEF vars, tables
  <2> QED
    BY <2>1, <2>2 DEF Next
<1> QED
  BY <1>4, <1>5, <1>6

(* At the start the log is empty and nobody is employed.                   *)
LEMMA ReplayStart == Init => TablesReplayTheLog
<1> SUFFICES ASSUME Init, NEW u \in User
             PROVE  Replayed(u) = TableRow(u)
  BY DEF TablesReplayTheLog
<1>1. audit = << >> /\ employees[u] = None
  BY DEF Init
<1>2. audit \in Seq(Entry) /\ Len(audit) = 0 /\ 0 \in 0..0
  BY <1>1
<1>3. IsHistory(Rows(audit, call, u), audit, call, u, 0)
  BY <1>2, RowsAreAHistory
<1>4. Rows(audit, call, u)[0] = None
  BY <1>2, <1>3 DEF IsHistory
<1> QED
  BY <1>1, <1>2, <1>4 DEF Replayed, TableRow

(* In every reachable state the audit log, replayed in its order, gives    *)
(* each employee's row of the tables: no edit is lost or undone, and what  *)
(* was refused or failed left nothing.                                     *)
THEOREM LogGivesTheTables == Spec => []TablesReplayTheLog
<1>1. Init => AnswersInv /\ TablesReplayTheLog
  BY AnswersStart, ReplayStart
<1>2. TypeOK /\ AnswersInv /\ TablesReplayTheLog /\ [Next]_vars => (AnswersInv /\ TablesReplayTheLog)'
  BY AnswersStep, ReplayPreserved
<1> QED
  BY <1>1, <1>2, TypeCorrect, PTL DEF Spec

=============================================================================
