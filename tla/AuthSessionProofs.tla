------------------------ MODULE AuthSessionProofs ------------------------
(***************************************************************************)
(* Theorems about AuthSession, and about the browsers in front of it       *)
(* (module ClientSession), for every value of their constants.             *)
(***************************************************************************)
EXTENDS ClientSession, TLAPS

-----------------------------------------------------------------------------
(* How the table of refresh tokens changes.                                *)

(* A step keeps every row, its user and what it was rotated from, and does *)
(* not take back a revocation.                                             *)
Ages(t) ==
  /\ tokens'[t] # None
  /\ tokens'[t].user = tokens[t].user
  /\ tokens'[t].from = tokens[t].from
  /\ tokens[t].revoked => tokens'[t].revoked

(* The presented token of a call has a row.                                *)
LEMMA PresentedIsIssued ==
  ASSUME TypeOK, NEW r \in Request, Presents(r)
  PROVE  call[r].token \in Token /\ tokens[call[r].token] \in TokenRow
BY DEF TypeOK, Presents, Calls, NoCall, Issued

(* The row a request inserts.                                              *)
LEMMA FreshRowIsARow ==
  ASSUME TypeOK, NEW r \in Request, pc[r] = "insert"
  PROVE  /\ target[r] \in User
         /\ FreshRow(r) \in TokenRow
         /\ FreshRow(r).user = target[r]
         /\ ~FreshRow(r).revoked
         /\ FreshRow(r).replacedBy = None
         /\ FreshRow(r).born = kills[target[r]]
         /\ call[r].op = "refresh" => FreshRow(r).from = call[r].token
<1>1. LocalsFit(r) /\ (Rotates(r) \/ LogsIn(r))
  BY DEF TypeOK, LocalsFit
<1>2. CASE Rotates(r)
  <2>1. call[r].token \in Token /\ tokens[call[r].token] \in TokenRow
    BY <1>2, PresentedIsIssued DEF Presents, Rotates
  <2>2. target[r] \in User
    BY <1>2, <2>1 DEF Rotates, TokenRow
  <2> QED
    BY <1>2, <2>1, <2>2 DEF FreshRow, TokenRow, TypeOK, Rotates
<1>3. CASE LogsIn(r)
  <2>1. target[r] \in User
    BY <1>3 DEF TypeOK, LogsIn, Calls, NoCall
  <2> QED
    BY <1>3, <2>1 DEF FreshRow, TokenRow, TypeOK, LogsIn
<1> QED
  BY <1>1, <1>2, <1>3

(* Inserting, retiring and revoking give rows, and every row ages.         *)
LEMMA InsertAges ==
  ASSUME TypeOK, NEW r \in Request, Insert(r), NEW t \in Issued
  PROVE  Ages(t)
BY DEF Insert, TypeOK, Issued, Ages

(* Retiring a token ages its row and leaves the others.                    *)
LEMMA RetireAges ==
  ASSUME TypeOK, NEW r \in Request, Retire(r), NEW t \in Issued
  PROVE  Ages(t)
<1>1. tokens[t] \in TokenRow
  BY DEF TypeOK, Issued
<1>2. CASE call[r].token # t
  BY <1>2 DEF Retire, TypeOK, Issued, Ages
<1>3. CASE call[r].token = t
  <2>1. tokens'[t] = [tokens[t] EXCEPT
                        !.revoked = TRUE,
                        !.replacedBy = IF call[r].op = "refresh" THEN new[r] ELSE @]
    BY <1>3 DEF Retire, TypeOK, Issued
  <2>2. /\ tokens'[t].user = tokens[t].user
        /\ tokens'[t].from = tokens[t].from
        /\ tokens'[t].revoked
        /\ tokens'[t] \in TokenRow
    BY <1>1, <2>1 DEF TokenRow, TypeOK
  <2> QED
    BY <2>2, NoneAssumption DEF Ages
<1> QED
  BY <1>2, <1>3

(* Revoking everything of a user ages the rows of the user and leaves the  *)
(* others.                                                                 *)
LEMMA KillAges ==
  ASSUME TypeOK, NEW r \in Request, Kill(r), NEW t \in Issued
  PROVE  Ages(t)
<1>1. tokens[t] \in TokenRow /\ t \in Token
  BY DEF TypeOK, Issued
<1>2. tokens'[t] = IF t \in TokensOf(target[r]) THEN [tokens[t] EXCEPT !.revoked = TRUE] ELSE tokens[t]
  BY <1>1 DEF Kill, RevokeAll
<1>3. CASE t \in TokensOf(target[r])
  <2>1. /\ tokens'[t].user = tokens[t].user
        /\ tokens'[t].from = tokens[t].from
        /\ tokens'[t].revoked
        /\ tokens'[t] \in TokenRow
    BY <1>1, <1>2, <1>3 DEF TokenRow
  <2> QED
    BY <2>1, NoneAssumption DEF Ages
<1>4. CASE t \notin TokensOf(target[r])
  BY <1>1, <1>2, <1>4 DEF Ages, Issued
<1> QED
  BY <1>3, <1>4

(* So every step of the system ages every row there is.                    *)
LEMMA EveryStepAges ==
  ASSUME TypeOK, [Next]_vars, NEW t \in Issued
  PROVE  Ages(t)
<1>1. CASE UNCHANGED tokens
  BY <1>1 DEF Ages, Issued
<1> QED
  BY <1>1, InsertAges, RetireAges, KillAges DEF Next, RequestStep, vars, database, Receive, LoginFind,
     RefreshFind, LogoutFind, ForgotSet, ForgotMail, ResetFind, RefreshUser, ResetPassword, Respond, Fail,
     Deactivate, ExpireLink, Expire

(* So a token that has a row keeps one.                                    *)
LEMMA IssuedGrows ==
  ASSUME TypeOK, [Next]_vars
  PROVE  Issued \subseteq Issued'
BY EveryStepAges DEF Issued, Ages

-----------------------------------------------------------------------------
(* Type correctness.                                                       *)

(* A request that does not move keeps its locals fitting, whatever the     *)
(* others do to the table.                                                 *)
LEMMA OthersKeepTheirLocals ==
  ASSUME TypeOK, [Next]_vars, NEW q \in Request,
         pc'[q] = pc[q], call'[q] = call[q], target'[q] = target[q], new'[q] = new[q],
         link'[q] = link[q],
         reply'[q] = reply[q]
  PROVE  LocalsFit(q)'
<1>1. LocalsFit(q)
  BY DEF TypeOK
<1>2. Presents(q)' <=> Presents(q)
  BY DEF Presents
<1>3. LogsIn(q)' <=> LogsIn(q)
  BY DEF LogsIn
<1>4. Presents(q) => /\ tokens'[call[q].token].user = tokens[call[q].token].user
                     /\ tokens[call[q].token].revoked => tokens'[call[q].token].revoked
  <2> SUFFICES ASSUME Presents(q)
               PROVE  Ages(call[q].token)
    BY DEF Ages
  <2>1. call[q].token \in Issued
    BY PresentedIsIssued, NoneAssumption DEF Issued
  <2> QED
    BY <2>1, EveryStepAges
<1>5. Rotates(q) => Rotates(q)'
  BY <1>4 DEF Rotates, Presents
<1>6. HasNew(q) => HasNew(q)' /\ tokens'[new[q]].from = tokens[new[q]].from
  BY EveryStepAges, IssuedGrows DEF HasNew, Ages
<1>7. (pc[q] = "respond" /\ Presents(q)) => tokens'[call'[q].token].revoked
  BY <1>1, <1>4 DEF LocalsFit
<1> QED
  BY <1>1, <1>2, <1>3, <1>5, <1>6, <1>7 DEF LocalsFit

(* What a client can ask only grows.                                       *)
LEMMA CallsGrow ==
  ASSUME TypeOK, [Next]_vars
  PROVE  Calls \subseteq Calls'
<1>1. delivered \subseteq delivered' /\ mailed \subseteq mailed'
  BY DEF Next, RequestStep, vars, database, clients, Receive, LoginFind, RefreshFind, LogoutFind,
     ForgotSet, ForgotMail, ResetFind, RefreshUser, Insert, Retire, ResetPassword, Kill, Respond, Fail,
     Deactivate, ExpireLink, Expire
<1>2. [op: {"refresh", "logout"}, token: delivered \cup {None}]
        \subseteq [op: {"refresh", "logout"}, token: delivered' \cup {None}]
  BY <1>1
<1>3. [op: {"reset"}, link: mailed, password: Password]
        \subseteq [op: {"reset"}, link: mailed', password: Password]
  BY <1>1
<1> QED
  BY <1>2, <1>3 DEF Calls

(* The variables a step of a request may change, and still be typed.       *)
TypedLocals ==
  /\ pc \in [Request -> Labels]
  /\ target \in [Request -> User \cup {None}]
  /\ new \in [Request -> Token \cup {None}]
  /\ link \in [Request -> Link \cup {None}]
  /\ reply \in [Request -> Replies]
  /\ checked \in [Request -> Nat]
  /\ late \subseteq Request
  /\ DOMAIN call = Request /\ \A r \in Request : call[r] \in Calls \cup {NoCall}

(* The typing of the tables.                                               *)
TypedTables ==
  /\ tokens \in [Token -> TokenRow \cup {None}]
  /\ expired \subseteq Issued
  /\ delivered \subseteq Issued
  /\ active \subseteq User
  /\ password \in [User -> Password]
  /\ resetLink \in [User -> Link \cup {None}]
  /\ mailed \subseteq Link
  /\ kills \in [User -> Nat]

(* The type invariant is these two and the fit of the locals.              *)
LEMMA TypeParts == TypeOK <=> TypedLocals /\ TypedTables /\ \A r \in Request : LocalsFit(r)
BY DEF TypeOK, TypedLocals, TypedTables

(* Every step but those that insert, retire or revoke keeps the tables     *)
(* typed, and so do those.                                                 *)
LEMMA TablesStep == TypeOK /\ [Next]_vars => TypedTables'
<1> SUFFICES ASSUME TypeOK, [Next]_vars
             PROVE  TypedTables'
  OBVIOUS
<1>1. Issued \subseteq Issued'
  BY IssuedGrows
<1>2. TypedTables
  BY TypeParts
<1>a. ASSUME NEW r \in Request, RequestStep(r)
      PROVE  TypedTables'
  <2>1. CASE Receive(r) \/ LoginFind(r) \/ RefreshFind(r) \/ LogoutFind(r) \/ ResetFind(r)
               \/ RefreshUser(r) \/ Fail(r)
    <3>1. UNCHANGED <<database, clients, kills>>
      BY <2>1 DEF Receive, LoginFind, RefreshFind, LogoutFind, ResetFind, RefreshUser, Fail, history
    <3> QED
      BY <1>2, <3>1 DEF TypedTables, database, clients, Issued
  <2>2. CASE ForgotSet(r) \/ ForgotMail(r)
    <3>1. CASE ForgotSet(r)
      <4>1. call[r].user \in User
        BY <3>1 DEF ForgotSet, At, TypeOK, Calls, NoCall
      <4>2. PICK l \in Link : resetLink' = [resetLink EXCEPT ![call[r].user] = l]
        BY <3>1 DEF ForgotSet
      <4>3. resetLink' \in [User -> Link \cup {None}]
        BY <1>2, <4>1, <4>2 DEF TypedTables
      <4>4. UNCHANGED <<tokens, expired, active, password, clients, kills>>
        BY <3>1 DEF ForgotSet, history
      <4> QED
        BY <1>1, <1>2, <4>3, <4>4 DEF TypedTables, clients
    <3>2. CASE ForgotMail(r)
      <4>1. link[r] \in Link
        BY <3>2 DEF ForgotMail, TypeOK, LocalsFit
      <4>2. mailed' = mailed \cup {link[r]} /\ UNCHANGED <<database, delivered, kills>>
        BY <3>2 DEF ForgotMail, history
      <4> QED
        BY <1>1, <1>2, <4>1, <4>2 DEF TypedTables, database
    <3> QED
      BY <2>2, <3>1, <3>2
  <2>3. CASE Insert(r)
    <3>1. FreshRow(r) \in TokenRow
      BY <2>3, FreshRowIsARow DEF Insert
    <3>2. tokens' \in [Token -> TokenRow \cup {None}]
      BY <1>2, <2>3, <3>1 DEF Insert, TypedTables
    <3>3. UNCHANGED <<expired, active, password, resetLink, delivered, mailed, kills>>
      BY <2>3 DEF Insert, clients, history
    <3> QED
      BY <1>1, <1>2, <3>2, <3>3 DEF TypedTables
  <2>4. CASE Retire(r)
    <3> DEFINE k == call[r].token
    <3>1. k \in Token /\ tokens[k] \in TokenRow
      BY <2>4, PresentedIsIssued DEF Retire, TypeOK, LocalsFit, Rotates, Presents
    <3>2. tokens' = [tokens EXCEPT ![k] =
            [tokens[k] EXCEPT !.revoked = TRUE,
                              !.replacedBy = IF call[r].op = "refresh" THEN new[r] ELSE @]]
      BY <1>2, <2>4, <3>1 DEF Retire, TypedTables
    <3>3. [tokens[k] EXCEPT !.revoked = TRUE,
                            !.replacedBy = IF call[r].op = "refresh" THEN new[r] ELSE @] \in TokenRow
      BY <3>1 DEF TypeOK, TokenRow
    <3> HIDE DEF k
    <3>4. tokens' \in [Token -> TokenRow \cup {None}]
      BY <1>2, <3>1, <3>2, <3>3 DEF TypedTables
    <3>5. UNCHANGED <<expired, active, password, resetLink, delivered, mailed, kills>>
      BY <2>4 DEF Retire, clients, history
    <3> QED
      BY <1>1, <1>2, <3>4, <3>5 DEF TypedTables
  <2>5. CASE ResetPassword(r)
    <3>1. target[r] \in User /\ call[r].password \in Password
      BY <2>5 DEF ResetPassword, TypeOK, LocalsFit, Calls, NoCall
    <3> QED
      BY <1>2, <2>5, <3>1 DEF ResetPassword, TypedTables, Issued, clients, history
  <2>6. CASE Kill(r)
    <3>1. target[r] \in User
      BY <2>6 DEF Kill, TypeOK, LocalsFit
    <3>2. \A t \in Issued : [tokens[t] EXCEPT !.revoked = TRUE] \in TokenRow
      BY <1>2 DEF TypedTables, Issued, TokenRow
    <3>3. tokens' \in [Token -> TokenRow \cup {None}]
      BY <1>2, <2>6, <3>2 DEF Kill, RevokeAll, TokensOf, TypedTables
    <3>4. kills' \in [User -> Nat]
      BY <1>2, <2>6, <3>1 DEF Kill, TypedTables
    <3>5. UNCHANGED <<expired, active, password, resetLink, delivered, mailed>>
      BY <2>6 DEF Kill, clients
    <3> QED
      BY <1>1, <1>2, <3>3, <3>4, <3>5 DEF TypedTables
  <2>7. CASE Respond(r)
    <3>1. new[r] # None => new[r] \in Issued
      BY <2>7 DEF Respond, TypeOK, LocalsFit, HasNew
    <3> QED
      BY <1>2, <2>7, <3>1 DEF Respond, database, history, TypedTables, Issued
  <2> QED
    BY <1>a, <2>1, <2>2, <2>3, <2>4, <2>5, <2>6, <2>7 DEF RequestStep
<1>b. ASSUME NEW u \in User, Deactivate(u) \/ ExpireLink(u)
      PROVE  TypedTables'
  BY <1>2, <1>b DEF Deactivate, ExpireLink, TypedTables, clients, history, Issued
<1>c. ASSUME NEW t \in Token, Expire(t)
      PROVE  TypedTables'
  BY <1>2, <1>c DEF Expire, TypedTables, clients, history, Issued
<1>d. CASE UNCHANGED vars
  BY <1>2, <1>d DEF vars, database, clients, history, TypedTables, Issued
<1> QED
  BY <1>a, <1>b, <1>c, <1>d DEF Next

(* What moving on, answering and finding the user do to the types.         *)
LEMMA GotoTyped ==
  ASSUME TypedLocals, NEW r \in Request, NEW label \in Labels, Goto(r, label)
  PROVE  pc' \in [Request -> Labels]
BY DEF Goto, TypedLocals

(* What Answer assigns is typed.                                           *)
LEMMA AnswerTyped ==
  ASSUME TypedLocals, NEW r \in Request, NEW status \in Replies, Answer(r, status)
  PROVE  pc' \in [Request -> Labels] /\ reply' \in [Request -> Replies]
BY DEF Answer, Goto, TypedLocals, Labels

(* What Found assigns is typed.                                            *)
LEMMA FoundTyped ==
  ASSUME TypedLocals, kills \in [User -> Nat], NEW r \in Request, NEW u \in User,
         NEW label \in Labels, Found(r, u, label)
  PROVE  /\ pc' \in [Request -> Labels]
         /\ target' \in [Request -> User \cup {None}]
         /\ checked' \in [Request -> Nat]
         /\ reply' = reply
BY DEF Found, Goto, TypedLocals

(* Every step keeps the locals typed.                                      *)
LEMMA LocalsTypedStep ==
  ASSUME TypeOK, [Next]_vars
  PROVE  TypedLocals'
<1>1. TypedLocals /\ kills \in [User -> Nat]
  BY DEF TypeOK, TypedLocals
<1>2. Calls \subseteq Calls'
  BY CallsGrow
<1>3. /\ {"find", "user", "insert", "retire", "mail", "password", "kill", "respond", "done"}
        \subseteq Labels
      /\ {200, 400, 401, 500} \subseteq Replies
  BY DEF Labels, Replies
<1>a. ASSUME NEW r \in Request, RequestStep(r)
      PROVE  TypedLocals'
  <2>0. LocalsFit(r)
    BY DEF TypeOK
  <2>1. CASE Receive(r)
    <3>1. PICK c \in Calls :
            /\ call' = [call EXCEPT ![r] = c]
            /\ late' = IF c.op \in {"login", "refresh"} /\ Subject(c) \in User \ active
                         THEN late \cup {r} ELSE late
      BY <2>1 DEF Receive
    <3>2. pc' \in [Request -> Labels] /\ UNCHANGED <<reply, target, new, link, checked>>
      BY <1>1, <1>3, <2>1, GotoTyped DEF Receive
    <3> QED
      BY <1>1, <1>2, <3>1, <3>2 DEF TypedLocals
  <2>2. CASE LoginFind(r)
    <3> DEFINE u == call[r].user
    <3>1. u \in User
      BY <2>2 DEF LoginFind, At, TypeOK, Calls, NoCall
    <3>2. \/ Found(r, u, "insert")
          \/ Answer(r, 401) /\ UNCHANGED <<target, checked>>
      BY <2>2 DEF LoginFind
    <3>3. UNCHANGED <<call, new, link, late>>
      BY <2>2 DEF LoginFind
    <3> HIDE DEF u
    <3>4. /\ pc' \in [Request -> Labels] /\ reply' \in [Request -> Replies]
          /\ target' \in [Request -> User \cup {None}] /\ checked' \in [Request -> Nat]
      BY <1>1, <1>3, <3>1, <3>2, FoundTyped, AnswerTyped DEF TypedLocals
    <3> QED
      BY <1>1, <1>2, <3>3, <3>4 DEF TypedLocals
  <2>3. CASE RefreshFind(r)
    <3> DEFINE u == tokens[call[r].token].user
    <3>1. call[r].token # None => u \in User
      BY <2>3, PresentedIsIssued DEF RefreshFind, At, Presents, TokenRow
    <3>2. \/ call[r].token # None /\ (Found(r, u, "kill") \/ Found(r, u, "user"))
          \/ Answer(r, 401) /\ UNCHANGED <<target, checked>>
      BY <2>3 DEF RefreshFind
    <3>3. UNCHANGED <<call, new, link, late>>
      BY <2>3 DEF RefreshFind
    <3> HIDE DEF u
    <3>4. /\ pc' \in [Request -> Labels] /\ reply' \in [Request -> Replies]
          /\ target' \in [Request -> User \cup {None}] /\ checked' \in [Request -> Nat]
      <4>1. CASE Answer(r, 401) /\ UNCHANGED <<target, checked>>
        BY <1>1, <1>3, <4>1, AnswerTyped DEF TypedLocals
      <4>2. CASE call[r].token # None /\ (Found(r, u, "kill") \/ Found(r, u, "user"))
        BY <1>1, <1>3, <3>1, <4>2, FoundTyped DEF TypedLocals
      <4> QED
        BY <3>2, <4>1, <4>2
    <3> QED
      BY <1>1, <1>2, <3>3, <3>4 DEF TypedLocals
  <2>4. CASE LogoutFind(r)
    <3>1. pc' \in [Request -> Labels] /\ reply' \in [Request -> Replies]
      BY <1>1, <1>3, <2>4, GotoTyped, AnswerTyped DEF LogoutFind, TypedLocals
    <3> QED
      BY <1>1, <1>2, <2>4, <3>1 DEF LogoutFind, TypedLocals, locals, history
  <2>5. CASE ForgotSet(r) \/ ForgotMail(r)
    <3>1. CASE ForgotSet(r)
      <4>1. pc' \in [Request -> Labels]
        BY <1>1, <1>3, <3>1, GotoTyped DEF ForgotSet, TypedLocals
      <4>2. link' \in [Request -> Link \cup {None}]
        BY <1>1, <3>1 DEF ForgotSet, TypedLocals
      <4> QED
        BY <1>1, <1>2, <3>1, <4>1, <4>2 DEF ForgotSet, TypedLocals, history
    <3>2. CASE ForgotMail(r)
      <4>1. pc' \in [Request -> Labels] /\ reply' \in [Request -> Replies]
        BY <1>1, <1>3, <3>2, AnswerTyped DEF ForgotMail
      <4> QED
        BY <1>1, <1>2, <3>2, <4>1 DEF ForgotMail, TypedLocals, locals, history
    <3> QED
      BY <2>5, <3>1, <3>2
  <2>6. CASE ResetFind(r)
    <3>1. \/ Answer(r, 400) /\ UNCHANGED <<target, checked>>
          \/ \E u \in User : Found(r, u, "password")
      BY <2>6 DEF ResetFind
    <3>2. UNCHANGED <<call, new, link, late>>
      BY <2>6 DEF ResetFind
    <3>3. /\ pc' \in [Request -> Labels] /\ reply' \in [Request -> Replies]
          /\ target' \in [Request -> User \cup {None}] /\ checked' \in [Request -> Nat]
      BY <1>1, <1>3, <3>1, FoundTyped, AnswerTyped DEF TypedLocals
    <3> QED
      BY <1>1, <1>2, <3>2, <3>3 DEF TypedLocals
  <2>7. CASE RefreshUser(r)
    <3>1. pc' \in [Request -> Labels] /\ reply' \in [Request -> Replies]
      BY <1>1, <1>3, <2>7, GotoTyped, AnswerTyped DEF RefreshUser, TypedLocals
    <3> QED
      BY <1>1, <1>2, <2>7, <3>1 DEF RefreshUser, TypedLocals, locals, history
  <2>8. CASE Insert(r)
    <3>1. pc' \in [Request -> Labels]
      BY <1>1, <1>3, <2>8, GotoTyped DEF Insert
    <3>2. new' \in [Request -> Token \cup {None}]
      BY <1>1, <2>8 DEF Insert, TypedLocals
    <3> QED
      BY <1>1, <1>2, <2>8, <3>1, <3>2 DEF Insert, TypedLocals, history
  <2>9. CASE Retire(r) \/ ResetPassword(r)
    <3>1. pc' \in [Request -> Labels]
      BY <1>1, <1>3, <2>9, GotoTyped DEF Retire, ResetPassword
    <3>2. UNCHANGED <<reply, locals, checked, late>>
      BY <2>9 DEF Retire, ResetPassword, history
    <3> QED
      BY <1>1, <1>2, <3>1, <3>2 DEF TypedLocals, locals
  <2>10. CASE Kill(r)
    <3>1. pc' \in [Request -> Labels] /\ reply' \in [Request -> Replies]
      BY <1>1, <1>3, <2>10, GotoTyped, AnswerTyped DEF Kill, TypedLocals
    <3> QED
      BY <1>1, <1>2, <2>10, <3>1 DEF Kill, TypedLocals, locals
  <2>11. CASE Respond(r) \/ Fail(r)
    <3>1. pc' \in [Request -> Labels] /\ reply' \in [Request -> Replies]
      BY <1>1, <1>3, <2>11, AnswerTyped DEF Respond, Fail
    <3>2. UNCHANGED <<locals, history>>
      BY <2>11 DEF Respond, Fail
    <3> QED
      BY <1>1, <1>2, <3>1, <3>2 DEF TypedLocals, locals, history
  <2> QED
    BY <1>a, <2>1, <2>2, <2>3, <2>4, <2>5, <2>6, <2>7, <2>8, <2>9, <2>10, <2>11 DEF RequestStep
<1>b. CASE UNCHANGED <<pc, reply, locals, history>>
  BY <1>1, <1>2, <1>b DEF TypedLocals, locals, history
<1> QED
  BY <1>a, <1>b DEF Next, vars, Deactivate, ExpireLink, Expire

(* The request that moves has what its next step uses.                     *)
LEMMA MoverFits ==
  ASSUME TypeOK, [Next]_vars, NEW r \in Request, RequestStep(r)
  PROVE  LocalsFit(r)'
<1>1. /\ LocalsFit(r)
      /\ r \in DOMAIN call /\ pc \in [Request -> Labels] /\ reply \in [Request -> Replies]
      /\ target \in [Request -> User \cup {None}] /\ new \in [Request -> Token \cup {None}]
      /\ tokens \in [Token -> TokenRow \cup {None}]
      /\ call[r] \in Calls \cup {NoCall}
  BY DEF TypeOK
<1>2. CASE Receive(r)
  <2>1. PICK c \in Calls : call' = [call EXCEPT ![r] = c]
    BY <1>2 DEF Receive
  <2>2. c # NoCall
    BY DEF Calls, NoCall
  <2> QED
    BY <1>1, <1>2, <2>1, <2>2 DEF Receive, Goto, LocalsFit
<1>3. CASE LoginFind(r)
  <2>1. \/ pc'[r] = "insert" /\ target'[r] = call[r].user /\ reply'[r] = reply[r]
        \/ pc'[r] = "done" /\ reply'[r] = 401
    BY <1>1, <1>3 DEF LoginFind, Found, Answer, Goto
  <2>2. pc[r] = "find" /\ call[r].op = "login" /\ call'[r] = call[r] /\ new'[r] = new[r]
    BY <1>3 DEF LoginFind, At
  <2> QED
    BY <1>1, <2>1, <2>2 DEF LocalsFit, LogsIn
<1>4. CASE RefreshFind(r)
  <2> DEFINE k == call[r].token
  <2>1. \/ pc'[r] = "done" /\ reply'[r] = 401
        \/ /\ k # None /\ reply'[r] = reply[r]
           /\ pc'[r] \in {"kill", "user"} /\ target'[r] = tokens[k].user
    BY <1>1, <1>4 DEF RefreshFind, Found, Answer, Goto
  <2>2. /\ pc[r] = "find" /\ call[r].op = "refresh" /\ call'[r] = call[r] /\ new'[r] = new[r]
        /\ tokens' = tokens
    BY <1>4 DEF RefreshFind, At, database
  <2>3. k # None => tokens[k].user \in User
    BY <2>2, PresentedIsIssued DEF Presents, TokenRow
  <2> HIDE DEF k
  <2> QED
    BY <1>1, <2>1, <2>2, <2>3 DEF LocalsFit, Rotates, k
<1>5. CASE LogoutFind(r)
  <2>1. \/ pc'[r] = "done" /\ reply'[r] = 200
        \/ call[r].token # None /\ pc'[r] = "retire" /\ reply'[r] = reply[r]
    BY <1>1, <1>5 DEF LogoutFind, Answer, Goto
  <2>2. pc[r] = "find" /\ call[r].op = "logout" /\ call'[r] = call[r] /\ new'[r] = new[r]
    BY <1>5 DEF LogoutFind, At, locals
  <2> QED
    BY <1>1, <2>1, <2>2 DEF LocalsFit
<1>6. CASE ForgotSet(r) \/ ForgotMail(r)
  <2>1. CASE ForgotSet(r)
    <3>1. /\ pc[r] = "find" /\ call[r].op = "forgot" /\ pc'[r] = "mail"
          /\ reply'[r] = reply[r] /\ call'[r] = call[r] /\ new'[r] = new[r]
      BY <1>1, <2>1 DEF ForgotSet, Goto, At
    <3>2. PICK l \in Link : link' = [link EXCEPT ![r] = l]
      BY <2>1 DEF ForgotSet
    <3>3. link'[r] # None
      BY <3>2, NoneAssumption DEF TypeOK
    <3> QED
      BY <1>1, <3>1, <3>3 DEF LocalsFit
  <2>2. CASE ForgotMail(r)
    <3>1. pc[r] = "mail" /\ pc'[r] = "done" /\ reply'[r] = 200 /\ call'[r] = call[r]
      BY <1>1, <2>2 DEF ForgotMail, Answer, Goto, locals
    <3>2. call[r].op = "forgot"
      BY <1>1, <3>1 DEF LocalsFit
    <3> QED
      BY <1>1, <3>1, <3>2 DEF LocalsFit
  <2> QED
    BY <1>6, <2>1, <2>2
<1>7. CASE ResetFind(r)
  <2>1. \/ pc'[r] = "done" /\ reply'[r] = 400
        \/ pc'[r] = "password" /\ target'[r] \in User /\ reply'[r] = reply[r]
    BY <1>1, <1>7 DEF ResetFind, Found, Answer, Goto
  <2>2. pc[r] = "find" /\ call[r].op = "reset" /\ call'[r] = call[r] /\ new'[r] = new[r]
    BY <1>7 DEF ResetFind, At
  <2> QED
    BY <1>1, <2>1, <2>2 DEF LocalsFit
<1>8. CASE RefreshUser(r)
  <2>1. \/ pc'[r] = "done" /\ reply'[r] = 401
        \/ pc'[r] = "insert" /\ reply'[r] = reply[r]
    BY <1>1, <1>8 DEF RefreshUser, Answer, Goto
  <2>2. /\ pc[r] = "user" /\ call' = call /\ new' = new
        /\ target' = target /\ tokens' = tokens
    BY <1>8 DEF RefreshUser, locals, database
  <2> QED
    BY <1>1, <2>1, <2>2 DEF LocalsFit, Rotates
<1>9. CASE Insert(r)
  <2>1. PICK n \in Token \ Issued : /\ new' = [new EXCEPT ![r] = n]
                                   /\ tokens' = [tokens EXCEPT ![n] = FreshRow(r)]
    BY <1>9 DEF Insert
  <2>2. /\ pc[r] = "insert" /\ call' = call /\ target' = target /\ reply' = reply
        /\ pc'[r] = IF call[r].op = "refresh" THEN "retire" ELSE "respond"
    BY <1>1, <1>9 DEF Insert, Goto
  <2>3. /\ FreshRow(r) \in TokenRow /\ FreshRow(r).user = target[r]
        /\ call[r].op = "refresh" => FreshRow(r).from = call[r].token
    BY <2>2, FreshRowIsARow
  <2>4. tokens'[n] = FreshRow(r) /\ new'[r] = n
    BY <1>1, <2>1
  <2>5. HasNew(r)'
    BY <2>2, <2>3, <2>4, NoneAssumption DEF HasNew, Issued
  <2>6. Rotates(r) => /\ call[r].token \in Token /\ tokens[call[r].token] \in TokenRow
                      /\ tokens'[call[r].token] = tokens[call[r].token]
    <3> SUFFICES ASSUME Rotates(r)
                 PROVE  /\ call[r].token \in Token /\ tokens[call[r].token] \in TokenRow
                        /\ call[r].token # n
      BY <2>1
    <3> QED
      BY <2>1, PresentedIsIssued, NoneAssumption DEF Rotates, Presents, Issued
  <2>7. Rotates(r) => Rotates(r)'
    BY <2>2, <2>6 DEF Rotates
  <2>8. LogsIn(r) => LogsIn(r)'
    BY <2>2 DEF LogsIn
  <2> QED
    BY <1>1, <2>2, <2>3, <2>4, <2>5, <2>7, <2>8 DEF LocalsFit, Rotates, LogsIn, Presents
<1>10. CASE Retire(r)
  <2> DEFINE k == call[r].token
  <2>1. /\ pc[r] = "retire" /\ pc'[r] = "respond"
        /\ call' = call /\ target' = target /\ new' = new /\ reply' = reply
    BY <1>1, <1>10 DEF Retire, Goto, locals
  <2>2. Presents(r) /\ k \in Issued
    BY <1>1, <2>1, PresentedIsIssued, NoneAssumption DEF LocalsFit, Rotates, Presents, Issued
  <2>3. tokens'[k].revoked
    <3>1. k \in Token /\ tokens[k] \in TokenRow
      BY <2>2, PresentedIsIssued
    <3>2. tokens'[k] = [tokens[k] EXCEPT !.revoked = TRUE,
                          !.replacedBy = IF call[r].op = "refresh" THEN new[r] ELSE @]
      BY <1>1, <1>10, <3>1 DEF Retire
    <3> QED
      BY <3>1, <3>2 DEF TokenRow
  <2>4. Ages(k) /\ (HasNew(r) => Ages(new[r]))
    BY <2>2, EveryStepAges DEF HasNew
  <2>5. HasNew(r) => HasNew(r)'
    BY <2>1, <2>4 DEF HasNew, Ages, Issued
  <2>6. Rotates(r) => Rotates(r)'
    BY <2>1, <2>4 DEF Rotates, Ages
  <2> HIDE DEF k
  <2> QED
    BY <1>1, <2>1, <2>3, <2>5, <2>6 DEF LocalsFit, k
<1>11. CASE ResetPassword(r)
  <2>1. /\ pc[r] = "password" /\ pc'[r] = "kill"
        /\ call' = call /\ target' = target /\ new' = new /\ reply' = reply
    BY <1>1, <1>11 DEF ResetPassword, Goto, locals
  <2> QED
    BY <1>1, <2>1 DEF LocalsFit
<1>12. CASE Kill(r)
  <2>1. \/ pc'[r] = "done" /\ reply'[r] = 401
        \/ call[r].op # "refresh" /\ pc'[r] = "respond" /\ reply'[r] = reply[r]
    BY <1>1, <1>12 DEF Kill, Answer, Goto
  <2>2. pc[r] = "kill" /\ call' = call /\ new' = new
    BY <1>12 DEF Kill, locals
  <2> QED
    BY <1>1, <2>1, <2>2 DEF LocalsFit, Presents
<1>13. CASE Respond(r) \/ Fail(r)
  <2>1. /\ pc[r] # "idle" /\ pc'[r] = "done" /\ reply'[r] \in {200, 500} /\ call' = call
    BY <1>1, <1>13 DEF Respond, Fail, Answer, Goto, locals
  <2> QED
    BY <1>1, <2>1 DEF LocalsFit
<1> QED
  BY <1>2, <1>3, <1>4, <1>5, <1>6, <1>7, <1>8, <1>9, <1>10, <1>11, <1>12, <1>13 DEF RequestStep

(* A step moves at most one request.                                       *)
LEMMA OneMoves ==
  ASSUME TypeOK, NEW r \in Request, RequestStep(r), NEW q \in Request \ {r}
  PROVE  /\ pc'[q] = pc[q] /\ call'[q] = call[q] /\ target'[q] = target[q]
         /\ new'[q] = new[q] /\ link'[q] = link[q] /\ reply'[q] = reply[q]
<1> USE DEF Goto, Answer, Found, TypeOK, locals
<1>1. CASE Receive(r) \/ RefreshUser(r) \/ Retire(r) \/ Respond(r) \/ Fail(r) \/ LogoutFind(r)
  BY <1>1 DEF Receive, RefreshUser, Retire, Respond, Fail, LogoutFind
<1>2. CASE LoginFind(r)
  BY <1>2 DEF LoginFind
<1>3. CASE RefreshFind(r)
  BY <1>3 DEF RefreshFind
<1>4. CASE ResetFind(r)
  BY <1>4 DEF ResetFind
<1>5. CASE ForgotSet(r) \/ ForgotMail(r) \/ Insert(r) \/ ResetPassword(r) \/ Kill(r)
  BY <1>5 DEF ForgotSet, ForgotMail, Insert, ResetPassword, Kill
<1> QED
  BY <1>1, <1>2, <1>3, <1>4, <1>5 DEF RequestStep

(* Every step keeps the type invariant: the request that moves fits by     *)
(* MoverFits, the others because nothing they hold is disturbed.           *)
LEMMA TypeStep == TypeOK /\ [Next]_vars => TypeOK'
<1> SUFFICES ASSUME TypeOK, [Next]_vars, NEW q \in Request
             PROVE  LocalsFit(q)'
  BY TablesStep, LocalsTypedStep DEF TypeOK, TypedTables, TypedLocals
<1>1. CASE RequestStep(q)
  BY <1>1, MoverFits
<1>2. ASSUME NEW r \in Request \ {q}, RequestStep(r)
      PROVE  LocalsFit(q)'
  BY <1>2, OneMoves, OthersKeepTheirLocals
<1>3. CASE UNCHANGED <<pc, reply, locals>>
  BY <1>3, OthersKeepTheirLocals DEF locals
<1> QED
  BY <1>1, <1>2, <1>3 DEF Next, vars, Deactivate, ExpireLink, Expire

(* In every reachable state the tables and the locals have the values the  *)
(* code gives them, whichever requests race and wherever they fail.        *)
THEOREM TypeCorrect == Spec => []TypeOK
<1>1. Init => TypeOK
  BY DEF Init, TypeOK, LocalsFit, Issued, NoCall, Labels, Replies
<1> QED
  BY <1>1, TypeStep, PTL DEF Spec

-----------------------------------------------------------------------------
(* What the rows of the table tell.                                        *)

(* No step deletes a token, gives it to another user or revives it.        *)
THEOREM TokensOnlyAge == Spec => RowsOnlyAge
<1>1. TypeOK /\ [Next]_vars =>
        \A t \in Issued : /\ tokens'[t] # None
                          /\ tokens'[t].user = tokens[t].user
                          /\ tokens[t].revoked => tokens'[t].revoked
  BY EveryStepAges DEF Ages
<1> QED
  BY <1>1, TypeCorrect, PTL DEF Spec, RowsOnlyAge

(* A step rewrites a row only by revoking it, or by retiring it for the    *)
(* row of the request that retires it.                                     *)
LEMMA HowRowsChange ==
  ASSUME TypeOK, [Next]_vars, NEW t \in Issued
  PROVE  /\ tokens'[t].born = tokens[t].born
         /\ \/ tokens'[t].replacedBy = tokens[t].replacedBy
            \/ \E r \in Request :
                 /\ Rotates(r) /\ call[r].token = t /\ HasNew(r)
                 /\ tokens[new[r]].from = t
                 /\ tokens'[t].revoked /\ tokens'[t].replacedBy = new[r]
<1>1. t \in Token /\ tokens[t] \in TokenRow /\ tokens \in [Token -> TokenRow \cup {None}]
  BY DEF TypeOK, Issued
<1>2. CASE UNCHANGED tokens
  BY <1>2
<1>3. ASSUME NEW r \in Request, Insert(r)
      PROVE  tokens'[t] = tokens[t]
  BY <1>1, <1>3 DEF Insert
<1>4. ASSUME NEW r \in Request, Kill(r)
      PROVE  tokens'[t].born = tokens[t].born /\ tokens'[t].replacedBy = tokens[t].replacedBy
  <2>1. \/ tokens'[t] = tokens[t]
        \/ tokens'[t] = [tokens[t] EXCEPT !.revoked = TRUE]
    BY <1>1, <1>4 DEF Kill, RevokeAll
  <2> QED
    BY <1>1, <2>1 DEF TokenRow
<1>5. ASSUME NEW r \in Request, Retire(r)
      PROVE  /\ tokens'[t].born = tokens[t].born
             /\ \/ tokens'[t].replacedBy = tokens[t].replacedBy
                \/ /\ Rotates(r) /\ call[r].token = t /\ HasNew(r)
                   /\ tokens[new[r]].from = t
                   /\ tokens'[t].revoked /\ tokens'[t].replacedBy = new[r]
  <2>1. \/ tokens'[t] = tokens[t]
        \/ /\ call[r].token = t
           /\ tokens'[t] = [tokens[t] EXCEPT !.revoked = TRUE,
                              !.replacedBy = IF call[r].op = "refresh" THEN new[r] ELSE @]
    BY <1>1, <1>5 DEF Retire
  <2>2. call[r].op = "refresh" => Rotates(r) /\ HasNew(r) /\ tokens[new[r]].from = call[r].token
    BY <1>5 DEF Retire, TypeOK, LocalsFit
  <2> QED
    BY <1>1, <2>1, <2>2 DEF TokenRow
<1> QED
  BY <1>2, <1>3, <1>4, <1>5 DEF Next, RequestStep, vars, database, Receive, LoginFind, RefreshFind,
     LogoutFind, ForgotSet, ForgotMail, ResetFind, RefreshUser, ResetPassword, Respond, Fail, Deactivate,
     ExpireLink, Expire

(* A token that gets its row in a step is inserted by some request.        *)
LEMMA WhereRowsComeFrom ==
  ASSUME TypeOK, [Next]_vars, NEW t \in Token \ Issued, t \in Issued'
  PROVE  \E r \in Request : pc[r] = "insert" /\ tokens'[t] = FreshRow(r) /\ kills' = kills
<1>1. tokens[t] = None /\ tokens'[t] # None /\ tokens \in [Token -> TokenRow \cup {None}]
  BY DEF TypeOK, Issued
<1>2. ASSUME NEW r \in Request, Insert(r)
      PROVE  pc[r] = "insert" /\ tokens'[t] = FreshRow(r) /\ kills' = kills
  BY <1>1, <1>2 DEF Insert, history
<1>3. ASSUME NEW r \in Request, Kill(r)
      PROVE  tokens'[t] = None
  BY <1>1, <1>3 DEF Kill, RevokeAll, TokensOf, Issued
<1>4. ASSUME NEW r \in Request, Retire(r)
      PROVE  tokens'[t] = None
  <2>1. call[r].token \in Issued
    BY <1>4, PresentedIsIssued, NoneAssumption DEF Retire, TypeOK, LocalsFit, Rotates, Presents, Issued
  <2> QED
    BY <1>1, <1>4, <2>1 DEF Retire, Issued
<1> QED
  BY <1>1, <1>2, <1>3, <1>4 DEF Next, RequestStep, vars, database, Receive, LoginFind, RefreshFind,
     LogoutFind, ForgotSet, ForgotMail, ResetFind, RefreshUser, ResetPassword, Respond, Fail, Deactivate,
     ExpireLink, Expire

(* In every reachable state a replaced token is revoked, and what replaced *)
(* it is a row of the same user that was rotated from it.                  *)
LEMMA ReplacementStep == TypeOK /\ ReplacementIsReal /\ [Next]_vars => ReplacementIsReal'
<1> SUFFICES ASSUME TypeOK, ReplacementIsReal, [Next]_vars, NEW t \in Issued',
                    tokens'[t].replacedBy # None
             PROVE  /\ tokens'[t].revoked
                    /\ tokens'[t].replacedBy \in Issued'
                    /\ tokens'[tokens'[t].replacedBy].user = tokens'[t].user
                    /\ tokens'[tokens'[t].replacedBy].from = t
  BY DEF ReplacementIsReal
<1>1. t \in Issued
  <2>1. ASSUME t \notin Issued
        PROVE  tokens'[t].replacedBy = None
    <3>1. t \in Token \ Issued
      BY <2>1 DEF Issued
    <3> QED
      BY <3>1, WhereRowsComeFrom, FreshRowIsARow
  <2> QED
    BY <2>1
<1>2. Ages(t)
  BY <1>1, EveryStepAges
<1>3. CASE tokens'[t].replacedBy = tokens[t].replacedBy
  <2> DEFINE n == tokens[t].replacedBy
  <2>1. tokens[t].revoked /\ n \in Issued /\ tokens[n].user = tokens[t].user /\ tokens[n].from = t
    BY <1>1, <1>3 DEF ReplacementIsReal
  <2>2. Ages(n) /\ n \in Issued'
    BY <2>1, EveryStepAges, IssuedGrows
  <2> QED
    BY <1>2, <1>3, <2>1, <2>2 DEF Ages
<1>4. ASSUME NEW r \in Request, Rotates(r), call[r].token = t, HasNew(r), tokens[new[r]].from = t,
             tokens'[t].revoked, tokens'[t].replacedBy = new[r]
      PROVE  /\ tokens'[t].revoked
             /\ tokens'[t].replacedBy \in Issued'
             /\ tokens'[tokens'[t].replacedBy].user = tokens'[t].user
             /\ tokens'[tokens'[t].replacedBy].from = t
  <2>1. Ages(new[r]) /\ new[r] \in Issued'
    BY <1>4, EveryStepAges, IssuedGrows DEF HasNew
  <2> QED
    BY <1>2, <1>4, <2>1 DEF Ages, Rotates, HasNew
<1> QED
  BY <1>1, <1>3, <1>4, HowRowsChange

(* In every reachable state a token that names a replacement is revoked,   *)
(* and the replacement is a row of the same user that was rotated from it. *)
THEOREM ReplacementsAreReal == Spec => []ReplacementIsReal
<1>1. Init => ReplacementIsReal
  BY DEF Init, ReplacementIsReal, Issued
<1> QED
  BY <1>1, TypeCorrect, ReplacementStep, PTL DEF Spec

(* A live token is younger than the last kill of its user: a kill leaves   *)
(* none of the user's rows live, and nothing revives one.                  *)
LEMMA KillStep == TypeOK /\ EveryKillIsComplete /\ [Next]_vars => EveryKillIsComplete'
<1> SUFFICES ASSUME TypeOK, EveryKillIsComplete, [Next]_vars, NEW t \in Token, Live(t)'
             PROVE  tokens'[t].born = kills'[tokens'[t].user]
  BY DEF EveryKillIsComplete
<1>1. t \in Issued' /\ ~tokens'[t].revoked
  BY DEF Live, Issued
<1>2. CASE t \notin Issued
  <2>1. PICK r \in Request : pc[r] = "insert" /\ tokens'[t] = FreshRow(r) /\ kills' = kills
    BY <1>1, <1>2, WhereRowsComeFrom
  <2> QED
    BY <2>1, FreshRowIsARow
<1>3. CASE t \in Issued
  <2>1. /\ tokens'[t].user = tokens[t].user /\ tokens'[t].born = tokens[t].born
        /\ ~tokens[t].revoked
    BY <1>1, <1>3, EveryStepAges, HowRowsChange DEF Ages
  <2>2. tokens[t].born = kills[tokens[t].user]
    BY <1>3, <2>1 DEF EveryKillIsComplete, Live, Issued
  <2>3. kills'[tokens[t].user] = kills[tokens[t].user]
    <3>1. CASE kills' = kills
      BY <3>1
    <3>2. ASSUME NEW r \in Request, Kill(r)
          PROVE  kills'[tokens[t].user] = kills[tokens[t].user]
      <4>1. t \notin TokensOf(target[r])
        <5>1. ASSUME t \in TokensOf(target[r])
              PROVE  FALSE
          <6>1. tokens'[t] = [tokens[t] EXCEPT !.revoked = TRUE] /\ tokens[t] \in TokenRow
            BY <1>3, <3>2, <5>1 DEF Kill, RevokeAll, TypeOK, Issued
          <6> QED
            BY <1>1, <6>1 DEF TokenRow
        <5> QED
          BY <5>1
      <4>2. tokens[t].user # target[r]
        BY <1>3, <4>1 DEF TokensOf
      <4>3. tokens[t].user \in User /\ kills \in [User -> Nat]
        BY <1>3 DEF TypeOK, Issued, TokenRow
      <4> QED
        BY <3>2, <4>2, <4>3 DEF Kill
    <3> QED
      BY <3>1, <3>2 DEF Next, RequestStep, vars, history, Receive, LoginFind, RefreshFind, LogoutFind,
         ForgotSet, ForgotMail, ResetFind, RefreshUser, Insert, Retire, ResetPassword, Respond, Fail, Deactivate,
         ExpireLink, Expire
  <2> QED
    BY <2>1, <2>2, <2>3
<1> QED
  BY <1>2, <1>3

(* In every reachable state theft detection and password reset have spared *)
(* no row: every live token was inserted after the last of them.           *)
THEOREM KillsAreComplete == Spec => []EveryKillIsComplete
<1>1. Init => EveryKillIsComplete
  BY DEF Init, EveryKillIsComplete, Live
<1> QED
  BY <1>1, TypeCorrect, KillStep, PTL DEF Spec

-----------------------------------------------------------------------------
(* Removed employees.                                                      *)

(* A late request that moves stays short of its checks, or is refused.     *)
LEMMA LateMover ==
  ASSUME TypeOK, LateInv, [Next]_vars, NEW r \in late, RequestStep(r)
  PROVE  /\ pc'[r] \in {"find", "user", "kill", "done"}
         /\ reply'[r] # 200 /\ new'[r] = None /\ call'[r] = call[r]
<1>1. /\ r \in Request /\ LocalsFit(r)
      /\ r \in DOMAIN call /\ pc \in [Request -> Labels] /\ reply \in [Request -> Replies]
      /\ call[r] \in Calls \cup {NoCall}
  BY DEF TypeOK
<1>2. /\ call[r].op \in {"login", "refresh"}
      /\ Subject(call[r]) \in User \ active
      /\ pc[r] \in {"find", "user", "kill", "done"}
      /\ reply[r] # 200 /\ new[r] = None
  BY DEF LateInv
<1>3. CASE LoginFind(r)
  <2>1. call[r].user \notin active
    BY <1>2, <1>3 DEF LoginFind, At, Subject
  <2> QED
    BY <1>1, <1>2, <1>3, <2>1 DEF LoginFind, Answer, Goto
<1>4. CASE RefreshFind(r)
  <2>1. /\ pc'[r] \in {"kill", "user", "done"} /\ reply'[r] \in {reply[r], 401}
        /\ new' = new /\ call' = call
    BY <1>1, <1>4 DEF RefreshFind, Found, Answer, Goto
  <2> QED
    BY <1>2, <2>1
<1>5. CASE RefreshUser(r)
  <2>1. target[r] \notin active
    BY <1>1, <1>2, <1>5 DEF RefreshUser, LocalsFit, Rotates, Subject
  <2> QED
    BY <1>1, <1>2, <1>5, <2>1 DEF RefreshUser, Answer, Goto, locals
<1>6. CASE Kill(r)
  <2>1. call[r].op = "refresh"
    BY <1>1, <1>2, <1>6 DEF Kill, LocalsFit
  <2> QED
    BY <1>1, <1>2, <1>6, <2>1 DEF Kill, Answer, Goto, locals
<1>7. CASE Fail(r)
  BY <1>1, <1>2, <1>7 DEF Fail, Answer, Goto, locals
<1> QED
  BY <1>1, <1>2, <1>3, <1>4, <1>5, <1>6, <1>7 DEF RequestStep, LocalsFit, Receive, LogoutFind, ForgotSet, ForgotMail,
     ResetFind, Insert, Retire, ResetPassword, Respond, At

(* late and active change only when a request arrives and when an account  *)
(* is switched off.                                                        *)
LEMMA HowLateGrows ==
  ASSUME TypeOK, [Next]_vars
  PROVE  /\ active' \subseteq active
         /\ \A r \in late' \ late :
              Receive(r) /\ call'[r] \in Calls /\ call'[r].op \in {"login", "refresh"}
                         /\ Subject(call'[r]) \in User \ active
<1>1. active' \subseteq active
  BY DEF Next, RequestStep, vars, database, Receive, LoginFind, RefreshFind, LogoutFind, ForgotSet, ForgotMail,
     ResetFind, RefreshUser, Insert, Retire, ResetPassword, Kill, Respond, Fail, Deactivate,
     ExpireLink, Expire
<1>2. ASSUME NEW q \in Request, Receive(q), NEW r \in late' \ late
      PROVE  /\ Receive(r) /\ call'[r] \in Calls /\ call'[r].op \in {"login", "refresh"}
             /\ Subject(call'[r]) \in User \ active
  <2>1. PICK c \in Calls :
          /\ call' = [call EXCEPT ![q] = c]
          /\ late' = IF c.op \in {"login", "refresh"} /\ Subject(c) \in User \ active
                       THEN late \cup {q} ELSE late
    BY <1>2 DEF Receive
  <2>2. r = q /\ c.op \in {"login", "refresh"} /\ Subject(c) \in User \ active
    BY <1>2, <2>1
  <2>3. call'[q] = c
    BY <2>1 DEF TypeOK
  <2> QED
    BY <1>2, <2>1, <2>2, <2>3
<1>3. UNCHANGED late \/ \E q \in Request : Receive(q)
  BY DEF Next, RequestStep, vars, history, LoginFind, RefreshFind, LogoutFind, ForgotSet, ForgotMail, ResetFind,
     RefreshUser, Insert, Retire, ResetPassword, Kill, Respond, Fail, Deactivate, ExpireLink, Expire
<1> QED
  BY <1>1, <1>2, <1>3

(* Every step keeps LateInv: a request in it makes no progress past its    *)
(* checks, and one that joins it has only just arrived.                    *)
LEMMA LateStep == TypeOK /\ LateInv /\ [Next]_vars => LateInv'
<1> SUFFICES ASSUME TypeOK, LateInv, [Next]_vars, NEW r \in late'
             PROVE  /\ call'[r].op \in {"login", "refresh"}
                    /\ Subject(call[r])' \in User \ active'
                    /\ pc'[r] \in {"find", "user", "kill", "done"}
                    /\ reply'[r] # 200 /\ new'[r] = None
  BY DEF LateInv
<1>1. TypeOK'
  BY TypeStep
<1>2. r \in Request /\ LocalsFit(r) /\ r \in DOMAIN call /\ reply \in [Request -> Replies]
  BY <1>1 DEF TypeOK
<1>3. CASE r \notin late
  <2>1. /\ Receive(r) /\ call'[r] \in Calls /\ call'[r].op \in {"login", "refresh"}
        /\ Subject(call'[r]) \in User \ active /\ active' \subseteq active
    BY <1>3, HowLateGrows
  <2>2. Subject(call[r])' = Subject(call'[r])
    BY <2>1 DEF Receive, Subject, database
  <2>3. pc'[r] = "find" /\ reply'[r] = reply[r] /\ new'[r] = new[r] /\ pc[r] = "idle"
    BY <1>2, <2>1 DEF Receive, Goto, TypeOK
  <2>4. new[r] = None /\ reply[r] = 0
    BY <1>2, <2>3 DEF LocalsFit
  <2> QED
    BY <2>1, <2>2, <2>3, <2>4
<1>4. CASE r \in late
  <2>1. /\ call[r].op \in {"login", "refresh"}
        /\ Subject(call[r]) \in User \ active
        /\ pc[r] \in {"find", "user", "kill", "done"}
        /\ reply[r] # 200 /\ new[r] = None
    BY <1>4 DEF LateInv
  <2>2. /\ pc'[r] \in {"find", "user", "kill", "done"}
        /\ reply'[r] # 200 /\ new'[r] = None /\ call'[r] = call[r]
    <3>1. CASE RequestStep(r)
      BY <1>4, <3>1, LateMover
    <3>2. ASSUME NEW q \in Request \ {r}, RequestStep(q)
          PROVE  pc'[r] = pc[r] /\ reply'[r] = reply[r] /\ new'[r] = new[r] /\ call'[r] = call[r]
      BY <1>2, <3>2, OneMoves
    <3>3. CASE UNCHANGED <<pc, reply, locals>>
      BY <2>1, <3>3 DEF locals
    <3> QED
      BY <2>1, <3>1, <3>2, <3>3 DEF Next, vars, Deactivate, ExpireLink, Expire
  <2>3. call[r] \in Calls
    BY <1>2, <2>1 DEF TypeOK, NoCall
  <2>4. Subject(call[r])' = Subject(call[r]) /\ active' \subseteq active
    <3>1. (Subject(call[r]))' = IF call[r].op = "login" THEN call[r].user
                                ELSE IF call[r].token = None THEN None ELSE tokens'[call[r].token].user
      BY <2>1, <2>2 DEF Subject
    <3>2. Subject(call[r]) = IF call[r].op = "login" THEN call[r].user
                             ELSE IF call[r].token = None THEN None ELSE tokens[call[r].token].user
      BY <2>1 DEF Subject
    <3>3. call[r].op = "refresh" /\ call[r].token # None
            => tokens'[call[r].token].user = tokens[call[r].token].user
      <4>1. ASSUME call[r].op = "refresh", call[r].token # None
            PROVE  call[r].token \in Issued
        BY <1>2, <4>1, PresentedIsIssued, NoneAssumption DEF Presents, Issued
      <4> QED
        BY <4>1, EveryStepAges DEF Ages
    <3> QED
      BY <2>1, <3>1, <3>2, <3>3, HowLateGrows
  <2> QED
    BY <2>1, <2>2, <2>4
<1> QED
  BY <1>3, <1>4

(* In every reachable state no login or refresh that arrived after its     *)
(* employee was removed has inserted a token or been answered 200.         *)
THEOREM RemovedStayOut == Spec => []DeactivationSticks
<1>1. Init => LateInv
  BY DEF Init, LateInv
<1>2. LateInv => DeactivationSticks
  BY DEF LateInv, DeactivationSticks
<1> QED
  BY <1>1, <1>2, TypeCorrect, LateStep, PTL DEF Spec

-----------------------------------------------------------------------------
(* What a client was told.                                                 *)

(* A request is answered 200 by one of three steps, and moves no more.     *)
LEMMA HowItIsAnswered ==
  ASSUME TypeOK, NEW r \in Request, RequestStep(r), reply'[r] = 200
  PROVE  reply[r] = 0 /\ (Respond(r) \/ LogoutFind(r) \/ ForgotMail(r))
<1>1. reply \in [Request -> Replies] /\ LocalsFit(r)
  BY DEF TypeOK
<1>2. pc[r] # "done"
  BY DEF RequestStep, Receive, LoginFind, RefreshFind, LogoutFind, ForgotSet, ForgotMail, ResetFind,
         RefreshUser, Insert, Retire, ResetPassword, Kill, Respond, Fail, At
<1>3. reply[r] = 0
  BY <1>1, <1>2 DEF LocalsFit
<1>4. CASE UNCHANGED reply
  BY <1>3, <1>4
<1>5. CASE \E status \in {400, 401, 500} : Answer(r, status)
  BY <1>1, <1>5 DEF Answer
<1>6. Receive(r) \/ Insert(r) \/ Retire(r) \/ ResetPassword(r) \/ ForgotSet(r) => UNCHANGED reply
  BY DEF Receive, Insert, Retire, ResetPassword, ForgotSet
<1>7. \/ LoginFind(r) \/ RefreshFind(r) \/ ResetFind(r) \/ RefreshUser(r) \/ Kill(r) \/ Fail(r)
      => UNCHANGED reply \/ \E status \in {400, 401, 500} : Answer(r, status)
  BY DEF LoginFind, RefreshFind, ResetFind, RefreshUser, Kill, Fail, Found
<1> QED
  BY <1>3, <1>4, <1>5, <1>6, <1>7 DEF RequestStep

(* The answer a request has stays true: rows only age, and what a client   *)
(* was sent it keeps.                                                      *)
LEMMA AnswersStayTrue ==
  ASSUME TypeOK, AnsweredMeansRetired, [Next]_vars, NEW r \in Request, reply[r] = 200,
         call'[r] = call[r], new'[r] = new[r]
  PROVE  /\ call'[r].op \in {"refresh", "logout"} /\ call'[r].token # None
              => tokens'[call'[r].token].revoked
         /\ call'[r].op \in {"login", "refresh"}
              => new'[r] \in delivered' /\ tokens'[new'[r]].user = Subject(call[r])'
<1>1. delivered \subseteq delivered'
  BY DEF Next, RequestStep, vars, database, clients, Receive, LoginFind, RefreshFind, LogoutFind,
     ForgotSet, ForgotMail, ResetFind, RefreshUser, Insert, Retire, ResetPassword, Kill, Respond, Fail,
     Deactivate, ExpireLink, Expire
<1>2. \A t \in Issued : /\ tokens'[t].user = tokens[t].user
                        /\ tokens[t].revoked => tokens'[t].revoked
  BY EveryStepAges DEF Ages
<1>3. Presents(r) => call[r].token \in Issued
  BY PresentedIsIssued, NoneAssumption DEF Issued
<1>4. call[r].op \in {"refresh", "logout"} /\ call[r].token # None => tokens'[call[r].token].revoked
  BY <1>2, <1>3 DEF AnsweredMeansRetired, Presents
<1>5. ASSUME call[r].op \in {"login", "refresh"}
      PROVE  new[r] \in delivered' /\ tokens'[new[r]].user = Subject(call[r])'
  <2>1. new[r] \in delivered /\ tokens[new[r]].user = Subject(call[r])
    BY <1>5 DEF AnsweredMeansRetired
  <2>2. tokens'[new[r]].user = tokens[new[r]].user
    BY <1>2, <2>1 DEF TypeOK
  <2>3. Subject(call[r])' = Subject(call[r])
    BY <1>2, <1>3, <1>5 DEF Subject, Presents
  <2> QED
    BY <1>1, <2>1, <2>2, <2>3
<1> QED
  BY <1>4, <1>5

(* Every step keeps AnsweredMeansRetired.                                  *)
LEMMA AnsweredStep == TypeOK /\ AnsweredMeansRetired /\ [Next]_vars => AnsweredMeansRetired'
<1> SUFFICES ASSUME TypeOK, AnsweredMeansRetired, [Next]_vars, NEW r \in Request, reply'[r] = 200
             PROVE  /\ call'[r].op \in {"refresh", "logout"} /\ call'[r].token # None
                         => tokens'[call'[r].token].revoked
                    /\ call'[r].op \in {"login", "refresh"}
                         => new'[r] \in delivered' /\ tokens'[new'[r]].user = Subject(call[r])'
  BY DEF AnsweredMeansRetired
<1>1. CASE RequestStep(r)
  <2>1. LocalsFit(r) /\ (Respond(r) \/ LogoutFind(r) \/ ForgotMail(r))
    BY <1>1, HowItIsAnswered DEF TypeOK
  <2>2. UNCHANGED <<tokens, call, new>>
    BY <2>1 DEF Respond, LogoutFind, ForgotMail, database, locals
  <2>3. CASE LogoutFind(r)
    <3>1. call[r].op = "logout"
      BY <2>3 DEF LogoutFind, At
    <3>2. call[r].token = None \/ tokens[call[r].token].revoked
      BY <1>1, <2>1, <2>3 DEF LogoutFind, At, LocalsFit
    <3> QED
      BY <2>2, <3>1, <3>2
  <2>4. CASE ForgotMail(r)
    BY <2>1, <2>2, <2>4 DEF ForgotMail, LocalsFit
  <2>5. CASE Respond(r)
    <3>1. pc[r] = "respond" /\ delivered' = delivered \cup ({new[r]} \ {None})
      BY <2>5 DEF Respond
    <3>2. Presents(r) => tokens[call[r].token].revoked
      BY <2>1, <3>1 DEF LocalsFit
    <3>3. ASSUME call[r].op \in {"login", "refresh"}
          PROVE  new[r] \in delivered' /\ tokens[new[r]].user = Subject(call[r])
      <4>1. (Rotates(r) \/ LogsIn(r)) /\ HasNew(r)
        BY <2>1, <3>1, <3>3 DEF LocalsFit
      <4>2. new[r] # None
        BY <4>1, NoneAssumption DEF HasNew, Issued
      <4> QED
        BY <3>1, <4>1, <4>2 DEF HasNew, Rotates, LogsIn, Subject
    <3>4. Subject(call[r])' = Subject(call[r])
      BY <2>2 DEF Subject
    <3> QED
      BY <2>2, <3>2, <3>3, <3>4 DEF Presents
  <2> QED
    BY <2>1, <2>3, <2>4, <2>5
<1>2. CASE call'[r] = call[r] /\ new'[r] = new[r] /\ reply'[r] = reply[r]
  BY <1>2, AnswersStayTrue
<1>3. ASSUME NEW q \in Request, RequestStep(q), q # r
      PROVE  call'[r] = call[r] /\ new'[r] = new[r] /\ reply'[r] = reply[r]
  BY <1>3, OneMoves
<1> QED
  BY <1>1, <1>2, <1>3 DEF Next, vars, Deactivate, ExpireLink, Expire, locals

(* In every reachable state a refresh or logout answered 200 has left its  *)
(* token dead, and a login or refresh answered 200 delivered a row of the  *)
(* same user, whatever ran since.                                          *)
THEOREM AnswersAreDurable == Spec => []AnsweredMeansRetired
<1>1. Init => AnsweredMeansRetired
  BY DEF Init, AnsweredMeansRetired
<1> QED
  BY <1>1, TypeCorrect, AnsweredStep, PTL DEF Spec

-----------------------------------------------------------------------------
(* Browsers: what they know.                                               *)

Views == {"new", "booting", "in", "out", "gone"}

ClientTypeOK ==
  /\ jar \in Token \cup {None}
  /\ view \in [Page -> Views]
  /\ flight \in [Page -> Request \cup {None}]
  /\ owner \in [Request -> Page \cup {None}]
  /\ over \subseteq {r \in Request : pc[r] = "done"}
  /\ lost \subseteq over

(* The requests there are were sent by pages, and none of them resets a    *)
(* password; a page that is not yet open has sent none.                    *)
SentByPages ==
  /\ \A r \in Request : pc[r] # "idle" =>
       call[r].op \in {"login", "refresh", "logout"} /\ owner[r] \in Page
  /\ \A r \in Request : owner[r] # None => view[owner[r]] # "new"

(* No token is issued twice.                                               *)
NewsDiffer ==
  /\ \A r \in Request : new[r] # None => new[r] \in Issued
  /\ \A q, r \in Request : new[q] # None /\ new[q] = new[r] => q = r

(* What the jar holds, or held when a request was sent, came with an       *)
(* answer that has arrived; so it does not come again.                     *)
Given(t) == \E r \in over : new[r] = t

CameOnce ==
  /\ jar # None => Given(jar)
  /\ \A r \in Request : Presents(r) => Given(call[r].token)

(* A token whose refresh or logout was answered is not in the jar.         *)
SpentIsGone ==
  \A r \in over \ lost : (reply[r] = 200 /\ Presents(r)) => jar # call[r].token

(* refreshSession.ts: a page that is open waits for the refresh it sent.   *)
OneFlight ==
  \A r \in Request \ over :
    (call[r].op = "refresh" /\ view[owner[r]] # "gone") => flight[owner[r]] = r

(* Two refreshes of one page with one token: while the later is under way, *)
(* the earlier is over, without the answer that would have replaced it.    *)
InTurn ==
  \A q, r \in Request :
    (/\ q # r /\ Presents(q) /\ Presents(r) /\ call[q].token = call[r].token
     /\ call[q].op = "refresh" /\ call[r].op = "refresh" /\ owner[q] = owner[r])
      => r \in over \/ (q \in over /\ (q \in lost \/ reply[q] # 200))

(* Who revokes: a request that presented the token and got past retiring   *)
(* it, or failed, or else an alarm.                                        *)
Past(r) == pc[r] = "respond" \/ reply[r] \in {200, 500}

RevokedBySomeone ==
  \A t \in Issued : tokens[t].revoked =>
    \/ kills[tokens[t].user] > 0
    \/ \E r \in Request : Presents(r) /\ call[r].token = t /\ Past(r)

(* A refresh about to raise the alarm has found its token revoked.         *)
AlarmsAreReal ==
  \A r \in Request : pc[r] = "kill" =>
    /\ Presents(r) /\ tokens[call[r].token].revoked
    /\ target[r] = tokens[call[r].token].user

(* Without a logout, a page with a session has a cookie.                   *)
CookieStays ==
  (\A r \in Request : call[r].op # "logout") => \A p \in Page : view[p] = "in" => jar # None

BrowserInv ==
  /\ ClientTypeOK
  /\ SentByPages
  /\ NewsDiffer
  /\ CameOnce
  /\ SpentIsGone
  /\ OneFlight
  /\ InTurn
  /\ RevokedBySomeone
  /\ AlarmsAreReal
  /\ CookieStays
  /\ AlarmsHaveACause
-----------------------------------------------------------------------------
(* Browsers: their server is that of AuthSession.                          *)

(* A step of the browser is one of AuthSession, or none of its own.        *)
LEMMA ClientSteps == [ClientNext]_allVars => [Next]_vars
<1> SUFFICES ASSUME [ClientNext]_allVars
             PROVE  [Next]_vars
  OBVIOUS
<1>1. ASSUME NEW p \in Page, PageStep(p)
      PROVE  UNCHANGED vars \/ \E r \in Request : Receive(r)
  BY <1>1 DEF PageStep, Boot, Unauthorized, Login, Logout, Refresh, Send, Close
<1>2. ASSUME NEW r \in Request, ServerStep(r)
      PROVE  RequestStep(r)
  BY <1>2 DEF ServerStep, RequestStep
<1>3. ASSUME NEW r \in Request, Arrive(r) \/ Lose(r)
      PROVE  UNCHANGED vars
  BY <1>3 DEF Arrive, Lose
<1>4. CASE UNCHANGED allVars
  BY <1>4 DEF allVars
<1> QED
  BY <1>1, <1>2, <1>3, <1>4 DEF ClientNext, Next, RequestStep

(* So whatever AuthSession promises holds behind the browser.              *)
THEOREM BrowsersChangeNoServer == ClientSpec => Spec
<1>1. ClientInit => Init
  BY DEF ClientInit
<1> QED
  BY <1>1, ClientSteps, PTL DEF ClientSpec, Spec

(* A request keeps what it asks for, the token it inserted and its answer. *)
LEMMA RequestsKeep ==
  ASSUME TypeOK, [Next]_vars, NEW r \in Request
  PROVE  /\ pc[r] # "idle" => pc'[r] # "idle" /\ call'[r] = call[r]
         /\ new[r] # None => new'[r] = new[r]
         /\ pc[r] = "done" => pc'[r] = "done" /\ reply'[r] = reply[r]
         /\ Past(r) => Past(r)'
<1> DEFINE Same == pc'[r] = pc[r] /\ call'[r] = call[r] /\ new'[r] = new[r] /\ reply'[r] = reply[r]
<1>1. CASE Same
  BY <1>1 DEF Past
<1>2. ASSUME NEW q \in Request, RequestStep(q), q # r
      PROVE  Same
  BY <1>2, OneMoves
<1>3. CASE RequestStep(r)
  <2>1. LocalsFit(r) /\ pc[r] # "done" /\ reply[r] = 0
    BY <1>3 DEF TypeOK, LocalsFit, RequestStep, Receive, LoginFind, RefreshFind, LogoutFind, ForgotSet,
                ForgotMail, ResetFind, RefreshUser, Insert, Retire, ResetPassword, Kill, Respond, Fail, At
  <2>2. CASE Receive(r)
    BY <2>1, <2>2 DEF Receive, Past
  <2>3. CASE Insert(r)
    <3>1. pc[r] = "insert" /\ new[r] = None /\ UNCHANGED call /\ pc'[r] # "idle"
      BY <2>1, <2>3 DEF Insert, LocalsFit, Goto, TypeOK
    <3> QED
      BY <2>1, <3>1 DEF Past
  <2>4. CASE Respond(r) \/ Fail(r)
    <3>1. UNCHANGED <<call, new>> /\ pc'[r] = "done" /\ reply'[r] \in {200, 500}
      BY <2>4 DEF Respond, Fail, Answer, Goto, TypeOK, locals
    <3> QED
      BY <2>1, <3>1 DEF Past
  <2>5. CASE LoginFind(r) \/ RefreshFind(r) \/ ResetFind(r) \/ RefreshUser(r) \/ LogoutFind(r)
    <3>1. UNCHANGED <<call, new>> /\ pc'[r] # "idle" /\ pc[r] # "respond"
      BY <2>5 DEF LoginFind, RefreshFind, ResetFind, RefreshUser, LogoutFind, Answer, Found, Goto, TypeOK,
                  locals, At
    <3> QED
      BY <2>1, <3>1 DEF Past
  <2>6. CASE ForgotSet(r) \/ ForgotMail(r) \/ ResetPassword(r) \/ Retire(r) \/ Kill(r)
    <3>1. UNCHANGED <<call, new>> /\ pc'[r] # "idle" /\ pc[r] # "respond"
      BY <2>6 DEF ForgotSet, ForgotMail, ResetPassword, Retire, Kill, Answer, Goto, TypeOK, locals, At
    <3> QED
      BY <2>1, <3>1 DEF Past
  <2> QED
    BY <1>3, <2>2, <2>3, <2>4, <2>5, <2>6 DEF RequestStep
<1>4. CASE UNCHANGED <<pc, locals, reply>>
  BY <1>1, <1>4 DEF locals
<1> QED
  BY <1>1, <1>2, <1>3, <1>4 DEF Next, vars, Deactivate, ExpireLink, Expire
-----------------------------------------------------------------------------
(* A page sends a request.                                                 *)

(* What sending does to the request that is sent, and to no other.         *)
LEMMA Sending ==
  ASSUME TypeOK, ClientTypeOK, NEW p \in Page, NEW r \in Request, NEW c, Send(p, r, c)
  PROVE  /\ pc[r] = "idle" /\ reply[r] = 0 /\ r \notin over /\ call[r] = NoCall
         /\ pc'[r] = "find" /\ call'[r] = c /\ owner'[r] = p
         /\ \A q \in Request \ {r} : pc'[q] = pc[q] /\ call'[q] = call[q] /\ owner'[q] = owner[q]
         /\ owner' \in [Request -> Page \cup {None}]
         /\ UNCHANGED <<tokens, delivered, kills, new, reply, target, jar, over, lost>>
<1>1. /\ Receive(r) /\ call'[r] = c /\ owner' = [owner EXCEPT ![r] = p] /\ UNCHANGED <<jar, over, lost>>
  BY DEF Send
<1>2. RequestStep(r) /\ pc[r] = "idle" /\ pc'[r] = "find"
  BY <1>1 DEF RequestStep, Receive, Goto, TypeOK
<1>3. reply[r] = 0 /\ call[r] = NoCall
  BY <1>2 DEF TypeOK, LocalsFit
<1>4. r \notin over
  BY <1>2 DEF ClientTypeOK
<1>5. \A q \in Request \ {r} : pc'[q] = pc[q] /\ call'[q] = call[q]
  BY <1>2, OneMoves
<1>6. UNCHANGED <<tokens, delivered, kills, new, reply, target>>
  BY <1>1 DEF Receive, database, clients
<1> QED
  BY <1>1, <1>2, <1>3, <1>4, <1>5, <1>6 DEF ClientTypeOK

(* Which requests a page sends, and when: a login, or the token in the     *)
(* jar; a refresh when none is in flight.                                  *)
Sends(p, r, c) ==
  /\ Send(p, r, c)
  /\ c.op \in {"login", "refresh", "logout"}
  /\ c.op = "login" \/ c.token = jar
  /\ view[p] # "gone" /\ view'[p] # "new"
  /\ view' \in [Page -> Views]
  /\ \A x \in Page \ {p} : view'[x] = view[x]
  /\ view'[p] \in {"in", "gone"} => view'[p] = view[p]
  /\ IF c.op = "refresh"
       THEN /\ view[p] = "new" \/ flight[p] = None
            /\ flight' = [flight EXCEPT ![p] = r]
       ELSE UNCHANGED flight

(* The four ways a page sends a request are such.                          *)
LEMMA PagesSend ==
  ASSUME ClientTypeOK, NEW p \in Page, NEW r \in Request,
         Boot(p, r) \/ Unauthorized(p, r) \/ Login(p, r) \/ Logout(p, r)
  PROVE  \E c : Sends(p, r, c)
<1>1. view \in [Page -> Views]
  BY DEF ClientTypeOK
<1>2. CASE Boot(p, r)
  <2>1. view[p] = "new" /\ view' = [view EXCEPT ![p] = "booting"]
    BY <1>2 DEF Boot, Show
  <2>2. Sends(p, r, [op |-> "refresh", token |-> jar])
    BY <1>1, <1>2, <2>1 DEF Boot, Refresh, Sends, Views
  <2> QED
    BY <2>2
<1>3. CASE Unauthorized(p, r)
  <2>1. view[p] \in {"in", "out"} /\ view' = view
    BY <1>3 DEF Unauthorized, HasCalls
  <2>2. Sends(p, r, [op |-> "refresh", token |-> jar])
    BY <1>1, <1>3, <2>1 DEF Unauthorized, Refresh, Sends
  <2> QED
    BY <2>2
<1>4. CASE Login(p, r)
  <2>1. PICK u \in User, w \in Password : Send(p, r, [op |-> "login", user |-> u, password |-> w])
    BY <1>4 DEF Login
  <2>2. Sends(p, r, [op |-> "login", user |-> u, password |-> w])
    BY <1>1, <1>4, <2>1 DEF Login, Sends
  <2> QED
    BY <2>2
<1>5. CASE Logout(p, r)
  <2>1. Sends(p, r, [op |-> "logout", token |-> jar])
    BY <1>1, <1>5 DEF Logout, Sends
  <2> QED
    BY <2>1
<1> QED
  BY <1>2, <1>3, <1>4, <1>5

(* When a page sends a refresh, those it sent before are over.             *)
LEMMA RefreshesAreOver ==
  ASSUME TypeOK, BrowserInv, NEW p \in Page, NEW r \in Request, NEW c, Sends(p, r, c),
         c.op = "refresh", NEW q \in Request \ {r}, call[q].op = "refresh", owner[q] = p
  PROVE  q \in over
<1>1. p # None /\ view[p] # "gone"
  BY PageAssumption DEF Sends
<1>2. view[p] # "new"
  BY <1>1 DEF BrowserInv, SentByPages
<1>3. flight[p] = None
  BY <1>2 DEF Sends
<1>4. q # None
  BY PageAssumption
<1> QED
  BY <1>1, <1>3, <1>4 DEF BrowserInv, OneFlight

(* Sending keeps BrowserInv.                                               *)
LEMMA SendsKeepTheInvariant ==
  ASSUME TypeOK, BrowserInv, NEW p \in Page, NEW r \in Request, NEW c, Sends(p, r, c)
  PROVE  BrowserInv'
<1> DEFINE Others == Request \ {r}
<1>1. Send(p, r, c) /\ ClientTypeOK /\ TypeOK
  BY DEF Sends, BrowserInv
<1>2. /\ pc[r] = "idle" /\ reply[r] = 0 /\ r \notin over /\ call[r] = NoCall
      /\ pc'[r] = "find" /\ call'[r] = c /\ owner'[r] = p
      /\ \A q \in Others : pc'[q] = pc[q] /\ call'[q] = call[q] /\ owner'[q] = owner[q]
      /\ owner' \in [Request -> Page \cup {None}]
      /\ UNCHANGED <<tokens, delivered, kills, new, reply, target, jar, over, lost>>
  BY <1>1, Sending
<1>3. \A q \in Request : Presents(q) => q # r
  BY <1>2 DEF Presents, NoCall
<1>4. \A q \in Others : Presents(q)' <=> Presents(q)
  BY <1>2 DEF Presents
<1>5. ClientTypeOK'
  BY <1>2 DEF ClientTypeOK, BrowserInv, Sends
<1>6. SentByPages'
  <2>1. c.op \in {"login", "refresh", "logout"} /\ view'[p] # "new"
    BY DEF Sends
  <2>2. \A q \in Others : owner[q] # None => owner[q] \in Page /\ view'[owner[q]] # "new"
    BY <2>1 DEF BrowserInv, ClientTypeOK, SentByPages, Sends
  <2> QED
    BY <1>2, <2>1, <2>2 DEF BrowserInv, SentByPages
<1>7. NewsDiffer'
  BY <1>2 DEF BrowserInv, NewsDiffer, Issued
<1>8. CameOnce'
  <2>1. \A t : Given(t)' <=> Given(t)
    BY <1>2 DEF Given
  <2>2. Presents(r)' => c.token = jar /\ c.token # None
    BY <1>2 DEF Presents, Sends
  <2> QED
    BY <1>2, <1>4, <2>1, <2>2 DEF BrowserInv, CameOnce
<1>9. SpentIsGone'
  BY <1>2, <1>4 DEF BrowserInv, SpentIsGone, ClientTypeOK
<1>10. OneFlight'
  <2> SUFFICES ASSUME NEW q \in Request \ over, call'[q].op = "refresh", view'[owner'[q]] # "gone"
               PROVE  flight'[owner'[q]] = q
    BY <1>2 DEF OneFlight
  <2>1. flight \in [Page -> Request \cup {None}]
    BY DEF BrowserInv, ClientTypeOK
  <2>2. CASE q = r
    BY <1>2, <2>1, <2>2 DEF Sends
  <2>3. CASE q # r
    <3>1. pc[q] # "idle"
      BY <1>2, <2>3 DEF TypeOK, LocalsFit, NoCall
    <3>2. call[q].op = "refresh" /\ owner'[q] = owner[q] /\ owner[q] \in Page
      BY <1>2, <2>3, <3>1 DEF BrowserInv, SentByPages
    <3>3. view[owner[q]] # "gone"
      BY <3>2 DEF Sends
    <3>4. flight[owner[q]] = q
      BY <3>2, <3>3 DEF BrowserInv, OneFlight
    <3>5. ~(c.op = "refresh" /\ owner[q] = p)
      BY <2>3, <3>2, RefreshesAreOver
    <3> QED
      BY <2>1, <3>2, <3>4, <3>5 DEF Sends
  <2> QED
    BY <2>2, <2>3
<1>11. InTurn'
  <2> SUFFICES ASSUME NEW q \in Request, NEW x \in Request, q # x, Presents(q)', Presents(x)',
                      call'[q].token = call'[x].token, call'[q].op = "refresh",
                      call'[x].op = "refresh", owner'[q] = owner'[x]
               PROVE  x \in over \/ (q \in over /\ (q \in lost \/ reply[q] # 200))
    BY <1>2 DEF InTurn
  <2>1. CASE q # r /\ x # r
    <3>1. /\ Presents(q) /\ Presents(x) /\ call'[q] = call[q] /\ call'[x] = call[x]
          /\ owner'[q] = owner[q] /\ owner'[x] = owner[x]
      BY <1>2, <1>4, <2>1
    <3>2. /\ call[q].token = call[x].token /\ call[q].op = "refresh"
          /\ call[x].op = "refresh" /\ owner[q] = owner[x]
      BY <3>1
    <3>3. InTurn
      BY DEF BrowserInv
    <3> QED
      BY <3>1, <3>2, <3>3 DEF InTurn
  <2>2. CASE q = r
    <3>1. /\ c.op = "refresh" /\ x # r /\ call[x].op = "refresh" /\ owner[x] = p
      BY <1>2, <2>2
    <3> QED
      BY <3>1, RefreshesAreOver
  <2>3. CASE x = r
    <3>1. q \in over
      <4>1. /\ c.op = "refresh" /\ q # r /\ call[q].op = "refresh" /\ owner[q] = p
        BY <1>2, <2>3
      <4> QED
        BY <4>1, RefreshesAreOver
    <3>2. Presents(q) /\ call[q].token = jar
      BY <1>2, <1>4, <2>3 DEF Sends
    <3> QED
      BY <3>1, <3>2 DEF BrowserInv, SpentIsGone
  <2> QED
    BY <2>1, <2>2, <2>3
<1>12. RevokedBySomeone'
  <2>1. \A q \in Request : Presents(q) /\ Past(q) => Presents(q)' /\ Past(q)' /\ call'[q] = call[q]
    BY <1>2, <1>3, <1>4 DEF Past
  <2> QED
    BY <1>2, <2>1 DEF BrowserInv, RevokedBySomeone, Issued
<1>13. AlarmsAreReal'
  <2> SUFFICES ASSUME NEW q \in Request, pc'[q] = "kill"
               PROVE  /\ Presents(q)' /\ tokens[call'[q].token].revoked
                      /\ target[q] = tokens[call'[q].token].user
    BY <1>2 DEF AlarmsAreReal
  <2>1. q # r
    BY <1>2
  <2> QED
    BY <1>2, <1>4, <2>1 DEF BrowserInv, AlarmsAreReal
<1>14. CookieStays'
  <2>1. \A x \in Page : view'[x] = "in" => view[x] = "in"
    BY DEF Sends
  <2>2. (\A q \in Request : call'[q].op # "logout") => \A q \in Request : call[q].op # "logout"
    BY <1>2 DEF NoCall
  <2> QED
    BY <1>2, <2>1, <2>2 DEF BrowserInv, CookieStays
<1>15. AlarmsHaveACause'
  <2> SUFFICES ASSUME NEW u \in User, kills[u] > 0
               PROVE  \E q, x \in Request :
                        /\ q # x /\ Presents(q)' /\ Presents(x)' /\ call'[q].token = call'[x].token
                        /\ call'[x].op = "refresh" /\ Subject(call[x])' = u
                        /\ \/ owner'[q] # owner'[x] \/ call'[q].op = "logout"
                           \/ q \in lost \/ reply[q] = 500
    BY <1>2 DEF AlarmsHaveACause
  <2>1. PICK q, x \in Request :
          /\ q # x /\ Presents(q) /\ Presents(x) /\ call[q].token = call[x].token
          /\ call[x].op = "refresh" /\ Subject(call[x]) = u
          /\ owner[q] # owner[x] \/ call[q].op = "logout" \/ q \in lost \/ reply[q] = 500
    BY DEF BrowserInv, AlarmsHaveACause
  <2>2. q # r /\ x # r
    BY <1>3, <2>1
  <2>3. Subject(call[x])' = Subject(call[x])
    BY <1>2, <2>2 DEF Subject
  <2> QED
    BY <1>2, <1>4, <2>1, <2>2, <2>3
<1> QED
  BY <1>5, <1>6, <1>7, <1>8, <1>9, <1>10, <1>11, <1>12, <1>13, <1>14, <1>15 DEF BrowserInv
-----------------------------------------------------------------------------
(* A response comes back, or does not; a page is closed.                   *)

(* What becomes of request x in the browser: its page is shown something   *)
(* else, and the jar may change, if the response came back.                *)
Ends(x) ==
  /\ UNCHANGED <<vars, owner>>
  /\ pc[x] = "done" /\ x \notin over /\ over' = over \cup {x}
  /\ \/ lost' = lost /\ jar' = CookieAfter(x)
     \/ lost' = lost \cup {x} /\ jar' = jar
  /\ view' \in [Page -> Views]
  /\ \A p \in Page : view'[p] = "new" => view[p] = "new"
  /\ \A p \in Page : view[p] = "gone" => view'[p] = "gone"
  /\ \A p \in Page : view'[p] = "in" =>
       view[p] = "in" \/ (lost' = lost /\ reply[x] = 200 /\ call[x].op \in {"login", "refresh"})
  /\ flight' \in [Page -> Request \cup {None}]
  /\ \A p \in Page : flight[p] # x /\ flight[p] # None => flight'[p] = flight[p]

(* Both ends of a request are such.                                        *)
LEMMA RequestsEnd ==
  ASSUME TypeOK, BrowserInv, NEW x \in Request, Arrive(x) \/ Lose(x)
  PROVE  Ends(x)
<1> DEFINE p == owner[x]
<1>1. /\ pc[x] = "done" /\ x \notin over /\ over' = over \cup {x} /\ UNCHANGED <<vars, owner>>
      /\ x \notin lost
  BY DEF Arrive, Lose, Pending, BrowserInv, ClientTypeOK
<1>2. p \in Page /\ view \in [Page -> Views] /\ flight \in [Page -> Request \cup {None}]
      /\ call[x].op \in {"login", "refresh", "logout"}
  BY <1>1 DEF BrowserInv, ClientTypeOK, SentByPages
<1>3. PICK ok \in BOOLEAN :
        /\ Handle(x, ok)
        /\ ok => lost' = lost /\ reply[x] = 200
  BY DEF Arrive, Lose
<1>4. (lost' = lost /\ jar' = CookieAfter(x)) \/ (lost' = lost \cup {x} /\ jar' = jar)
  BY DEF Arrive, Lose
<1>5. CASE view[p] = "gone"
  <2>1. UNCHANGED <<view, flight>>
    BY <1>3, <1>5 DEF Handle
  <2> QED
    BY <1>1, <1>2, <1>4, <2>1 DEF Ends
<1>6. CASE view[p] # "gone"
  <2>1. /\ \/ view' = view
           \/ view' = [view EXCEPT ![p] = "out"]
           \/ ok /\ call[x].op \in {"login", "refresh"} /\ view' = [view EXCEPT ![p] = "in"]
        /\ flight' = [flight EXCEPT ![p] = IF @ = x THEN None ELSE @]
    BY <1>2, <1>3, <1>6 DEF Handle, Show
  <2>2. flight' \in [Page -> Request \cup {None}]
    BY <1>2, <2>1
  <2>3. \A y \in Page : flight[y] # x /\ flight[y] # None => flight'[y] = flight[y]
    BY <1>2, <2>1
  <2>4. view' \in [Page -> Views]
    BY <1>2, <2>1 DEF Views
  <2>5. \A y \in Page : /\ view'[y] = "new" => view[y] = "new"
                        /\ view[y] = "gone" => view'[y] = "gone"
    BY <1>2, <1>6, <2>1
  <2>6. \A y \in Page : view'[y] = "in" =>
          view[y] = "in" \/ (lost' = lost /\ reply[x] = 200 /\ call[x].op \in {"login", "refresh"})
    BY <1>2, <1>3, <2>1
  <2> QED
    BY <1>1, <1>4, <2>2, <2>3, <2>4, <2>5, <2>6 DEF Ends
<1> QED
  BY <1>5, <1>6

(* An answer puts a token into the jar that no request has presented: its  *)
(* own, which has come only now.                                           *)
LEMMA AnswersAreNews ==
  ASSUME TypeOK, BrowserInv, NEW x \in Request, x \notin over, NEW r \in Request, Presents(r)
  PROVE  new[x] # call[r].token
<1>1. call[r].token # None
  BY DEF Presents
<1>2. PICK y \in over : new[y] = call[r].token
  BY DEF BrowserInv, CameOnce, Given
<1>3. y \in Request
  BY DEF BrowserInv, ClientTypeOK
<1> QED
  BY <1>1, <1>2, <1>3 DEF BrowserInv, NewsDiffer

(* A login or refresh answered 200 has a token.                            *)
LEMMA AnswersHaveTokens ==
  ASSUME TypeOK, AnsweredMeansRetired, NEW x \in Request, reply[x] = 200,
         call[x].op \in {"login", "refresh"}
  PROVE  new[x] # None
BY NoneAssumption DEF AnsweredMeansRetired, TypeOK, Issued

(* While vars and the owners stay and lost grows, so do the parts of the   *)
(* invariant that are about the server.                                    *)
LEMMA ServerPartsStay ==
  ASSUME BrowserInv, UNCHANGED <<vars, owner>>, lost \subseteq lost'
  PROVE  NewsDiffer' /\ RevokedBySomeone' /\ AlarmsAreReal' /\ AlarmsHaveACause'
<1>1. \A r \in Request : Presents(r)' <=> Presents(r)
  BY DEF Presents, vars, locals
<1>2. \A r \in Request : Past(r)' <=> Past(r)
  BY DEF Past, vars
<1>3. UNCHANGED <<tokens, kills, call, target, new, pc, reply>>
  BY DEF vars, locals, database, history
<1>4. NewsDiffer' /\ RevokedBySomeone' /\ AlarmsAreReal'
  BY <1>1, <1>2, <1>3 DEF BrowserInv, NewsDiffer, RevokedBySomeone, AlarmsAreReal, Issued
<1>5. \A c : Subject(c)' = Subject(c)
  BY <1>3 DEF Subject
<1>6. AlarmsHaveACause'
  <2> SUFFICES ASSUME NEW u \in User, kills[u] > 0
               PROVE  \E q, r \in Request :
                        /\ q # r /\ Presents(q) /\ Presents(r) /\ call[q].token = call[r].token
                        /\ call[r].op = "refresh" /\ Subject(call[r]) = u
                        /\ owner[q] # owner[r] \/ call[q].op = "logout" \/ q \in lost' \/ reply[q] = 500
    BY <1>1, <1>3, <1>5 DEF AlarmsHaveACause
  <2>1. PICK q, r \in Request :
          /\ q # r /\ Presents(q) /\ Presents(r) /\ call[q].token = call[r].token
          /\ call[r].op = "refresh" /\ Subject(call[r]) = u
          /\ owner[q] # owner[r] \/ call[q].op = "logout" \/ q \in lost \/ reply[q] = 500
    BY DEF BrowserInv, AlarmsHaveACause
  <2> QED
    BY <2>1
<1> QED
  BY <1>4, <1>6

(* The end of a request keeps BrowserInv.                                  *)
LEMMA EndsKeepTheInvariant ==
  ASSUME TypeOK, AnsweredMeansRetired, BrowserInv, NEW x \in Request, Ends(x)
  PROVE  BrowserInv'
<1>1. /\ UNCHANGED <<tokens, call, target, new, pc, reply, owner>>
      /\ UNCHANGED <<vars, owner>> /\ lost \subseteq lost'
      /\ pc[x] = "done" /\ x \notin over /\ over' = over \cup {x}
  BY DEF Ends, vars, locals, database
<1>2. /\ over \subseteq {r \in Request : pc[r] = "done"} /\ lost \subseteq over
      /\ owner \in [Request -> Page \cup {None}]
  BY DEF BrowserInv, ClientTypeOK
<1>3. \A r \in Request : Presents(r)' <=> Presents(r)
  BY <1>1 DEF Presents
<1>4. \/ jar' = jar
      \/ /\ lost' = lost /\ reply[x] = 200
         /\ IF call[x].op = "logout" THEN jar' = None ELSE jar' = new[x]
  BY DEF Ends, CookieAfter
<1>5. x \notin lost' /\ reply[x] = 200 =>
        IF call[x].op = "logout" THEN jar' = None ELSE jar' = new[x]
  BY DEF Ends, CookieAfter
<1>6. ClientTypeOK'
  <2>1. jar' \in Token \cup {None}
    BY <1>4 DEF BrowserInv, ClientTypeOK, TypeOK
  <2>2. lost' \subseteq over'
    BY <1>1, <1>2 DEF Ends
  <2> QED
    BY <1>1, <1>2, <2>1, <2>2 DEF Ends, ClientTypeOK
<1>7. SentByPages'
  BY <1>1, <1>2 DEF Ends, BrowserInv, SentByPages
<1>8. CameOnce'
  <2>1. \A t : Given(t) => Given(t)'
    BY <1>1 DEF Given
  <2>2. jar' = new[x] => Given(jar)'
    BY <1>1 DEF Given
  <2> QED
    BY <1>1, <1>3, <1>4, <2>1, <2>2 DEF BrowserInv, CameOnce
<1>9. SpentIsGone'
  <2> SUFFICES ASSUME NEW r \in over', r \notin lost', reply[r] = 200, Presents(r)
               PROVE  jar' # call[r].token
    BY <1>1, <1>2, <1>3 DEF SpentIsGone
  <2>1. r \in Request /\ call[r].token # None /\ new[x] # call[r].token
    BY <1>1, <1>2, AnswersAreNews DEF Presents
  <2>2. CASE r = x
    BY <1>5, <2>1, <2>2
  <2>3. CASE r # x /\ jar' = jar
    BY <1>1, <2>3 DEF BrowserInv, SpentIsGone
  <2> QED
    BY <1>4, <2>1, <2>2, <2>3
<1>10. OneFlight'
  <2> SUFFICES ASSUME NEW q \in Request, q \notin over, q # x, call[q].op = "refresh",
                      view'[owner[q]] # "gone"
               PROVE  flight'[owner[q]] = q
    BY <1>1 DEF OneFlight
  <2>1. pc[q] # "idle"
    BY DEF TypeOK, LocalsFit, NoCall
  <2>2. owner[q] \in Page /\ view[owner[q]] # "gone"
    BY <2>1 DEF BrowserInv, SentByPages, Ends
  <2>3. flight[owner[q]] = q /\ q # None
    BY <2>2, PageAssumption DEF BrowserInv, OneFlight
  <2> QED
    BY <2>2, <2>3 DEF Ends
<1>11. InTurn'
  <2>1. over \subseteq over' /\ lost \subseteq lost'
    BY <1>1
  <2>2. InTurn
    BY DEF BrowserInv
  <2> QED
    BY <1>1, <1>3, <2>1, <2>2 DEF InTurn
<1>12. CookieStays'
  <2> SUFFICES ASSUME \A r \in Request : call[r].op # "logout", NEW p \in Page, view'[p] = "in"
               PROVE  jar' # None
    BY <1>1 DEF CookieStays
  <2>1. call[x].op \in {"login", "refresh"}
    BY <1>1 DEF BrowserInv, SentByPages
  <2>2. reply[x] = 200 => new[x] # None
    BY <2>1, AnswersHaveTokens
  <2>3. CASE jar' # jar
    BY <1>4, <2>1, <2>2, <2>3
  <2>4. CASE jar' = jar /\ view[p] = "in"
    BY <2>4 DEF BrowserInv, CookieStays
  <2>5. CASE view[p] # "in"
    <3>1. lost' = lost /\ reply[x] = 200
      BY <2>5 DEF Ends
    <3>2. x \notin lost'
      BY <1>1, <1>2, <3>1
    <3> QED
      BY <1>5, <2>1, <2>2, <3>1, <3>2
  <2> QED
    BY <2>3, <2>4, <2>5
<1> QED
  BY <1>1, <1>6, <1>7, <1>8, <1>9, <1>10, <1>11, <1>12, ServerPartsStay DEF BrowserInv

(* So does closing a page, which forgets what it waits for.                *)
LEMMA ClosingKeepsTheInvariant ==
  ASSUME TypeOK, BrowserInv, NEW p \in Page, Close(p)
  PROVE  BrowserInv'
<1>1. /\ UNCHANGED <<vars, jar, owner, over, lost>>
      /\ view' = [view EXCEPT ![p] = "gone"] /\ flight' = [flight EXCEPT ![p] = None]
  BY DEF Close, Show
<1>2. UNCHANGED <<tokens, call, target, new, pc, reply>>
  BY <1>1 DEF vars, locals, database
<1>3. \A r \in Request : Presents(r)' <=> Presents(r)
  BY <1>2 DEF Presents
<1>4. ClientTypeOK /\ SentByPages /\ InTurn
  BY DEF BrowserInv
<1>5. ClientTypeOK'
  BY <1>1, <1>2, <1>4 DEF ClientTypeOK, Views
<1>6. SentByPages'
  BY <1>1, <1>2, <1>4 DEF ClientTypeOK, SentByPages
<1>7. CameOnce' /\ SpentIsGone' /\ CookieStays'
  <2>1. \A t : Given(t)' <=> Given(t)
    BY <1>1, <1>2 DEF Given
  <2> QED
    BY <1>1, <1>2, <1>3, <1>4, <2>1 DEF ClientTypeOK, BrowserInv, CameOnce, SpentIsGone, CookieStays
<1>8. OneFlight'
  <2> SUFFICES ASSUME NEW q \in Request \ over, call[q].op = "refresh", view'[owner[q]] # "gone"
               PROVE  flight'[owner[q]] = q
    BY <1>1, <1>2 DEF OneFlight
  <2>1. pc[q] # "idle"
    BY DEF TypeOK, LocalsFit, NoCall
  <2>2. owner[q] \in Page \ {p} /\ view[owner[q]] # "gone"
    BY <1>1, <1>4, <2>1 DEF SentByPages, ClientTypeOK
  <2> QED
    BY <1>1, <1>4, <2>2 DEF BrowserInv, OneFlight, ClientTypeOK
<1>9. InTurn'
  BY <1>1, <1>2, <1>3, <1>4 DEF InTurn
<1> QED
  BY <1>1, <1>5, <1>6, <1>7, <1>8, <1>9, ServerPartsStay DEF BrowserInv
-----------------------------------------------------------------------------
(* The server works on a request.                                          *)

(* A step of the server is one of AuthSession, for a request it has        *)
(* received, and does not change what was asked.                           *)
LEMMA ServersWork ==
  ASSUME TypeOK, NEW r \in Request, ServerStep(r)
  PROVE  /\ RequestStep(r) /\ [Next]_vars /\ UNCHANGED <<call, clientVars>>
         /\ pc[r] \notin {"idle", "done"}
<1>1. RequestStep(r) /\ UNCHANGED clientVars
  BY DEF ServerStep, RequestStep
<1>2. UNCHANGED call /\ pc[r] \notin {"idle", "done"}
  BY DEF ServerStep, LoginFind, RefreshFind, LogoutFind, RefreshUser, Insert, Retire, Kill, Respond, Fail,
         locals, At
<1> QED
  BY <1>1, <1>2 DEF Next

(* A token dies by being retired by a request that presents it, or with    *)
(* all the tokens of its user.                                             *)
LEMMA HowTokensDie ==
  ASSUME TypeOK, NEW r \in Request, ServerStep(r), NEW t \in Issued', tokens'[t].revoked,
         t \in Issued => ~tokens[t].revoked
  PROVE  \/ Presents(r) /\ call[r].token = t /\ pc'[r] = "respond"
         \/ Kill(r) /\ target[r] = tokens'[t].user
<1>1. tokens \in [Token -> TokenRow \cup {None}] /\ t \in Token /\ tokens'[t] # tokens[t]
  BY DEF TypeOK, Issued
<1>2. CASE Insert(r)
  <2>1. tokens'[t] = FreshRow(r)
    BY <1>1, <1>2 DEF Insert
  <2> QED
    BY <2>1 DEF FreshRow
<1>3. CASE Retire(r)
  <2>1. Presents(r) /\ pc'[r] = "respond"
    BY <1>3 DEF Retire, TypeOK, LocalsFit, Rotates, Presents, Goto
  <2>2. call[r].token = t
    BY <1>1, <1>3 DEF Retire
  <2> QED
    BY <2>1, <2>2
<1>4. CASE Kill(r)
  <2>1. t \in TokensOf(target[r]) /\ tokens'[t] = [tokens[t] EXCEPT !.revoked = TRUE]
    BY <1>1, <1>4 DEF Kill, RevokeAll
  <2>2. tokens[t] \in TokenRow /\ tokens[t].user = target[r]
    BY <1>1, <2>1 DEF TokensOf, Issued
  <2> QED
    BY <1>4, <2>1, <2>2 DEF TokenRow
<1> QED
  BY <1>1, <1>2, <1>3, <1>4 DEF ServerStep, LoginFind, RefreshFind, LogoutFind, RefreshUser, Respond,
     Fail, database

(* The alarms counted of a user are never taken back, and only Kill adds   *)
(* to them.                                                                *)
LEMMA AlarmsAdd ==
  ASSUME TypeOK, NEW r \in Request, ServerStep(r), NEW u \in User
  PROVE  /\ kills[u] > 0 => kills'[u] > 0
         /\ Kill(r) /\ u = target[r] => kills'[u] > 0
         /\ kills'[u] # kills[u] => Kill(r) /\ u = target[r]
<1>1. kills \in [User -> Nat] /\ kills[u] \in Nat
  BY DEF TypeOK
<1>2. CASE Kill(r)
  <2>1. kills' = [kills EXCEPT ![target[r]] = @ + 1]
    BY <1>2 DEF Kill
  <2>2. kills'[u] = IF u = target[r] THEN kills[u] + 1 ELSE kills[u]
    BY <1>1, <2>1
  <2> QED
    BY <1>1, <1>2, <2>2
<1>3. CASE ~Kill(r)
  <2>1. UNCHANGED kills
    BY <1>3 DEF ServerStep, LoginFind, RefreshFind, LogoutFind, RefreshUser, Insert, Retire, Respond, Fail,
                history
  <2> QED
    BY <1>3, <2>1
<1> QED
  BY <1>2, <1>3

(* No request inserts the token of another.                                *)
LEMMA NewsStep ==
  ASSUME TypeOK, NewsDiffer, NEW r \in Request, ServerStep(r)
  PROVE  NewsDiffer'
<1>1. Issued \subseteq Issued'
  BY ServersWork, IssuedGrows
<1>2. CASE Insert(r)
  <2>1. PICK n \in Token \ Issued : /\ new' = [new EXCEPT ![r] = n]
                                   /\ tokens' = [tokens EXCEPT ![n] = FreshRow(r)]
    BY <1>2 DEF Insert
  <2>2. new'[r] = n /\ (\A q \in Request \ {r} : new'[q] = new[q]) /\ tokens'[n] = FreshRow(r)
    BY <2>1 DEF TypeOK
  <2>3. FreshRow(r) \in TokenRow
    BY <1>2, FreshRowIsARow DEF Insert
  <2>4. n \in Issued'
    BY <2>2, <2>3, NoneAssumption DEF Issued
  <2> QED
    BY <1>1, <2>2, <2>4 DEF NewsDiffer
<1>3. CASE ~Insert(r)
  <2>1. UNCHANGED new
    BY <1>3 DEF ServerStep, LoginFind, RefreshFind, LogoutFind, RefreshUser, Kill, Retire, Respond, Fail,
                locals
  <2> QED
    BY <1>1, <2>1 DEF NewsDiffer
<1> QED
  BY <1>2, <1>3

(* A refresh is about to raise the alarm when it has just found its token  *)
(* revoked, or was so before.                                              *)
LEMMA AlarmsStep ==
  ASSUME TypeOK, BrowserInv, NEW r \in Request, ServerStep(r)
  PROVE  AlarmsAreReal'
<1> SUFFICES ASSUME NEW q \in Request, pc'[q] = "kill"
             PROVE  /\ Presents(q)' /\ tokens'[call'[q].token].revoked
                    /\ target'[q] = tokens'[call'[q].token].user
  BY DEF AlarmsAreReal
<1>1. UNCHANGED call /\ RequestStep(r) /\ [Next]_vars
  BY ServersWork
<1>2. Presents(q)' <=> Presents(q)
  BY <1>1 DEF Presents
<1>3. \A t \in Issued : tokens'[t].user = tokens[t].user /\ (tokens[t].revoked => tokens'[t].revoked)
  BY <1>1, EveryStepAges DEF Ages
<1>4. Presents(q) => call[q].token \in Issued
  BY PresentedIsIssued, NoneAssumption DEF Issued
<1>5. CASE pc[q] = "kill" /\ target'[q] = target[q]
  BY <1>1, <1>2, <1>3, <1>4, <1>5 DEF BrowserInv, AlarmsAreReal
<1>6. CASE q # r
  <2>1. pc[q] = "kill" /\ target'[q] = target[q]
    BY <1>1, <1>6, OneMoves
  <2> QED
    BY <1>5, <2>1
<1>7. CASE q = r
  <2>1. RefreshFind(r)
    BY <1>7 DEF ServerStep, LoginFind, RefreshFind, LogoutFind, RefreshUser, Insert, Kill, Retire, Respond,
                Fail, Answer, Found, Goto, TypeOK
  <2>2. /\ Presents(r) /\ tokens[call[r].token].revoked
        /\ target'[r] = tokens[call[r].token].user /\ UNCHANGED tokens
    BY <1>7, <2>1 DEF RefreshFind, Answer, Found, Goto, TypeOK, At, Presents, database
  <2> QED
    BY <1>1, <1>2, <1>7, <2>2
<1> QED
  BY <1>6, <1>7

(* Whatever is revoked was so by a request past retiring it, or with an    *)
(* alarm.                                                                  *)
LEMMA RevocationsStep ==
  ASSUME TypeOK, BrowserInv, NEW r \in Request, ServerStep(r)
  PROVE  RevokedBySomeone'
<1> SUFFICES ASSUME NEW t \in Issued', tokens'[t].revoked
             PROVE  \/ kills'[tokens'[t].user] > 0
                    \/ \E q \in Request : Presents(q)' /\ call'[q].token = t /\ Past(q)'
  BY DEF RevokedBySomeone
<1>1. UNCHANGED call /\ RequestStep(r) /\ [Next]_vars
  BY ServersWork
<1>2. \A q \in Request : Presents(q)' <=> Presents(q)
  BY <1>1 DEF Presents
<1>3. CASE t \in Issued /\ tokens[t].revoked
  <2>1. tokens'[t].user = tokens[t].user
    BY <1>1, <1>3, EveryStepAges DEF Ages
  <2>2. tokens[t].user \in User
    BY <1>3 DEF Issued, TypeOK, TokenRow
  <2>3. CASE kills[tokens[t].user] > 0
    BY <2>1, <2>2, <2>3, AlarmsAdd
  <2>4. CASE \E q \in Request : Presents(q) /\ call[q].token = t /\ Past(q)
    BY <1>1, <1>2, <2>4, RequestsKeep
  <2> QED
    BY <1>3, <2>3, <2>4 DEF BrowserInv, RevokedBySomeone
<1>4. CASE t \in Issued => ~tokens[t].revoked
  <2>1. CASE Presents(r) /\ call[r].token = t /\ pc'[r] = "respond"
    BY <1>1, <1>2, <2>1 DEF Past
  <2>2. CASE Kill(r) /\ target[r] = tokens'[t].user
    <3>1. target[r] \in User
      BY <2>2 DEF Kill, TypeOK, LocalsFit
    <3> QED
      BY <2>2, <3>1, AlarmsAdd
  <2> QED
    BY <1>4, <2>1, <2>2, HowTokensDie
<1> QED
  BY <1>3, <1>4

(* Two requests that explain an alarm, whoever is concerned.               *)
Explain(q, r, u) ==
  /\ q # r /\ Presents(q) /\ Presents(r) /\ call[q].token = call[r].token
  /\ call[r].op = "refresh" /\ Subject(call[r]) = u
  /\ owner[q] # owner[r] \/ call[q].op = "logout" \/ q \in lost \/ reply[q] = 500

(* An explanation holds good.                                              *)
LEMMA ExplanationsStay ==
  ASSUME TypeOK, NEW r \in Request, ServerStep(r), NEW q \in Request, NEW x \in Request,
         NEW u \in User, Explain(q, x, u)
  PROVE  Explain(q, x, u)'
<1>1. UNCHANGED <<call, owner, lost>> /\ [Next]_vars
  BY ServersWork DEF clientVars
<1>2. Presents(q)' /\ Presents(x)'
  BY <1>1 DEF Explain, Presents
<1>3. call[x].token \in Issued
  BY PresentedIsIssued, NoneAssumption DEF Issued, Explain
<1>4. Subject(call[x])' = Subject(call[x])
  BY <1>1, <1>3, EveryStepAges DEF Explain, Subject, Ages
<1>5. reply[q] = 500 => reply'[q] = 500
  <2>1. reply[q] = 500 => pc[q] = "done"
    BY DEF TypeOK, LocalsFit
  <2> QED
    BY <1>1, <2>1, RequestsKeep
<1> QED
  BY <1>1, <1>2, <1>4, <1>5 DEF Explain

(* A refresh that raises the alarm found its token revoked by another      *)
(* request, and that one explains it.                                      *)
LEMMA CausesStep ==
  ASSUME TypeOK, BrowserInv, NEW r \in Request, ServerStep(r)
  PROVE  AlarmsHaveACause'
<1> SUFFICES ASSUME NEW u \in User, kills'[u] > 0
             PROVE  \E q, x \in Request : Explain(q, x, u)'
  BY DEF AlarmsHaveACause, Explain
<1>1. \E q, x \in Request : Explain(q, x, u)
  <2>1. CASE kills[u] > 0
    BY <2>1 DEF BrowserInv, AlarmsHaveACause, Explain
  <2>2. CASE ~(kills[u] > 0)
    <3>1. Kill(r) /\ u = target[r] /\ pc[r] = "kill"
      BY <2>2, AlarmsAdd DEF Kill
    <3>2. Presents(r) /\ tokens[call[r].token].revoked /\ u = tokens[call[r].token].user
      BY <3>1 DEF BrowserInv, AlarmsAreReal
    <3>3. call[r].op = "refresh" /\ reply[r] = 0 /\ r \notin over
      BY <3>1, <3>2 DEF TypeOK, LocalsFit, Presents, BrowserInv, ClientTypeOK
    <3>4. call[r].token \in Issued
      BY <3>2, PresentedIsIssued, NoneAssumption DEF Issued
    <3>5. PICK q \in Request : Presents(q) /\ call[q].token = call[r].token /\ Past(q)
      BY <2>2, <3>2, <3>4 DEF BrowserInv, RevokedBySomeone
    <3>6. q # r
      BY <3>1, <3>3, <3>5 DEF Past
    <3>7. Subject(call[r]) = u
      BY <3>2, <3>3 DEF Subject, Presents
    <3>8. owner[q] # owner[r] \/ call[q].op = "logout" \/ q \in lost \/ reply[q] = 500
      <4> SUFFICES ASSUME owner[q] = owner[r], call[q].op # "logout", q \notin lost
                   PROVE  reply[q] = 500
        OBVIOUS
      <4>1. call[q].op = "refresh"
        BY <3>5 DEF Presents
      <4>2. InTurn
        BY DEF BrowserInv
      <4>3. q \in over /\ reply[q] # 200
        BY <3>2, <3>3, <3>5, <3>6, <4>1, <4>2 DEF InTurn
      <4>4. pc[q] = "done"
        BY <4>3 DEF BrowserInv, ClientTypeOK
      <4> QED
        BY <3>5, <4>3, <4>4 DEF Past
    <3>9. Explain(q, r, u)
      BY <3>2, <3>3, <3>5, <3>6, <3>7, <3>8 DEF Explain
    <3> QED
      BY <3>9
  <2> QED
    BY <2>1, <2>2
<1> QED
  BY <1>1, ExplanationsStay

(* A step of the server keeps BrowserInv.                                  *)
LEMMA ServerKeepsTheInvariant ==
  ASSUME TypeOK, BrowserInv, NEW r \in Request, ServerStep(r)
  PROVE  BrowserInv'
<1>1. UNCHANGED <<call, jar, view, flight, owner, over, lost>> /\ [Next]_vars /\ RequestStep(r)
      /\ pc[r] \notin {"idle", "done"}
  BY ServersWork DEF clientVars
<1>2. ClientTypeOK /\ InTurn /\ \A q \in Request : Presents(q)' <=> Presents(q)
  BY <1>1 DEF Presents, BrowserInv
<1>3. \A q \in Request : /\ pc[q] = "done" => pc'[q] = "done" /\ reply'[q] = reply[q]
                         /\ new[q] # None => new'[q] = new[q]
                         /\ pc[q] = "idle" => pc'[q] = "idle"
  BY <1>1, RequestsKeep, OneMoves
<1>4. ClientTypeOK'
  BY <1>1, <1>2, <1>3 DEF ClientTypeOK
<1>5. SentByPages' /\ OneFlight' /\ CookieStays'
  BY <1>1, <1>3 DEF BrowserInv, SentByPages, OneFlight, CookieStays
<1>6. CameOnce'
  <2>1. \A t : t # None /\ Given(t) => Given(t)'
    BY <1>1, <1>2, <1>3 DEF Given, ClientTypeOK
  <2> QED
    BY <1>1, <1>2, <2>1 DEF BrowserInv, CameOnce, Presents
<1>7. SpentIsGone'
  BY <1>1, <1>2, <1>3 DEF BrowserInv, SpentIsGone, ClientTypeOK
<1>8. InTurn'
  <2>1. \A q \in over : q \in Request /\ reply'[q] = reply[q]
    BY <1>2, <1>3 DEF ClientTypeOK
  <2> QED
    BY <1>1, <1>2, <2>1 DEF InTurn
<1> QED
  BY <1>4, <1>5, <1>6, <1>7, <1>8, NewsStep, AlarmsStep, RevocationsStep, CausesStep DEF BrowserInv

-----------------------------------------------------------------------------
(* The theorems.                                                           *)

(* BrowserInv is inductive.                                                *)
LEMMA BrowserStep ==
  TypeOK /\ AnsweredMeansRetired /\ BrowserInv /\ [ClientNext]_allVars => BrowserInv'
<1> SUFFICES ASSUME TypeOK, AnsweredMeansRetired, BrowserInv, [ClientNext]_allVars
             PROVE  BrowserInv'
  OBVIOUS
<1>1. ASSUME NEW p \in Page, PageStep(p)
      PROVE  BrowserInv'
  <2>1. CASE Close(p)
    BY <2>1, ClosingKeepsTheInvariant
  <2>2. ASSUME NEW r \in Request, Boot(p, r) \/ Unauthorized(p, r) \/ Login(p, r) \/ Logout(p, r)
        PROVE  BrowserInv'
    BY <2>2, PagesSend, SendsKeepTheInvariant DEF BrowserInv
  <2> QED
    BY <1>1, <2>1, <2>2 DEF PageStep
<1>2. ASSUME NEW r \in Request, ServerStep(r)
      PROVE  BrowserInv'
  BY <1>2, ServerKeepsTheInvariant
<1>3. ASSUME NEW r \in Request, Arrive(r) \/ Lose(r)
      PROVE  BrowserInv'
  BY <1>3, RequestsEnd, EndsKeepTheInvariant
<1>4. CASE UNCHANGED allVars
  <2>1. UNCHANGED <<vars, owner>> /\ UNCHANGED <<jar, view, flight, owner, over, lost>>
    BY <1>4 DEF allVars, clientVars
  <2>2. UNCHANGED <<call, new, pc, reply>>
    BY <2>1 DEF vars, locals
  <2>3. NewsDiffer' /\ RevokedBySomeone' /\ AlarmsAreReal' /\ AlarmsHaveACause'
    BY <2>1, ServerPartsStay
  <2>4. \A r \in Request : Presents(r)' <=> Presents(r)
    BY <2>2 DEF Presents
  <2>5. \A t : Given(t)' <=> Given(t)
    BY <2>1, <2>2 DEF Given
  <2>6. ClientTypeOK' /\ SentByPages' /\ OneFlight' /\ CookieStays'
    BY <2>1, <2>2 DEF BrowserInv, ClientTypeOK, SentByPages, OneFlight, CookieStays
  <2>7. CameOnce' /\ SpentIsGone'
    BY <2>1, <2>2, <2>4, <2>5 DEF BrowserInv, ClientTypeOK, CameOnce, SpentIsGone
  <2>8. InTurn'
    BY <2>1, <2>2, <2>4 DEF BrowserInv, InTurn
  <2> QED
    BY <2>3, <2>6, <2>7, <2>8 DEF BrowserInv
<1> QED
  BY <1>1, <1>2, <1>3, <1>4 DEF ClientNext

(* BrowserInv holds.                                                       *)
LEMMA BrowserIsSound == ClientSpec => []BrowserInv
<1>1. ClientInit => BrowserInv
  <2> SUFFICES ASSUME ClientInit
               PROVE  BrowserInv
    OBVIOUS
  <2>1. /\ \A r \in Request : pc[r] = "idle" /\ call[r] = NoCall /\ new[r] = None /\ owner[r] = None
        /\ Issued = {} /\ \A u \in User : ~(kills[u] > 0)
        /\ over = {} /\ lost = {} /\ jar = None
    BY DEF ClientInit, Init, Issued
  <2>2. \A r \in Request : ~Presents(r)
    BY <2>1 DEF Presents, NoCall
  <2>3. ClientTypeOK /\ \A p \in Page : view[p] = "new"
    BY DEF ClientInit, ClientTypeOK, Views
  <2> QED
    BY <2>1, <2>2, <2>3 DEF BrowserInv, SentByPages, NewsDiffer, CameOnce, SpentIsGone, OneFlight, InTurn,
       RevokedBySomeone, AlarmsAreReal, CookieStays, AlarmsHaveACause, NoCall
<1> QED
  BY <1>1, BrowserStep, BrowsersChangeNoServer, TypeCorrect, AnswersAreDurable, PTL DEF ClientSpec

(* refreshSession.ts: no page trips the theft detection by itself.  When   *)
(* everything of a user was revoked, a token of the user was presented by  *)
(* two requests: of two pages, or one a logout, or the first without an    *)
(* answer.                                                                 *)
THEOREM NoPageAlarmsAlone == ClientSpec => []AlarmsHaveACause
<1>1. BrowserInv => AlarmsHaveACause
  BY DEF BrowserInv
<1> QED
  BY <1>1, BrowserIsSound, PTL

(* When all is quiet and nothing went wrong, the cookie of the browser is  *)
(* a live token, and a page that shows a session has it.                   *)
THEOREM SessionsHaveTheirCookie == ClientSpec => []SessionsAreBacked
<1>1. TypeOK /\ BrowserInv => SessionsAreBacked
  <2> SUFFICES ASSUME TypeOK, BrowserInv, Quiet, Undisturbed
               PROVE  /\ jar # None => Live(jar)
                      /\ (\A r \in Request : call[r].op # "logout") =>
                           \A p \in Page : view[p] = "in" => jar # None
    BY DEF SessionsAreBacked
  <2>1. ASSUME jar # None
        PROVE  Live(jar)
    <3>1. jar \in Issued
      BY <2>1 DEF BrowserInv, CameOnce, Given, NewsDiffer, ClientTypeOK
    <3>2. tokens[jar].user \in User /\ tokens[jar].revoked \in BOOLEAN
      BY <3>1 DEF Issued, TypeOK, TokenRow
    <3>3. ASSUME NEW r \in Request, Presents(r), call[r].token = jar, Past(r)
          PROVE  FALSE
      <4>1. pc[r] # "idle"
        BY <3>3 DEF Presents, NoCall, TypeOK, LocalsFit
      <4>2. r \in over /\ pc[r] = "done" /\ reply[r] # 500 /\ r \notin lost
        BY <4>1 DEF Quiet, Undisturbed, BrowserInv, ClientTypeOK
      <4>3. reply[r] = 200
        BY <3>3, <4>2 DEF Past
      <4> QED
        BY <3>3, <4>2, <4>3 DEF BrowserInv, SpentIsGone
    <3>4. ~tokens[jar].revoked
      BY <3>1, <3>2, <3>3 DEF BrowserInv, RevokedBySomeone, Undisturbed
    <3> QED
      BY <3>1, <3>4 DEF Live, Issued
  <2> QED
    BY <2>1 DEF BrowserInv, CookieStays
<1> QED
  BY <1>1, BrowserIsSound, BrowsersChangeNoServer, TypeCorrect, PTL
=============================================================================
