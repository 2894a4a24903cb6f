---------------------------- MODULE AuthSession ----------------------------
(***************************************************************************)
(* authService (services/auth.service.ts) against the users and            *)
(* refresh_tokens tables: login, refresh with rotation and theft           *)
(* detection, logout, and the password reset that ends every session.      *)
(*                                                                         *)
(* None of these handlers uses a transaction: each await is a step, any    *)
(* other request may run between two of them, and any of them may fail     *)
(* (the database call rejects, or the process dies) with what was written  *)
(* before it left in place.  A Request is used once.                       *)
(***************************************************************************)
EXTENDS Naturals, FiniteSets

CONSTANTS
  User,       \* accounts
  Token,      \* refresh tokens that can be generated; a row is known by its hash
  Link,       \* password reset tokens that can be generated
  Password,   \* passwords
  Request,    \* HTTP requests, each made once
  None        \* null, undefined, or a row that is not there

VARIABLES
  tokens,     \* the refresh_tokens table: token -> row, or None
  expired,    \* tokens whose expiresAt has passed
  delivered,  \* tokens some client was sent
  active,     \* users with isActive set
  password,   \* the password each user's hash was made from
  resetLink,  \* the unexpired reset token of each user, or None
  mailed,     \* reset tokens that were mailed
  pc,         \* where each request is
  call,       \* what each request asks for
  target,     \* the user a request works for, once it has found one
  new,        \* the refresh token it inserted
  link,       \* the reset token it generated
  reply,      \* the HTTP status it was answered with, 0 before that
  (* history variables: the code does not keep them *)
  kills,      \* how often revokeAllForUser has run for each user
  checked,    \* the kills of its user when a request made its checks
  late        \* login and refresh requests that arrived for a deactivated user

database == <<tokens, expired, active, password, resetLink>>
clients == <<delivered, mailed>>
locals == <<call, target, new, link>>
history == <<kills, checked, late>>
vars == <<database, clients, pc, reply, locals, history>>

(* from, born and checked are history: the token this one was rotated from *)
(* and the kills of the user when the row was inserted and when the request*)
(* that inserted it made its checks.                                       *)
TokenRow == [user: User, revoked: BOOLEAN, replacedBy: Token \cup {None},
             from: Token \cup {None}, born: Nat, checked: Nat]

ASSUME NoneAssumption ==
  None \notin User /\ None \notin Token /\ None \notin Link /\ None \notin TokenRow

Issued == {t \in Token : tokens[t] # None}
Live(t) == tokens[t] # None /\ ~tokens[t].revoked
TokensOf(u) == {t \in Issued : tokens[t].user = u}

(* A client presents a token it was sent, or none at all.  Anybody may ask *)
(* for a reset link; only a mailed one can be used.                        *)
Calls ==
  [op: {"login"}, user: User, password: Password]
    \cup [op: {"refresh", "logout"}, token: delivered \cup {None}]
    \cup [op: {"forgot"}, user: User]
    \cup [op: {"reset"}, link: mailed, password: Password]

NoCall == [op |-> "none"]

Init ==
  /\ tokens = [t \in Token |-> None]
  /\ expired = {}
  /\ delivered = {}
  /\ active = User
  /\ password \in [User -> Password]
  /\ resetLink = [u \in User |-> None]
  /\ mailed = {}
  /\ pc = [r \in Request |-> "idle"]
  /\ call = [r \in Request |-> NoCall]
  /\ target = [r \in Request |-> None]
  /\ new = [r \in Request |-> None]
  /\ link = [r \in Request |-> None]
  /\ reply = [r \in Request |-> 0]
  /\ kills = [u \in User |-> 0]
  /\ checked = [r \in Request |-> 0]
  /\ late = {}

Goto(r, label) == pc' = [pc EXCEPT ![r] = label]

Answer(r, status) ==
  /\ Goto(r, "done")
  /\ reply' = [reply EXCEPT ![r] = status]

At(r, label, op) == pc[r] = label /\ call[r].op = op

(* The user a call is about, as far as the tables know.                    *)
Subject(c) ==
  CASE c.op \in {"login", "forgot"} -> c.user
    [] c.op \in {"refresh", "logout"} ->
         IF c.token = None THEN None ELSE tokens[c.token].user
    [] OTHER -> None

Receive(r) ==
  /\ pc[r] = "idle"
  /\ \E c \in Calls :
       /\ call' = [call EXCEPT ![r] = c]
       /\ late' = IF c.op \in {"login", "refresh"} /\ Subject(c) \in User \ active
                    THEN late \cup {r} ELSE late
  /\ Goto(r, "find")
  /\ UNCHANGED <<database, clients, reply, target, new, link, kills, checked>>

(* The checks of a request that go well: it now works for user u.          *)
Found(r, u, label) ==
  /\ target' = [target EXCEPT ![r] = u]
  /\ checked' = [checked EXCEPT ![r] = kills[u]]
  /\ Goto(r, label)
  /\ UNCHANGED reply

(* login: the account must be active and the password right.               *)
LoginFind(r) ==
  LET u == call[r].user
  IN  /\ At(r, "find", "login")
      /\ IF u \in active /\ password[u] = call[r].password
           THEN Found(r, u, "insert")
           ELSE Answer(r, 401) /\ UNCHANGED <<target, checked>>
      /\ UNCHANGED <<database, clients, call, new, link, kills, late>>

(* refresh: the row of the token.  A revoked one is taken as stolen.       *)
RefreshFind(r) ==
  LET t == call[r].token
  IN  /\ At(r, "find", "refresh")
      /\ IF t = None
           THEN Answer(r, 401) /\ UNCHANGED <<target, checked>>
         ELSE IF tokens[t].revoked
           THEN Found(r, tokens[t].user, "kill")
         ELSE IF t \in expired
           THEN Answer(r, 401) /\ UNCHANGED <<target, checked>>
         ELSE Found(r, tokens[t].user, "user")
      /\ UNCHANGED <<database, clients, call, new, link, kills, late>>

(* Mutant of RefreshUser: the account is not looked at.                    *)
RefreshUserAny(r) ==
  /\ pc[r] = "user"
  /\ Goto(r, "insert")
  /\ UNCHANGED <<database, clients, reply, locals, history>>

(* refresh: the account of the token must be active.                       *)
RefreshUser(r) ==
  /\ pc[r] = "user"
  /\ IF target[r] \in active
       THEN Goto(r, "insert") /\ UNCHANGED reply
       ELSE Answer(r, 401)
  /\ UNCHANGED <<database, clients, locals, history>>

(* issueTokenPair: a fresh row.                                            *)
FreshRow(r) ==
  [user |-> target[r], revoked |-> FALSE, replacedBy |-> None,
   from |-> IF call[r].op = "refresh" THEN call[r].token ELSE None,
   born |-> kills[target[r]], checked |-> checked[r]]

(* Mutants of Insert: the response sent while the old row is still live,   *)
(* and the revoked rows of the user swept away on the way.                 *)
InsertThenRespond(r) ==
  /\ pc[r] = "insert"
  /\ \E n \in Token \ Issued :
       /\ new' = [new EXCEPT ![r] = n]
       /\ tokens' = [tokens EXCEPT ![n] = FreshRow(r)]
  /\ Goto(r, "respond")
  /\ UNCHANGED <<expired, active, password, resetLink, clients, reply, call, target, link, history>>

InsertAndSweep(r) ==
  /\ pc[r] = "insert"
  /\ \E n \in Token \ Issued :
       /\ new' = [new EXCEPT ![r] = n]
       /\ tokens' = [t \in Token |->
            IF t = n THEN FreshRow(r)
            ELSE IF t \in TokensOf(target[r]) /\ tokens[t].revoked THEN None ELSE tokens[t]]
  /\ Goto(r, IF call[r].op = "refresh" THEN "retire" ELSE "respond")
  /\ UNCHANGED <<expired, active, password, resetLink, clients, reply, call, target, link, history>>

Insert(r) ==
  /\ pc[r] = "insert"
  /\ \E n \in Token \ Issued :
       /\ new' = [new EXCEPT ![r] = n]
       /\ tokens' = [tokens EXCEPT ![n] = FreshRow(r)]
  /\ Goto(r, IF call[r].op = "refresh" THEN "retire" ELSE "respond")
  /\ UNCHANGED <<expired, active, password, resetLink, clients, reply, call, target, link, history>>

(* Mutant of Retire: the link written, the flag forgotten.                 *)
RetireOnlyLinks(r) ==
  /\ pc[r] = "retire"
  /\ tokens' = [tokens EXCEPT
       ![call[r].token].replacedBy = IF call[r].op = "refresh" THEN new[r] ELSE @]
  /\ Goto(r, "respond")
  /\ UNCHANGED <<expired, active, password, resetLink, clients, reply, locals, history>>

(* refreshTokenRepository.revoke: UPDATE by id, whatever the row now says. *)
(* logout passes no replacedBy, which leaves that column as it is.         *)
Retire(r) ==
  /\ pc[r] = "retire"
  /\ tokens' = [tokens EXCEPT
       ![call[r].token].revoked = TRUE,
       ![call[r].token].replacedBy = IF call[r].op = "refresh" THEN new[r] ELSE @]
  /\ Goto(r, "respond")
  /\ UNCHANGED <<expired, active, password, resetLink, clients, reply, locals, history>>

LogoutFind(r) ==
  LET t == call[r].token
  IN  /\ At(r, "find", "logout")
      /\ IF t # None /\ ~tokens[t].revoked
           THEN Goto(r, "retire") /\ UNCHANGED reply
           ELSE Answer(r, 200)
      /\ UNCHANGED <<database, clients, locals, history>>

(* forgotPassword: a fresh reset token replaces the one the account had,   *)
(* mailed or not, and is then mailed.                                      *)
ForgotSet(r) ==
  /\ At(r, "find", "forgot")
  /\ \E l \in Link \ (mailed \cup {link[q] : q \in Request}) :
       /\ resetLink' = [resetLink EXCEPT ![call[r].user] = l]
       /\ link' = [link EXCEPT ![r] = l]
  /\ Goto(r, "mail")
  /\ UNCHANGED <<tokens, expired, active, password, clients, reply, call, target, new, history>>

ForgotMail(r) ==
  /\ pc[r] = "mail"
  /\ mailed' = mailed \cup {link[r]}
  /\ Answer(r, 200)
  /\ UNCHANGED <<database, delivered, locals, history>>

(* resetPassword: the user with this unexpired reset token.                *)
ResetFind(r) ==
  /\ At(r, "find", "reset")
  /\ \/ /\ \A u \in User : resetLink[u] # call[r].link
        /\ Answer(r, 400)
        /\ UNCHANGED <<target, checked>>
     \/ \E u \in User : resetLink[u] = call[r].link /\ Found(r, u, "password")
  /\ UNCHANGED <<database, clients, call, new, link, kills, late>>

(* userRepository.updatePassword also clears the reset token.              *)
ResetPassword(r) ==
  /\ pc[r] = "password"
  /\ password' = [password EXCEPT ![target[r]] = call[r].password]
  /\ resetLink' = [resetLink EXCEPT ![target[r]] = None]
  /\ Goto(r, "kill")
  /\ UNCHANGED <<tokens, expired, active, clients, reply, locals, history>>

(* revokeAllForUser: one UPDATE over every live row of the user.  refresh  *)
(* comes here on reuse and then throws; resetPassword goes on.             *)
RevokeAll(u) == [t \in Token |-> IF t \in TokensOf(u) THEN [tokens[t] EXCEPT !.revoked = TRUE]
                                                      ELSE tokens[t]]

(* Mutant of Kill: only the row of the presented token.                    *)
KillPresented(r) ==
  /\ pc[r] = "kill"
  /\ tokens' = IF call[r].op = "refresh" THEN [tokens EXCEPT ![call[r].token].revoked = TRUE]
                                          ELSE RevokeAll(target[r])
  /\ kills' = [kills EXCEPT ![target[r]] = @ + 1]
  /\ IF call[r].op = "refresh"
       THEN Answer(r, 401)
       ELSE Goto(r, "respond") /\ UNCHANGED reply
  /\ UNCHANGED <<expired, active, password, resetLink, clients, locals, checked, late>>

Kill(r) ==
  /\ pc[r] = "kill"
  /\ tokens' = RevokeAll(target[r])
  /\ kills' = [kills EXCEPT ![target[r]] = @ + 1]
  /\ IF call[r].op = "refresh"
       THEN Answer(r, 401)
       ELSE Goto(r, "respond") /\ UNCHANGED reply
  /\ UNCHANGED <<expired, active, password, resetLink, clients, locals, checked, late>>

(* Mutant of Respond: the cookie set whatever there is to set it to.       *)
RespondAlways(r) ==
  /\ pc[r] = "respond"
  /\ Answer(r, 200)
  /\ delivered' = delivered \cup {new[r]}
  /\ UNCHANGED <<database, mailed, locals, history>>

(* The audit entry, where there is one, and the response with the cookie.  *)
Respond(r) ==
  /\ pc[r] = "respond"
  /\ Answer(r, 200)
  /\ delivered' = delivered \cup ({new[r]} \ {None})
  /\ UNCHANGED <<database, mailed, locals, history>>

(* A database call rejects, or the process dies: no later step happens.    *)
Fail(r) ==
  /\ pc[r] \notin {"idle", "done"}
  /\ Answer(r, 500)
  /\ UNCHANGED <<database, clients, locals, history>>

(* employeeService.remove switches the account off and revokes nothing.    *)
Deactivate(u) ==
  /\ u \in active
  /\ active' = active \ {u}
  /\ UNCHANGED <<tokens, expired, password, resetLink, clients, pc, reply, locals, history>>

Expire(t) ==
  /\ t \in Issued \ expired
  /\ expired' = expired \cup {t}
  /\ UNCHANGED <<tokens, active, password, resetLink, clients, pc, reply, locals, history>>

ExpireLink(u) ==
  /\ resetLink[u] # None
  /\ resetLink' = [resetLink EXCEPT ![u] = None]
  /\ UNCHANGED <<tokens, expired, active, password, clients, pc, reply, locals, history>>

RequestStep(r) ==
  \/ Receive(r)
  \/ LoginFind(r) \/ RefreshFind(r) \/ LogoutFind(r) \/ ForgotSet(r) \/ ForgotMail(r) \/ ResetFind(r)
  \/ RefreshUser(r) \/ Insert(r) \/ Retire(r)
  \/ ResetPassword(r) \/ Kill(r)
  \/ Respond(r) \/ Fail(r)

Next ==
  \/ \E r \in Request : RequestStep(r)
  \/ \E u \in User : Deactivate(u) \/ ExpireLink(u)
  \/ \E t \in Token : Expire(t)

Spec == Init /\ [][Next]_vars

-----------------------------------------------------------------------------

Labels == {"idle", "find", "user", "insert", "retire", "mail", "password", "kill", "respond", "done"}
Replies == {0, 200, 400, 401, 500}

(* The locals a request holds are those its next step uses: the row of the *)
(* presented token, the user it belongs to, the row inserted for it.       *)
Presents(r) == call[r].op \in {"refresh", "logout"} /\ call[r].token # None
Rotates(r) == call[r].op = "refresh" /\ call[r].token # None /\ target[r] = tokens[call[r].token].user
LogsIn(r) == call[r].op = "login" /\ target[r] = call[r].user
HasNew(r) == new[r] \in Issued /\ tokens[new[r]].user = target[r]

LocalsFit(r) ==
  /\ call[r] = NoCall <=> pc[r] = "idle"
  /\ reply[r] = 0 <=> pc[r] # "done"
  /\ pc[r] \notin {"retire", "respond", "done"} => new[r] = None
  /\ pc[r] = "user" => Rotates(r)
  /\ pc[r] = "insert" => Rotates(r) \/ LogsIn(r)
  /\ pc[r] = "retire" =>
       \/ Rotates(r) /\ HasNew(r) /\ tokens[new[r]].from = call[r].token
       \/ call[r].op = "logout" /\ call[r].token # None /\ new[r] = None
  /\ pc[r] = "mail" => call[r].op = "forgot" /\ link[r] # None
  /\ pc[r] = "password" => call[r].op = "reset" /\ target[r] \in User
  /\ pc[r] = "kill" => call[r].op \in {"refresh", "reset"} /\ target[r] \in User
  /\ pc[r] = "respond" =>
       \/ call[r].op \in {"logout", "reset"} /\ new[r] = None
       \/ (Rotates(r) \/ LogsIn(r)) /\ HasNew(r)
  /\ (pc[r] = "respond" /\ Presents(r)) => tokens[call[r].token].revoked

(* Every variable has the values the code can give it, clients hold only   *)
(* tokens that have a row, and the locals of a request fit where it is.    *)
TypeOK ==
  /\ tokens \in [Token -> TokenRow \cup {None}]
  /\ expired \subseteq Issued
  /\ delivered \subseteq Issued
  /\ active \subseteq User
  /\ password \in [User -> Password]
  /\ resetLink \in [User -> Link \cup {None}]
  /\ mailed \subseteq Link
  /\ pc \in [Request -> Labels]
  /\ DOMAIN call = Request /\ \A r \in Request : call[r] \in Calls \cup {NoCall}
  /\ target \in [Request -> User \cup {None}]
  /\ new \in [Request -> Token \cup {None}]
  /\ link \in [Request -> Link \cup {None}]
  /\ reply \in [Request -> Replies]
  /\ kills \in [User -> Nat]
  /\ checked \in [Request -> Nat]
  /\ late \subseteq Request
  /\ \A r \in Request : LocalsFit(r)

(* The rotation chain: a row that names its replacement is revoked, and    *)
(* the replacement is a row of the same user that was rotated from it.     *)
(* Racing refreshes of one token, a failure between the two writes or a    *)
(* logout in between must not leave a link to nothing or to a stranger.    *)
ReplacementIsReal ==
  \A t \in Issued :
    LET n == tokens[t].replacedBy
    IN  n # None =>
          /\ tokens[t].revoked
          /\ n \in Issued
          /\ tokens[n].user = tokens[t].user
          /\ tokens[n].from = t

(* Theft detection and reset spare no row: a live token was inserted after *)
(* the last time everything of its user was revoked.                       *)
EveryKillIsComplete ==
  \A t \in Token : Live(t) => tokens[t].born = kills[tokens[t].user]

(* What a client was told is durable: after a refresh or a logout answered *)
(* 200 the presented token is dead, and what a refresh or a login answered *)
(* with is a row of the same user.                                         *)
AnsweredMeansRetired ==
  \A r \in Request :
    reply[r] = 200 =>
      /\ call[r].op \in {"refresh", "logout"} /\ call[r].token # None
           => tokens[call[r].token].revoked
      /\ call[r].op \in {"login", "refresh"}
           => new[r] \in delivered /\ tokens[new[r]].user = Subject(call[r])

(* A removed employee gets no new session: no login or refresh that        *)
(* arrives after the removal is answered with tokens.                      *)
DeactivationSticks == \A r \in late : reply[r] # 200 /\ new[r] = None

(* Why: such a request never gets past its checks, and an account is not   *)
(* switched on again.                                                      *)
LateInv ==
  \A r \in late :
    /\ call[r].op \in {"login", "refresh"}
    /\ Subject(call[r]) \in User \ active
    /\ pc[r] \in {"find", "user", "kill", "done"}
    /\ reply[r] # 200 /\ new[r] = None

(* Rows only age: a token is never deleted, never given to another user,   *)
(* and never comes back once revoked, whichever writes race.               *)
RowsOnlyAge ==
  [][\A t \in Issued :
       /\ tokens'[t] # None
       /\ tokens'[t].user = tokens[t].user
       /\ tokens[t].revoked => tokens'[t].revoked]_vars

(* The documents' promise of theft detection, that presenting a revoked    *)
(* token revokes every token in the user's chain, "forcing a full re-login *)
(* everywhere".  A chain is what refreshes made of a login.  While nobody  *)
(* has reset a password every kill is a theft alarm, so no live token may  *)
(* come from a refresh that made its checks before the last kill.          *)
ForcesFullRelogin ==
  (\A r \in Request : call[r].op # "reset") =>
    \A t \in Token : Live(t) /\ tokens[t].from # None => tokens[t].checked = kills[tokens[t].user]
=============================================================================
