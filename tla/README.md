# E-Management: TLA+ models, checks and proofs

E-Management is a task manager for small organisations: an Express/Prisma API
over PostgreSQL, Redis and Kafka (`E-Management-Backend/`) and a React client
(`E-Management-Frontend/`).  Administrators create tasks and employees; employees
work on the tasks assigned to them; notifications, dashboards, attachments and
reports hang off the tasks.

This directory holds a model of each part of it whose difficulty is concurrency
or failure, the TLC configurations that check the models on small instances,
and TLAPS proofs of the core properties for every instance.  Paths below are
relative to `E-Management-Backend/src/` unless they say otherwise.

    tlc -workers 2 -config MCTaskService.cfg MCTaskService.tla
    tlapm TaskServiceProofs.tla

## 1. The system

| Part | State it keeps | Operations | Interacts through |
|---|---|---|---|
| Task service (`services/task.service.ts`) | `tasks`, `audit_logs` | create, update, remove (list, getById only read) | Kafka events and cache invalidation after the commit; both detached (`void`) |
| Authentication (`services/auth.service.ts`) | `refresh_tokens`; `users.isActive`, `passwordHash`, reset token | login, refresh, logout, forgot, reset | cookies; mails; `employeeService.remove` switches accounts off |
| Dashboards (`services/dashboard.service.ts`, `utils/cache.ts`) | Redis keys `dashboard:admin`, `dashboard:employee:<id>` | admin, employee, invalidate | reads what the task and employee services write |
| Notification pipeline (`kafka/`, `sockets/`, `emails/`) | Kafka logs and offsets, `notifications` | publish; consume into a row; announce; push; mail | topics `task.*` and `notification.created` |
| Due-soon job (`jobs/dueSoonReminder.job.ts`) | none of its own | hourly sweep | reads `notifications`, publishes to `task.assigned` |
| Attachments (`services/file.service.ts`, `middlewares/upload.middleware.ts`) | `files`, the upload directory | upload, list, download, remove | the task decides access; deleting it cascades to the rows |
| Accounts (`services/employee.service.ts`, register of `auth.service.ts`) | `users`, `employees`, `audit_logs` | register, create, update, remove | remove changes what the three services above see |
| Client session (frontend `services/refreshSession.ts`, `axios.ts`, `hooks/useAuthBootstrap.ts`) | the cookie jar; each page's access token | boot, refresh on 401, login, logout | the endpoints of authentication |
| The way to the handlers (`app.ts`, `routes/`, `middlewares/`, `docs/openapi.ts`) | counters of the rate limiters, in memory; access tokens, in the client | limit, CSRF, authenticate, authorize, validate; errors to answers | stands before every handler above |
| Server lifecycle (`server.ts`) | connections to PostgreSQL, Redis and Kafka; open connections of clients | start, shutdown on a signal | everything above lives in this process |
| Client screens (frontend `pages/`, `forms/`, `redux/api/`, `routes/`, `services/socket.ts`) | the cache of RTK Query, what the forms were filled from | open a page, send a mutation, a push arrives, log in and out | asks the endpoints; the socket of the notification pipeline |
| Reports (`services/report.service.ts`), seed script | none of their own | read rows and format them; fill an empty database | read the tables |

What is hard here is nearly always one of two things.  Every handler is a chain
of `await`s, and only the last writes of some are in a transaction, so what was
read and checked may be out of date when it is used.  And a handler touches two
stores no transaction covers (table and directory, table and Redis, table and
Kafka, cookie and table), any one of which may fail or outlive a crash.
`PROJECT.json` lists each place under `hazards`.

What makes the parts correct:

- tasks: the log, the table and the answers agree; edits of different fields
  both survive; the rules (lock, dates, assignee) hold for every edit whose task
  was not changed under it;
- sessions: token rows only age; the rotation chain is real; a revocation spares
  nothing that is there; removed employees get no new session;
- dashboards: stale only for a reason that can be named, and never for ever;
- notifications: nothing announced that is not stored, nothing twice or lost
  without a fault, nothing blocks the log;
- accounts: one per address, account and profile together, removals final, the
  log complete;
- client session: one page never trips theft detection by itself, a page that
  shows a session has one, the first spinner goes away;
- attachments: no row without its file, no file without a row unless something
  went wrong, removals final;
- the way to the handlers: no answer but those a client is told of, no more logins
  than the limiter's budget, removed employees shut out in the end;
- lifecycle: the database goes last, and a process that was asked to stop does;
- screens: what is shown catches up with what this tab wrote and what was pushed,
  edit forms start from current values, no page asks for what its user may not.

## 2. Modules

| Module | Models | Checked by |
|---|---|---|
| `TaskService` | task service with its audit log, announcements and invalidations; `employeeService.remove` as the environment | `tasks`, `tasks_lock` |
| `TaskRegister` | what the task service promises: the table under atomic requests | `tasks` (as what `TaskService` implements) |
| `TaskServiceProofs` | theorems about `TaskService` and `Dashboard` | tlapm |
| `AuthSession` | login, refresh, logout, forgot, reset | `auth`, `auth_relogin` |
| `AuthSessionProofs` | theorems about `AuthSession` and `ClientSession` | tlapm |
| `ClientSession` (extends `AuthSession`) | the pages of one browser, their shared cookie jar, and the network between them and `AuthSession` | `client` |
| `Accounts` | registration, employee create, update and remove | `accounts` |
| `AccountsProofs` | theorems about `Accounts` | tlapm |
| `Dashboard` (extends `TaskService`) | cache-aside readers composed with the task service that invalidates them | `dashboard` |
| `Notifications` | producer, the three consumer groups, the sweep, crashes | `notifications` |
| `NotificationsProofs` | theorems about `Notifications` | tlapm |
| `Attachments` | files table, upload directory, requests, crashes | `attachments` |
| `AttachmentsProofs` | theorems about `Attachments` | tlapm |
| `Api` | the routes: their guards, what their handlers come to, the status of each outcome, the answers that are documented | through `Gateway` and `Screens` |
| `Gateway` (extends `Api`) | requests on their way to a handler: limiters, tokens, accounts, restarts | `gateway` |
| `GatewayProofs` | theorems about `Gateway` and the tables of `Api` | tlapm |
| `Server` | one API process from start to exit | `server` |
| `ServerProofs` | theorems about `Server` | tlapm |
| `Screens` (extends `Api`) | the pages of the client over their cache | `screens` |
| `ScreensProofs` | theorems about `Screens` | tlapm |
| `MC...` | the instances for TLC: constants, symmetry | |

The services (the first of these, up to `Attachments`) describe a handler the same way.  `pc[r]` is the await request `r`
is at, one action runs from one await to the next, `call[r]` is what it asks
for, `reply[r]` the class of its answer, and the remaining locals are the values
the code carries across an await (`seen` is the task row an update read, `target`
and `new` the user and the token of a refresh, `task` the task of an attachment).
A transaction is one action.  Requests are used once, and any number of them may
be in flight.

**TaskService.**  `ReadForUpdate` is task.service.ts 115-142, with `Refusal` the
chain of checks in the order of the code; `CheckAssignee` the lookup at 147;
`WriteUpdate` the transaction at 153, which merges the named fields into the row
as it is *now* (`Merge`, `Updated`), because Prisma updates by id; `WriteMissing`
its P2025 when the row is gone, answered 404; `Effects` what is published and
invalidated after the commit.  The body of a request is a record over `Field`
with `Undefined` for what it leaves out.  Titles, descriptions and priorities are
never looked at and are left out.

**TaskRegister.**  The table as a client may think of it: a request takes effect
at most once, in one step; an id is given out once; an edit changes the fields it
names in the row as it is at that moment.  The rules are not in it, because edits
that raced do not keep them (section 6).  `ImplementsRegister` in `TaskService` is
the refinement: the rows are the rows, an id is used when the audit log has
something of it, a request has taken effect when it is past its transaction.  Every
read, refusal, announcement and invalidation is a stutter.

**AuthSession.**  `Find` actions are the first lookups, `Insert` and `Retire` are
the two statements of a rotation, `Kill` is `revokeAllForUser`, `ForgotSet` and
`ForgotMail` the two of forgotPassword.  `Fail` ends a request between any two of
them with what it wrote left behind, which is what both a rejected query and a
crash do: none of these handlers opens a transaction.  Tokens are model values,
known by the hash; the lifetime chosen by "remember me" is abstracted into
`Expire`, which may happen at any time.  `kills`, `checked`, `late` and the
fields `from`, `born`, `checked` of a row are history and no guard reads them.

**ClientSession.**  A `Page` is one load of the application: `view` is what
`authSlice.ts` makes it show, `flight` the promise `refreshSession.ts` shares
within a page, `jar` the refresh cookie of the browser.  `Boot`, `Unauthorized`,
`Login` and `Logout` send a request with the cookie of that moment; the steps of
`AuthSession` serve it; `Arrive` brings cookie and answer to the browser and
`Lose` an error instead, in any order.  What a caller does then is `Handle`.  The
CSRF cookie is set and cleared together with the refresh cookie and left out.
The account itself is left alone here: expiry, deactivation and resets are
interleaved in `auth`.

**Accounts.**  A user and the employee created with it share an identity.
`Lookup` and `Find` are the reads before a transaction, `Insert`, `WriteUpdate`
and `WriteRemove` the transactions, `Refuse` the unique index on the address,
`Done` the crash between commit and answer.  Names follow the address without its
checks and are left out.

**Dashboard.**  The figures are the rows they are computed from; a reader makes
its queries one at a time (they run in a `Promise.all`), then writes Redis
detached.  Every action of `TaskService` is an action here, conjoined with what
it does to the cache.  `DashAddEmployee` (employeeService.create, or register) and
`DashRemoveEmployee` change the administrator's totals and delete no key; someone
added is one more in the count (`hired`), and gets tasks no otherwise than those of
`Employee`.  `excused` is history, the keys whose staleness has a reason; a key that
is neither cached nor being fetched needs none.  Left out of the figures are the
overdue count, which the clock changes, and the administrator's recent activity, which
every audit entry changes (a login, a profile edit): only the TTL refreshes them.

**Notifications.**  A queue is a partition; `pos` is where a group reads,
`committed` where it restarts; kafkajs and the broker are external and are
modelled from how the code uses them (no keys, autocommit, `fromBeginning:
false`).  `Send` is a publish that works, is lost after the client's retries, or
arrives twice.  `InsertFails` catches and goes on, as the handler does.

**Attachments.**  `Store` is multer, which has the file on disk before the
handler starts; `Access`, `Insert`, `Cleanup` the upload; `FindRemove`, `Delete`,
`Unlink` the removal; `RemoveTask` the cascade.  The listing only reads; the type
and size filters reject before anything is kept.

**Api.**  Constant tables, one per file of `routes/`, of `controllers/` with the
services they call, and per section of `docs/openapi.ts`.  `Guards` is the
middleware of each route in the order it is mounted, `Outcomes` every way its
handler can end (depending on the role and on whether the caller still has a
profile), `StatusOf` what `errorHandler` makes of it, `Documented` the answers of
the document.  `Unannounced` names the answers a client gets although the document
does not mention them, so that a new one shows.  Bodies are valid or not; schemas
are left out.

**Gateway.**  `Arrive` takes a request through `Checks` (body parser, general and
own limiter, CSRF, token, role, schema) and stops at the first that fails;
`Handle` lets the handler come to one of its outcomes; `Issue` is the second half
of login and refresh, which hand out a token after they have asked for the
account.  `NewWindow`, `Expire`, `RemoveEmployee` and `Restart` are the
environment.  All requests come from one address, the administrator is not
tracked; `reached` is history.

**Server.**  `Boot`, `Connect`, `StartClient`, `Listen` are start(); a Kafka client
that fails only ends startKafka and leaves `kafkaReady` unset.  `Kill(s)` is a
signal, and each signal has a shutdown of its own: `Closed` is the callback of
server.close, then `StopConsumers`, `DisconnectProducer`, `DisconnectPrisma` and
`Exit`, one per await.  `Open` and `Close` are requests and websockets, `Consume`
the notification consumer going into and out of a message.  The checks of the
environment come before start(), and the hourly job, which nothing stops, is left
to `Notifications`.

**Screens.**  `Queries` and `Mutations` are `redux/api/` (route, tags, what they
follow or change), the `View`s are the page components (what they ask, what they
can send), `Landing` is the two route guards.  RTK Query is external and modelled
from how the client uses it: `Settle` delays invalidations until nothing is pending
(`Pending`), `Refetched` asks again for what is shown and drops the rest, `Expire`
is the minute an unused entry is kept.  An entry is known by what it lacks, `"own"`
(a write of this tab) or `"row"` (a notification stored since).  Left out: search,
sorting, paging, charts, the notice that completed tasks cannot be edited.  One
mutation of each kind at a time is a bound: most buttons are disabled while theirs is
under way, "Mark read" is not, and a page that is left and opened again forgets.

## 3. Checks

Bounds are in the `.cfg` files; every constant is finite and no bound cuts off a
behaviour other than the counters named below.

| Run | Instance | What it shows |
|---|---|---|
| `tasks` | one task, two employees, one administrator, three requests, three dates | Three requests are a read-write pair with a write in between, or create, remove and a late edit. `AuditTellsTheLife`, `RepliesAreTrue`, `CompletionIsRecorded`, `BornCompletedIsFrozen`, `FieldsNotNamedSurvive`, `UnracedEditsKeepTheRules` hold, and `ImplementsRegister`. |
| `tasks_lock` | the same | `LockedOnceCompleted` fails (section 6). |
| `auth` | one user, three tokens, two links, two passwords, four requests | Four requests are a login, two refreshes of its token and a logout, reset or deactivation between them; a third token lets a rotated token be rotated again. `ReplacementIsReal`, `EveryKillIsComplete`, `AnsweredMeansRetired`, `DeactivationSticks`, `RowsOnlyAge` hold. Users share nothing but the tables, and the proofs cover any number of them. |
| `auth_relogin` | one user, three tokens, four requests | `ForcesFullRelogin` fails by a theft alarm.  The four requests are a login, a refresh that has read its token and account, a logout that revokes that token, and a refresh that presents it again; the first refresh then inserts a live token. |
| `client` | one user, two pages, one request that logged in earlier and three fresh ones, two new tokens | Three requests are two refreshes and a login or logout among two pages, or a refresh whose answer is lost and what follows. `AlarmsHaveACause` names every way to trip theft detection of a user (a token of that user presented by two pages, or by a logout, or first without an answer); `SessionsAreBacked`; `EventuallyInitialised`. The instance starts after the earlier login, its page closed, so that a cookie is there. |
| `accounts` | one administrator, three employees, four addresses, two profiles, three requests | Three requests are two creations racing for an address and an edit to it, or a creation, a removal and an edit before or after it. `OneAccountPerAddress`, `LoginsMatchProfiles`, `RemovedAreGone`, `TablesReplayTheLog`, `AnswersAreTrue` hold. |
| `dashboard` | two tasks, two employees and one more added (`MaxHired`), two requests after the one that created the first task, one reader, failing Redis | `StaleOnlyByRace` names every way to a stale key, for the figures modelled; `EventuallyFresh`: the TTL heals all of them. The instance starts in the reachable state after that first request, to spend the bound on races. |
| `notifications` | one event, one sweep, two partitions of `task.*`, one of `notification.created`, `MaxCrashes` 1, `MaxFaults` 1 | The event and the reminder race on two partitions; one crash and one failed or repeated call can hit anywhere. `PersistedFirst`, `DuplicatesNeedFaults`, `PassedMeansStored`, `EventuallyDrained` hold. |
| `attachments` | one task, two employees, one administrator, two files, three requests | An upload, and two removals, downloads or task deletions racing over it, with failing unlinks and crashes. `RowsHaveFiles`, `LeftoversExplained`, `RemovalsAreFinal` hold. |
| `gateway` | one employee, one request at a time, limits 3 (all routes), 2 (auth), 2 (login), two starts | The one request is in flight while windows end, the token expires, the employee is removed or the process restarts; the general limit is above the login limit, so that either can be the first to refuse. Requests share only the counters, which one after the other exhausts as well as two at a time. `AnswersAreExpected` for every route, caller and body; `BudgetHolds`; `RemovedAreShutOut`. |
| `server` | two requests, one websocket, both signals, two starts | Both signals in either order and at any point of a start or a shutdown, with every connection failing or not. `NothingLeftBehind`, `StopsWhenAsked`. |
| `screens` | the employee list and its edit form (and the dashboard, where every session begins), two mutations at a time, three cached entries, one failed fetch | The smallest tour with a list, a form over an entry another page can have kept, a deletion and the bell on every page. `ScreensCatchUp`, `FormsAreCurrent`, `AsksWhatItMay`. What is special about the other pages are their tables; `ScreensProofs` has what these have in common (`TagsReach`, `PagesArePermitted`) and the properties for any tour. |

Deadlock checking is off in all of them: the system rests once every request has
been made, every event published and every sweep run.

`MaxCrashes` and `MaxFaults` bound counters that the code does not have; the
invariants that mention them (`DuplicatesNeedFaults`) are stated in terms of how
many happened, so one of each shows the pattern.  `MaxHired` bounds the employees
added in the run; one makes every figure of before wrong, and `StaleForAReason` is
proved for any number.  `MaxStarts` bounds restarts;
`BudgetHolds` is stated per start and proved for any number.  `MaxWriting`,
`MaxCached` and `MaxFailed` bound what a user can have piled up in a tab, and cut
off only longer pile-ups.

**Mutants.**  Each property is paired in `PROJECT.json` with a plausible bug of
the modelled code, an operator beside the definition it mutates
(`MergeAssigneeAlways`, `InsertThenRespond`, `DeleteUnlinksFirst`, ...), under
which TLC finds the property violated.

**Fairness.**  Five runs need it.  `client`: the server works on what it has
received (or fails), and every call of axios ends, with an answer or an error; no
page has to do anything.  `dashboard`: requests that have started and
readers that are fetching or filling go on (Node runs every continuation, the
stores answer or fail), and Redis expires what it was told to.  Nobody has to
start a request, or to add or remove an employee.  `notifications`: each consumer group goes on consuming; no
fairness on publishing, sweeping, committing or crashing, and crashes are finite
by their bound.  `gateway`: an access token expires, which it does by itself; no
request has to come or to be answered.  `server`: start and shutdown go on, requests
in flight are answered and a consumer finishes its message; that a shutdown goes on
includes that a step of it may reject, which ends the process (`StopsWhenAsked` is
about ending, `NothingLeftBehind` about how).  Nobody has to send a signal or to leave
a websocket, which is why `StopsWhenAsked` asks for that.

## 4. Proofs

`tlapm` checks what follows for every value of the constants.  What is assumed of
these is a named `ASSUME` of the module that declares them, which TLC evaluates in
every run:

- the sentinel values `None`, `Undefined`, `NoTask` are not among the sets they
  stand beside, administrators are not employees, dates are natural numbers, limits
  are positive;
- an event of a request is not one of a sweep (`EventAssumption`): each is published
  by one of the two.

The tables of `Api` and `Screens` are not assumed about.  They are joined by an operator
of `Api`, `++`, instead of `@@` of the module `TLC`, whose meaning the provers do not
know; the proofs begin by putting the parts of each table together.

Where an invariant of the proof is named, the property alone does not survive a step.

`TaskServiceProofs`
- `TypeCorrect`: `TypeOK`, which includes that each request holds the locals its
  next step uses.  Inductive as stated; one lemma per action.
- `AuditIsALife`: `AuditTellsTheLife`.  Inductive together with `TypeOK`.  Lemmas
  about appending to a log carry the three shapes: the first entry, an update of
  a living task, a delete.
- `BornCompletedStaysFrozen`: `BornCompletedIsFrozen`.  Not inductive; `FrozenInv`
  adds that a log entry belongs to a request that has committed, that a living
  task born completed is still completed, and that no update past its checks
  works on one.
- `UnracedEditsAreGood`: the action property `UnracedEditsKeepTheRules`, from
  `ChecksInv`: a request that waits to write still passes its checks against the
  row it read.
- `ServiceIsARegister`: `ImplementsRegister`, from `TypeOK` and
  `AuditTellsTheLife`.  Steps that leave table and log alone change neither the used
  ids nor who has taken effect (`QuietSteps`); a transaction is the moment its
  request takes effect (`TakingEffect`); a row in the table has its id in the log
  (`RowsAreLogged`), so an edit or removal uses no new one, and only a creation does
  (`IdsInUse`).
- `StampsAreTrue`: `CompletionIsRecorded`, inductive together with `TypeOK` and the part
  of `FrozenInv` that says whose entry each one in the log is (`EntriesFit`).
- `UpdatesDoNotClobber`: the action property `FieldsNotNamedSurvive`, from what
  `Merge` and `Updated` do to each field; the row that was read does not enter it.
- `AnswersAreTrue`: `RepliesAreTrue`, by `RepliesInv`, which adds that the task a
  request is about to announce is the one it has logged.
- `DashboardsChangeNoTask`: every step of `Dashboard` is one of `TaskService` or none
  of its own, so all of the above holds there too.
- `StaleForAReason`: `StaleOnlyByRace`, for any number of employees added or removed
  (`StaffIsExcused`).  A key is filled with what a reader has in its hands, so `ReadsInv` says of every reader what the property says of the keys: what it
  has read so far is what the tables say, or the key is excused.  What the writers may
  change is known through `TypeOK` and `AuditTellsTheLife`.
- `CachedIsWhole`: a key is empty or has the results of both queries (`DashTypeOK`),
  with `ReadsInv` and `TypeOK`.

`AuthSessionProofs`
- `TypeCorrect`: `TypeOK`.
- `TokensOnlyAge`: the action property `RowsOnlyAge`.
- `ReplacementsAreReal`: `ReplacementIsReal`, inductive with `TypeOK`, whose
  `LocalsFit` says what `Retire` is about to write.
- `KillsAreComplete`: `EveryKillIsComplete`, inductive with `TypeOK`.
- `RemovedStayOut`: `DeactivationSticks`, by `LateInv`: a request that arrived for
  a switched-off account stays in the steps that precede an insert.
- `AnswersAreDurable`: `AnsweredMeansRetired`, inductive with `TypeOK`, because rows
  only age.
- `BrowsersChangeNoServer`: every step of `ClientSession` is one of `AuthSession` or
  none of its own.
- `NoPageAlarmsAlone` and `SessionsHaveTheirCookie`: `AlarmsHaveACause` and
  `SessionsAreBacked`, for any number of pages, users and requests, by `BrowserInv`.
  Its parts are: a page that is open waits for the refresh it sent (`OneFlight`), so of
  two with one token the earlier is over, and without an answer (`InTurn`); no token is
  issued twice (`NewsDiffer`), what the jar holds came with an answer (`CameOnce`), and
  what was spent is not in it again (`SpentIsGone`); a revoked token was presented, or
  its user's were all revoked (`RevokedBySomeone`), and an alarm is about a revoked
  token (`AlarmsAreReal`); without a logout a page with a session has a cookie
  (`CookieStays`).  One lemma per step of browser, network and server.

`AccountsProofs`
- `TypeCorrect`: `TypeOK`.
- `AddressesAreUnique`: `OneAccountPerAddress`, inductive with `TypeOK`.
- `LoginsGoWithProfiles`: `LoginsMatchProfiles`, inductive with `TypeOK`.
- `RemovedStayGone`: `RemovedAreGone`, by `GoneInv`: a late request is still to
  look for its employee or has been refused, and the employee stays removed.
- `AnswersTellTheTruth`: `AnswersAreTrue`, by `AnswersInv`: requests are answered at
  their end, and the address of every account but an administrator's was given to it by
  an entry of the log, which is what a conflict is about.
- `LogGivesTheTables`: `TablesReplayTheLog`.  `Rows` is a recursive function, row by row
  along the log.  What the prover cannot do is instantiate an induction theorem, so the
  induction is by hand: of the places where something fails there is a least one
  (`LeastNumber`, from the well-foundedness of the numbers).  That way the recursion is
  shown to define a function (`HistoriesExist`: there is no least length without one),
  and two histories of logs that begin alike agree that far (`HistoriesAgree`), so a
  step that appends an entry adds one row to the replay (`ReplayGrows`) and any other
  leaves it (`ReplayStays`).  What remains is one lemma per commit: the entry it appends
  applied to the row of its employee is the row it writes.

`AttachmentsProofs`
- `TypeCorrect`: type correctness, with what each request carries.
- `RowsKeepTheirFiles`, `RemovalsStay`, `LeftoversHaveCauses`: `RowsHaveFiles`,
  `RemovalsAreFinal`, `LeftoversExplained`.  `FilesInv` is an account of each file:
  it comes with one upload, which finds nothing of it; a row says whose upload made it,
  so its file is there; one removal deletes the row, and the row does not come back; and
  a removal that leaves the file behind is one whose unlink failed.

`NotificationsProofs`
- `TypeCorrect`: type correctness, with no group beyond the end of a log.
- `AnnouncedIsStored`: `PersistedFirst`.
- `PassedIsStored`: `PassedMeansStored`, by `WorkInv`: the row being announced is that
  of the message the consumer is at.
- `RepeatsHaveCauses`: `DuplicatesNeedFaults`, by counting.  An event is offered once
  (`OfferedOnce`), so it is in the logs at most once more than sends were repeated;
  each place in a log is handled at most once between two crashes; so the rows of an
  event are at most its places for each crash and one for each place already begun
  (`CopiesInv`), and one topic further the same holds of pushes and mails
  (`DeliveriesInv`).

`ServerProofs`
- `DatabaseGoesLast`: `NothingLeftBehind`, by `OrderInv`: in a process that was
  told to stop no earlier than it listened, whoever is past server.close has no open
  connection behind, whoever is past the consumers has none left, and the database
  is there until some shutdown has reached its last label.  The invariant is about
  every signal at once, because two shutdowns run side by side.
- `ConsumersHaveTheirProducer`: the connected clients are the first so many of
  `startKafka`, always (`ClientsInOrder`), by `ClientsInv`: while clients are still
  connecting there is no `kafkaReady`, so no shutdown disconnects any; and one that has
  stopped the consumers is the only way to disconnect the producer, for the second
  signal as for the first.

`GatewayProofs`
- `LoginsAreBudgeted`: `BudgetHolds`, by `BudgetInv`: the starts before this one
  have had at most their budget, and this one what its counter says.
- `AnswersAreAccountedFor`: `AnswersAreExpected`, route by route and answer by answer.
  First the tables: no two routers mount the same route, so each route keeps its guards,
  outcomes and documented answers (`EightTables`, `GuardsTable`, `OutcomesTable`,
  `DocumentedTable`).  Then each check and each outcome of each handler has a status
  that is documented, a named gap or a 500 with a cause (`ChecksAreAccountedFor`,
  `HandlersAreAccountedFor`).  Then `AnswersInv`: a request on its way was let through
  for its role, which is why a success of an administrator's route is an
  administrator's.
- `LockedOutForGood`: once the last token of a removed employee has expired, and no
  sign-in of theirs is past its check, nothing gets them another.  It is the part of
  `RemovedAreShutOut` that is not liveness; that such a moment comes is TLC's.

`ScreensProofs`
- `TagsReach`, `PagesArePermitted`, `PagesAreThere`, lemmas about the tables for every
  query, mutation, page and role: a mutation invalidates a tag of each query that follows
  what it changes (each fact has a tag of its own, `TagOf`); a page that is open to a
  role asks and sends nothing the guards refuse to it; forms lead to pages.
- `ScreensDoCatchUp`, `FormsAreFresh` and the action property `PagesAskWhatTheyMay`:
  `ScreensCatchUp`, `FormsAreCurrent`, `AsksWhatItMay`, by `ScreensInv`.  It says where
  the reason to ask again is, while something is lacking (`CatchesUp`): in the entry
  that is being fetched, in a tag that is due, in a mutation that was done and not
  answered, in a push that has not come; that tags are only due while something is
  under way (`Waits`); and that a form opened in quiet which still waits for its values
  waits for a fetch that lacks no write (`FormWaits`).  One lemma for each operation on
  the cache (opened, refetched, settled, lacking, excused), one for each action.

Every invariant and every action property of the passing runs is proved.  What is
left to TLC alone is liveness, which with fairness and `ENABLED` is out of this prover's
reach: `EventuallyFresh`, `EventuallyDrained`, `EventuallyInitialised`,
`RemovedAreShutOut` and `StopsWhenAsked`.  No module declares a `RECURSIVE` operator.

## 5. Not modelled, and the plan

Left out for good: wording of mails and messages, the schemas of the API
document, page layout and charts, logging, spreadsheet formatting, the seed script
(run by hand; see section 6).  The random and hashing utilities are library calls.

Left out so far: the rows of the reports and of a page of a list; search, sorting
and paging on either side; several addresses at the rate limiter; a second API
process.  Marking as read is in `Screens` as a write of the tab, without the rows.

Three things the models leave out of what they do have: `Server` lets nothing new
arrive once server.close was called, though a kept-alive connection may still carry a
request; `Notifications` delivers again after a crash, not after a rebalance of the
group without one; `StopsWhenAsked` and `NothingLeftBehind` say nothing of the consumers
of a start whose later client failed (`server.ts:28`).

What can go wrong and the code promises nothing about, so that no property is
stated (the steps marked * are in the models all the same):

- a new assignee removed between its check and the transaction gets the task
  (`services/task.service.ts:147`) *;
- a refresh that fails between its insert and its revocation leaves two live tokens of
  one chain (`services/auth.service.ts:122`) *;
- a reset that fails between the password and the revocation changes the one and leaves
  every session (`services/auth.service.ts:164`), and a login or refresh past its checks
  outlives the revocation *;
- a notification whose insert failed is passed and never stored
  (`kafka/consumer/notification.consumer.ts:41`) *;
- a reset link is replaced before its mail fails (`services/auth.service.ts:150`) *;
- a row whose announcement fails is stored and nobody is told
  (`kafka/consumer/notification.consumer.ts:33`) *;
- events from before a group's first commit are never read (`fromBeginning: false`,
  `kafka/consumer/notification.consumer.ts:16`);
- a websocket outlives the token and the account it was opened with
  (`sockets/index.ts:21`), and reconnects with the token of its first connection
  (frontend `services/socket.ts:9`) *;
- the hourly job is never stopped (`server.ts:43`);
- a page of tasks and its total are two queries (`repositories/task.repository.ts:70`),
  and a list that shrinks to one page shows no pager to a user beyond it (frontend
  `pages/tasks/TaskListPage.tsx:232`);
- no mutation refreshes the reports (frontend `redux/api/reportApi.ts:9`) *.

The plan:

1. `TaskService`, `AuthSession`, `Accounts` and their proofs; `ClientSession`,
   `Dashboard`, `Notifications`, `Attachments` (done).
2. `Api`, `Gateway`, `Server`, `Screens`; `TaskRegister` and its refinement; their
   first proofs (done).
3. Report rows, pagination and task filters as operators against reference
   definitions over bounded inputs.
4. The reminders of two sweeps.
5. Proofs of every safety property of the runs (done).  Left: abstract specifications,
   with their refinements, of the pipeline and of the attachments.

## 6. Where code and documents disagree

Two are runs that expect a violation, and findings in `PROJECT.json` with the
quoted line:

- A completed task is "locked" (`docs/openapi.ts:487`): an edit that read it open
  still changes it after it was completed, and may reopen it (`tasks_lock`).
- Theft detection revokes "every token in that user's chain", "forcing a full re-login
  everywhere" (`ARCHITECTURE.md:194-196`): a refresh of the same chain that is past its
  checks inserts a live token after the revocation (`auth_relogin`).

Three are steps of a model, and what the properties there say is what is left of
the promise:

- Dashboards are "never stale beyond an actual write" (`README.md:212-213`): a fill
  that read before a write puts the old figures back after the invalidation
  (`StaleOnlyByRace`, `EventuallyFresh`).
- "offset isn't committed until processing succeeds" (`PROJECT_PLAN.md:340`): the
  consumer catches the failure and moves on (`PassedMeansStored`).
- Deleting a task also unlinks its files (`PROJECT_PLAN.md:246`): nothing does
  (`LeftoversExplained`).

And three were met on the way:

- Redis is "the rate limiter's counter store" (`ARCHITECTURE.md:26`, `56`;
  `PROJECT_PLAN.md:139`): the limiters are created without a store and count in
  the memory of the process, which is why `BudgetHolds` is one budget per start.
- An employee "sees only own tasks" (`PROJECT_PLAN.md:414`): the client's cache
  outlives a logout, so for a minute the next account of the tab is shown what the
  previous one had fetched (the server refuses everything it should).
- The seed is "idempotent - safe to re-run" (`README.md:77`, `PROJECT_PLAN.md:419`):
  after a run that died among the tasks, the next one adds none of the others.
