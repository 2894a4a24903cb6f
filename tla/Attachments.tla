---------------------------- MODULE Attachments ----------------------------
(***************************************************************************)
(* fileService (services/file.service.ts) and the upload middleware: the   *)
(* files table and the upload directory, which no transaction covers both  *)
(* of.  multer stores the file before anybody has looked at the task; the  *)
(* checks, the row and the unlink come after it, one await at a time.      *)
(*                                                                         *)
(* A File stands for one uploaded file: the id of its row and its stored   *)
(* name, both fresh UUIDs.  A Request is used once.                        *)
(***************************************************************************)
EXTENDS Naturals, FiniteSets

CONSTANTS
  Task,       \* tasks
  Employee,   \* employees, each with its account
  Admin,      \* administrators
  File,       \* files that can be uploaded
  Request,    \* HTTP requests, each made once
  None        \* a row that is not there

VARIABLES
  assignedTo, \* the tasks table: the assignee of each task, or None
  rows,       \* the files table: file -> row, or None
  disk,       \* stored names in the upload directory
  pc,         \* where each request is
  call,       \* what each request asks for
  task,       \* the task it looks up
  reply,      \* how it was answered: 2xx, 4xx or 500
  kept        \* history: requests whose unlink failed

vars == <<assignedTo, rows, disk, pc, call, task, reply, kept>>

ASSUME NoneAssumption == None \notin Employee /\ None \notin Task
ASSUME ActorAssumption == Admin \cap Employee = {}

Actor == Admin \cup Employee

FileRow == [task: Task, by: Actor]

ASSUME RowAssumption == None \notin FileRow

Calls == [op: {"upload"}, actor: Actor, task: Task, file: File]
           \cup [op: {"download", "remove"}, actor: Actor, file: File]

NoCall == [op |-> "none"]

Uploaded == {call[r].file : r \in {q \in Request : call[q].op = "upload"}}

Init ==
  /\ assignedTo \in [Task -> Employee]
  /\ rows = [f \in File |-> None]
  /\ disk = {}
  /\ pc = [r \in Request |-> "idle"]
  /\ call = [r \in Request |-> NoCall]
  /\ task = [r \in Request |-> None]
  /\ reply = [r \in Request |-> "none"]
  /\ kept = {}

Goto(r, label) == pc' = [pc EXCEPT ![r] = label]

Answer(r, kind) ==
  /\ Goto(r, "done")
  /\ reply' = [reply EXCEPT ![r] = kind]

tables == <<assignedTo, rows>>

-----------------------------------------------------------------------------
(* Requests.                                                               *)

(* uploadTaskAttachment: the file is on disk when the handler starts.      *)
Store(r) ==
  /\ pc[r] = "idle"
  /\ \E c \in Calls :
       /\ c.op = "upload" /\ c.file \notin Uploaded
       /\ call' = [call EXCEPT ![r] = c]
       /\ task' = [task EXCEPT ![r] = c.task]
       /\ disk' = disk \cup {c.file}
  /\ Goto(r, "access")
  /\ UNCHANGED <<tables, reply, kept>>

(* A download or a removal arrives; its id need not exist.                 *)
Receive(r) ==
  /\ pc[r] = "idle"
  /\ \E c \in Calls : c.op # "upload" /\ call' = [call EXCEPT ![r] = c]
  /\ Goto(r, "find")
  /\ UNCHANGED <<tables, disk, task, reply, kept>>

(* assertCanAccessTask: the task exists and is the actor's to see.         *)
CanAccess(r) ==
  /\ assignedTo[task[r]] # None
  /\ call[r].actor \in Employee => assignedTo[task[r]] = call[r].actor

(* Mutant of Access: a refused upload answered without cleaning up.        *)
AccessNoCleanup(r) ==
  /\ pc[r] = "access"
  /\ IF CanAccess(r)
       THEN Goto(r, IF call[r].op = "upload" THEN "insert" ELSE "send") /\ UNCHANGED reply
       ELSE Answer(r, "refused")
  /\ UNCHANGED <<tables, disk, call, task, kept>>

(* A refused upload, or one whose check failed, is first cleaned up.       *)
Access(r) ==
  /\ pc[r] = "access"
  /\ CASE CanAccess(r) ->
            Goto(r, IF call[r].op = "upload" THEN "insert" ELSE "send") /\ UNCHANGED reply
       [] OTHER ->
            IF call[r].op = "upload" THEN Goto(r, "cleanup") /\ UNCHANGED reply
                                     ELSE Answer(r, "refused")
  /\ UNCHANGED <<tables, disk, call, task, kept>>

AccessFails(r) ==
  /\ pc[r] = "access"
  /\ call[r].op = "upload"
  /\ Goto(r, "cleanup")
  /\ UNCHANGED <<tables, disk, call, task, reply, kept>>

(* deleteFromDisk: an error of unlink is swallowed.                        *)
DeleteFromDisk(r) ==
  \/ disk' = disk \ {call[r].file} /\ UNCHANGED kept
  \/ kept' = kept \cup {r} /\ UNCHANGED disk

Cleanup(r) ==
  /\ pc[r] = "cleanup"
  /\ DeleteFromDisk(r)
  /\ Answer(r, "refused")
  /\ UNCHANGED <<tables, call, task>>

(* fileRepository.create; the foreign key wants the task still there.      *)
Insert(r) ==
  /\ pc[r] = "insert"
  /\ IF assignedTo[task[r]] # None
       THEN /\ rows' = [rows EXCEPT ![call[r].file] = [task |-> task[r], by |-> call[r].actor]]
            /\ Answer(r, "ok")
       ELSE Answer(r, "error") /\ UNCHANGED rows
  /\ UNCHANGED <<assignedTo, disk, call, task, kept>>

(* getForDownload and remove look the row up.                              *)
FindDownload(r) ==
  LET row == rows[call[r].file]
  IN  /\ pc[r] = "find" /\ call[r].op = "download"
      /\ IF row = None
           THEN Answer(r, "refused") /\ UNCHANGED task
           ELSE /\ task' = [task EXCEPT ![r] = row.task]
                /\ Goto(r, "access")
                /\ UNCHANGED reply
      /\ UNCHANGED <<tables, disk, call, kept>>

(* Administrators remove any file, others those they uploaded.             *)
FindRemove(r) ==
  LET row == rows[call[r].file]
  IN  /\ pc[r] = "find" /\ call[r].op = "remove"
      /\ IF row = None \/ (call[r].actor \notin Admin /\ row.by # call[r].actor)
           THEN Answer(r, "refused")
           ELSE Goto(r, "delete") /\ UNCHANGED reply
      /\ UNCHANGED <<tables, disk, call, task, kept>>

(* Mutants of Delete: the file first, and a delete that does not mind a    *)
(* missing row.                                                            *)
DeleteUnlinksFirst(r) ==
  /\ pc[r] = "delete"
  /\ disk' = disk \ {call[r].file}
  /\ Goto(r, "unlink")
  /\ UNCHANGED <<tables, call, task, reply, kept>>

DeleteAnyway(r) ==
  /\ pc[r] = "delete"
  /\ rows' = [rows EXCEPT ![call[r].file] = None]
  /\ Goto(r, "unlink")
  /\ UNCHANGED <<assignedTo, disk, call, task, reply, kept>>

(* fileRepository.delete: a row that is gone is P2025, answered 404.       *)
Delete(r) ==
  /\ pc[r] = "delete"
  /\ IF rows[call[r].file] = None
       THEN Answer(r, "refused") /\ UNCHANGED rows
       ELSE /\ rows' = [rows EXCEPT ![call[r].file] = None]
            /\ Goto(r, "unlink")
            /\ UNCHANGED reply
  /\ UNCHANGED <<assignedTo, disk, call, task, kept>>

Unlink(r) ==
  /\ pc[r] = "unlink"
  /\ DeleteFromDisk(r)
  /\ Answer(r, "ok")
  /\ UNCHANGED <<tables, call, task>>

(* res.download: a file that is not there goes to errorHandler.            *)
Send(r) ==
  /\ pc[r] = "send"
  /\ Answer(r, IF call[r].file \in disk THEN "ok" ELSE "error")
  /\ UNCHANGED <<tables, disk, call, task, kept>>

(* A database call rejects.                                                *)
Fail(r) ==
  /\ pc[r] \in {"find", "insert", "delete"} \/ (pc[r] = "access" /\ call[r].op = "download")
  /\ Answer(r, "error")
  /\ UNCHANGED <<tables, disk, call, task, kept>>

(* The process dies: every request in flight ends where it is.             *)
Crash ==
  LET cut == {r \in Request : pc[r] \notin {"idle", "done"}}
  IN  /\ cut # {}
      /\ pc' = [r \in Request |-> IF r \in cut THEN "done" ELSE pc[r]]
      /\ reply' = [r \in Request |-> IF r \in cut THEN "error" ELSE reply[r]]
      /\ UNCHANGED <<tables, disk, call, task, kept>>

-----------------------------------------------------------------------------
(* What taskService does meanwhile.                                        *)

Reassign(t, e) ==
  /\ assignedTo[t] \notin {None, e}
  /\ assignedTo' = [assignedTo EXCEPT ![t] = e]
  /\ UNCHANGED <<rows, disk, pc, call, task, reply, kept>>

(* taskService.remove: ON DELETE CASCADE takes the rows of its files.      *)
RemoveTask(t) ==
  /\ assignedTo[t] # None
  /\ assignedTo' = [assignedTo EXCEPT ![t] = None]
  /\ rows' = [f \in File |-> IF rows[f] # None /\ rows[f].task = t THEN None ELSE rows[f]]
  /\ UNCHANGED <<disk, pc, call, task, reply, kept>>

RequestStep(r) ==
  \/ Store(r) \/ Receive(r)
  \/ Access(r) \/ AccessFails(r) \/ Cleanup(r) \/ Insert(r)
  \/ FindDownload(r) \/ FindRemove(r) \/ Delete(r) \/ Unlink(r)
  \/ Send(r) \/ Fail(r)

Next ==
  \/ \E r \in Request : RequestStep(r)
  \/ Crash
  \/ \E t \in Task : RemoveTask(t) \/ \E e \in Employee : Reassign(t, e)

Spec == Init /\ [][Next]_vars

-----------------------------------------------------------------------------

(* A row is never there without its file: the row is inserted after the    *)
(* file is stored and deleted before it is unlinked, whatever fails or     *)
(* runs in between.                                                        *)
RowsHaveFiles == \A f \in File : rows[f] # None => f \in disk

(* A file without a row is on its way in or out, or something went wrong   *)
(* that the code gives up on: a failed unlink, a request that ended in an  *)
(* error, or a task that was deleted.  A refused upload leaves nothing.    *)
InTransit(f) ==
  \E r \in Request : call[r].op \in {"upload", "remove"} /\ call[r].file = f
                       /\ pc[r] \in {"access", "cleanup", "insert", "unlink"}

WentWrong(f) ==
  \E r \in Request :
    /\ call[r].op # "none" /\ call[r].file = f
    /\ \/ r \in kept
       \/ reply[r] = "error"
       \/ call[r].op = "upload" /\ assignedTo[call[r].task] = None

LeftoversExplained ==
  \A f \in disk : rows[f] = None => InTransit(f) \/ WentWrong(f)

(* A removal that was answered with success is final, and only one of      *)
(* several that race is.                                                   *)
Removes(r, f) == call[r].op = "remove" /\ call[r].file = f /\ reply[r] = "ok"

RemovalsAreFinal ==
  \A r \in Request : \A f \in File :
    Removes(r, f) =>
      /\ rows[f] = None
      /\ f \in disk => r \in kept
      /\ \A q \in Request \ {r} : ~Removes(q, f)

=============================================================================
