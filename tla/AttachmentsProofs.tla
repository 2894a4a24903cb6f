-------------------------- MODULE AttachmentsProofs --------------------------
(***************************************************************************)
(* Theorems about Attachments, for any numbers of tasks, files, users and  *)
(* requests: a row has its file, a removal is final, and a file without a  *)
(* row is there for a reason, whatever fails, races or dies.               *)
(***************************************************************************)
EXTENDS Attachments, TLAPS

Labels == {"idle", "find", "access", "cleanup", "insert", "delete", "unlink", "send", "done"}

(* Where a request can be depends on what it asks for; it is answered when *)
(* it is done.                                                             *)
Fits(r) ==
  /\ pc[r] = "idle" <=> call[r] = NoCall
  /\ reply[r] = "none" <=> pc[r] # "done"
  /\ call[r].op = "upload" =>
       pc[r] \in {"access", "cleanup", "insert", "done"} /\ task[r] = call[r].task
  /\ call[r].op = "download" => pc[r] \in {"find", "access", "send", "done"}
  /\ call[r].op = "remove" => pc[r] \in {"find", "delete", "unlink", "done"}

TypeOK ==
  /\ assignedTo \in [Task -> Employee \cup {None}]
  /\ rows \in [File -> FileRow \cup {None}]
  /\ disk \subseteq File /\ kept \subseteq Request
  /\ pc \in [Request -> Labels]
  /\ call \in [Request -> Calls \cup {NoCall}]
  /\ task \in [Request -> Task \cup {None}]
  /\ reply \in [Request -> {"none", "ok", "refused", "error"}]
  /\ \A r \in Request : Fits(r)

(* The upload that brought a file; one whose row is still to come; a       *)
(* removal that has deleted the row.                                       *)
Uploads(r, f) == call[r].op = "upload" /\ call[r].file = f
Pending(r, f) == Uploads(r, f) /\ pc[r] # "done"
Takes(r, f) ==
  call[r].op = "remove" /\ call[r].file = f /\ (pc[r] = "unlink" \/ reply[r] = "ok")

(* What is so of a file: it comes with one upload, which finds nothing of  *)
(* it; a row says whose upload made it, and is deleted by one removal.     *)
Untouched(f) == rows[f] = None /\ \A q \in Request : ~Takes(q, f)

FileOK(f) ==
  /\ rows[f] # None =>
       f \in disk /\ \E r \in Request : Uploads(r, f) /\ call[r].task = rows[f].task
  /\ (\A r \in Request : ~Uploads(r, f)) => f \notin disk /\ Untouched(f)
  /\ \A r \in Request : Pending(r, f) => f \in disk /\ Untouched(f)
  /\ \A r, q \in Request : Uploads(r, f) /\ Uploads(q, f) => r = q
  /\ \A r \in Request : Takes(r, f) => rows[f] = None
  /\ \A r, q \in Request : Takes(r, f) /\ Takes(q, f) => r = q
  /\ \A r \in Request : Removes(r, f) /\ f \in disk => r \in kept

FilesInv == \A f \in File : FileOK(f)

-----------------------------------------------------------------------------
(* The operators the actions are built from.                               *)

(* The fields of a call.                                                   *)
LEMMA CallFields ==
  ASSUME NEW c \in Calls
  PROVE  /\ c.op \in {"upload", "download", "remove"} /\ c # NoCall
         /\ c.actor \in Actor /\ c.file \in File
         /\ c.op = "upload" => c.task \in Task
BY DEF Calls, NoCall

(* A request that is under way asks for something.                         *)
LEMMA CallOf ==
  ASSUME TypeOK, NEW r \in Request, pc[r] # "idle"
  PROVE  /\ call[r] \in Calls /\ call[r].op \in {"upload", "download", "remove"}
         /\ call[r].actor \in Actor /\ call[r].file \in File
         /\ call[r].op = "upload" => call[r].task \in Task /\ task[r] = call[r].task
BY CallFields DEF TypeOK, Fits

(* What a step of one request leaves of the others.                        *)
OnlyMoves(r) ==
  /\ pc' \in [Request -> Labels]
  /\ reply' \in [Request -> {"none", "ok", "refused", "error"}]
  /\ \A q \in Request \ {r} : pc'[q] = pc[q] /\ reply'[q] = reply[q]

(* Going on, and answering.                                                *)
LEMMA GotoMoves ==
  ASSUME TypeOK, NEW r \in Request, NEW label \in Labels, Goto(r, label), UNCHANGED reply
  PROVE  OnlyMoves(r) /\ pc'[r] = label /\ reply'[r] = reply[r]
BY DEF Goto, TypeOK, OnlyMoves

(* An answer moves one request.                                            *)
LEMMA AnswerMoves ==
  ASSUME TypeOK, NEW r \in Request, NEW kind \in {"ok", "refused", "error"}, Answer(r, kind)
  PROVE  OnlyMoves(r) /\ pc'[r] = "done" /\ reply'[r] = kind
BY DEF Answer, Goto, TypeOK, OnlyMoves, Labels

-----------------------------------------------------------------------------
(* Type correctness: one lemma for the arrivals, one for the steps of a    *)
(* request that has arrived, one for what happens around them.             *)

(* What comes in, with its file stored or without one, is a call.          *)
LEMMA ArrivalTyped ==
  ASSUME TypeOK, NEW r \in Request, Store(r) \/ Receive(r)
  PROVE  TypeOK' /\ OnlyMoves(r)
<1>1. PICK c \in Calls :
        /\ call' = [call EXCEPT ![r] = c]
        /\ \/ c.op = "upload" /\ task' = [task EXCEPT ![r] = c.task]
              /\ disk' = disk \cup {c.file} /\ Goto(r, "access")
           \/ c.op # "upload" /\ UNCHANGED <<task, disk>> /\ Goto(r, "find")
  BY DEF Store, Receive
<1>2. pc[r] = "idle" /\ UNCHANGED <<assignedTo, rows, kept, reply>>
  BY DEF Store, Receive, tables
<1>3. c # NoCall /\ c.file \in File /\ c.op \in {"upload", "download", "remove"}
      /\ (c.op = "upload" => c.task \in Task)
  BY CallFields
<1>4. OnlyMoves(r) /\ pc'[r] \in {"access", "find"} /\ (pc'[r] = "access" <=> c.op = "upload")
  BY <1>1, <1>2, GotoMoves DEF Labels
<1>5. /\ call' \in [Request -> Calls \cup {NoCall}] /\ call'[r] = c
      /\ task' \in [Request -> Task \cup {None}] /\ disk' \subseteq File
      /\ c.op = "upload" => task'[r] = c.task
      /\ \A q \in Request \ {r} : call'[q] = call[q] /\ task'[q] = task[q]
  BY <1>1, <1>3 DEF TypeOK
<1>6. Fits(r)'
  BY <1>2, <1>3, <1>4, <1>5 DEF Fits, TypeOK
<1>7. \A q \in Request \ {r} : Fits(q)'
  BY <1>4, <1>5 DEF Fits, TypeOK, OnlyMoves
<1> QED
  BY <1>2, <1>4, <1>5, <1>6, <1>7 DEF TypeOK, OnlyMoves

(* Every later step of a request follows the order of its operation.       *)
Later(r) ==
  \/ Access(r) \/ AccessFails(r) \/ Cleanup(r) \/ Insert(r)
  \/ FindDownload(r) \/ FindRemove(r) \/ Delete(r) \/ Unlink(r)
  \/ Send(r) \/ Fail(r)

(* Where a request can go from where it is.                                *)
LEMMA LaterMoves ==
  ASSUME TypeOK, NEW r \in Request, Later(r)
  PROVE  /\ OnlyMoves(r) /\ call' = call /\ pc[r] \notin {"idle", "done"}
         /\ \/ pc'[r] = "done" /\ reply'[r] # "none"
            \/ /\ reply'[r] = "none"
               /\ \/ call[r].op = "upload" /\ pc'[r] \in {"cleanup", "insert"}
                  \/ call[r].op = "download" /\ pc'[r] \in {"access", "send"}
                  \/ call[r].op = "remove" /\ pc'[r] \in {"delete", "unlink"}
<1> USE DEF TypeOK, Fits, Labels, tables
<1>1. CASE Access(r)
  <2>1. pc[r] = "access" /\ call' = call /\ call[r].op \in {"upload", "download"}
    BY <1>1, CallOf DEF Access
  <2>2. \/ Goto(r, IF call[r].op = "upload" THEN "insert" ELSE "send") /\ UNCHANGED reply
        \/ call[r].op = "upload" /\ Goto(r, "cleanup") /\ UNCHANGED reply
        \/ Answer(r, "refused")
    BY <1>1 DEF Access
  <2> QED
    BY <2>1, <2>2, GotoMoves, AnswerMoves
<1>2. CASE AccessFails(r)
  BY <1>2, GotoMoves DEF AccessFails
<1>3. CASE Cleanup(r)
  BY <1>3, AnswerMoves DEF Cleanup
<1>4. CASE Insert(r)
  BY <1>4, AnswerMoves DEF Insert
<1>5. CASE FindDownload(r)
  BY <1>5, GotoMoves, AnswerMoves DEF FindDownload
<1>6. CASE FindRemove(r)
  BY <1>6, GotoMoves, AnswerMoves DEF FindRemove
<1>7. CASE Delete(r)
  <2>1. pc[r] = "delete" /\ call' = call /\ call[r].op = "remove"
    BY <1>7, CallOf DEF Delete
  <2> QED
    BY <1>7, <2>1, GotoMoves, AnswerMoves DEF Delete
<1>8. CASE Unlink(r)
  BY <1>8, AnswerMoves DEF Unlink
<1>9. CASE Send(r)
  BY <1>9, AnswerMoves DEF Send
<1>10. CASE Fail(r)
  BY <1>10, AnswerMoves DEF Fail
<1> QED
  BY <1>1, <1>2, <1>3, <1>4, <1>5, <1>6, <1>7, <1>8, <1>9, <1>10 DEF Later

(* A new row is well formed; a file only leaves the disk.                  *)
LEMMA LaterTables ==
  ASSUME TypeOK, NEW r \in Request, Later(r)
  PROVE  /\ UNCHANGED assignedTo
         /\ rows' \in [File -> FileRow \cup {None}]
         /\ disk' \subseteq disk /\ kept \subseteq kept' /\ kept' \subseteq kept \cup {r}
         /\ task' \in [Request -> Task \cup {None}]
         /\ call[r].op = "upload" => UNCHANGED task
         /\ \A q \in Request \ {r} : task'[q] = task[q]
<1> USE DEF TypeOK, Labels, tables
<1>0. pc[r] # "idle"
  BY LaterMoves
<1>1. CASE Insert(r)
  <2>1. call[r].file \in File /\ call[r].actor \in Actor /\ task[r] \in Task
    BY <1>1, CallOf DEF Insert, Fits
  <2>2. [task |-> task[r], by |-> call[r].actor] \in FileRow
    BY <2>1 DEF FileRow
  <2> QED
    BY <1>1, <2>1, <2>2 DEF Insert
<1>2. CASE FindDownload(r)
  <2>1. call[r].file \in File
    BY <1>0, CallOf
  <2>2. rows[call[r].file] # None => rows[call[r].file].task \in Task
    BY <2>1 DEF FileRow
  <2>3. call[r].op = "download"
    BY <1>2 DEF FindDownload
  <2> QED
    BY <1>2, <2>2, <2>3 DEF FindDownload
<1>3. CASE Delete(r)
  BY <1>3, <1>0, CallOf DEF Delete
<1>4. CASE Cleanup(r) \/ Unlink(r)
  BY <1>4 DEF Cleanup, Unlink, DeleteFromDisk
<1>5. CASE Access(r) \/ AccessFails(r) \/ FindRemove(r) \/ Send(r) \/ Fail(r)
  BY <1>5 DEF Access, AccessFails, FindRemove, Send, Fail
<1> QED
  BY <1>1, <1>2, <1>3, <1>4, <1>5 DEF Later

(* The later steps keep the types.                                         *)
LEMMA LaterTyped ==
  ASSUME TypeOK, NEW r \in Request, Later(r)
  PROVE  TypeOK'
<1>1. OnlyMoves(r) /\ call' = call
  BY LaterMoves
<1>2. Fits(r)'
  BY LaterMoves, LaterTables DEF Fits, TypeOK
<1>3. \A q \in Request \ {r} : Fits(q)'
  BY <1>1, LaterTables DEF Fits, TypeOK, OnlyMoves
<1> QED
  BY <1>1, <1>2, <1>3, LaterTables DEF TypeOK, OnlyMoves

(* A crash ends what is under way; the tasks change by themselves.         *)
LEMMA AroundTyped ==
  ASSUME TypeOK,
         Crash \/ \E t \in Task : RemoveTask(t) \/ \E e \in Employee : Reassign(t, e)
  PROVE  TypeOK'
<1>1. CASE Crash
  <2>1. /\ pc' \in [Request -> Labels]
        /\ reply' \in [Request -> {"none", "ok", "refused", "error"}]
        /\ UNCHANGED <<assignedTo, rows, disk, call, task, kept>>
    BY <1>1 DEF Crash, TypeOK, Labels, tables
  <2>2. \A r \in Request : \/ pc'[r] = pc[r] /\ reply'[r] = reply[r]
                           \/ pc[r] # "idle" /\ pc'[r] = "done" /\ reply'[r] = "error"
    BY <1>1 DEF Crash
  <2>3. \A r \in Request : Fits(r)'
    BY <2>1, <2>2 DEF Fits, TypeOK
  <2> QED
    BY <2>1, <2>3 DEF TypeOK
<1>2. ASSUME NEW t \in Task, RemoveTask(t)
      PROVE  TypeOK'
  BY <1>2 DEF RemoveTask, TypeOK, Fits
<1>3. ASSUME NEW t \in Task, NEW e \in Employee, Reassign(t, e)
      PROVE  TypeOK'
  BY <1>3 DEF Reassign, TypeOK, Fits
<1> QED
  BY <1>1, <1>2, <1>3

(* TypeOK is inductive.                                                    *)
LEMMA TypeStep == TypeOK /\ [Next]_vars => TypeOK'
<1> SUFFICES ASSUME TypeOK, [Next]_vars
             PROVE  TypeOK'
  OBVIOUS
<1>1. ASSUME NEW r \in Request, RequestStep(r)
      PROVE  TypeOK'
  BY <1>1, ArrivalTyped, LaterTyped DEF RequestStep, Later
<1>2. CASE UNCHANGED vars
  BY <1>2 DEF vars, TypeOK, Fits
<1> QED
  BY <1>1, <1>2, AroundTyped DEF Next

(* At the start no request is made.                                        *)
LEMMA TypeInit == Init => TypeOK
BY DEF Init, TypeOK, Fits, Labels, NoCall

-----------------------------------------------------------------------------
(* Rows, files and removals.                                               *)

(* A step that touches no file and no row, and by which no upload starts   *)
(* and no row is deleted, keeps FilesInv.                                  *)
LEMMA QuietKeepsFiles ==
  ASSUME FilesInv, UNCHANGED <<rows, disk>>, kept \subseteq kept',
         \A r \in Request : call[r].op = "upload" \/ call'[r].op = "upload" => call'[r] = call[r],
         \A r \in Request : \A f \in File :
           (Pending(r, f)' => Pending(r, f)) /\ (Takes(r, f)' => Takes(r, f))
             /\ (Removes(r, f)' => Removes(r, f))
  PROVE  FilesInv'
<1> SUFFICES ASSUME NEW f \in File
             PROVE  FileOK(f)'
  BY DEF FilesInv
<1>1. FileOK(f)
  BY DEF FilesInv
<1>2. \A r \in Request : Uploads(r, f)' <=> Uploads(r, f)
  BY DEF Uploads
<1>3. \A r \in Request : Uploads(r, f) => call'[r].task = call[r].task
  BY DEF Uploads
<1>4. Untouched(f) => Untouched(f)'
  BY DEF Untouched
<1> QED
  BY <1>1, <1>2, <1>3, <1>4 DEF FileOK

(* The upload of a file nobody has uploaded.                               *)
LEMMA StoreKeepsFiles ==
  ASSUME TypeOK, FilesInv, NEW r \in Request, Store(r)
  PROVE  FilesInv'
<1>1. PICK c \in Calls :
        /\ c.op = "upload" /\ c.file \notin Uploaded
        /\ call' = [call EXCEPT ![r] = c]
        /\ disk' = disk \cup {c.file}
  BY DEF Store
<1>2. pc[r] = "idle" /\ UNCHANGED <<rows, kept, reply>> /\ call[r] = NoCall
  BY DEF Store, tables, TypeOK, Fits
<1>3. OnlyMoves(r) /\ pc'[r] = "access"
  BY GotoMoves DEF Store, Labels
<1>4. call'[r] = c /\ \A q \in Request \ {r} : call'[q] = call[q]
  BY <1>1 DEF TypeOK
<1>5. \A q \in Request : ~Uploads(q, c.file)
  BY <1>1 DEF Uploaded, Uploads
<1>6. \A q \in Request, f \in File : Uploads(q, f)' <=> Uploads(q, f) \/ (q = r /\ f = c.file)
  BY <1>1, <1>2, <1>4 DEF Uploads, NoCall
<1>7. \A q \in Request, f \in File : Pending(q, f)' => Pending(q, f) \/ (q = r /\ f = c.file)
  BY <1>2, <1>3, <1>4, <1>6 DEF Pending, OnlyMoves
<1>8. \A q \in Request, f \in File : Takes(q, f)' => Takes(q, f)
  BY <1>1, <1>2, <1>3, <1>4 DEF Takes, OnlyMoves
<1>9. \A q \in Request, f \in File : Removes(q, f)' => Removes(q, f) /\ Takes(q, f)
  BY <1>1, <1>2, <1>4 DEF Removes, Takes
<1>10. ASSUME NEW f \in File
       PROVE  FileOK(f)'
  <2>1. FileOK(f)
    BY DEF FilesInv
  <2>2. Untouched(f) => Untouched(f)'
    BY <1>2, <1>8 DEF Untouched
  <2>3. \A q \in Request : Uploads(q, f) => call'[q].task = call[q].task
    BY <1>2, <1>4 DEF Uploads, NoCall
  <2>4. CASE f = c.file
    <3>1. f \notin disk /\ Untouched(f)
      BY <1>5, <2>1, <2>4 DEF FileOK
    <3>2. \A q \in Request : ~Takes(q, f)' /\ ~Removes(q, f)'
      BY <1>8, <1>9, <3>1 DEF Untouched
    <3>3. f \in disk' /\ Untouched(f)' /\ rows'[f] = None
      BY <1>1, <1>2, <2>2, <2>4, <3>1 DEF Untouched
    <3>4. Uploads(r, f)' /\ \A q \in Request : Uploads(q, f)' => q = r
      BY <1>5, <1>6, <2>4
    <3> QED
      BY <3>2, <3>3, <3>4 DEF FileOK
  <2>5. CASE f # c.file
    <3>1. f \in disk' <=> f \in disk
      BY <1>1, <2>5
    <3>2. \A q \in Request : /\ Uploads(q, f)' <=> Uploads(q, f)
                             /\ Pending(q, f)' => Pending(q, f)
      BY <1>6, <1>7, <2>5
    <3> QED
      BY <1>2, <1>8, <1>9, <2>1, <2>2, <2>3, <3>1, <3>2 DEF FileOK
  <2> QED
    BY <2>4, <2>5
<1> QED
  BY <1>10 DEF FilesInv

(* The steps that touch files or rows, each those of one file only: what   *)
(* is left to show of it is about that file.                               *)
LEMMA OtherFilesKeep ==
  ASSUME TypeOK, FilesInv, NEW r \in Request, Later(r), NEW f \in File, f # call[r].file
  PROVE  FileOK(f)'
<1>1. OnlyMoves(r) /\ call' = call /\ call[r].file \in File
  BY LaterMoves, CallOf
<1>2. rows'[f] = rows[f] /\ (f \in disk' <=> f \in disk)
  BY <1>1 DEF Later, Access, AccessFails, Cleanup, Insert, FindDownload, FindRemove, Delete,
              Unlink, Send, Fail, DeleteFromDisk, tables, TypeOK
<1>3. kept \subseteq kept'
  BY LaterTables
<1>4. \A q \in Request : /\ Uploads(q, f)' <=> Uploads(q, f)
                         /\ Pending(q, f)' <=> Pending(q, f)
                         /\ Takes(q, f)' <=> Takes(q, f)
                         /\ Removes(q, f)' <=> Removes(q, f)
  BY <1>1 DEF Uploads, Pending, Takes, Removes, OnlyMoves
<1>5. FileOK(f)
  BY DEF FilesInv
<1> QED
  BY <1>1, <1>2, <1>3, <1>4, <1>5 DEF FileOK, Untouched

(* The row of an upload, which finds nothing of its file and has it.       *)
LEMMA InsertKeepsFiles ==
  ASSUME TypeOK, FilesInv, NEW r \in Request, Insert(r)
  PROVE  FilesInv'
<1> DEFINE f == call[r].file
<1> Later(r) /\ pc[r] = "insert"
  BY DEF Later, Insert
<1>1. /\ OnlyMoves(r) /\ call' = call /\ f \in File
      /\ call[r].op = "upload" /\ task[r] = call[r].task /\ pc[r] = "insert" /\ pc'[r] = "done"
  BY LaterMoves, CallOf, AnswerMoves DEF Insert, TypeOK, Fits
<1>2. FileOK(f) /\ Pending(r, f)
  BY <1>1 DEF FilesInv, Pending, Uploads
<1>3. f \in disk /\ Untouched(f)
  BY <1>1, <1>2 DEF FileOK
<1>4. f \in disk' /\ (rows'[f] # None => rows'[f].task = call[r].task)
  BY <1>1, <1>3 DEF Insert, Untouched, tables, TypeOK
<1>5. \A q \in Request : Uploads(q, f)' <=> Uploads(q, f)
  BY <1>1 DEF Uploads
<1>6. \A q \in Request : ~Pending(q, f)'
  <2>1. \A q \in Request : Uploads(q, f) => q = r
    BY <1>1, <1>2 DEF FileOK, Pending
  <2> QED
    BY <1>1, <1>5, <2>1 DEF Pending
<1>7. \A q \in Request : ~Takes(q, f)' /\ ~Removes(q, f)'
  BY <1>1, <1>3 DEF Untouched, Takes, Removes, OnlyMoves
<1>8. FileOK(f)'
  BY <1>1, <1>2, <1>4, <1>5, <1>6, <1>7 DEF FileOK, Pending
<1> QED
  BY <1>1, <1>8, OtherFilesKeep DEF FilesInv

(* The clean-up of a refused upload: there is no row.                      *)
LEMMA CleanupKeepsFiles ==
  ASSUME TypeOK, FilesInv, NEW r \in Request, Cleanup(r)
  PROVE  FilesInv'
<1> DEFINE f == call[r].file
<1> Later(r) /\ pc[r] = "cleanup"
  BY DEF Later, Cleanup
<1>1. /\ OnlyMoves(r) /\ call' = call /\ f \in File
      /\ call[r].op = "upload" /\ pc[r] = "cleanup" /\ pc'[r] = "done"
      /\ UNCHANGED rows
  BY LaterMoves, CallOf, AnswerMoves DEF Cleanup, TypeOK, Fits, tables
<1>2. FileOK(f) /\ Pending(r, f)
  BY <1>1 DEF FilesInv, Pending, Uploads
<1>3. rows'[f] = None /\ Untouched(f)
  BY <1>1, <1>2 DEF FileOK, Untouched
<1>4. \A q \in Request : Uploads(q, f)' <=> Uploads(q, f)
  BY <1>1 DEF Uploads
<1>5. \A q \in Request : ~Pending(q, f)'
  <2>1. \A q \in Request : Uploads(q, f) => q = r
    BY <1>1, <1>2 DEF FileOK, Pending
  <2> QED
    BY <1>1, <1>4, <2>1 DEF Pending
<1>6. \A q \in Request : ~Takes(q, f)' /\ ~Removes(q, f)'
  BY <1>1, <1>3 DEF Untouched, Takes, Removes, OnlyMoves
<1>7. FileOK(f)'
  BY <1>1, <1>2, <1>3, <1>4, <1>5, <1>6 DEF FileOK, Pending
<1> QED
  BY <1>1, <1>7, OtherFilesKeep DEF FilesInv

(* A row is deleted by the request that finds it: nobody has taken it      *)
(* before, and its upload is over.                                         *)
LEMMA DeleteKeepsFiles ==
  ASSUME TypeOK, FilesInv, NEW r \in Request, Delete(r)
  PROVE  FilesInv'
<1> DEFINE f == call[r].file
<1>1. /\ Later(r) /\ OnlyMoves(r) /\ call' = call /\ f \in File
      /\ call[r].op = "remove" /\ pc[r] = "delete" /\ reply[r] = "none" /\ UNCHANGED disk
  BY LaterMoves, CallOf DEF Later, Delete, TypeOK, Fits
<1>2. FileOK(f)
  BY <1>1 DEF FilesInv
<1>3. rows'[f] = None
  BY <1>1 DEF Delete, TypeOK
<1>4. \A q \in Request : /\ Uploads(q, f)' <=> Uploads(q, f)
                         /\ Pending(q, f)' <=> Pending(q, f)
  BY <1>1 DEF Uploads, Pending, OnlyMoves
<1>5. reply'[r] # "ok"
  BY <1>1, AnswerMoves DEF Delete
<1>6. CASE rows[f] = None
  <2>1. pc'[r] = "done"
    BY <1>6, AnswerMoves DEF Delete
  <2>2. \A q \in Request : (Takes(q, f)' <=> Takes(q, f)) /\ (Removes(q, f)' <=> Removes(q, f))
    BY <1>1, <1>5, <2>1 DEF Takes, Removes, OnlyMoves
  <2> QED
    BY <1>1, <1>2, <1>3, <1>4, <1>6, <2>2, OtherFilesKeep, LaterTables
    DEF FilesInv, FileOK, Untouched
<1>7. CASE rows[f] # None
  <2>1. \A q \in Request : ~Pending(q, f) /\ ~Takes(q, f) /\ ~Removes(q, f)
    BY <1>2, <1>7 DEF FileOK, Untouched, Takes, Removes
  <2>2. \A q \in Request : ~Removes(q, f)' /\ (Takes(q, f)' => q = r)
    BY <1>1, <1>5, <2>1 DEF Takes, Removes, OnlyMoves
  <2>3. FileOK(f)'
    BY <1>1, <1>2, <1>3, <1>4, <1>7, <2>1, <2>2 DEF FileOK
  <2> QED
    BY <1>1, <2>3, OtherFilesKeep DEF FilesInv
<1> QED
  BY <1>6, <1>7

(* The file goes after its row.                                            *)
LEMMA UnlinkKeepsFiles ==
  ASSUME TypeOK, FilesInv, NEW r \in Request, Unlink(r)
  PROVE  FilesInv'
<1> DEFINE f == call[r].file
<1>1. /\ Later(r) /\ OnlyMoves(r) /\ call' = call /\ f \in File
      /\ call[r].op = "remove" /\ pc[r] = "unlink" /\ reply'[r] = "ok" /\ UNCHANGED rows
      /\ (f \in disk' => r \in kept')
  BY LaterMoves, CallOf, AnswerMoves DEF Later, Unlink, DeleteFromDisk, TypeOK, Fits, tables
<1>2. FileOK(f) /\ Takes(r, f)
  BY <1>1 DEF FilesInv, Takes
<1>3. rows'[f] = None /\ \A q \in Request : ~Pending(q, f) /\ (Takes(q, f) => q = r)
  BY <1>1, <1>2 DEF FileOK, Untouched
<1>4. \A q \in Request : /\ Uploads(q, f)' <=> Uploads(q, f)
                         /\ ~Pending(q, f)'
                         /\ Takes(q, f)' => q = r
                         /\ Removes(q, f)' => q = r
  BY <1>1, <1>3 DEF Uploads, Pending, Takes, Removes, OnlyMoves
<1>5. \E q \in Request : Uploads(q, f)
  BY <1>2 DEF FileOK, Untouched
<1>6. FileOK(f)'
  BY <1>1, <1>2, <1>3, <1>4, <1>5 DEF FileOK
<1> QED
  BY <1>1, <1>6, OtherFilesKeep DEF FilesInv

(* The cascade takes rows, never files.                                    *)
LEMMA CascadeKeepsFiles ==
  ASSUME TypeOK, FilesInv, NEW t \in Task, RemoveTask(t)
  PROVE  FilesInv'
<1>1. /\ UNCHANGED <<disk, pc, call, reply, kept>>
      /\ \A f \in File : rows'[f] \in {None, rows[f]}
  BY DEF RemoveTask, TypeOK
<1> SUFFICES ASSUME NEW f \in File
             PROVE  FileOK(f)'
  BY DEF FilesInv
<1>2. FileOK(f)
  BY DEF FilesInv
<1>3. \A q \in Request : /\ Uploads(q, f)' <=> Uploads(q, f)
                         /\ Pending(q, f)' <=> Pending(q, f)
                         /\ Takes(q, f)' <=> Takes(q, f)
                         /\ Removes(q, f)' <=> Removes(q, f)
  BY <1>1 DEF Uploads, Pending, Takes, Removes
<1> QED
  BY <1>1, <1>2, <1>3 DEF FileOK, Untouched

(* FilesInv is inductive, with TypeOK.                                     *)
LEMMA FilesStep == TypeOK /\ FilesInv /\ [Next]_vars => FilesInv'
<1> SUFFICES ASSUME TypeOK, FilesInv, [Next]_vars
             PROVE  FilesInv'
  OBVIOUS
<1>1. ASSUME NEW r \in Request, Receive(r)
      PROVE  FilesInv'
  <2>1. PICK c \in Calls : c.op # "upload" /\ call' = [call EXCEPT ![r] = c]
    BY <1>1 DEF Receive
  <2>2. /\ call[r] = NoCall /\ call'[r].op # "upload" /\ OnlyMoves(r)
        /\ pc'[r] = "find" /\ reply'[r] = "none"
        /\ \A q \in Request \ {r} : call'[q] = call[q]
        /\ UNCHANGED <<rows, disk, kept>>
    BY <1>1, <2>1, GotoMoves DEF Receive, TypeOK, Fits, Labels, tables
  <2>3. \A q \in Request : \A f \in File :
          (Pending(q, f)' => Pending(q, f)) /\ (Takes(q, f)' => Takes(q, f))
            /\ (Removes(q, f)' => Removes(q, f))
    BY <2>2 DEF Pending, Uploads, Takes, Removes, OnlyMoves
  <2>4. \A q \in Request : call[q].op = "upload" \/ call'[q].op = "upload" => call'[q] = call[q]
    BY <2>2 DEF NoCall
  <2> QED
    BY <2>2, <2>3, <2>4, QuietKeepsFiles
<1>2. ASSUME NEW r \in Request,
             Access(r) \/ AccessFails(r) \/ FindDownload(r) \/ FindRemove(r) \/ Send(r) \/ Fail(r)
      PROVE  FilesInv'
  <2>1. Later(r) /\ UNCHANGED <<rows, disk, kept>>
    BY <1>2 DEF Later, Access, AccessFails, FindDownload, FindRemove, Send, Fail, tables
  <2>2. OnlyMoves(r) /\ call' = call /\ pc[r] # "done"
    BY <2>1, LaterMoves
  <2>3. call[r].op = "remove" => pc'[r] # "unlink" /\ reply'[r] # "ok"
    BY <1>2, <2>1, GotoMoves, AnswerMoves
    DEF Access, AccessFails, FindDownload, FindRemove, Send, Fail, TypeOK, Fits, Labels
  <2>4. \A q \in Request : \A f \in File :
          (Pending(q, f)' => Pending(q, f)) /\ (Takes(q, f)' => Takes(q, f))
            /\ (Removes(q, f)' => Removes(q, f))
    BY <2>2, <2>3 DEF Pending, Uploads, Takes, Removes, OnlyMoves
  <2> QED
    BY <2>1, <2>2, <2>4, QuietKeepsFiles
<1>3. CASE Crash
  <2>1. UNCHANGED <<rows, disk, kept, call>>
    BY <1>3 DEF Crash, tables
  <2>2. \A r \in Request : \/ pc'[r] = pc[r] /\ reply'[r] = reply[r]
                           \/ pc'[r] = "done" /\ reply'[r] = "error"
    BY <1>3 DEF Crash
  <2>3. \A q \in Request : \A f \in File :
          (Pending(q, f)' => Pending(q, f)) /\ (Takes(q, f)' => Takes(q, f))
            /\ (Removes(q, f)' => Removes(q, f))
    BY <2>1, <2>2 DEF Pending, Uploads, Takes, Removes
  <2> QED
    BY <2>1, <2>3, QuietKeepsFiles
<1>4. CASE (\E t \in Task : \E e \in Employee : Reassign(t, e)) \/ UNCHANGED vars
  <2>1. UNCHANGED <<rows, disk, kept, call, pc, reply>>
    BY <1>4 DEF Reassign, vars
  <2>2. \A q \in Request : \A f \in File :
          (Pending(q, f)' => Pending(q, f)) /\ (Takes(q, f)' => Takes(q, f))
            /\ (Removes(q, f)' => Removes(q, f))
    BY <2>1 DEF Pending, Uploads, Takes, Removes
  <2> QED
    BY <2>1, <2>2, QuietKeepsFiles
<1> QED
  BY <1>1, <1>2, <1>3, <1>4, StoreKeepsFiles, InsertKeepsFiles, CleanupKeepsFiles,
     DeleteKeepsFiles, UnlinkKeepsFiles, CascadeKeepsFiles DEF Next, RequestStep

(* At the start every file is accounted for.                               *)
LEMMA FilesInit == Init => FilesInv
BY DEF Init, FilesInv, FileOK, Untouched, Uploads, Pending, Takes, Removes, NoCall

(* The control state of the requests, and the two stores, are well typed,  *)
(* and a request is at a step of its own operation.                        *)
THEOREM TypeCorrect == Spec => []TypeOK
BY TypeInit, TypeStep, PTL DEF Spec

(* The accounting of the files, in every state.                            *)
LEMMA FilesHold == Spec => [](TypeOK /\ FilesInv)
<1>1. Init => TypeOK /\ FilesInv
  BY TypeInit, FilesInit
<1>2. (TypeOK /\ FilesInv) /\ [Next]_vars => (TypeOK /\ FilesInv)'
  BY TypeStep, FilesStep
<1> QED
  BY <1>1, <1>2, PTL DEF Spec

(* fileService: the row is inserted after the file is stored and deleted   *)
(* before it is unlinked, whatever fails or runs in between, so a row is   *)
(* never without its file.                                                 *)
THEOREM RowsKeepTheirFiles == Spec => []RowsHaveFiles
<1>1. FilesInv => RowsHaveFiles
  BY DEF FilesInv, FileOK, RowsHaveFiles
<1> QED
  BY <1>1, FilesHold, PTL

(* remove: of the removals of a file one succeeds, and what it removed     *)
(* does not come back.                                                     *)
THEOREM RemovalsStay == Spec => []RemovalsAreFinal
<1>1. ASSUME NEW r \in Request, NEW f \in File, Removes(r, f)
      PROVE  Takes(r, f)
  BY <1>1 DEF Removes, Takes
<1>2. FilesInv => RemovalsAreFinal
  BY <1>1 DEF FilesInv, FileOK, RemovalsAreFinal
<1> QED
  BY <1>2, FilesHold, PTL

-----------------------------------------------------------------------------
(* Files without a row.                                                    *)

(* What went wrong stays so: answers, failed unlinks and deleted tasks.    *)
LEMMA WrongStays ==
  ASSUME TypeOK, [Next]_vars, NEW f \in File, WentWrong(f)
  PROVE  WentWrong(f)'
<1>1. PICK r \in Request :
        /\ call[r].op # "none" /\ call[r].file = f
        /\ \/ r \in kept
           \/ reply[r] = "error"
           \/ call[r].op = "upload" /\ assignedTo[call[r].task] = None
  BY DEF WentWrong
<1>2. call[r] # NoCall /\ pc[r] # "idle" /\ call[r] \in Calls
  BY <1>1 DEF NoCall, TypeOK, Fits
<1>3. call'[r] = call[r]
  <2>1. ASSUME NEW q \in Request, RequestStep(q)
        PROVE  call'[r] = call[r]
    BY <1>2, <2>1, LaterMoves DEF RequestStep, Later, Store, Receive, TypeOK
  <2> QED
    BY <2>1 DEF Next, vars, Crash, RemoveTask, Reassign
<1>4. kept \subseteq kept'
  <2>1. ASSUME NEW q \in Request, RequestStep(q)
        PROVE  kept \subseteq kept'
    BY <2>1, LaterTables DEF RequestStep, Later, Store, Receive
  <2> QED
    BY <2>1 DEF Next, vars, Crash, RemoveTask, Reassign
<1>5. reply[r] = "error" => reply'[r] = "error"
  <2> SUFFICES ASSUME reply[r] = "error"
               PROVE  reply'[r] = "error"
    OBVIOUS
  <2>1. pc[r] = "done"
    BY DEF TypeOK, Fits
  <2>2. ASSUME NEW q \in Request, RequestStep(q)
        PROVE  reply'[r] = "error"
    BY <2>1, <2>2, LaterMoves DEF RequestStep, Later, Store, Receive, OnlyMoves
  <2>3. CASE Crash
    BY <2>1, <2>3 DEF Crash
  <2> QED
    BY <2>2, <2>3 DEF Next, vars, RemoveTask, Reassign
<1>6. \A t \in Task : assignedTo[t] = None => assignedTo'[t] = None
  <2>1. ASSUME NEW q \in Request, RequestStep(q)
        PROVE  UNCHANGED assignedTo
    BY <2>1, LaterTables DEF RequestStep, Later, Store, Receive, tables
  <2>2. ASSUME NEW u \in Task, NEW e \in Employee, Reassign(u, e)
        PROVE  \A t \in Task : assignedTo[t] = None => assignedTo'[t] = None
    BY <2>2 DEF Reassign, TypeOK
  <2>3. ASSUME NEW u \in Task, RemoveTask(u)
        PROVE  \A t \in Task : assignedTo[t] = None => assignedTo'[t] = None
    BY <2>3 DEF RemoveTask, TypeOK
  <2> QED
    BY <2>1, <2>2, <2>3 DEF Next, vars, Crash, tables
<1>7. call[r].op = "upload" => call[r].task \in Task
  BY <1>2, CallFields
<1> QED
  BY <1>1, <1>3, <1>4, <1>5, <1>6, <1>7 DEF WentWrong

(* A file under way whose request goes on stays under way, and one whose   *)
(* request ends is gone, has its row, or is left behind by a mishap.       *)
LEMMA LaterExplains ==
  ASSUME TypeOK, FilesInv, NEW r \in Request, Later(r),
         NEW f \in File, f = call[r].file,
         f \in disk', rows'[f] = None, rows[f] # None \/ InTransit(f)
  PROVE  InTransit(f)' \/ WentWrong(f)'
<1>1. OnlyMoves(r) /\ call' = call /\ call[r].op \in {"upload", "download", "remove"}
  BY LaterMoves, CallOf
<1>2. CASE \E q \in Request \ {r} : /\ call[q].op \in {"upload", "remove"} /\ call[q].file = f
                                   /\ pc[q] \in {"access", "cleanup", "insert", "unlink"}
  BY <1>1, <1>2 DEF InTransit, OnlyMoves
<1>3. CASE /\ call[r].op \in {"upload", "remove"}
           /\ pc[r] \in {"access", "cleanup", "insert", "unlink"}
  <2>1. CASE Access(r) \/ AccessFails(r)
    <3>1. pc[r] = "access" /\ call[r].op = "upload"
      BY <1>3, <2>1 DEF Access, AccessFails, TypeOK, Fits
    <3>2. Goto(r, "cleanup") \/ Goto(r, "insert")
      BY <2>1, <3>1 DEF Access, AccessFails
    <3>3. pc'[r] \in {"cleanup", "insert"}
      BY <3>2 DEF Goto, TypeOK
    <3> QED
      BY <1>1, <1>3, <3>3 DEF InTransit
  <2>2. CASE Cleanup(r) \/ Unlink(r)
    <3>1. f \notin disk' \/ r \in kept'
      BY <2>2 DEF Cleanup, Unlink, DeleteFromDisk
    <3> QED
      BY <1>1, <3>1 DEF WentWrong
  <2>3. CASE Insert(r)
    <3>1. pc[r] = "insert" /\ rows'[f] = None
      BY <2>3 DEF Insert
    <3>2. task[r] \in Task
      BY <3>1, CallOf DEF TypeOK, Fits
    <3>3. [task |-> task[r], by |-> call[r].actor] # None
      BY <3>1, <3>2, CallOf, RowAssumption DEF FileRow
    <3>4. Answer(r, "error")
      BY <2>3, <3>1, <3>3 DEF Insert, TypeOK
    <3> QED
      BY <1>1, <3>4, AnswerMoves DEF WentWrong
  <2>4. CASE Delete(r) \/ FindDownload(r) \/ FindRemove(r) \/ Send(r)
    BY <1>3, <2>4 DEF Delete, FindDownload, FindRemove, Send
  <2>5. CASE Fail(r)
    BY <1>1, <2>5, AnswerMoves DEF Fail, WentWrong
  <2> QED
    BY <2>1, <2>2, <2>3, <2>4, <2>5 DEF Later
<1>4. CASE rows[f] # None
  <2>1. Delete(r)
    <3>1. \/ Insert(r) /\ rows'[f] # None
          \/ UNCHANGED rows
          \/ Delete(r)
      <4>1. CASE Insert(r)
        <5>1. task[r] \in Task /\ call[r].actor \in Actor
          BY <4>1, CallOf DEF Insert, TypeOK, Fits
        <5>2. [task |-> task[r], by |-> call[r].actor] # None
          BY <5>1, RowAssumption DEF FileRow
        <5> QED
          BY <4>1, <5>2, <1>4 DEF Insert, TypeOK
      <4> QED
        BY <4>1 DEF Later, Access, AccessFails, Cleanup, FindDownload, FindRemove, Unlink, Send,
                    Fail, tables
    <3> QED
      BY <1>4, <3>1
  <2>2. pc[r] = "delete" /\ Goto(r, "unlink") /\ call[r].op = "remove"
    BY <1>4, <2>1, CallOf DEF Delete, TypeOK, Fits
  <2>3. pc'[r] = "unlink"
    BY <2>2 DEF Goto, TypeOK
  <2> QED
    BY <1>1, <2>2, <2>3 DEF InTransit
<1> QED
  BY <1>2, <1>3, <1>4 DEF InTransit

(* Each step explains what it leaves on the disk.                          *)
LEMMA LeftoversStep ==
  TypeOK /\ FilesInv /\ LeftoversExplained /\ [Next]_vars => LeftoversExplained'
<1> SUFFICES ASSUME TypeOK, FilesInv, LeftoversExplained, [Next]_vars,
                    NEW f \in disk', rows'[f] = None, ~WentWrong(f)'
             PROVE  InTransit(f)'
  BY DEF LeftoversExplained
<1>1. f \in File /\ TypeOK'
  BY TypeStep DEF TypeOK
<1>2. f \in disk /\ rows[f] = None => InTransit(f)
  BY <1>1, WrongStays DEF LeftoversExplained
<1>3. rows[f] # None => f \in disk
  BY <1>1 DEF FilesInv, FileOK
<1>4. ASSUME NEW r \in Request, Store(r)
      PROVE  InTransit(f)'
  <2>1. PICK c \in Calls : /\ c.op = "upload" /\ disk' = disk \cup {c.file}
                           /\ call' = [call EXCEPT ![r] = c]
    BY <1>4 DEF Store
  <2>2. /\ OnlyMoves(r) /\ pc'[r] = "access" /\ call'[r] = c /\ call[r] = NoCall
        /\ UNCHANGED rows
        /\ \A q \in Request \ {r} : call'[q] = call[q]
    BY <1>4, <2>1, GotoMoves DEF Store, TypeOK, Fits, Labels, tables
  <2>3. CASE f = c.file
    BY <2>1, <2>2, <2>3 DEF InTransit
  <2>4. CASE f # c.file
    BY <1>2, <2>1, <2>2, <2>4 DEF InTransit, OnlyMoves, NoCall
  <2> QED
    BY <2>3, <2>4
<1>5. ASSUME NEW r \in Request, Receive(r)
      PROVE  InTransit(f)'
  <2>1. /\ OnlyMoves(r) /\ call[r] = NoCall /\ UNCHANGED <<rows, disk>>
        /\ \A q \in Request \ {r} : call'[q] = call[q]
    BY <1>5, GotoMoves DEF Receive, TypeOK, Fits, Labels, tables
  <2> QED
    BY <1>2, <2>1 DEF InTransit, OnlyMoves, NoCall
<1>6. ASSUME NEW r \in Request, Later(r)
      PROVE  InTransit(f)'
  <2>1. OnlyMoves(r) /\ call' = call /\ f \in disk /\ call[r].file \in File
    BY <1>6, LaterMoves, LaterTables, CallOf
  <2>2. CASE f = call[r].file
    BY <1>1, <1>2, <1>6, <2>1, <2>2, LaterExplains
  <2>3. CASE f # call[r].file
    <3>1. rows[f] = None
      BY <1>1, <1>6, <2>1, <2>3
      DEF Later, Access, AccessFails, Cleanup, Insert, FindDownload, FindRemove, Delete, Unlink,
          Send, Fail, tables, TypeOK
    <3> QED
      BY <1>2, <2>1, <2>3, <3>1 DEF InTransit, OnlyMoves
  <2> QED
    BY <2>2, <2>3
<1>7. CASE Crash
  <2>1. UNCHANGED <<rows, disk, call>>
    BY <1>7 DEF Crash, tables
  <2>2. PICK r \in Request : /\ call[r].op \in {"upload", "remove"} /\ call[r].file = f
                             /\ pc[r] \in {"access", "cleanup", "insert", "unlink"}
    BY <1>2, <2>1 DEF InTransit
  <2>3. reply'[r] = "error"
    BY <1>7, <2>2 DEF Crash
  <2> QED
    BY <2>1, <2>2, <2>3 DEF WentWrong
<1>8. ASSUME NEW t \in Task, RemoveTask(t)
      PROVE  InTransit(f)'
  <2>1. UNCHANGED <<disk, pc, call>> /\ assignedTo'[t] = None
    BY <1>8 DEF RemoveTask, TypeOK
  <2>2. CASE rows[f] = None
    BY <1>2, <2>1, <2>2 DEF InTransit
  <2>3. CASE rows[f] # None
    <3>1. rows[f].task = t
      BY <1>1, <1>8, <2>3 DEF RemoveTask
    <3>2. \E r \in Request : Uploads(r, f) /\ call[r].task = t
      BY <1>1, <2>3, <3>1 DEF FilesInv, FileOK
    <3> QED
      BY <2>1, <3>2 DEF Uploads, WentWrong
  <2> QED
    BY <2>2, <2>3
<1>9. CASE (\E t \in Task : \E e \in Employee : Reassign(t, e)) \/ UNCHANGED vars
  BY <1>2, <1>9 DEF Reassign, vars, InTransit
<1> QED
  BY <1>4, <1>5, <1>6, <1>7, <1>8, <1>9 DEF Next, RequestStep, Later

(* uploadTaskAttachment and remove: a file without a row is on its way in  *)
(* or out, or an unlink failed, a request ended in an error or its task    *)
(* was deleted; a refused upload leaves nothing.                           *)
THEOREM LeftoversHaveCauses == Spec => []LeftoversExplained
<1>1. Init => LeftoversExplained
  BY DEF Init, LeftoversExplained
<1> QED
  BY <1>1, LeftoversStep, FilesHold, PTL DEF Spec
=============================================================================
