--------------------------- MODULE ResumeProcessing ---------------------------
(***************************************************************************)
(* Uploaded resumes: the file in the storage, the row in the database, the *)
(* analyses the worker adds to it, and the requests and tasks that touch   *)
(* them.  POST /resumes stores the file, then the row, then dispatches     *)
(* resume.process_resume; DELETE /resumes/{id} removes the file, then the  *)
(* row.  Storage, database and broker have no transaction in common, so a  *)
(* request that breaks leaves what it had done.                            *)
(*                                                                         *)
(* The task works on the row without a lock, in a session that reads it    *)
(* once (a commit expires nothing) and writes a column only when it        *)
(* differs from what the session holds.  Celery delivers a message at      *)
(* least once: a worker may die and its message come back, or a second     *)
(* worker get a message the first still works on.                          *)
(***************************************************************************)
EXTENDS Integers, FiniteSets

CONSTANTS
    Resumes,         \* uploads, each with its own storage key
    Workers,
    MaxDeliveries    \* bound: deliveries of the task of a resume

ASSUME MaxDeliveriesAssumption == MaxDeliveries \in Nat \ {0}

VARIABLES
    files,           \* storage keys that hold a file
    status,          \* Resume.status, "none" where there is no row
    analyses,        \* how many ResumeAnalysis rows a resume has
    upload,          \* how far POST /resumes has come
    removing,        \* how far DELETE /resumes/{id} has come
    queue,           \* messages waiting in the broker
    delivered,       \* messages taken so far
    worker,          \* the task each worker runs
    (* history, read by the properties only *)
    halfDeleted,     \* rows whose file a DELETE has removed
    overlapped,      \* resumes two workers have had at once
    killed           \* resumes whose task hit the time limit

rowVars == <<status, analyses>>
taskVars == <<queue, delivered, worker, overlapped, killed>>
resumeVars == <<files, status, analyses, upload, removing, halfDeleted, taskVars>>

Idle == [pc |-> "idle"]
Stage(r, p, s) == [pc |-> p, resume |-> r, view |-> s]
RowStatuses == {"UPLOADED", "PROCESSING", "READY", "FAILED"}

ResumesTypeOK ==
    /\ files \subseteq Resumes
    /\ status \in [Resumes -> RowStatuses \cup {"none"}]
    /\ analyses \in [Resumes -> 0..MaxDeliveries]
    /\ upload \in [Resumes -> {"unsent", "saved", "stored", "over", "broken"}]
    /\ removing \in [Resumes -> {"no", "found", "file_gone"}]
    /\ queue \in [Resumes -> 0..MaxDeliveries]
    /\ delivered \in [Resumes -> 0..MaxDeliveries]
    /\ worker \in [Workers -> {Idle} \cup
           [pc : {"seen", "marked", "read"}, resume : Resumes, view : RowStatuses \ {"READY"}]]
    /\ halfDeleted \cup overlapped \cup killed \subseteq Resumes

ResumesInit ==
    /\ files = {}
    /\ status = [r \in Resumes |-> "none"]
    /\ analyses = [r \in Resumes |-> 0]
    /\ upload = [r \in Resumes |-> "unsent"]
    /\ removing = [r \in Resumes |-> "no"]
    /\ queue = [r \in Resumes |-> 0]
    /\ delivered = [r \in Resumes |-> 0]
    /\ worker = [w \in Workers |-> Idle]
    /\ halfDeleted = {} /\ overlapped = {} /\ killed = {}

Busy(w) == worker[w] # Idle
On(r) == {w \in Workers : Busy(w) /\ worker[w].resume = r}

-------------------------------------------------------------------------------
(* POST /resumes                                                            *)

UploadTo(r, from, to) ==
    /\ upload[r] = from
    /\ upload' = [upload EXCEPT ![r] = to]

SaveFile(r) ==
    /\ UploadTo(r, "unsent", "saved")
    /\ files' = files \cup {r}
    /\ UNCHANGED <<rowVars, removing, halfDeleted, taskVars>>

\* Defect for the mutant run: the row is committed before the file is saved.
MutStoreRow(r) ==
    /\ upload[r] = "unsent"
    /\ upload' = [upload EXCEPT ![r] = "stored"]
    /\ status' = [status EXCEPT ![r] = "UPLOADED"]
    /\ UNCHANGED <<files, analyses, removing, halfDeleted, taskVars>>
StoreRow(r) ==
    /\ UploadTo(r, "saved", "stored")
    /\ status' = [status EXCEPT ![r] = "UPLOADED"]
    /\ UNCHANGED <<files, analyses, removing, halfDeleted, taskVars>>

Dispatch(r) ==
    /\ UploadTo(r, "stored", "over")
    /\ queue' = [queue EXCEPT ![r] = @ + 1]
    /\ UNCHANGED <<files, rowVars, removing, halfDeleted, delivered, worker, overlapped, killed>>

\* The commit or the dispatch fails, or the API process dies; nothing is undone.
UploadBreaks(r) ==
    /\ upload[r] \in {"saved", "stored"}
    /\ upload' = [upload EXCEPT ![r] = "broken"]
    /\ UNCHANGED <<files, rowVars, removing, halfDeleted, taskVars>>

-------------------------------------------------------------------------------
(* DELETE /resumes/{id}, one at a time; a broken one may be sent again.      *)

FindRow(r) ==
    /\ removing[r] = "no" /\ status[r] # "none"
    /\ removing' = [removing EXCEPT ![r] = "found"]
    /\ UNCHANGED <<files, rowVars, upload, halfDeleted, taskVars>>

\* A file that is not there is no error.
RemoveFile(r) ==
    /\ removing[r] = "found"
    /\ removing' = [removing EXCEPT ![r] = "file_gone"]
    /\ files' = files \ {r}
    /\ halfDeleted' = halfDeleted \cup {r}
    /\ UNCHANGED <<rowVars, upload, taskVars>>

\* The analyses go with the row.
DeleteRow(r) ==
    /\ removing[r] = "file_gone"
    /\ removing' = [removing EXCEPT ![r] = "no"]
    /\ status' = [status EXCEPT ![r] = "none"]
    /\ analyses' = [analyses EXCEPT ![r] = 0]
    /\ halfDeleted' = halfDeleted \ {r}
    /\ UNCHANGED <<files, upload, taskVars>>

DeleteBreaks(r) ==
    /\ removing[r] # "no"
    /\ removing' = [removing EXCEPT ![r] = "no"]
    /\ UNCHANGED <<files, rowVars, upload, halfDeleted, taskVars>>

-------------------------------------------------------------------------------
(* resume.process_resume                                                    *)

At(w, p) == Busy(w) /\ worker[w].pc = p
Goto(w, s) == worker' = [worker EXCEPT ![w] = s]
Done(w) == Goto(w, Idle) /\ UNCHANGED <<queue, delivered, overlapped, killed>>
RowsOnly == UNCHANGED <<files, upload, removing, halfDeleted>>

\* Defect for the mutant run: a READY resume is processed again.
MutTake(w, r) ==
    /\ ~Busy(w)
    /\ queue[r] > 0 /\ delivered[r] < MaxDeliveries /\ status[r] # "none"
    /\ queue' = [queue EXCEPT ![r] = @ - 1]
    /\ delivered' = [delivered EXCEPT ![r] = @ + 1]
    /\ Goto(w, Stage(r, "seen", status[r]))
    /\ overlapped' = IF On(r) # {} THEN overlapped \cup {r} ELSE overlapped
    /\ RowsOnly /\ UNCHANGED <<rowVars, killed>>
\* A worker takes the message and reads the row.  A resume that is gone fails
\* the task and one that is READY ends it; both are acknowledged at once.
Take(w, r) ==
    /\ ~Busy(w)
    /\ queue[r] > 0 /\ delivered[r] < MaxDeliveries
    /\ queue' = [queue EXCEPT ![r] = @ - 1]
    /\ delivered' = [delivered EXCEPT ![r] = @ + 1]
    /\ IF status[r] \in {"none", "READY"}
       THEN UNCHANGED <<worker, overlapped>>
       ELSE /\ Goto(w, Stage(r, "seen", status[r]))
            /\ overlapped' = IF On(r) # {} THEN overlapped \cup {r} ELSE overlapped
    /\ RowsOnly /\ UNCHANGED <<rowVars, killed>>

\* Defect for the mutant run: the failure leaves the row as it is.
MutGiveUp(w) == Done(w) /\ UNCHANGED rowVars
\* The except branch: FAILED if the row still exists.  The exception is raised
\* again, and since it is no provider error Celery does not retry it.
GiveUp(w) ==
    LET r == worker[w].resume
    IN  /\ status' = [status EXCEPT ![r] = IF @ = "none" THEN @ ELSE "FAILED"]
        /\ UNCHANGED analyses
        /\ Done(w)

\* status = PROCESSING is committed.  A session that read PROCESSING has nothing
\* to write and does not notice that the row is gone.
Mark(w) ==
    LET r == worker[w].resume
        same == worker[w].view = "PROCESSING"
    IN  /\ At(w, "seen")
        /\ IF status[r] = "none" /\ ~same
           THEN GiveUp(w)
           ELSE /\ status' = IF same THEN status ELSE [status EXCEPT ![r] = "PROCESSING"]
                /\ Goto(w, Stage(r, "marked", "PROCESSING"))
                /\ UNCHANGED <<analyses, queue, delivered, overlapped, killed>>
        /\ RowsOnly

ReadFile(w) ==
    LET r == worker[w].resume
    IN  /\ At(w, "marked") /\ r \in files
        /\ Goto(w, Stage(r, "read", "PROCESSING"))
        /\ RowsOnly /\ UNCHANGED <<rowVars, queue, delivered, overlapped, killed>>

\* Nothing to read, a storage error, a file no text can be extracted from (a
\* .doc, which the upload accepts, always is one).
ReadFails(w) == At(w, "marked") /\ GiveUp(w) /\ RowsOnly

\* Defect for the mutant run: the analysis is left out of the commit.
MutSaveAnalysis(w) ==
    /\ At(w, "read") /\ status[worker[w].resume] # "none"
    /\ status' = [status EXCEPT ![worker[w].resume] = "READY"]
    /\ UNCHANGED analyses
    /\ Done(w)
\* The analysis and READY in one commit, whatever the row says by now.
SaveAnalysis(w) ==
    LET r == worker[w].resume
    IN  /\ At(w, "read") /\ status[r] # "none"
        /\ status' = [status EXCEPT ![r] = "READY"]
        /\ analyses' = [analyses EXCEPT ![r] = @ + 1]
        /\ Done(w)

\* The commit fails, always so when the row was deleted meanwhile.
SaveFails(w) == At(w, "read") /\ GiveUp(w) /\ RowsOnly

Work(w) ==
    \/ Mark(w) \/ ReadFile(w) \/ ReadFails(w)
    \/ SaveAnalysis(w) /\ RowsOnly
    \/ SaveFails(w)

\* The worker process is lost and its message requeued.
Die(w) ==
    /\ Busy(w)
    /\ LET r == worker[w].resume
       IN  /\ delivered[r] + queue[r] < MaxDeliveries
           /\ queue' = [queue EXCEPT ![r] = @ + 1]
    /\ Goto(w, Idle)
    /\ RowsOnly /\ UNCHANGED <<rowVars, delivered, overlapped, killed>>

\* The visibility timeout of the broker: the message a worker still has is
\* delivered again.
Redeliver(r) ==
    /\ On(r) # {}
    /\ delivered[r] + queue[r] < MaxDeliveries
    /\ queue' = [queue EXCEPT ![r] = @ + 1]
    /\ RowsOnly /\ UNCHANGED <<rowVars, delivered, worker, overlapped, killed>>

\* task_time_limit: the task is killed and its message acknowledged.
TimeLimit(w) ==
    /\ Busy(w)
    /\ killed' = killed \cup {worker[w].resume}
    /\ Goto(w, Idle)
    /\ RowsOnly /\ UNCHANGED <<rowVars, queue, delivered, overlapped>>
===============================================================================
