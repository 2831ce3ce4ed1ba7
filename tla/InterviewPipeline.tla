------------------------- MODULE InterviewPipeline --------------------------
(***************************************************************************)
(* The processes around one interview: the API, which commits and then     *)
(* dispatches; the broker, which delivers each task at least once; the     *)
(* Celery workers, which run app/workers.py as several transactions with   *)
(* unlocked reads between them; and the candidate.                         *)
(*                                                                         *)
(* A worker's session keeps the Interview object between its transactions. *)
(* view[w] is that object: loaded at the first query, reloaded only where  *)
(* the code calls db.refresh or after a rollback, and handed to the        *)
(* service's actions in place of the row.                                  *)
(*                                                                         *)
(* The environment is chosen by constants: whether the candidate may       *)
(* finish by hand, and which faults can happen, MaxFaults of them in all.  *)
(***************************************************************************)
EXTENDS Naturals, FiniteSets, Bags, InterviewStateMachine

CONSTANTS
    TotalQuestions, MaxFollowUps, FollowUpAllowed, Keys, Texts,
    Workers,          \* Celery worker processes (docker-compose: 2)
    MaxRetries,       \* max_retries of the tasks (2 in the source)
    ManualFinish,     \* the candidate may call POST /finish
    Faults,           \* kinds of fault that can happen
    MaxFaults         \* bound on their number (the model's, not the code's)

FaultKinds == {"lost_dispatch", "worker_crash", "time_limit",
               "duplicate_delivery", "provider_error", "other_exception"}

ASSUME EnvironmentAssumption ==
    /\ MaxRetries \in Nat
    /\ ManualFinish \in BOOLEAN
    /\ Faults \subseteq FaultKinds
    /\ MaxFaults \in Nat

VARIABLES
    row, questions, answers, current, evaluated, followUps, idempotency,
    report, replies,  \* the database and the replies: see InterviewService
    owed,     \* what API requests still have to do after their commit (a bag)
    queue,    \* messages in the broker (a bag)
    job,      \* the message each worker holds unacknowledged
    pc,       \* where each worker is in its task
    view,     \* the Interview object of each worker's session
    faults    \* how many faults of each kind there were, and how many are left

Svc == INSTANCE InterviewService

\* What InterviewService assumes of an interview and its metadata.
ASSUME InterviewAssumption ==
    /\ TotalQuestions \in 1 .. 50
    /\ MaxFollowUps \in [Svc!Questions -> 0 .. 3]
    /\ FollowUpAllowed \in [Svc!Questions -> BOOLEAN]

database == <<row, questions, answers, current, evaluated, followUps,
              idempotency, report, replies>>
workers == <<job, pc, view>>
vars == <<database, owed, queue, workers, faults>>

Message(task, q, n) == [task |-> task, question |-> q, attempt |-> n, retries |-> 0]
Prepare == Message("prepare", 0, 0)
GenerateTask == Message("generate", 0, 0)
EvaluateTask(q, n) == Message("evaluate", q, n)
ReportTask == Message("report", 0, 0)
NoJob == Message("none", 0, 0)

Messages == [task : {"prepare", "generate", "evaluate", "report", "none"},
             question : Svc!Questions, attempt : Nat, retries : 0 .. MaxRetries]
NoView == [status |-> "CREATED", index |-> 0]

PCs == {"idle", "generate", "ready", "giveup", "failing", "evaluate", "refresh",
        "move", "settle", "report", "begin", "write", "complete", "done"}

TypeOK ==
    /\ Svc!TypeOK
    /\ \A b \in {owed, queue} : IsABag(b) /\ BagToSet(b) \subseteq Messages
    /\ job \in [Workers -> Messages]
    /\ pc \in [Workers -> PCs]
    /\ view \in [Workers -> Svc!Views]
    /\ faults \in [seen : [FaultKinds -> Nat], left : Nat]
    /\ \A kind \in FaultKinds :
          /\ faults.seen[kind] + faults.left <= MaxFaults
          /\ faults.seen[kind] > 0 => kind \in Faults

\* create_interview has committed the row; the same request goes on with
\* begin_preparation and the dispatch.
Init ==
    /\ Svc!Init
    /\ owed = SetToBag({Prepare})
    /\ queue = EmptyBag
    /\ job = [w \in Workers |-> NoJob]
    /\ pc = [w \in Workers |-> "idle"]
    /\ view = [w \in Workers |-> NoView]
    /\ faults = [seen |-> [kind \in FaultKinds |-> 0], left |-> MaxFaults]

Fault(kind) ==
    /\ kind \in Faults
    /\ faults.left > 0
    /\ faults' = [faults EXCEPT !.seen[kind] = @ + 1, !.left = @ - 1]

Owe(m) == owed' = owed (+) SetToBag({m})
Settled(m) == owed' = owed (-) SetToBag({m})
Send(m) == queue' = queue (+) SetToBag({m})

-----------------------------------------------------------------------------
(* The candidate and the API.                                              *)

ApiPrepare ==
    /\ BagIn(Prepare, owed)
    /\ Svc!BeginPreparation(row)
    /\ owed' = (owed (-) SetToBag({Prepare})) (+) SetToBag({GenerateTask})
    /\ UNCHANGED <<queue, workers, faults>>

ApiStart ==
    /\ Svc!StartInterview(row)
    /\ UNCHANGED <<owed, queue, workers, faults>>

\* Mutant of ApiSubmit: the evaluation is not dispatched.
MutApiSubmit(q, k, t) ==
    /\ Svc!SubmitAnswer(row, q, k, t, FALSE)
    /\ UNCHANGED <<owed, queue, workers, faults>>

\* The 202 is sent after the dispatch, so the commit alone tells nobody.
ApiSubmit(q, k, t) ==
    /\ Svc!SubmitAnswer(row, q, k, t, FALSE)
    /\ Owe(EvaluateTask(q, answers[q] + 1))
    /\ UNCHANGED <<queue, workers, faults>>

\* Mutant of ApiReplay: a duplicate is told of the question's current answer.
MutApiReplay(q, k, t) ==
    /\ \E s \in Svc!KeyRows(k) :
         /\ s.question = q /\ s.text = t
         /\ replies' = replies \cup {[s EXCEPT !.attempt = answers[q]]}
    /\ UNCHANGED <<row, questions, answers, current, evaluated, followUps,
                   idempotency, report, owed, queue, workers, faults>>

\* A retry with the same key: is_duplicate, so nothing is dispatched.
ApiReplay(q, k, t) ==
    /\ Svc!ReplayAnswer(q, k, t)
    /\ UNCHANGED <<owed, queue, workers, faults>>

ApiFinish ==
    /\ ManualFinish
    /\ Svc!FinishInterview(row)
    /\ Owe(ReportTask)
    /\ UNCHANGED <<queue, workers, faults>>

\* run_task after the commit.  The finish route refreshes the interview first
\* and dispatches only if it still reads COMPLETED; the answer route replies.
ApiDispatch(m) ==
    /\ BagIn(m, owed)
    /\ m # Prepare
    /\ Settled(m)
    /\ IF m = ReportTask /\ row.status # "COMPLETED"
       THEN UNCHANGED queue
       ELSE Send(m)
    /\ replies' = replies \cup
         {s \in idempotency : m = EvaluateTask(s.question, s.attempt)}
    /\ UNCHANGED <<row, questions, answers, current, evaluated, followUps,
                   idempotency, report, workers, faults>>

\* The API process dies after its commit, or the broker refuses the message.
LoseDispatch(m) ==
    /\ BagIn(m, owed)
    /\ Fault("lost_dispatch")
    /\ Settled(m)
    /\ UNCHANGED <<database, queue, workers>>

-----------------------------------------------------------------------------
(* Workers: taking and acknowledging a task.                               *)

Goto(w, label) == pc' = [pc EXCEPT ![w] = label]

Take(w) ==
    /\ pc[w] = "idle"
    /\ \E m \in BagToSet(queue) :
         /\ queue' = queue (-) SetToBag({m})
         /\ job' = [job EXCEPT ![w] = m]
         /\ Goto(w, m.task)
    /\ UNCHANGED <<database, owed, view, faults>>

\* task_acks_late: acknowledged when the task has returned or raised.
Ack(w) ==
    /\ pc[w] = "done"
    /\ job' = [job EXCEPT ![w] = NoJob]
    /\ view' = [view EXCEPT ![w] = NoView]
    /\ Goto(w, "idle")
    /\ UNCHANGED <<database, owed, queue, faults>>

\* Mutant of Die: tasks are acknowledged when they are taken (no acks_late).
MutDie(w) ==
    /\ pc[w] # "idle"
    /\ Fault("worker_crash")
    /\ job' = [job EXCEPT ![w] = NoJob]
    /\ view' = [view EXCEPT ![w] = NoView]
    /\ Goto(w, "idle")
    /\ UNCHANGED <<database, owed, queue>>

\* The worker process dies between two transactions.  task_reject_on_worker_lost
\* puts the message back in the queue; task_time_limit acknowledges it.
Die(w) ==
    /\ pc[w] # "idle"
    /\ \/ Fault("worker_crash") /\ Send(job[w])
       \/ Fault("time_limit") /\ UNCHANGED queue
    /\ job' = [job EXCEPT ![w] = NoJob]
    /\ view' = [view EXCEPT ![w] = NoView]
    /\ Goto(w, "idle")
    /\ UNCHANGED <<database, owed>>

\* At-least-once delivery: the broker redelivers a message still being worked on.
Redeliver(w) ==
    /\ pc[w] # "idle"
    /\ Fault("duplicate_delivery")
    /\ Send(job[w])
    /\ UNCHANGED <<database, owed, workers>>

\* Mutant of Raise: retries are compared with <=.
MutRaise(w) ==
    /\ Fault("provider_error")
    /\ job[w].retries <= MaxRetries
    /\ Send([job[w] EXCEPT !.retries = @ + 1])
    /\ Goto(w, "done")

\* _retry_if_transient: a provider error is queued again until max_retries;
\* any other exception (malformed output, say) ends the task.
Raise(w) ==
    /\ \/ /\ Fault("provider_error")
          /\ job[w].retries < MaxRetries
          /\ Send([job[w] EXCEPT !.retries = @ + 1])
       \/ /\ Fault("provider_error")
          /\ job[w].retries >= MaxRetries
          /\ UNCHANGED queue
       \/ /\ Fault("other_exception")
          /\ UNCHANGED queue
    /\ Goto(w, "done")

-----------------------------------------------------------------------------
(* Workers: generate_questions_work.                                       *)

\* The locked transaction: the session loads the interview and commits the
\* questions; its object is not refreshed.
GenerateQuestions(w) ==
    /\ pc[w] = "generate"
    /\ Svc!PersistQuestions(row)
    /\ view' = [view EXCEPT ![w] = row]
    /\ Goto(w, "ready")
    /\ UNCHANGED <<owed, queue, job, faults>>

\* Questions are there already (unique violation).
GenerateTwice(w) ==
    /\ pc[w] = "generate"
    /\ questions # {}
    /\ Goto(w, "giveup")
    /\ UNCHANGED <<database, owed, queue, job, view, faults>>

\* Provider and question bank both fail; the exception is not transient.
GenerateFails(w) ==
    /\ pc[w] = "generate"
    /\ Fault("other_exception")
    /\ Goto(w, "giveup")
    /\ UNCHANGED <<database, owed, queue, job, view>>

\* mark_ready on the remembered object.
MarkReady(w) ==
    /\ pc[w] = "ready"
    /\ IF view[w].status = "PREPARING"
       THEN Svc!MarkReady(view[w]) /\ Goto(w, "done")
       ELSE Goto(w, "giveup") /\ UNCHANGED database
    /\ UNCHANGED <<owed, queue, job, view, faults>>

\* After the rollback the status is read again, without a lock.
GiveUp(w) ==
    /\ pc[w] = "giveup"
    /\ view' = [view EXCEPT ![w] = row]
    /\ Goto(w, IF row.status = "FAILED" THEN "done" ELSE "failing")
    /\ UNCHANGED <<database, owed, queue, job, faults>>

\* Mutant of FailInterview: FAILED is written whatever the status is.
MutFailInterview(w) ==
    /\ pc[w] = "failing"
    /\ row' = [row EXCEPT !.status = "FAILED"]
    /\ Goto(w, "done")
    /\ UNCHANGED <<questions, answers, current, evaluated, followUps, idempotency,
                   report, replies, owed, queue, job, view, faults>>

\* fail_interview on what was read; its own exceptions are swallowed.
FailInterview(w) ==
    /\ pc[w] = "failing"
    /\ IF view[w].status = "REPORT_READY"
       THEN UNCHANGED database
       ELSE Svc!FailInterview(view[w])
    /\ Goto(w, "done")
    /\ UNCHANGED <<owed, queue, job, view, faults>>

-----------------------------------------------------------------------------
(* Workers: evaluate_answer_work.                                          *)

Evaluable(w) == Svc!Evaluable(row, job[w].question, job[w].attempt)

\* The interview moved on, or the answer is evaluated: return.
SkipEvaluation(w) ==
    /\ pc[w] = "evaluate"
    /\ ~Evaluable(w)
    /\ Goto(w, "done")
    /\ UNCHANGED <<database, owed, queue, job, view, faults>>

\* Lock, AI calls, evaluation, follow-up and advance_after_evaluation in one
\* transaction; the refresh that follows it is a step of its own.
EvaluateAnswer(w) ==
    /\ pc[w] = "evaluate"
    /\ \E needsFollowUp \in BOOLEAN :
         /\ Svc!SaveEvaluation(row, job[w].question, job[w].attempt, needsFollowUp)
         /\ Goto(w, IF needsFollowUp THEN "settle" ELSE "refresh")
    /\ UNCHANGED <<owed, queue, job, view, faults>>

EvaluationFails(w) ==
    /\ pc[w] = "evaluate"
    /\ Evaluable(w)
    /\ Raise(w)
    /\ UNCHANGED <<database, owed, job, view>>

\* db.refresh at the end of advance_after_evaluation: no lock is held.
RefreshInterview(w) ==
    /\ pc[w] = "refresh"
    /\ view' = [view EXCEPT ![w] = row]
    /\ Goto(w, "move")
    /\ UNCHANGED <<database, owed, queue, job, faults>>

\* move_to_next_question on the refreshed object; another status raises.
MoveToNextQuestion(w) ==
    /\ pc[w] = "move"
    /\ IF view[w].status = "NEXT_QUESTION"
       THEN Svc!MoveToNextQuestion(view[w]) /\ Goto(w, "settle")
       ELSE UNCHANGED database /\ Goto(w, "done")
    /\ UNCHANGED <<owed, queue, job, view, faults>>

\* Mutant of SettleEvaluation: the end of the interview enqueues nothing.
MutSettleEvaluation(w) ==
    /\ pc[w] = "settle"
    /\ Goto(w, "done")
    /\ UNCHANGED <<database, owed, queue, job, view, faults>>

\* The service refreshed after its commit; COMPLETED enqueues the report.  A
\* broker error raises, and the task ends.
SettleEvaluation(w) ==
    /\ pc[w] = "settle"
    /\ \/ row.status = "COMPLETED" /\ Send(ReportTask) /\ UNCHANGED faults
       \/ row.status = "COMPLETED" /\ Fault("lost_dispatch") /\ UNCHANGED queue
       \/ row.status # "COMPLETED" /\ UNCHANGED <<queue, faults>>
    /\ Goto(w, "done")
    /\ UNCHANGED <<database, owed, job, view>>

-----------------------------------------------------------------------------
(* Workers: generate_report_work.                                          *)

\* db.get without a lock.
CheckReport(w) ==
    /\ pc[w] = "report"
    /\ view' = [view EXCEPT ![w] = row]
    /\ Goto(w, IF ~report /\ row.status = "COMPLETED" THEN "begin" ELSE "done")
    /\ UNCHANGED <<database, owed, queue, job, faults>>

\* begin_report takes the lock but decides on the object loaded before it.
BeginReport(w) ==
    /\ pc[w] = "begin"
    /\ Svc!BeginReport(view[w])
    /\ Goto(w, "write")
    /\ UNCHANGED <<owed, queue, job, view, faults>>

\* Refresh, read the evaluations and call the provider.  No evaluation is a
\* ValueError, which is not retried.
WriteReport(w) ==
    /\ pc[w] = "write"
    /\ view' = [view EXCEPT ![w] = row]
    /\ Goto(w, IF evaluated = {} THEN "done" ELSE "complete")
    /\ UNCHANGED <<database, owed, queue, job, faults>>

ReportFails(w) ==
    /\ pc[w] = "write"
    /\ evaluated # {}
    /\ Raise(w)
    /\ UNCHANGED <<database, owed, job, view>>

\* Mutant of CompleteReport: the status is committed before the report is.
MutCompleteReport(w) ==
    /\ pc[w] = "complete"
    /\ row' = [row EXCEPT !.status = "REPORT_READY"]
    /\ Goto(w, "done")
    /\ UNCHANGED <<questions, answers, current, evaluated, followUps, idempotency,
                   report, replies, owed, queue, job, view, faults>>

\* Insert and complete_report in one transaction; a second report row or
\* another status raises and rolls back.
CompleteReport(w) ==
    /\ pc[w] = "complete"
    /\ IF view[w].status = "REPORT_GENERATING" /\ ~report
       THEN Svc!CompleteReport(view[w])
       ELSE UNCHANGED database
    /\ Goto(w, "done")
    /\ UNCHANGED <<owed, queue, job, view, faults>>

-----------------------------------------------------------------------------
Api ==
    \/ ApiPrepare
    \/ \E m \in BagToSet(owed) : ApiDispatch(m)

Candidate ==
    \/ ApiStart
    \/ \E q \in Svc!Questions, k \in Keys, t \in Texts :
         ApiSubmit(q, k, t) \/ ApiReplay(q, k, t)
    \/ ApiFinish

Work(w) ==
    \/ Take(w) \/ Ack(w)
    \/ GenerateQuestions(w) \/ GenerateTwice(w) \/ MarkReady(w)
    \/ GiveUp(w) \/ FailInterview(w)
    \/ SkipEvaluation(w) \/ EvaluateAnswer(w) \/ RefreshInterview(w)
    \/ MoveToNextQuestion(w) \/ SettleEvaluation(w)
    \/ CheckReport(w) \/ BeginReport(w) \/ WriteReport(w) \/ CompleteReport(w)

Misfortune ==
    \/ \E m \in BagToSet(owed) : LoseDispatch(m)
    \/ \E w \in Workers :
         \/ Die(w) \/ Redeliver(w)
         \/ GenerateFails(w) \/ EvaluationFails(w) \/ ReportFails(w)

Next == Api \/ Candidate \/ (\E w \in Workers : Work(w)) \/ Misfortune

Spec == Init /\ [][Next]_vars

\* A request that committed goes on to its dispatch and a worker that is up
\* goes on with its task; nothing is assumed of the candidate.
Fairness == WF_vars(Api) /\ \A w \in Workers : WF_vars(Work(w))
FairSpec == Spec /\ Fairness

-----------------------------------------------------------------------------
(* Properties that no interleaving and no fault may break.                 *)

\* Retries, replays and redeliveries included, keys and answers stay one to
\* one and a client is only ever told of the answer its key has
\* (service.py:278-322; the reply leaves after the dispatch).
SubmissionsSound == Svc!ExactlyOnceSubmission

\* However often an evaluation is delivered or retried, a question gets at most
\* its budget of follow-ups and one answer for each (workers.py:206-231).
FollowUpsSound == Svc!FollowUpDiscipline

\* The position passes no unanswered or unevaluated question, although it is
\* written from an object read before the lock (workers.py:233-235).
PositionSound == Svc!NothingSkipped

\* EVALUATING always names an answer that can still be evaluated, so a
\* redelivered task finds its work (workers.py:159-165).
EvaluationPossible == Svc!EvaluatingHasWork

\* GET /reports serves what REPORT_READY promises (resources.py:114-131): the
\* report is there and has evaluations behind it.
ReportReadyIsBacked ==
    /\ row.status = "REPORT_READY" => report
    /\ report => evaluated # {}

\* What is recorded is never taken back: the position does not return to an
\* earlier question, and no answer, evaluation, follow-up or report is lost.
RecordsOnlyGrow ==
    [][ /\ row'.index >= row.index
        /\ \A q \in Svc!Questions : answers'[q] >= answers[q]
        /\ \A q \in Svc!Questions : followUps[q] \subseteq followUps'[q]
        /\ evaluated \subseteq evaluated'
        /\ report => report' ]_vars

-----------------------------------------------------------------------------
(* Who carries the interview on.                                           *)

Waits(task) ==
    \E b \in {owed, queue} : \E m \in BagToSet(b) : m.task = task
Holds(task, labels) ==
    \E w \in Workers : job[w].task = task /\ pc[w] \in labels

\* An evaluation task for the newest answer at the position is dispatched or
\* about to be, or a worker has it and has not looked at it yet.
EvaluationUnderWay ==
    LET Mine(m) == /\ m.task = "evaluate"
                   /\ m.question = row.index
                   /\ m.attempt = current[row.index]
    IN  \/ \E b \in {owed, queue} : \E m \in BagToSet(b) : Mine(m)
        \/ \E w \in Workers : Mine(job[w]) /\ pc[w] = "evaluate"

NoFaults == \A kind \in FaultKinds : faults.seen[kind] = 0

\* The faults that delay a task and do not lose it: crashes, redeliveries and
\* as many provider errors as the task has retries.
OnlyDelays ==
    /\ \A kind \in {"lost_dispatch", "time_limit", "other_exception"} : faults.seen[kind] = 0
    /\ faults.seen["provider_error"] <= MaxRetries

\* Such faults never orphan a submitted answer, whatever the candidate does
\* meanwhile: while the interview is EVALUATING its task is somewhere
\* (tasks.py:14-15, 28-33).
AnswerNotOrphaned ==
    row.status = "EVALUATING" /\ OnlyDelays => EvaluationUnderWay

\* And the answer does get its evaluation, so EVALUATING is left.
EvaluationEnds ==
    row.status = "EVALUATING" /\ OnlyDelays ~> row.status # "EVALUATING" \/ ~OnlyDelays

\* Before the first fault every status the candidate cannot leave has somebody
\* who will: the request that owes the dispatch, the message or the worker.
SomeoneCarriesOn ==
    NoFaults =>
      CASE row.status = "CREATED"       -> Waits("prepare")
        [] row.status = "PREPARING"     -> \/ Waits("generate")
                                           \/ Holds("generate", {"generate", "ready"})
        [] row.status = "EVALUATING"    -> EvaluationUnderWay
        [] row.status = "NEXT_QUESTION" -> Holds("evaluate", {"refresh", "move"})
        [] row.status = "COMPLETED"     -> \/ Waits("report")
                                           \/ Holds("evaluate", {"settle"})
                                           \/ Holds("report", {"report", "begin"})
        [] row.status = "REPORT_GENERATING" ->
                                           Holds("report", {"write", "complete"})
        [] OTHER                        -> row.status # "FAILED"

\* Without faults the interview always comes back to the candidate: ready to
\* start, waiting for an answer, or with its report (README.md:81, 87-90).
ReturnsToCandidate ==
    []<>(\/ row.status \in {"READY", "WAITING_FOR_ANSWER", "FOLLOW_UP_REQUIRED",
                            "REPORT_READY"}
         \/ ~NoFaults)

\* A worker that keeps its Interview object over several transactions commits
\* only what transactions on a fresh row could: the pipeline implements the
\* service.  True of one worker and a candidate who does not finish by hand.
ImplementsService == Svc!Spec

-----------------------------------------------------------------------------
(* What the documents say and the code does not do.                        *)

\* "COMPLETED -> REPORT_GENERATING, FAILED" (docs/interview-state-machine.md:31).
\* A worker whose object still says NEXT_QUESTION takes the lock after
\* POST /finish and writes over COMPLETED (workers.py:233-235).
CompletedIsNotReopened ==
    [][row.status = "COMPLETED" =>
          row'.status \in {"COMPLETED", "REPORT_GENERATING", "FAILED"}]_vars

\* "REPORT_READY and FAILED are terminal states" (README.md:81).  Two workers can
\* enqueue the report; the second report task checked COMPLETED without the
\* lock and writes REPORT_GENERATING over REPORT_READY (workers.py:255-263).
TerminalStatusesStay ==
    [][row.status \in {"REPORT_READY", "FAILED"} => row'.status = row.status]_vars

\* "completed interviews move through report generation to REPORT_READY"
\* (README.md:81), those finished before any evaluation too: generate_report_work
\* commits REPORT_GENERATING and then raises (workers.py:263-273).
FinishedEarlyGetsReport ==
    row.status = "COMPLETED" /\ evaluated = {} ~> row.status = "REPORT_READY"

\* Tasks are "durable asynchronous interview work" (tasks.py:1) that advances
\* the question (README.md:90).  A worker lost between the two commits leaves
\* NEXT_QUESTION, and the redelivered task returns early (workers.py:159-160).
NextQuestionIsLeft ==
    row.status = "NEXT_QUESTION" ~> row.status # "NEXT_QUESTION"
=============================================================================
