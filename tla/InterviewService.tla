-------------------------- MODULE InterviewService --------------------------
(***************************************************************************)
(* One interview in the database, and one action per transaction that      *)
(* app/interviews/service.py and the workers commit on it.                 *)
(*                                                                         *)
(* Every transaction decides on the Interview object its SQLAlchemy        *)
(* session holds.  SELECT ... FOR UPDATE takes the row lock but does not   *)
(* reload an object the session already loaded (the session factory sets   *)
(* expire_on_commit=False and no query asks for populate_existing), so the *)
(* object, the VIEW, is a parameter of each action: its guards read the    *)
(* view, its writes go to the row.  Here Next passes the row itself, which *)
(* is what a session opened for one request sees; InterviewPipeline passes *)
(* what longer-lived sessions remember.                                    *)
(***************************************************************************)
EXTENDS Naturals, FiniteSets, InterviewStateMachine

CONSTANTS
    TotalQuestions,   \* interview.total_questions, 1..50
    MaxFollowUps,     \* max_follow_ups in each question's metadata, 0..3
    FollowUpAllowed,  \* follow_up_allowed in each question's metadata
    Keys,             \* idempotency keys clients choose
    Texts             \* answer texts (with the time taken: what is hashed)

Questions == 0 .. TotalQuestions - 1

ASSUME TotalQuestionsAssumption == TotalQuestions \in 1 .. 50
ASSUME MetadataAssumption ==
    /\ MaxFollowUps \in [Questions -> 0 .. 3]
    /\ FollowUpAllowed \in [Questions -> BOOLEAN]

VARIABLES
    row,          \* interviews: status and current_question_index
    questions,    \* interview_questions: the order_index values persisted
    answers,      \* answers: highest attempt_number per question (1..n exist)
    current,      \* current_answer_id per question, as an attempt; 0 is NULL
    evaluated,    \* answer_evaluations: the answers <<question, attempt>>
    followUps,    \* interview_follow_ups: triggering attempts per question
    idempotency,  \* answer_idempotency_keys
    report,       \* a performance_reports row (with its feedback) exists
    replies       \* history: what clients were told about their submissions

vars == <<row, questions, answers, current, evaluated, followUps,
          idempotency, report, replies>>

Views == [status : Statuses, index : Nat]
Submission == [key : Keys, question : Questions, text : Texts, attempt : Nat \ {0}]

TypeOK ==
    /\ row \in Views
    /\ questions \in SUBSET Questions
    /\ answers \in [Questions -> Nat]
    /\ current \in [Questions -> Nat]
    /\ evaluated \in SUBSET (Questions \X Nat)
    /\ followUps \in [Questions -> SUBSET Nat]
    /\ idempotency \in SUBSET Submission
    /\ report \in BOOLEAN
    /\ replies \in SUBSET Submission

\* create_interview commits the row CREATED before anything else can see it.
Init ==
    /\ row = [status |-> "CREATED", index |-> 0]
    /\ questions = {}
    /\ answers = [q \in Questions |-> 0]
    /\ current = [q \in Questions |-> 0]
    /\ evaluated = {}
    /\ followUps = [q \in Questions |-> {}]
    /\ idempotency = {}
    /\ report = FALSE
    /\ replies = {}

-----------------------------------------------------------------------------
(* Helpers.                                                                *)

\* Mutant of Transition: the status is written without validate_transition.
MutTransition(v, target) == row' = [row EXCEPT !.status = target]

\* transition_interview: the edge is validated against the VIEW's status;
\* the UPDATE writes the status column and nothing else.
Transition(v, target) ==
    /\ Allowed(v.status, target)
    /\ row' = [row EXCEPT !.status = target]

\* ORDER BY order_index LIMIT 1 over a set of order_index values.
Lowest(S) == CHOOSE q \in S : \A r \in S : q <= r

\* Mutant of Later: any other question counts as a next one.
MutLater(v) == questions \ {v.index}

\* Questions with order_index > current_question_index.
Later(v) == {q \in questions : q > v.index}

\* int(meta.get("max_follow_ups", 1) or 1): a stored 0 counts as 1.
Budget(q) == IF MaxFollowUps[q] = 0 THEN 1 ELSE MaxFollowUps[q]

\* Mutant of MayFollowUp: the budget is compared with <=.
MutMayFollowUp(q) == FollowUpAllowed[q] /\ Cardinality(followUps[q]) <= Budget(q)

\* FollowUpService.decide may ask again only below the budget, and the worker
\* also wants follow_up_allowed.
MayFollowUp(q) == FollowUpAllowed[q] /\ Cardinality(followUps[q]) < Budget(q)

KeyRows(k) == {s \in idempotency : s.key = k}

-----------------------------------------------------------------------------
(* Preparation.                                                            *)

BeginPreparation(v) ==
    /\ Transition(v, "PREPARING")
    /\ UNCHANGED <<questions, answers, current, evaluated, followUps,
                   idempotency, report, replies>>

\* Mutant of PersistQuestions: order_index counts from 1.
MutPersistQuestions(v) ==
    /\ v.status # "CREATED"
    /\ questions = {}
    /\ questions' = 1 .. TotalQuestions
    /\ UNCHANGED <<row, answers, current, evaluated, followUps,
                   idempotency, report, replies>>

\* generate_questions_work, first transaction: all questions or none.  The
\* unique (interview_id, order_index) rolls a second run back; the status is
\* not looked at, but the task exists only once begin_preparation committed.
PersistQuestions(v) ==
    /\ v.status # "CREATED"
    /\ questions = {}
    /\ questions' = Questions
    /\ UNCHANGED <<row, answers, current, evaluated, followUps,
                   idempotency, report, replies>>

MarkReady(v) ==
    /\ v.status = "PREPARING"
    /\ questions # {}
    /\ Transition(v, "READY")
    /\ UNCHANGED <<questions, answers, current, evaluated, followUps,
                   idempotency, report, replies>>

\* Called by the generation task for whatever status it finds.
FailInterview(v) ==
    /\ v.status # "REPORT_READY"
    /\ Transition(v, "FAILED")
    /\ UNCHANGED <<questions, answers, current, evaluated, followUps,
                   idempotency, report, replies>>

\* READY -> IN_PROGRESS -> WAITING_FOR_ANSWER in one commit.
StartInterview(v) ==
    /\ v.status = "READY"
    /\ IF questions = {}
       THEN Transition(v, "FAILED")
       ELSE /\ Allowed(v.status, "IN_PROGRESS")
            /\ Allowed("IN_PROGRESS", "WAITING_FOR_ANSWER")
            /\ row' = [status |-> "WAITING_FOR_ANSWER", index |-> Lowest(questions)]
    /\ UNCHANGED <<questions, answers, current, evaluated, followUps,
                   idempotency, report, replies>>

-----------------------------------------------------------------------------
(* Answers.                                                                *)

\* Mutant of Accepts: the position is not compared.
MutAcceptsAnyQuestion(v, q, k) ==
    /\ q \in questions
    /\ KeyRows(k) = {}
    /\ v.status \in {"WAITING_FOR_ANSWER", "FOLLOW_UP_REQUIRED"}

\* Mutant of Accepts: a key used before is not looked up.
MutAcceptsReusedKey(v, q, k) ==
    /\ q \in questions
    /\ v.status \in {"WAITING_FOR_ANSWER", "FOLLOW_UP_REQUIRED"}
    /\ q = v.index

\* What submit_answer checks before it writes: a key never used here, a view
\* that accepts answers, and the question at the view's position.
Accepts(v, q, k) ==
    /\ q \in questions
    /\ KeyRows(k) = {}
    /\ v.status \in {"WAITING_FOR_ANSWER", "FOLLOW_UP_REQUIRED"}
    /\ q = v.index

\* Mutant of SubmitAnswer: current_answer_id keeps the earlier answer.
MutSubmitAnswer(v, q, k, t, told) ==
    LET n == answers[q] + 1
        s == [key |-> k, question |-> q, text |-> t, attempt |-> n]
    IN  /\ Accepts(v, q, k)
        /\ row' = [row EXCEPT !.status = "EVALUATING"]
        /\ answers' = [answers EXCEPT ![q] = n]
        /\ idempotency' = idempotency \cup {s}
        /\ replies' = IF told THEN replies \cup {s} ELSE replies
        /\ UNCHANGED <<questions, current, evaluated, followUps, report>>

\* FOLLOW_UP_REQUIRED first moves to WAITING_FOR_ANSWER, then on to EVALUATING,
\* in the same commit as the answer, the pointer and the key.  The HTTP
\* response (told) may be lost after the commit.
SubmitAnswer(v, q, k, t, told) ==
    LET n == answers[q] + 1
        s == [key |-> k, question |-> q, text |-> t, attempt |-> n]
    IN  /\ Accepts(v, q, k)
        /\ \/ Allowed(v.status, "EVALUATING")
           \/ /\ v.status = "FOLLOW_UP_REQUIRED"
              /\ Allowed(v.status, "WAITING_FOR_ANSWER")
              /\ Allowed("WAITING_FOR_ANSWER", "EVALUATING")
        /\ row' = [row EXCEPT !.status = "EVALUATING"]
        /\ answers' = [answers EXCEPT ![q] = n]
        /\ current' = [current EXCEPT ![q] = n]
        /\ idempotency' = idempotency \cup {s}
        /\ replies' = IF told THEN replies \cup {s} ELSE replies
        /\ UNCHANGED <<questions, evaluated, followUps, report>>

\* The same key with the same question and text: the original answer is
\* returned, in any status, and nothing is written.  (Another payload is
\* DuplicateSubmission, which changes nothing and answers nothing.)
ReplayAnswer(q, k, t) ==
    /\ \E s \in KeyRows(k) :
         /\ s.question = q /\ s.text = t
         /\ replies' = replies \cup {s}
    /\ UNCHANGED <<row, questions, answers, current, evaluated, followUps,
                   idempotency, report>>

\* What evaluate_answer_work checks under the lock before it calls the AI.
Evaluable(v, q, n) ==
    /\ v.status = "EVALUATING"
    /\ current[q] = n
    /\ <<q, n>> \notin evaluated

\* Mutant of SaveEvaluation: the evaluation is stored whatever the status is,
\* and only the status change is left out.
MutSaveEvaluation(v, q, n, needsFollowUp) ==
    /\ current[q] = n
    /\ <<q, n>> \notin evaluated
    /\ evaluated' = evaluated \cup {<<q, n>>}
    /\ UNCHANGED <<row, questions, answers, current, followUps, idempotency,
                   report, replies>>

\* evaluate_answer_work up to the commit inside advance_after_evaluation:
\* evaluation row, follow-up row and status in one transaction.
SaveEvaluation(v, q, n, needsFollowUp) ==
    /\ Evaluable(v, q, n)
    /\ evaluated' = evaluated \cup {<<q, n>>}
    /\ \/ /\ needsFollowUp
          /\ MayFollowUp(q)
          /\ followUps' = [followUps EXCEPT ![q] = @ \cup {n}]
          /\ Transition(v, "FOLLOW_UP_REQUIRED")
       \/ /\ ~needsFollowUp
          /\ Transition(v, "NEXT_QUESTION")
          /\ UNCHANGED followUps
    /\ UNCHANGED <<questions, answers, current, idempotency, report, replies>>

\* finish_interview: by the candidate, or by move_to_next_question at the end.
FinishInterview(v) ==
    /\ v.status \in {"IN_PROGRESS", "WAITING_FOR_ANSWER", "EVALUATING",
                     "FOLLOW_UP_REQUIRED", "NEXT_QUESTION"}
    /\ Transition(v, "COMPLETED")
    /\ UNCHANGED <<questions, answers, current, evaluated, followUps,
                   idempotency, report, replies>>

MoveToNextQuestion(v) ==
    \/ /\ v.status = "FOLLOW_UP_REQUIRED"
       /\ Transition(v, "WAITING_FOR_ANSWER")
       /\ UNCHANGED <<questions, answers, current, evaluated, followUps,
                      idempotency, report, replies>>
    \/ /\ v.status = "NEXT_QUESTION"
       /\ Later(v) # {}
       /\ Allowed(v.status, "WAITING_FOR_ANSWER")
       /\ row' = [status |-> "WAITING_FOR_ANSWER", index |-> Lowest(Later(v))]
       /\ UNCHANGED <<questions, answers, current, evaluated, followUps,
                      idempotency, report, replies>>
    \/ /\ v.status = "NEXT_QUESTION"
       /\ Later(v) = {}
       /\ FinishInterview(v)

-----------------------------------------------------------------------------
(* Report.                                                                 *)

BeginReport(v) ==
    /\ v.status = "COMPLETED"
    /\ Transition(v, "REPORT_GENERATING")
    /\ UNCHANGED <<questions, answers, current, evaluated, followUps,
                   idempotency, report, replies>>

\* Mutant of CompleteReport: a report over no evaluations.
MutCompleteReport(v) ==
    /\ v.status = "REPORT_GENERATING"
    /\ ~report
    /\ report' = TRUE
    /\ Transition(v, "REPORT_READY")
    /\ UNCHANGED <<questions, answers, current, evaluated, followUps,
                   idempotency, replies>>

\* generate_report_work, last transaction: it raised earlier when there was no
\* evaluation to average, and the unique interview_id admits one report.
CompleteReport(v) ==
    /\ v.status = "REPORT_GENERATING"
    /\ evaluated # {}
    /\ ~report
    /\ report' = TRUE
    /\ Transition(v, "REPORT_READY")
    /\ UNCHANGED <<questions, answers, current, evaluated, followUps,
                   idempotency, replies>>

-----------------------------------------------------------------------------
(* Every transaction on a freshly loaded row, in any order.                *)

Next ==
    \/ BeginPreparation(row)
    \/ PersistQuestions(row)
    \/ MarkReady(row)
    \/ FailInterview(row)
    \/ StartInterview(row)
    \/ \E q \in Questions, k \in Keys, t \in Texts, told \in BOOLEAN :
         SubmitAnswer(row, q, k, t, told)
    \/ \E q \in Questions, k \in Keys, t \in Texts : ReplayAnswer(q, k, t)
    \/ \E q \in Questions, needsFollowUp \in BOOLEAN :
         \E n \in 1 .. answers[q] : SaveEvaluation(row, q, n, needsFollowUp)
    \/ MoveToNextQuestion(row)
    \/ FinishInterview(row)
    \/ BeginReport(row)
    \/ CompleteReport(row)

Spec == Init /\ [][Next]_vars

-----------------------------------------------------------------------------
(* Properties.                                                             *)

\* While the interview waits for an evaluation there is one to make: the
\* newest answer of the question at the current position is the one
\* current_answer_id names, and it has no evaluation yet.  Otherwise
\* evaluate_answer_work returns early (workers.py:159-165) and the interview
\* never leaves EVALUATING.
EvaluatingHasWork ==
    row.status = "EVALUATING" =>
        /\ row.index \in questions
        /\ answers[row.index] > 0
        /\ current[row.index] = answers[row.index]
        /\ <<row.index, answers[row.index]>> \notin evaluated

\* The position passes a question only when it has an answer and every answer
\* to it is evaluated, no later question is answered yet, and the only answer
\* that can miss its evaluation is the newest one at the position.
NothingSkipped ==
    \A q \in Questions :
        /\ q < row.index => answers[q] > 0
        /\ q > row.index => answers[q] = 0
        /\ \A n \in 1 .. answers[q] :
              <<q, n>> \in evaluated \/ (q = row.index /\ n = answers[q])

\* A question is answered again only because a persisted follow-up asked for
\* it: one answer more than follow-ups at most, never more follow-ups than the
\* question's budget, and each one triggered by an evaluated answer.
FollowUpDiscipline ==
    \A q \in Questions :
        /\ answers[q] <= 1 + Cardinality(followUps[q])
        /\ Cardinality(followUps[q]) <= IF FollowUpAllowed[q] THEN Budget(q) ELSE 0
        /\ \A n \in followUps[q] : <<q, n>> \in evaluated

\* Submissions take effect exactly once: key rows and answers correspond one
\* to one, and whatever a client was told (first reply or replay) is the row
\* its key still has, so a retry can never be told of another answer.
ExactlyOnceSubmission ==
    /\ \A s, r \in idempotency :
          s.key = r.key \/ <<s.question, s.attempt>> = <<r.question, r.attempt>> => s = r
    /\ \A q \in Questions : \A n \in 1 .. answers[q] :
          \E s \in idempotency : s.question = q /\ s.attempt = n
    /\ \A s \in idempotency : s.attempt <= answers[s.question]
    /\ replies \subseteq idempotency

\* GET /reports serves a report exactly when the status says REPORT_READY
\* (resources.py:114-131): the row is there then and only then, and it was
\* averaged from at least one evaluation.
ReportMatchesStatus ==
    /\ report <=> row.status = "REPORT_READY"
    /\ report => evaluated # {}

\* From the moment reporting begins the evaluations it averages are frozen:
\* no answer, evaluation or follow-up arrives any more.
EvidenceFrozen ==
    [][row.status \in {"COMPLETED", "REPORT_GENERATING", "REPORT_READY"} =>
          UNCHANGED <<answers, evaluated, followUps, current>>]_vars

\* current_question_index moves one question at a time, forward, and only from
\* a question whose answers are all evaluated and whose last answer called
\* for no follow-up.
PositionAdvances ==
    [][row'.index # row.index =>
          /\ row'.index = row.index + 1
          /\ answers[row.index] \notin followUps[row.index]
          /\ \A n \in 1 .. answers[row.index] : <<row.index, n>> \in evaluated]_vars

\* The committed status follows the lifecycle.
Lifecycle == INSTANCE InterviewLifecycle WITH status <- row.status
ImplementsLifecycle == Lifecycle!Spec
NeverGoesBack == Lifecycle!NeverGoesBack
=============================================================================
