----------------------- MODULE InterviewServiceProofs -----------------------
(***************************************************************************)
(* Machine-checked proofs about InterviewService, for every number of      *)
(* questions, every metadata, every set of keys and texts.                 *)
(*                                                                         *)
(* The invariants are not inductive alone: an answer is accepted in        *)
(* WAITING_FOR_ANSWER and FOLLOW_UP_REQUIRED, so what holds of the answers *)
(* at the position in THOSE statuses is what carries the argument.  IInv   *)
(* adds it (Position), the shape of the tables (Tables) and which statuses *)
(* imply that questions exist (Prepared).                                  *)
(***************************************************************************)
EXTENDS InterviewService, FiniteSetTheorems, TLAPS

Live == {"WAITING_FOR_ANSWER", "EVALUATING", "FOLLOW_UP_REQUIRED", "NEXT_QUESTION"}

Prepared ==
    /\ questions \in {{}, Questions}
    /\ row.index \in Questions
    /\ row.status # "IN_PROGRESS"
    /\ row.status \in Live \cup {"READY"} => questions = Questions
    /\ row.status \in {"CREATED", "PREPARING", "READY"} =>
          row.index = 0 /\ \A q \in Questions : answers[q] = 0

Tables ==
    /\ current = answers
    /\ \A a \in evaluated : a[2] \in 1 .. answers[a[1]]
    /\ \A q \in Questions : IsFiniteSet(followUps[q])

Position ==
    /\ row.status \in {"WAITING_FOR_ANSWER", "FOLLOW_UP_REQUIRED", "NEXT_QUESTION"} =>
          \A n \in 1 .. answers[row.index] : <<row.index, n>> \in evaluated
    /\ row.status \in {"WAITING_FOR_ANSWER", "FOLLOW_UP_REQUIRED"} =>
          answers[row.index] <= Cardinality(followUps[row.index])
    /\ row.status = "NEXT_QUESTION" =>
          answers[row.index] > 0 /\ answers[row.index] \notin followUps[row.index]

\* What holds of the tables, the position and the submissions even if some of
\* the transactions decide on an old object (InterviewPipelineProofs).
Core ==
    /\ TypeOK
    /\ Prepared
    /\ Tables
    /\ Position
    /\ EvaluatingHasWork
    /\ NothingSkipped
    /\ FollowUpDiscipline
    /\ ExactlyOnceSubmission

IInv == Core /\ ReportMatchesStatus

-----------------------------------------------------------------------------
(* Facts about the operators.                                              *)

\* 0 is a question, and questions are naturals.
LEMMA QuestionsNat ==
    /\ TotalQuestions \in Nat
    /\ Questions \subseteq Nat
    /\ 0 \in Questions
    /\ \A q \in Questions : \A m \in Nat : m <= q => m \in Questions
BY TotalQuestionsAssumption DEF Questions

\* The first of a set of order_index values is its least element.
LEMMA LowestIs ==
    ASSUME NEW S \in SUBSET Nat, NEW m \in S, \A r \in S : m <= r
    PROVE  Lowest(S) = m
<1> DEFINE IsLeast(q) == q \in S /\ \A r \in S : q <= r
<1>1. IsLeast(m)
  OBVIOUS
<1>2. IsLeast(Lowest(S))
  BY <1>1 DEF Lowest
<1>3. \A q : IsLeast(q) => q = m
  <2> SUFFICES ASSUME NEW q, IsLeast(q) PROVE q = m
    OBVIOUS
  <2>1. q \in Nat /\ m \in Nat /\ q <= m /\ m <= q
    OBVIOUS
  <2> QED
    BY <2>1
<1> QED
  BY <1>2, <1>3

\* With all questions persisted, the one after the position is its successor.
LEMMA NextQuestion ==
    ASSUME NEW v, v.index \in Questions, questions = Questions, Later(v) # {}
    PROVE  /\ v.index + 1 \in Questions
           /\ Lowest(Later(v)) = v.index + 1
<1>1. Later(v) \in SUBSET Nat
  BY QuestionsNat DEF Later
<1>2. PICK q \in Questions : q > v.index
  BY DEF Later
<1>3. q \in Nat /\ v.index \in Nat
  BY <1>2, QuestionsNat
<1> DEFINE i == v.index
<1> HIDE DEF i
<1>4. i + 1 \in Nat /\ i + 1 <= q
  BY <1>2, <1>3 DEF i
<1>5. i + 1 \in Questions
  BY <1>2, <1>4, QuestionsNat
<1>6. i + 1 \in Later(v)
  BY <1>3, <1>5 DEF Later, i
<1>7. \A r \in Later(v) : i + 1 <= r
  <2> SUFFICES ASSUME NEW r \in Later(v) PROVE i + 1 <= r
    OBVIOUS
  <2>1. r \in Nat /\ r > i /\ i \in Nat
    BY <1>1, <1>3 DEF Later, i
  <2> QED
    BY <2>1
<1>8. Lowest(Later(v)) = i + 1
  BY <1>1, <1>6, <1>7, LowestIs
<1> QED
  BY <1>5, <1>8 DEF i

\* One more triggering attempt adds one to the number of follow-ups.
LEMMA OneMoreFollowUp ==
    ASSUME NEW S, IsFiniteSet(S), NEW n, n \notin S
    PROVE  /\ IsFiniteSet(S \cup {n})
           /\ Cardinality(S \cup {n}) = Cardinality(S) + 1
           /\ Cardinality(S) \in Nat
BY FS_AddElement, FS_CardinalityType

\* The budget of a question is a natural, 1 to 3.
LEMMA BudgetType == \A q \in Questions : Budget(q) \in 1 .. 3
BY MetadataAssumption DEF Budget

-----------------------------------------------------------------------------
(* Initially.                                                              *)

LEMMA InitIInv == Init => IInv
<1> SUFFICES ASSUME Init PROVE IInv
  OBVIOUS
<1>1. \A q \in Questions : IsFiniteSet(followUps[q]) /\ Cardinality(followUps[q]) = 0
  BY FS_EmptySet DEF Init
<1>2. TypeOK
  BY DEF Init, TypeOK, Views, Statuses
<1>3. Prepared
  BY QuestionsNat DEF Init, Prepared, Live
<1>4. Tables /\ Position
  BY <1>1 DEF Init, Tables, Position
<1>5. EvaluatingHasWork /\ ReportMatchesStatus
  BY DEF Init, EvaluatingHasWork, ReportMatchesStatus
<1>6. NothingSkipped
  BY QuestionsNat DEF Init, NothingSkipped
<1>7. FollowUpDiscipline
  BY <1>1, BudgetType DEF Init, FollowUpDiscipline
<1>8. ExactlyOnceSubmission
  BY DEF Init, ExactlyOnceSubmission
<1> QED
  BY <1>2, <1>3, <1>4, <1>5, <1>6, <1>7, <1>8 DEF IInv, Core

-----------------------------------------------------------------------------
(* Steps that write the status column only.                                *)

\* What a write of another status leaves alone: everything that speaks of the
\* tables and the position.
LEMMA StatusColumn ==
    ASSUME Core, NEW t \in Statuses, t # "IN_PROGRESS",
           row' = [row EXCEPT !.status = t],
           report' \in BOOLEAN,
           UNCHANGED <<questions, answers, current, evaluated, followUps,
                       idempotency, replies>>
    PROVE  /\ row'.status = t
           /\ row'.index = row.index
           /\ TypeOK'
           /\ Tables'
           /\ NothingSkipped'
           /\ FollowUpDiscipline'
           /\ ExactlyOnceSubmission'
<1> USE DEF Core
<1>1. row' \in Views /\ row'.status = t /\ row'.index = row.index
  BY DEF TypeOK, Views
<1>2. TypeOK'
  BY <1>1 DEF TypeOK
<1>3. Tables' /\ FollowUpDiscipline' /\ ExactlyOnceSubmission'
  BY DEF Tables, FollowUpDiscipline, ExactlyOnceSubmission, Budget
<1>4. NothingSkipped'
  BY <1>1 DEF NothingSkipped
<1> QED
  BY <1>1, <1>2, <1>3, <1>4

\* Steps that end the interview or report on it, whatever the status was.
LEMMA EndingStep ==
    ASSUME Core, NEW t \in {"FAILED", "COMPLETED", "REPORT_GENERATING", "REPORT_READY"},
           row' = [row EXCEPT !.status = t],
           report' \in BOOLEAN,
           UNCHANGED <<questions, answers, current, evaluated, followUps,
                       idempotency, replies>>
    PROVE  Core'
<1>1. t \in Statuses /\ t # "IN_PROGRESS"
  BY DEF Statuses
<1>2. /\ row'.status = t
      /\ row'.index = row.index
      /\ TypeOK' /\ Tables' /\ NothingSkipped'
      /\ FollowUpDiscipline' /\ ExactlyOnceSubmission'
  BY <1>1, StatusColumn
<1>3. Prepared'
  BY <1>2 DEF Core, Prepared, Live
<1>4. Position' /\ EvaluatingHasWork'
  BY <1>2 DEF Position, EvaluatingHasWork
<1> QED
  BY <1>2, <1>3, <1>4 DEF Core

LEMMA BeginPreparationStep ==
    ASSUME Core, BeginPreparation(row) PROVE Core'
<1>1. /\ row.status = "CREATED"
      /\ row' = [row EXCEPT !.status = "PREPARING"]
      /\ UNCHANGED <<questions, answers, current, evaluated, followUps,
                     idempotency, report, replies>>
  BY DEF BeginPreparation, Transition, Allowed, ALLOWED_TRANSITIONS
<1>2. /\ row'.status = "PREPARING"
      /\ row'.index = row.index
      /\ TypeOK' /\ Tables' /\ NothingSkipped'
      /\ FollowUpDiscipline' /\ ExactlyOnceSubmission'
  BY <1>1, StatusColumn DEF Statuses, Core, TypeOK
<1>3. Prepared'
  BY <1>1, <1>2 DEF Core, Prepared, Live
<1>4. Position' /\ EvaluatingHasWork'
  BY <1>2 DEF Position, EvaluatingHasWork
<1> QED
  BY <1>2, <1>3, <1>4 DEF Core

LEMMA PersistQuestionsStep ==
    ASSUME Core, PersistQuestions(row) PROVE Core'
<1>1. /\ questions = {} /\ questions' = Questions
      /\ UNCHANGED <<row, answers, current, evaluated, followUps,
                     idempotency, report, replies>>
  BY DEF PersistQuestions
<1>2. TypeOK'
  BY <1>1 DEF Core, TypeOK
<1>3. Prepared'
  BY <1>1 DEF Core, Prepared
<1>4. Tables' /\ Position'
  BY <1>1 DEF Core, Tables, Position
<1>5. EvaluatingHasWork'
  BY <1>1 DEF Core, Prepared, EvaluatingHasWork
<1>6. NothingSkipped' /\ ExactlyOnceSubmission'
  BY <1>1 DEF Core, NothingSkipped, ExactlyOnceSubmission
<1>7. FollowUpDiscipline'
  BY <1>1 DEF Core, FollowUpDiscipline, Budget
<1> QED
  BY <1>2, <1>3, <1>4, <1>5, <1>6, <1>7 DEF Core

\* READY, as long as nobody has answered.
LEMMA ReadyStep ==
    ASSUME Core, questions # {}, row.index = 0, \A q \in Questions : answers[q] = 0,
           row' = [row EXCEPT !.status = "READY"],
           UNCHANGED <<questions, answers, current, evaluated, followUps,
                       idempotency, report, replies>>
    PROVE  Core'
<1>1. /\ row'.status = "READY"
      /\ row'.index = row.index
      /\ TypeOK' /\ Tables' /\ NothingSkipped'
      /\ FollowUpDiscipline' /\ ExactlyOnceSubmission'
  BY StatusColumn DEF Statuses, Core, TypeOK
<1>2. Prepared'
  BY <1>1 DEF Core, Prepared, Live
<1>3. Position' /\ EvaluatingHasWork'
  BY <1>1 DEF Position, EvaluatingHasWork
<1> QED
  BY <1>1, <1>2, <1>3 DEF Core

LEMMA MarkReadyStep ==
    ASSUME Core, MarkReady(row) PROVE Core'
BY ReadyStep DEF MarkReady, Transition, Core, Prepared

LEMMA FailInterviewStep ==
    ASSUME Core, FailInterview(row) PROVE Core'
BY EndingStep DEF FailInterview, Transition, Core, TypeOK

LEMMA FinishInterviewStep ==
    ASSUME Core, FinishInterview(row) PROVE Core'
BY EndingStep DEF FinishInterview, Transition, Core, TypeOK

LEMMA BeginReportStep ==
    ASSUME Core, BeginReport(row) PROVE Core'
BY EndingStep DEF BeginReport, Transition, Core, TypeOK

-----------------------------------------------------------------------------
(* Steps that move the position.                                           *)

LEMMA StartInterviewStep ==
    ASSUME Core, StartInterview(row) PROVE Core'
<1>1. /\ row.status = "READY"
      /\ questions = Questions /\ questions # {}
      /\ row.index = 0
      /\ \A q \in Questions : answers[q] = 0
  BY QuestionsNat DEF Core, Prepared, StartInterview
<1>2. Lowest(questions) = 0
  BY <1>1, QuestionsNat, LowestIs
<1>3. /\ row' = [status |-> "WAITING_FOR_ANSWER", index |-> 0]
      /\ UNCHANGED <<questions, answers, current, evaluated, followUps,
                     idempotency, report, replies>>
  BY <1>1, <1>2 DEF StartInterview
<1>4. row'.status = "WAITING_FOR_ANSWER" /\ row'.index = row.index
  BY <1>1, <1>3
<1>5. row' \in Views
  BY <1>3 DEF Views, Statuses
<1>6. TypeOK'
  BY <1>3, <1>5 DEF Core, TypeOK
<1>7. Prepared' /\ Tables'
  BY <1>1, <1>3, <1>4, QuestionsNat DEF Core, Prepared, Tables, Live
<1>8. \A q \in Questions : Cardinality(followUps[q]) \in Nat
  BY FS_CardinalityType DEF Core, Tables
<1>9. Position' /\ EvaluatingHasWork'
  BY <1>1, <1>3, <1>4, <1>8, QuestionsNat DEF Position, EvaluatingHasWork
<1>10. NothingSkipped'
  BY <1>3, <1>4 DEF Core, NothingSkipped
<1>11. FollowUpDiscipline' /\ ExactlyOnceSubmission'
  BY <1>3 DEF Core, FollowUpDiscipline, ExactlyOnceSubmission, Budget
<1> QED
  BY <1>6, <1>7, <1>9, <1>10, <1>11 DEF Core

\* The position moves on from an answered question with all its evaluations,
\* whatever the status was.
LEMMA NextPositionStep ==
    ASSUME Core, questions = Questions, Later(row) # {},
           answers[row.index] > 0,
           \A n \in 1 .. answers[row.index] : <<row.index, n>> \in evaluated,
           row' = [status |-> "WAITING_FOR_ANSWER", index |-> Lowest(Later(row))],
           UNCHANGED <<questions, answers, current, evaluated, followUps,
                       idempotency, report, replies>>
    PROVE  Core'
<1>1. row.index \in Questions
  BY DEF Core, Prepared
<1>2. row.index + 1 \in Questions /\ Lowest(Later(row)) = row.index + 1
  BY <1>1, NextQuestion
<1>3. row' = [status |-> "WAITING_FOR_ANSWER", index |-> row.index + 1]
  BY <1>2
<1>4. row'.status = "WAITING_FOR_ANSWER" /\ row'.index = row.index + 1
  BY <1>3
<1>5. row' \in Views
  <2>1. row.index + 1 \in Nat
    BY <1>2, QuestionsNat
  <2> QED
    BY <1>3, <2>1 DEF Views, Statuses
<1>6. TypeOK'
  BY <1>5 DEF Core, TypeOK
<1>7. Prepared' /\ Tables'
  BY <1>2, <1>4 DEF Core, Prepared, Tables, Live
<1>8. answers[row.index + 1] = 0
  <2>1. row.index \in Nat
    BY <1>1, QuestionsNat
  <2>2. row.index + 1 > row.index
    BY <2>1
  <2> QED
    BY <1>2, <2>2 DEF Core, NothingSkipped
<1>9. Cardinality(followUps[row.index + 1]) \in Nat
  BY <1>2, FS_CardinalityType DEF Core, Tables
<1>10. Position' /\ EvaluatingHasWork'
  BY <1>4, <1>8, <1>9 DEF Position, EvaluatingHasWork
<1>11. NothingSkipped'
  <2>1. SUFFICES ASSUME NEW q \in Questions
                 PROVE /\ q < row.index + 1 => answers[q] > 0
                       /\ q > row.index + 1 => answers[q] = 0
                       /\ \A n \in 1 .. answers[q] :
                            <<q, n>> \in evaluated
    BY <1>4 DEF NothingSkipped
  <2>2. q \in Nat /\ row.index \in Nat
    BY <1>1, QuestionsNat
  <2>3. /\ q < row.index => answers[q] > 0
        /\ q > row.index => answers[q] = 0
        /\ \A n \in 1 .. answers[q] : <<q, n>> \in evaluated \/ q = row.index
    BY DEF Core, NothingSkipped
  <2>4. q < row.index + 1 => q < row.index \/ q = row.index
    BY <2>2
  <2>5. q > row.index + 1 => q > row.index
    BY <2>2
  <2> QED
    BY <2>3, <2>4, <2>5
<1>12. FollowUpDiscipline' /\ ExactlyOnceSubmission'
  BY DEF Core, FollowUpDiscipline, ExactlyOnceSubmission, Budget
<1> QED
  BY <1>6, <1>7, <1>10, <1>11, <1>12 DEF Core

LEMMA MoveToNextQuestionStep ==
    ASSUME Core, MoveToNextQuestion(row) PROVE Core'
<1>1. CASE row.status = "FOLLOW_UP_REQUIRED"
  <2>1. /\ row' = [row EXCEPT !.status = "WAITING_FOR_ANSWER"]
        /\ UNCHANGED <<questions, answers, current, evaluated, followUps,
                       idempotency, report, replies>>
    BY <1>1 DEF MoveToNextQuestion, Transition
  <2>2. /\ row'.status = "WAITING_FOR_ANSWER"
        /\ row'.index = row.index
        /\ TypeOK' /\ Tables' /\ NothingSkipped'
        /\ FollowUpDiscipline' /\ ExactlyOnceSubmission'
    BY <2>1, StatusColumn DEF Statuses, Core, TypeOK
  <2>3. Prepared' /\ Position' /\ EvaluatingHasWork'
    BY <1>1, <2>1, <2>2 DEF Core, Prepared, Position, EvaluatingHasWork, Live
  <2> QED
    BY <2>2, <2>3 DEF Core
<1>2. CASE row.status = "NEXT_QUESTION" /\ Later(row) # {}
  <2>1. /\ questions = Questions
        /\ answers[row.index] > 0
        /\ \A n \in 1 .. answers[row.index] : <<row.index, n>> \in evaluated
    BY <1>2 DEF Core, Prepared, Position, Live
  <2> QED
    BY <1>2, <2>1, NextPositionStep DEF MoveToNextQuestion
<1>3. CASE row.status = "NEXT_QUESTION" /\ Later(row) = {}
  BY <1>3, FinishInterviewStep DEF MoveToNextQuestion
<1> QED
  BY <1>1, <1>2, <1>3 DEF MoveToNextQuestion

-----------------------------------------------------------------------------
(* Steps on answers, evaluations and the report.                           *)

\* An answer accepted on any object the transaction may hold, old or fresh:
\* keys and answers correspond, and the new answer has no evaluation yet.
LEMMA SubmissionStep ==
    ASSUME TypeOK, Tables, ExactlyOnceSubmission,
           NEW q \in Questions, NEW k \in Keys, NEW t \in Texts,
           NEW told \in BOOLEAN, NEW v, SubmitAnswer(v, q, k, t, told)
    PROVE  /\ TypeOK' /\ Tables' /\ ExactlyOnceSubmission'
           /\ row'.status = "EVALUATING" /\ row'.index = row.index
           /\ answers' = [answers EXCEPT ![q] = answers[q] + 1]
           /\ <<q, answers[q] + 1>> \notin evaluated
           /\ UNCHANGED <<questions, evaluated, followUps, report>>
<1> DEFINE n == answers[q] + 1
           s == [key |-> k, question |-> q, text |-> t, attempt |-> n]
<1>1. KeyRows(k) = {}
  BY DEF SubmitAnswer, Accepts
<1>2. /\ row' = [row EXCEPT !.status = "EVALUATING"]
      /\ answers' = [answers EXCEPT ![q] = n]
      /\ current' = [current EXCEPT ![q] = n]
      /\ idempotency' = idempotency \cup {s}
      /\ replies' \in {replies \cup {s}, replies}
      /\ UNCHANGED <<questions, evaluated, followUps, report>>
  BY DEF SubmitAnswer
<1>3. n \in Nat /\ n > 0 /\ answers[q] \in Nat /\ s \in Submission
  BY DEF TypeOK, Submission
<1>4. row' \in Views /\ row'.status = "EVALUATING" /\ row'.index = row.index
  BY <1>2 DEF TypeOK, Views, Statuses
<1>5. /\ answers' \in [Questions -> Nat] /\ answers'[q] = n
      /\ current' \in [Questions -> Nat]
      /\ \A p \in Questions : p # q => answers'[p] = answers[p]
  BY <1>2, <1>3 DEF TypeOK
<1> HIDE DEF n, s
<1>6. TypeOK'
  BY <1>2, <1>3, <1>4, <1>5 DEF TypeOK
<1>7. Tables'
  <2>1. current' = answers'
    BY <1>2 DEF Tables
  <2>2. \A a \in evaluated : a[2] \in 1 .. answers'[a[1]]
    <3> SUFFICES ASSUME NEW a \in evaluated PROVE a[2] \in 1 .. answers'[a[1]]
      OBVIOUS
    <3>1. a[2] \in 1 .. answers[a[1]] /\ a[1] \in Questions
      BY DEF Tables, TypeOK
    <3>2. answers[a[1]] <= answers'[a[1]]
      BY <1>3, <1>5, <3>1 DEF n, TypeOK
    <3> QED
      BY <1>5, <3>1, <3>2 DEF TypeOK
  <2> QED
    BY <1>2, <2>1, <2>2 DEF Tables
<1>8. <<q, n>> \notin evaluated
  BY <1>3 DEF Tables, n
<1>9. ExactlyOnceSubmission'
  <2>1. s.key = k /\ s.question = q /\ s.attempt = n
    BY DEF s
  <2>2. \A r \in idempotency : r.key # k
    BY <1>1 DEF KeyRows
  <2>3. \A r \in idempotency : r.question \in Questions /\ r.attempt \in Nat
                                /\ r.attempt <= answers[r.question]
    BY DEF ExactlyOnceSubmission, TypeOK, Submission
  <2>4. \A r \in idempotency : <<r.question, r.attempt>> # <<q, n>>
    BY <1>3, <2>3 DEF n
  <2>5. \A r, u \in idempotency' :
          r.key = u.key \/ <<r.question, r.attempt>> = <<u.question, u.attempt>> => r = u
    BY <1>2, <2>1, <2>2, <2>4 DEF ExactlyOnceSubmission
  <2>6. \A p \in Questions : \A m \in 1 .. answers'[p] :
          \E r \in idempotency' : r.question = p /\ r.attempt = m
    <3> SUFFICES ASSUME NEW p \in Questions, NEW m \in 1 .. answers'[p]
                 PROVE \E r \in idempotency' : r.question = p /\ r.attempt = m
      OBVIOUS
    <3>1. CASE p = q /\ m = n
      BY <1>2, <2>1, <3>1
    <3>2. CASE ~(p = q /\ m = n)
      <4>1. m \in 1 .. answers[p]
        BY <1>3, <1>5, <3>2 DEF n
      <4> QED
        BY <1>2, <4>1 DEF ExactlyOnceSubmission
    <3> QED
      BY <3>1, <3>2
  <2>7. \A r \in idempotency' : r.attempt <= answers'[r.question]
    <3> SUFFICES ASSUME NEW r \in idempotency' PROVE r.attempt <= answers'[r.question]
      OBVIOUS
    <3>1. CASE r = s
      BY <1>3, <1>5, <2>1, <3>1
    <3>2. CASE r \in idempotency
      BY <1>3, <1>5, <2>3, <3>2 DEF n
    <3> QED
      BY <1>2, <3>1, <3>2
  <2>8. replies' \subseteq idempotency'
    BY <1>2 DEF ExactlyOnceSubmission
  <2> QED
    BY <2>5, <2>6, <2>7, <2>8 DEF ExactlyOnceSubmission
<1> QED
  BY <1>2, <1>4, <1>6, <1>7, <1>8, <1>9 DEF n

LEMMA SubmitAnswerStep ==
    ASSUME Core, NEW q \in Questions, NEW k \in Keys, NEW t \in Texts,
           NEW told \in BOOLEAN, SubmitAnswer(row, q, k, t, told)
    PROVE  Core'
<1> DEFINE n == answers[q] + 1
<1>1. /\ q \in questions /\ q = row.index
      /\ row.status \in {"WAITING_FOR_ANSWER", "FOLLOW_UP_REQUIRED"}
  BY DEF SubmitAnswer, Accepts
<1>2. /\ TypeOK' /\ Tables' /\ ExactlyOnceSubmission'
      /\ row'.status = "EVALUATING" /\ row'.index = q
      /\ answers' = [answers EXCEPT ![q] = n]
      /\ <<q, n>> \notin evaluated
      /\ UNCHANGED <<questions, evaluated, followUps, report>>
  BY <1>1, SubmissionStep DEF Core
<1>3. n \in Nat /\ n > 0 /\ answers[q] \in Nat
  BY DEF Core, TypeOK
<1>4. /\ answers'[q] = n
      /\ \A p \in Questions : p # q => answers'[p] = answers[p]
  BY <1>2, <1>3 DEF Core, TypeOK
<1>5. current' = answers'
  BY <1>2 DEF Tables
<1> HIDE DEF n
<1>6. Prepared'
  BY <1>1, <1>2 DEF Core, Prepared, Live
<1>7. Position' /\ EvaluatingHasWork'
  BY <1>1, <1>2, <1>3, <1>4, <1>5 DEF Position, EvaluatingHasWork
<1>8. \A m \in 1 .. answers[q] : <<q, m>> \in evaluated
  BY <1>1 DEF Core, Position
<1>9. NothingSkipped'
  <2> SUFFICES ASSUME NEW p \in Questions
               PROVE  /\ p < q => answers'[p] > 0
                      /\ p > q => answers'[p] = 0
                      /\ \A m \in 1 .. answers'[p] :
                           <<p, m>> \in evaluated \/ (p = q /\ m = answers'[p])
    BY <1>2 DEF NothingSkipped
  <2>1. CASE p = q
    <3>1. \A m \in 1 .. n : m \in 1 .. answers[q] \/ m = n
      BY <1>3 DEF n
    <3>2. q \in Nat
      BY QuestionsNat
    <3> QED
      BY <1>4, <1>8, <2>1, <3>1, <3>2
  <2>2. CASE p # q
    BY <1>1, <1>4, <2>2 DEF Core, NothingSkipped
  <2> QED
    BY <2>1, <2>2
<1>10. FollowUpDiscipline'
  <2>1. answers[q] <= Cardinality(followUps[q]) /\ Cardinality(followUps[q]) \in Nat
    BY <1>1, FS_CardinalityType DEF Core, Position, Tables
  <2>2. n <= 1 + Cardinality(followUps[q])
    BY <1>3, <2>1 DEF n
  <2> QED
    BY <1>2, <1>4, <2>2 DEF Core, FollowUpDiscipline, Budget
<1> QED
  BY <1>2, <1>6, <1>7, <1>9, <1>10 DEF Core

\* Clients may be told of any submission there is, at any time.
LEMMA RepliesStep ==
    ASSUME Core, replies' \subseteq replies \cup idempotency,
           UNCHANGED <<row, questions, answers, current, evaluated, followUps,
                       idempotency, report>>
    PROVE  Core'
<1>1. TypeOK'
  BY DEF Core, TypeOK
<1>2. Prepared' /\ Tables' /\ Position' /\ EvaluatingHasWork' /\ NothingSkipped'
  BY DEF Core, Prepared, Tables, Position, EvaluatingHasWork, NothingSkipped
<1>3. FollowUpDiscipline'
  BY DEF Core, FollowUpDiscipline, Budget
<1>4. ExactlyOnceSubmission'
  BY DEF Core, ExactlyOnceSubmission
<1> QED
  BY <1>1, <1>2, <1>3, <1>4 DEF Core

LEMMA ReplayAnswerStep ==
    ASSUME Core, NEW q \in Questions, NEW k \in Keys, NEW t \in Texts,
           ReplayAnswer(q, k, t)
    PROVE  Core'
BY RepliesStep DEF ReplayAnswer, KeyRows

LEMMA SaveEvaluationStep ==
    ASSUME Core, NEW q \in Questions, NEW n \in 1 .. answers[q],
           NEW needsFollowUp \in BOOLEAN, SaveEvaluation(row, q, n, needsFollowUp)
    PROVE  Core'
<1>1. /\ row.status = "EVALUATING"
      /\ current[q] = n
      /\ <<q, n>> \notin evaluated
      /\ evaluated' = evaluated \cup {<<q, n>>}
      /\ UNCHANGED <<questions, answers, current, idempotency, report, replies>>
  BY DEF SaveEvaluation, Evaluable
<1>2. n = answers[q] /\ n > 0 /\ answers[q] \in Nat /\ n \in Nat
  BY <1>1 DEF Core, Tables, TypeOK
\* Only the newest answer at the position can lack its evaluation.
<1>3. q = row.index
  BY <1>1, <1>2 DEF Core, NothingSkipped
<1>4. \A m \in 1 .. answers[q] : <<q, m>> \in evaluated'
  BY <1>1, <1>2 DEF Core, NothingSkipped
<1>5. n \notin followUps[q] /\ IsFiniteSet(followUps[q])
  BY <1>1 DEF Core, FollowUpDiscipline, Tables
<1>6. PICK t \in {"FOLLOW_UP_REQUIRED", "NEXT_QUESTION"} :
        row' = [row EXCEPT !.status = t]
  BY DEF SaveEvaluation, Transition
<1>7. /\ row' \in Views /\ row'.status = t /\ row'.index = row.index
  BY <1>6 DEF Core, TypeOK, Views, Statuses
<1>8. Prepared'
  BY <1>1, <1>7 DEF Core, Prepared, Live
<1>9. EvaluatingHasWork'
  BY <1>7 DEF EvaluatingHasWork
<1>10. NothingSkipped'
  BY <1>1, <1>7 DEF Core, NothingSkipped
<1>11. ExactlyOnceSubmission'
  BY <1>1 DEF Core, ExactlyOnceSubmission
<1>13. CASE needsFollowUp
  <2>1. /\ MayFollowUp(q)
        /\ followUps' = [followUps EXCEPT ![q] = @ \cup {n}]
        /\ row'.status = "FOLLOW_UP_REQUIRED"
    BY <1>7, <1>13 DEF SaveEvaluation, Transition, Core, TypeOK, Views
  <2>2. /\ followUps' \in [Questions -> SUBSET Nat]
        /\ followUps'[q] = followUps[q] \cup {n}
        /\ \A p \in Questions : p # q => followUps'[p] = followUps[p]
    BY <1>2, <2>1 DEF Core, TypeOK
  <2>3. /\ IsFiniteSet(followUps'[q])
        /\ Cardinality(followUps'[q]) = Cardinality(followUps[q]) + 1
        /\ Cardinality(followUps[q]) \in Nat
    BY <1>5, <2>2, OneMoreFollowUp
  <2>4. TypeOK'
    BY <1>1, <1>2, <1>7, <2>2 DEF Core, TypeOK
  <2>5. Tables'
    <3>1. \A p \in Questions : IsFiniteSet(followUps'[p])
      BY <2>2, <2>3 DEF Core, Tables
    <3>2. \A a \in evaluated' : a[2] \in 1 .. answers'[a[1]]
      BY <1>1 DEF Core, Tables
    <3> QED
      BY <1>1, <3>1, <3>2 DEF Core, Tables
  <2>6. answers[q] <= 1 + Cardinality(followUps[q])
    BY DEF Core, FollowUpDiscipline
  <2>7. Position'
    BY <1>1, <1>2, <1>3, <1>4, <1>7, <2>1, <2>3, <2>6 DEF Position
  <2>8. FollowUpDiscipline'
    <3> SUFFICES ASSUME NEW p \in Questions
                 PROVE  /\ answers[p] <= 1 + Cardinality(followUps'[p])
                        /\ Cardinality(followUps'[p])
                             <= IF FollowUpAllowed[p] THEN Budget(p) ELSE 0
                        /\ \A m \in followUps'[p] : <<p, m>> \in evaluated'
      BY <1>1 DEF FollowUpDiscipline, Budget
    <3>1. CASE p = q
      <4>1. /\ FollowUpAllowed[q] /\ Cardinality(followUps[q]) < Budget(q)
            /\ Budget(q) \in Nat
        BY <2>1, BudgetType DEF MayFollowUp
      <4>2. /\ answers[p] <= 1 + Cardinality(followUps'[p])
            /\ Cardinality(followUps'[p]) <= Budget(p)
        BY <1>2, <2>3, <2>6, <3>1, <4>1
      <4>3. \A m \in followUps'[p] : <<p, m>> \in evaluated'
        BY <1>1, <2>2, <3>1 DEF Core, FollowUpDiscipline
      <4> QED
        BY <3>1, <4>1, <4>2, <4>3
    <3>2. CASE p # q
      BY <1>1, <2>2, <3>2 DEF Core, FollowUpDiscipline
    <3> QED
      BY <3>1, <3>2
  <2> QED
    BY <1>8, <1>9, <1>10, <1>11, <2>4, <2>5, <2>7, <2>8 DEF Core
<1>14. CASE ~needsFollowUp
  <2>1. UNCHANGED followUps /\ row'.status = "NEXT_QUESTION"
    BY <1>7, <1>14 DEF SaveEvaluation, Transition, Core, TypeOK, Views
  <2>2. TypeOK'
    BY <1>1, <1>2, <1>7, <2>1 DEF Core, TypeOK
  <2>3. Tables'
    BY <1>1, <2>1 DEF Core, Tables
  <2>4. Position'
    BY <1>1, <1>2, <1>3, <1>4, <1>5, <1>7, <2>1 DEF Position
  <2>5. FollowUpDiscipline'
    BY <1>1, <2>1 DEF Core, FollowUpDiscipline, Budget
  <2> QED
    BY <1>8, <1>9, <1>10, <1>11, <2>2, <2>3, <2>4, <2>5 DEF Core
<1> QED
  BY <1>13, <1>14

LEMMA CompleteReportStep ==
    ASSUME Core, CompleteReport(row) PROVE Core'
BY EndingStep DEF CompleteReport, Transition

-----------------------------------------------------------------------------
(* The invariants.                                                         *)

LEMMA NextCore == Core /\ [Next]_vars => Core'
<1> SUFFICES ASSUME Core, [Next]_vars PROVE Core'
  OBVIOUS
<1>1. CASE BeginPreparation(row)
  BY <1>1, BeginPreparationStep
<1>2. CASE PersistQuestions(row)
  BY <1>2, PersistQuestionsStep
<1>3. CASE MarkReady(row)
  BY <1>3, MarkReadyStep
<1>4. CASE FailInterview(row)
  BY <1>4, FailInterviewStep
<1>5. CASE StartInterview(row)
  BY <1>5, StartInterviewStep
<1>6. CASE \E q \in Questions, k \in Keys, t \in Texts, told \in BOOLEAN :
             SubmitAnswer(row, q, k, t, told)
  BY <1>6, SubmitAnswerStep
<1>7. CASE \E q \in Questions, k \in Keys, t \in Texts : ReplayAnswer(q, k, t)
  BY <1>7, ReplayAnswerStep
<1>8. CASE \E q \in Questions, needsFollowUp \in BOOLEAN :
             \E n \in 1 .. answers[q] : SaveEvaluation(row, q, n, needsFollowUp)
  BY <1>8, SaveEvaluationStep
<1>9. CASE MoveToNextQuestion(row)
  BY <1>9, MoveToNextQuestionStep
<1>10. CASE FinishInterview(row)
  BY <1>10, FinishInterviewStep
<1>11. CASE BeginReport(row)
  BY <1>11, BeginReportStep
<1>12. CASE CompleteReport(row)
  BY <1>12, CompleteReportStep
<1>13. CASE UNCHANGED vars
  BY <1>13 DEF vars, Core, TypeOK, Prepared, Tables, Position, EvaluatingHasWork,
     NothingSkipped, FollowUpDiscipline, Budget, ExactlyOnceSubmission
<1> QED
  BY <1>1, <1>2, <1>3, <1>4, <1>5, <1>6, <1>7, <1>8, <1>9, <1>10, <1>11,
     <1>12, <1>13 DEF Next

\* Only complete_report writes REPORT_READY, with the report, and nothing is
\* allowed out of it.
LEMMA ReportStep ==
    ASSUME IInv, [Next]_vars PROVE ReportMatchesStatus'
<1> DEFINE Others == UNCHANGED <<evaluated, report>>
<1>1. ASSUME NEW t, t # "REPORT_READY", Transition(row, t), Others
      PROVE  ReportMatchesStatus'
  <2>1. row.status # "REPORT_READY" /\ row'.status = t
    BY <1>1 DEF Transition, Allowed, ALLOWED_TRANSITIONS, IInv, Core, TypeOK, Views
  <2> QED
    BY <1>1, <2>1 DEF IInv, ReportMatchesStatus
<1>2. ASSUME \/ BeginPreparation(row) \/ MarkReady(row) \/ FailInterview(row)
             \/ FinishInterview(row) \/ BeginReport(row)
      PROVE  ReportMatchesStatus'
  BY <1>1, <1>2 DEF BeginPreparation, MarkReady, FailInterview, FinishInterview, BeginReport
<1>3. ASSUME \/ UNCHANGED vars \/ PersistQuestions(row)
             \/ \E q \in Questions, k \in Keys, t \in Texts : ReplayAnswer(q, k, t)
      PROVE  ReportMatchesStatus'
  BY <1>3 DEF vars, PersistQuestions, ReplayAnswer, IInv, ReportMatchesStatus
<1>4. CASE StartInterview(row)
  <2>1. /\ row.status = "READY" /\ Others
        /\ row'.status \in {"FAILED", "WAITING_FOR_ANSWER"}
    BY <1>4 DEF StartInterview, Transition, IInv, Core, TypeOK, Views
  <2> QED
    BY <2>1 DEF IInv, ReportMatchesStatus
<1>5. ASSUME NEW q \in Questions, NEW k \in Keys, NEW t \in Texts, NEW told \in BOOLEAN,
             SubmitAnswer(row, q, k, t, told)
      PROVE  ReportMatchesStatus'
  <2>1. row.status # "REPORT_READY" /\ row'.status = "EVALUATING" /\ Others
    BY <1>5 DEF SubmitAnswer, Accepts, IInv, Core, TypeOK, Views
  <2> QED
    BY <2>1 DEF IInv, ReportMatchesStatus
<1>6. ASSUME NEW q \in Questions, NEW f \in BOOLEAN, NEW n \in 1 .. answers[q],
             SaveEvaluation(row, q, n, f)
      PROVE  ReportMatchesStatus'
  <2>1. /\ row.status = "EVALUATING" /\ report' = report
        /\ row'.status \in {"FOLLOW_UP_REQUIRED", "NEXT_QUESTION"}
    BY <1>6 DEF SaveEvaluation, Evaluable, Transition, IInv, Core, TypeOK, Views
  <2> QED
    BY <2>1 DEF IInv, ReportMatchesStatus
<1>7. CASE MoveToNextQuestion(row)
  <2>1. CASE row.status = "NEXT_QUESTION" /\ Later(row) # {}
    <3>1. row'.status = "WAITING_FOR_ANSWER" /\ Others
      BY <1>7, <2>1 DEF MoveToNextQuestion
    <3> QED
      BY <2>1, <3>1 DEF IInv, ReportMatchesStatus
  <2> QED
    BY <1>1, <1>2, <1>7, <2>1 DEF MoveToNextQuestion
<1>8. CASE CompleteReport(row)
  <2>1. report' /\ row'.status = "REPORT_READY" /\ evaluated' # {}
    BY <1>8 DEF CompleteReport, Transition, IInv, Core, TypeOK, Views
  <2> QED
    BY <2>1 DEF ReportMatchesStatus
<1> QED
  BY <1>2, <1>3, <1>4, <1>5, <1>6, <1>7, <1>8 DEF Next

LEMMA NextIInv == IInv /\ [Next]_vars => IInv'
BY NextCore, ReportStep DEF IInv

LEMMA Invariance == Spec => []IInv
BY InitIInv, NextIInv, PTL DEF Spec

\* The variables keep their types.
THEOREM TypeCorrect == Spec => []TypeOK
BY Invariance, PTL DEF IInv, Core

\* An interview that waits for an evaluation has the one answer to evaluate.
THEOREM WorkExists == Spec => []EvaluatingHasWork
BY Invariance, PTL DEF IInv, Core

\* No question is passed without an answer, and no answer without its
\* evaluation.
THEOREM NothingIsSkipped == Spec => []NothingSkipped
BY Invariance, PTL DEF IInv, Core

\* Answers never outnumber the follow-ups that asked for them by more than the
\* first, and follow-ups never exceed the budget.
THEOREM FollowUpsAreBounded == Spec => []FollowUpDiscipline
BY Invariance, PTL DEF IInv, Core

\* Retried submissions take effect once, and every reply stays true.
THEOREM SubmissionsTakeEffectOnce == Spec => []ExactlyOnceSubmission
BY Invariance, PTL DEF IInv, Core

\* The report row and the status REPORT_READY come together.
THEOREM ReportIsConsistent == Spec => []ReportMatchesStatus
BY Invariance, PTL DEF IInv, Core

-----------------------------------------------------------------------------
(* What a step may do.                                                     *)

\* Only three transactions touch the answers and their evaluations, and none
\* of them accepts an interview that is completed or being reported on.
LEMMA EvidenceStep ==
    ASSUME [Next]_vars,
           row.status \in {"COMPLETED", "REPORT_GENERATING", "REPORT_READY"}
    PROVE  UNCHANGED <<answers, evaluated, followUps, current>>
BY DEF Next, vars, BeginPreparation, PersistQuestions, MarkReady, FailInterview,
   StartInterview, SubmitAnswer, Accepts, ReplayAnswer, SaveEvaluation, Evaluable,
   MoveToNextQuestion, FinishInterview, BeginReport, CompleteReport

\* The evaluations a report averages no longer change once reporting begins.
THEOREM EvidenceIsFrozen == Spec => EvidenceFrozen
<1>1. [Next]_vars =>
        [row.status \in {"COMPLETED", "REPORT_GENERATING", "REPORT_READY"} =>
           UNCHANGED <<answers, evaluated, followUps, current>>]_vars
  BY EvidenceStep
<1> QED
  BY <1>1, PTL DEF Spec, EvidenceFrozen

\* Every write of the row: one edge, or one of the two double moves.
LEMMA RowStep ==
    ASSUME IInv, Next
    PROVE  \/ UNCHANGED row
           \/ /\ Allowed(row.status, row'.status)
              /\ row'.status \in Statuses
              /\ \/ row'.index = row.index
                 \/ /\ row.status = "NEXT_QUESTION"
                    /\ row'.index = row.index + 1
           \/ /\ row.status = "READY" /\ row'.status = "WAITING_FOR_ANSWER"
              /\ Allowed("READY", "IN_PROGRESS")
              /\ Allowed("IN_PROGRESS", "WAITING_FOR_ANSWER")
              /\ row'.index = row.index
           \/ /\ row.status = "FOLLOW_UP_REQUIRED" /\ row'.status = "EVALUATING"
              /\ Allowed("FOLLOW_UP_REQUIRED", "WAITING_FOR_ANSWER")
              /\ Allowed("WAITING_FOR_ANSWER", "EVALUATING")
              /\ row'.index = row.index
<1> DEFINE Plain == \/ UNCHANGED row
                    \/ /\ Allowed(row.status, row'.status)
                       /\ row'.status \in Statuses
                       /\ row'.index = row.index
<1>1. ASSUME NEW t \in Statuses, Transition(row, t) PROVE Plain
  BY <1>1 DEF Transition, IInv, Core, TypeOK, Views
<1>2. \/ BeginPreparation(row) \/ MarkReady(row) \/ FailInterview(row)
      \/ FinishInterview(row) \/ BeginReport(row) \/ CompleteReport(row)
      => Plain
  BY <1>1 DEF BeginPreparation, MarkReady, FailInterview, FinishInterview,
     BeginReport, CompleteReport, Statuses
<1>3. PersistQuestions(row) => Plain
  BY DEF PersistQuestions
<1>4. ASSUME NEW q \in Questions, NEW k \in Keys, NEW t \in Texts, ReplayAnswer(q, k, t)
      PROVE  Plain
  BY <1>4 DEF ReplayAnswer
<1>5. ASSUME NEW q \in Questions, NEW f \in BOOLEAN, NEW n \in 1 .. answers[q],
             SaveEvaluation(row, q, n, f)
      PROVE  Plain
  BY <1>1, <1>5 DEF SaveEvaluation, Statuses
<1>6. CASE StartInterview(row)
  <2>1. row.status = "READY" /\ questions = Questions /\ row.index = 0 /\ questions # {}
    BY <1>6, QuestionsNat DEF StartInterview, IInv, Core, Prepared
  <2>2. Lowest(questions) = 0
    BY <2>1, QuestionsNat, LowestIs
  <2> QED
    BY <1>6, <2>1, <2>2 DEF StartInterview
<1>7. ASSUME NEW q \in Questions, NEW k \in Keys, NEW t \in Texts, NEW told \in BOOLEAN,
             SubmitAnswer(row, q, k, t, told)
      PROVE  \/ Plain
             \/ /\ row.status = "FOLLOW_UP_REQUIRED" /\ row'.status = "EVALUATING"
                /\ Allowed("FOLLOW_UP_REQUIRED", "WAITING_FOR_ANSWER")
                /\ Allowed("WAITING_FOR_ANSWER", "EVALUATING")
                /\ row'.index = row.index
  <2>1. row'.status = "EVALUATING" /\ row'.index = row.index /\ row'.status \in Statuses
    BY <1>7 DEF SubmitAnswer, IInv, Core, TypeOK, Views, Statuses
  <2> QED
    BY <1>7, <2>1 DEF SubmitAnswer
<1>8. CASE MoveToNextQuestion(row)
  <2>1. CASE row.status = "FOLLOW_UP_REQUIRED"
    BY <1>1, <1>8, <2>1 DEF MoveToNextQuestion, Statuses
  <2>2. CASE row.status = "NEXT_QUESTION" /\ Later(row) = {}
    BY <1>2, <1>8, <2>2 DEF MoveToNextQuestion
  <2>3. CASE row.status = "NEXT_QUESTION" /\ Later(row) # {}
    <3>1. Lowest(Later(row)) = row.index + 1
      BY <2>3, NextQuestion DEF IInv, Core, Prepared, Live
    <3>2. row' = [status |-> "WAITING_FOR_ANSWER", index |-> row.index + 1]
      BY <1>8, <2>3, <3>1 DEF MoveToNextQuestion
    <3> QED
      BY <1>8, <2>3, <3>2 DEF MoveToNextQuestion, Statuses
  <2> QED
    BY <1>8, <2>1, <2>2, <2>3 DEF MoveToNextQuestion
<1> QED
  BY <1>2, <1>3, <1>4, <1>5, <1>6, <1>7, <1>8 DEF Next

\* The position moves one question forward, and only from a question whose
\* answers are evaluated and whose last answer needed no follow-up.
THEOREM PositionIsMonotone == Spec => PositionAdvances
<1>1. ASSUME IInv, [Next]_vars, row'.index # row.index
      PROVE  /\ row'.index = row.index + 1
             /\ answers[row.index] \notin followUps[row.index]
             /\ \A n \in 1 .. answers[row.index] : <<row.index, n>> \in evaluated
  <2>1. Next
    BY <1>1 DEF vars
  <2>2. row.status = "NEXT_QUESTION" /\ row'.index = row.index + 1
    BY <1>1, <2>1, RowStep
  <2> QED
    BY <1>1, <2>2 DEF IInv, Core, Position
<1>2. IInv /\ [Next]_vars =>
        [row'.index # row.index =>
          /\ row'.index = row.index + 1
          /\ answers[row.index] \notin followUps[row.index]
          /\ \A n \in 1 .. answers[row.index] : <<row.index, n>> \in evaluated]_vars
  BY <1>1
<1> QED
  BY <1>2, Invariance, PTL DEF Spec, PositionAdvances

\* Every transaction is a step of the abstract lifecycle, or invisible to it.
LEMMA LifecycleStep ==
    IInv /\ [Next]_vars => [Lifecycle!Next]_(row.status)
<1> SUFFICES ASSUME IInv, [Next]_vars PROVE [Lifecycle!Next]_(row.status)
  OBVIOUS
<1>1. CASE UNCHANGED vars
  BY <1>1 DEF vars
<1>2. CASE Next
  BY <1>2, RowStep DEF Lifecycle!Next, Lifecycle!Move, Lifecycle!MoveThrough,
     Lifecycle!Allowed, Lifecycle!ALLOWED_TRANSITIONS, Lifecycle!Statuses,
     Allowed, ALLOWED_TRANSITIONS, Statuses
<1> QED
  BY <1>1, <1>2

\* The service implements the lifecycle it promises.
THEOREM ServiceImplementsLifecycle == Spec => ImplementsLifecycle
<1>1. Init => Lifecycle!Init
  BY DEF Init, Lifecycle!Init
<1> QED
  BY <1>1, LifecycleStep, Invariance, PTL DEF Spec, ImplementsLifecycle, Lifecycle!Spec

\* A lifecycle step never returns to an earlier phase nor leaves a terminal
\* status.
LEMMA PhaseStep ==
    ASSUME IInv, [Lifecycle!Next]_(row.status)
    PROVE  [/\ Lifecycle!Phase(row'.status) >= Lifecycle!Phase(row.status)
            /\ row.status \in {"REPORT_READY", "FAILED"} =>
                  row'.status = row.status]_(row.status)
BY DEF Lifecycle!Next, Lifecycle!Move, Lifecycle!MoveThrough, Lifecycle!Phase,
   Lifecycle!Allowed, Lifecycle!ALLOWED_TRANSITIONS, Lifecycle!Statuses

\* REPORT_READY and FAILED are final, and preparation, interview, completion
\* and report follow one another without return.
THEOREM PhasesNeverGoBack == Spec => NeverGoesBack
<1>1. IInv /\ [Next]_vars =>
        [/\ Lifecycle!Phase((row.status)') >= Lifecycle!Phase(row.status)
         /\ row.status \in {"REPORT_READY", "FAILED"} =>
               (row.status)' = row.status]_(row.status)
  BY LifecycleStep, PhaseStep
<1> QED
  BY <1>1, Invariance, PTL DEF Spec, NeverGoesBack, Lifecycle!NeverGoesBack
=============================================================================
