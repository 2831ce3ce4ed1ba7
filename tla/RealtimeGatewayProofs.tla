------------------------- MODULE RealtimeGatewayProofs -------------------------
(***************************************************************************)
(* Machine-checked proofs about RealtimeGateway: for any number of         *)
(* connections, sessions, questions and keys.                              *)
(*                                                                         *)
(* A connection may store an answer on an object as old as itself, so what *)
(* InterviewServiceProofs shows of the position does not hold here.  Two   *)
(* things do, because submit_answer reads the tables in the transaction:   *)
(* keys and answers correspond, and the answer it stores is a new one with *)
(* no evaluation, which the connection then owes (Owing).  And one         *)
(* connection at a time, with nobody else submitting, never holds an old   *)
(* object that accepts an answer: while the row waits for an answer only   *)
(* that connection can change it (Alone).                                  *)
(***************************************************************************)
EXTENDS RealtimeGateway, TLAPS

\* Its facts about the operators and the tables, for this database.
Db == INSTANCE InterviewServiceProofs

Waiting == {"WAITING_FOR_ANSWER", "FOLLOW_UP_REQUIRED"}

\* The tables, whatever the status says.
Stored ==
    /\ Db!Tables
    /\ Db!ExactlyOnceSubmission
    /\ questions \in {{}, Db!Questions}
    /\ row.index \in Db!Questions

Given(a) == a[2] \in 1 .. answers[a[1]]

\* A connection owes the enqueue of an answer between its commit and its
\* return to the loop, and only then.
Owing ==
    /\ \A c \in Connections :
          IF socket[c] \in {"replying", "enqueuing"} THEN Given(due[c]) ELSE due[c] = NoAnswer
    /\ \A a \in pending : Given(a)

Alone ==
    alone =>
      /\ \A c, d \in Connections : socket[c] # "closed" /\ socket[d] # "closed" => c = d
      /\ \A c \in Connections :
            socket[c] \in {"open", "enqueuing"} /\ view[c].status \in Waiting => view[c] = row

IInv ==
    /\ TypeOK
    /\ Stored
    /\ Owing
    /\ Alone
    /\ EvaluationAccountedFor

-----------------------------------------------------------------------------
(* The service's operators.                                                 *)

LEMMA SameQuestions == Db!Questions = Svc!Questions
BY DEF Db!Questions, Svc!Questions

LEMMA SameTypes == (Db!TypeOK <=> Svc!TypeOK) /\ (Db!TypeOK <=> Svc!TypeOK)'
BY SameQuestions DEF Db!TypeOK, Svc!TypeOK, Db!Views, Svc!Views, Db!Statuses, Svc!Statuses,
   Db!Submission, Svc!Submission

LEMMA SameSubmission ==
    \A v, q, k, t, told : Svc!SubmitAnswer(v, q, k, t, told) => Db!SubmitAnswer(v, q, k, t, told)
<1>1. \A s, t : Svc!Allowed(s, t) <=> Db!Allowed(s, t)
  BY DEF Svc!Allowed, Db!Allowed, Svc!ALLOWED_TRANSITIONS, Db!ALLOWED_TRANSITIONS
<1> QED
  BY <1>1 DEF Svc!SubmitAnswer, Db!SubmitAnswer, Svc!Accepts, Db!Accepts, Svc!KeyRows, Db!KeyRows

LEMMA QuestionFacts ==
    /\ Svc!Questions \subseteq Nat /\ 0 \in Svc!Questions
    /\ Db!Questions = Svc!Questions
BY InterviewAssumption, SameQuestions DEF Svc!Questions

\* Both kinds of types, and what is stored.
Database ==
    /\ Svc!TypeOK
    /\ Db!TypeOK
    /\ Stored

\* A transaction that leaves the answers alone and writes a status it may.
LEMMA StatusWrite ==
    ASSUME Database, row' \in Svc!Views, row'.index = row.index, report' \in BOOLEAN,
           questions' \in {{}, Svc!Questions},
           UNCHANGED <<answers, current, evaluated, followUps, idempotency, replies>>
    PROVE  Database'
<1>1. Svc!TypeOK'
  BY DEF Database, Svc!TypeOK
<1>2. Db!TypeOK'
  BY <1>1, SameTypes
<1>3. Stored'
  BY SameQuestions DEF Database, Stored, Db!Tables, Db!ExactlyOnceSubmission
<1> QED
  BY <1>1, <1>2, <1>3 DEF Database

LEMMA PositionWrite ==
    ASSUME Database, NEW i \in Svc!Questions,
           row' = [status |-> "WAITING_FOR_ANSWER", index |-> i],
           UNCHANGED <<questions, answers, current, evaluated, followUps, idempotency,
                       report, replies>>
    PROVE  Database'
<1>1. row' \in Svc!Views
  BY QuestionFacts DEF Svc!Views, Svc!Statuses
<1>2. Svc!TypeOK'
  BY <1>1 DEF Database, Svc!TypeOK
<1>3. Db!TypeOK'
  BY <1>2, SameTypes
<1>4. Stored'
  BY SameQuestions DEF Database, Stored, Db!Tables, Db!ExactlyOnceSubmission
<1> QED
  BY <1>2, <1>3, <1>4 DEF Database

LEMMA TransitionWrites ==
    ASSUME Database, NEW v, NEW t \in Svc!Statuses, Svc!Transition(v, t)
    PROVE  row' \in Svc!Views /\ row'.index = row.index /\ row'.status = t
BY DEF Svc!Transition, Database, Svc!TypeOK, Svc!Views

LEMMA StatusNames ==
    {"PREPARING", "READY", "FAILED", "FOLLOW_UP_REQUIRED", "NEXT_QUESTION", "COMPLETED",
     "REPORT_GENERATING", "REPORT_READY", "WAITING_FOR_ANSWER"} \subseteq Svc!Statuses
BY DEF Svc!Statuses

LEMMA ReportType == Database => report \in BOOLEAN /\ questions \in {{}, Svc!Questions}
BY SameQuestions DEF Database, Svc!TypeOK, Stored

-----------------------------------------------------------------------------
(* Everybody else.                                                          *)

\* Preparing an interview writes no answer, and no status over a waiting one.
LEMMA PrepareStep ==
    ASSUME Database, Prepare
    PROVE  /\ Database'
           /\ UNCHANGED <<answers, current, evaluated>>
           /\ row.status \in Waiting \cup {"EVALUATING"} => row' = row
           /\ row'.status = "EVALUATING" => row' = row
<1>1. CASE Svc!BeginPreparation(row)
  <2>1. row' \in Svc!Views /\ row'.index = row.index /\ row'.status = "PREPARING"
    BY <1>1, TransitionWrites, StatusNames DEF Svc!BeginPreparation
  <2>2. row.status = "CREATED"
    BY <1>1 DEF Svc!BeginPreparation, Svc!Transition, Svc!Allowed, Svc!ALLOWED_TRANSITIONS
  <2>3. Database'
    BY <1>1, <2>1, ReportType, StatusWrite DEF Svc!BeginPreparation
  <2> QED
    BY <1>1, <2>1, <2>2, <2>3 DEF Svc!BeginPreparation, Waiting
<1>2. CASE Svc!PersistQuestions(row)
  <2>1. row \in Svc!Views
    BY DEF Database, Svc!TypeOK
  <2>2. Database'
    BY <1>2, <2>1, ReportType, StatusWrite DEF Svc!PersistQuestions
  <2> QED
    BY <1>2, <2>2 DEF Svc!PersistQuestions
<1>3. CASE Svc!MarkReady(row)
  <2>1. row' \in Svc!Views /\ row'.index = row.index /\ row'.status = "READY"
    BY <1>3, TransitionWrites, StatusNames DEF Svc!MarkReady
  <2>2. Database'
    BY <1>3, <2>1, ReportType, StatusWrite DEF Svc!MarkReady
  <2> QED
    BY <1>3, <2>1, <2>2 DEF Svc!MarkReady, Waiting
<1>4. CASE Svc!StartInterview(row) /\ questions = {}
  <2>1. row' \in Svc!Views /\ row'.index = row.index /\ row'.status = "FAILED"
    BY <1>4, TransitionWrites, StatusNames DEF Svc!StartInterview
  <2>2. Database'
    BY <1>4, <2>1, ReportType, StatusWrite DEF Svc!StartInterview
  <2> QED
    BY <1>4, <2>1, <2>2 DEF Svc!StartInterview, Waiting
<1>5. CASE Svc!StartInterview(row) /\ questions # {}
  <2>1. Svc!Lowest(questions) = 0
    <3>0. questions = Svc!Questions
      BY <1>5, ReportType
    <3>1. questions \in SUBSET Nat /\ 0 \in questions /\ \A r \in questions : 0 <= r
      BY <3>0, InterviewAssumption DEF Svc!Questions
    <3>2. Db!Lowest(questions) = 0
      BY <3>1, Db!LowestIs, InterviewAssumption, SameQuestions
    <3> QED
      BY <3>2 DEF Svc!Lowest, Db!Lowest
  <2>2. row' = [status |-> "WAITING_FOR_ANSWER", index |-> 0]
    BY <1>5, <2>1 DEF Svc!StartInterview
  <2>3. Database'
    BY <1>5, <2>2, QuestionFacts, PositionWrite DEF Svc!StartInterview
  <2> QED
    BY <1>5, <2>2, <2>3 DEF Svc!StartInterview, Waiting
<1> QED
  BY <1>1, <1>2, <1>3, <1>4, <1>5 DEF Prepare

LEMMA ContinueStep ==
    ASSUME Database, Continue
    PROVE  /\ Database'
           /\ UNCHANGED <<answers, current, evaluated>>
           /\ row.status \notin Waiting \cup {"EVALUATING"}
           /\ row'.status # "EVALUATING"
<1>1. CASE Svc!BeginReport(row)
  <2>1. row' \in Svc!Views /\ row'.index = row.index /\ row'.status = "REPORT_GENERATING"
    BY <1>1, TransitionWrites, StatusNames DEF Svc!BeginReport
  <2>2. Database'
    BY <1>1, <2>1, ReportType, StatusWrite DEF Svc!BeginReport
  <2> QED
    BY <1>1, <2>1, <2>2 DEF Svc!BeginReport, Waiting
<1>2. CASE Svc!CompleteReport(row)
  <2>1. row' \in Svc!Views /\ row'.index = row.index /\ row'.status = "REPORT_READY"
    BY <1>2, TransitionWrites, StatusNames DEF Svc!CompleteReport
  <2>2. Database'
    BY <1>2, <2>1, ReportType, StatusWrite DEF Svc!CompleteReport
  <2> QED
    BY <1>2, <2>1, <2>2 DEF Svc!CompleteReport, Waiting
<1>3. CASE row.status = "NEXT_QUESTION" /\ Svc!MoveToNextQuestion(row)
  <2>1. CASE Svc!Later(row) = {}
    <3>1. Svc!FinishInterview(row)
      BY <1>3, <2>1 DEF Svc!MoveToNextQuestion
    <3>2. row' \in Svc!Views /\ row'.index = row.index /\ row'.status = "COMPLETED"
      BY <3>1, TransitionWrites, StatusNames DEF Svc!FinishInterview
    <3>3. Database'
      BY <3>1, <3>2, ReportType, StatusWrite DEF Svc!FinishInterview
    <3> QED
      BY <1>3, <3>1, <3>2, <3>3 DEF Svc!FinishInterview, Waiting
  <2>2. CASE Svc!Later(row) # {}
    <3>1. questions = Svc!Questions
      BY <2>2, ReportType DEF Svc!Later
    <3>2. Db!Later(row) = Svc!Later(row) /\ row.index \in Db!Questions
      BY DEF Db!Later, Svc!Later, Database, Stored
    <3>3. row.index + 1 \in Db!Questions /\ Db!Lowest(Db!Later(row)) = row.index + 1
      BY <2>2, <3>1, <3>2, Db!NextQuestion, InterviewAssumption, SameQuestions
    <3>4. Svc!Lowest(Svc!Later(row)) = row.index + 1
      BY <3>2, <3>3 DEF Svc!Lowest, Db!Lowest
    <3>5. /\ row' = [status |-> "WAITING_FOR_ANSWER", index |-> row.index + 1]
          /\ UNCHANGED <<questions, answers, current, evaluated, followUps, idempotency,
                         report, replies>>
      BY <1>3, <2>2, <3>4 DEF Svc!MoveToNextQuestion
    <3>6. Database'
      BY <3>3, <3>5, SameQuestions, PositionWrite
    <3> QED
      BY <1>3, <3>5, <3>6 DEF Waiting
  <2> QED
    BY <2>1, <2>2
<1> QED
  BY <1>1, <1>2, <1>3 DEF Continue

LEMMA FinishStep ==
    ASSUME Database, RestFinish
    PROVE  /\ Database'
           /\ UNCHANGED <<answers, current, evaluated>>
           /\ row'.status = "COMPLETED"
<1>1. row' \in Svc!Views /\ row'.index = row.index /\ row'.status = "COMPLETED"
  BY TransitionWrites, StatusNames DEF RestFinish, Svc!FinishInterview
<1>2. Database'
  BY <1>1, ReportType, StatusWrite DEF RestFinish, Svc!FinishInterview
<1> QED
  BY <1>1, <1>2 DEF RestFinish, Svc!FinishInterview

LEMMA SaveStep ==
    ASSUME Database, NEW q \in Svc!Questions, NEW n \in 1 .. answers[q], NEW f \in BOOLEAN,
           Svc!SaveEvaluation(row, q, n, f)
    PROVE  /\ Database'
           /\ UNCHANGED answers
           /\ row.status = "EVALUATING"
           /\ row'.status # "EVALUATING"
<1>1. /\ evaluated' = evaluated \cup {<<q, n>>}
      /\ row.status = "EVALUATING"
      /\ followUps' \in {followUps, [followUps EXCEPT ![q] = @ \cup {n}]}
      /\ \E t \in {"FOLLOW_UP_REQUIRED", "NEXT_QUESTION"} : Svc!Transition(row, t)
      /\ UNCHANGED <<questions, answers, current, idempotency, report, replies>>
  BY DEF Svc!SaveEvaluation, Svc!Evaluable
<1>2. /\ row' \in Svc!Views /\ row'.index = row.index
      /\ row'.status \in {"FOLLOW_UP_REQUIRED", "NEXT_QUESTION"}
  BY <1>1, TransitionWrites, StatusNames
<1>3. answers[q] \in Nat /\ n \in Nat
  BY DEF Database, Svc!TypeOK
<1>4. followUps' \in [Svc!Questions -> SUBSET Nat]
  BY <1>1, <1>3 DEF Database, Svc!TypeOK
<1>5. Svc!TypeOK'
  BY <1>1, <1>2, <1>3, <1>4 DEF Database, Svc!TypeOK
<1>6. Db!TypeOK'
  BY <1>5, SameTypes
<1>7. Db!Tables'
  <2>1. \A a \in evaluated' : a[2] \in 1 .. answers[a[1]]
    BY <1>1 DEF Database, Stored, Db!Tables
  <2>2. \A p \in Db!Questions : Db!IsFiniteSet(followUps'[p])
    <3>1. SUFFICES ASSUME NEW p \in Svc!Questions PROVE Db!IsFiniteSet(followUps'[p])
      BY SameQuestions
    <3>2. Db!IsFiniteSet(followUps[p])
      BY SameQuestions DEF Database, Stored, Db!Tables
    <3>3. followUps'[p] \in {followUps[p], followUps[p] \cup {n}}
      BY <1>1 DEF Database, Svc!TypeOK
    <3> QED
      BY <3>2, <3>3, Db!FS_AddElement, InterviewAssumption, SameQuestions
  <2> QED
    BY <1>1, <2>1, <2>2 DEF Database, Stored, Db!Tables
<1>8. Stored'
  BY <1>1, <1>2, <1>7 DEF Database, Stored, Db!ExactlyOnceSubmission
<1> QED
  BY <1>1, <1>2, <1>5, <1>6, <1>8 DEF Database

\* An answer stored on any object of the interview, old or fresh.
LEMMA SubmitStep ==
    ASSUME Database, NEW v, NEW q \in Svc!Questions, NEW k \in Keys, NEW t \in Texts,
           NEW told \in BOOLEAN, Svc!SubmitAnswer(v, q, k, t, told)
    PROVE  /\ Database'
           /\ row'.status = "EVALUATING"
           /\ answers' = [answers EXCEPT ![q] = answers[q] + 1]
           /\ current' = answers'
           /\ <<q, answers[q] + 1>> \notin evaluated'
<1>1. /\ Db!TypeOK' /\ Db!Tables' /\ Db!ExactlyOnceSubmission'
      /\ row'.status = "EVALUATING" /\ row'.index = row.index
      /\ answers' = [answers EXCEPT ![q] = answers[q] + 1]
      /\ <<q, answers[q] + 1>> \notin evaluated
      /\ UNCHANGED <<questions, evaluated, followUps, report>>
  BY SameSubmission, SameQuestions, InterviewAssumption, Db!SubmissionStep DEF Database, Stored
<1>2. Stored'
  BY <1>1 DEF Database, Stored
<1>3. current' = answers'
  BY <1>1 DEF Db!Tables
<1> QED
  BY <1>1, <1>2, <1>3, SameTypes DEF Database

LEMMA RepliesWrite ==
    ASSUME Database, replies' \subseteq replies \cup idempotency,
           UNCHANGED <<row, questions, answers, current, evaluated, followUps, idempotency, report>>
    PROVE  Database'
<1>1. Svc!TypeOK'
  BY DEF Database, Svc!TypeOK
<1>2. Db!TypeOK'
  BY <1>1, SameTypes
<1>3. Stored'
  BY DEF Database, Stored, Db!Tables, Db!ExactlyOnceSubmission
<1> QED
  BY <1>1, <1>2, <1>3 DEF Database

-----------------------------------------------------------------------------
(* Every step, and the database.                                            *)

\* The steps of connections and sessions that leave the database alone.
Handles(c) ==
    \/ \E s \in SessionIds : Connect(c, s)
    \/ Disconnect(c) \/ EndSession(c) \/ Enqueue(c)
    \/ \E q \in Svc!Questions, k \in Keys, t \in Texts : Refuse(c, q, k, t)

\* Everybody else's steps: no connection is touched.
Elsewhere ==
    \/ Prepare \/ RestFinish \/ Continue
    \/ \E q \in Svc!Questions, k \in Keys, t \in Texts : RestSubmit(q, k, t)
    \/ \E a \in pending : Evaluate(a)

LEMMA StepCases ==
    ASSUME Next
    PROVE  \/ CreateSession
           \/ \E c \in Connections :
                \/ Handles(c) \/ Reply(c)
                \/ \E q \in Svc!Questions, k \in Keys, t \in Texts :
                     Submit(c, q, k, t) \/ Replay(c, q, k, t)
           \/ Elsewhere
BY DEF Next, Handles, Elsewhere

LEMMA QuietSteps ==
    ASSUME CreateSession \/ \E c \in Connections : Handles(c) PROVE UNCHANGED database
BY DEF CreateSession, Handles, Connect, Disconnect, EndSession, Enqueue, Refuse

LEMMA QuietDatabase == ASSUME Database, UNCHANGED database PROVE Database'
<1>1. row' \in Svc!Views /\ report' \in BOOLEAN /\ questions' \in {{}, Svc!Questions}
  BY ReportType DEF database, Database, Svc!TypeOK
<1> QED
  BY <1>1, StatusWrite DEF database

LEMMA ReplySteps ==
    ASSUME NEW c, \/ Reply(c) \/ \E q, k, t : Replay(c, q, k, t)
    PROVE  /\ replies' \subseteq replies \cup idempotency
           /\ UNCHANGED <<row, questions, answers, current, evaluated, followUps,
                          idempotency, report>>
BY DEF Reply, Replay, Svc!ReplayAnswer, Svc!KeyRows

\* The enqueued answers exist.
LEMMA PendingAnswer ==
    ASSUME TypeOK, Owing, NEW a \in pending
    PROVE  /\ a = <<a[1], a[2]>> /\ a[1] \in Svc!Questions /\ a[2] \in Nat
           /\ a[2] \in 1 .. answers[a[1]]
BY DEF TypeOK, Owing, Given, Answered

LEMMA EvaluateStep ==
    ASSUME TypeOK, Database, Owing, NEW a \in pending, Evaluate(a)
    PROVE  /\ Database'
           /\ UNCHANGED answers
           /\ \/ UNCHANGED database /\ ~Svc!Evaluable(row, a[1], a[2])
              \/ row.status = "EVALUATING" /\ row'.status # "EVALUATING"
<1>1. CASE UNCHANGED database /\ ~Svc!Evaluable(row, a[1], a[2])
  BY <1>1, QuietDatabase DEF database
<1>2. CASE \E f \in BOOLEAN : Svc!SaveEvaluation(row, a[1], a[2], f)
  BY <1>2, PendingAnswer, SaveStep
<1> QED
  BY <1>1, <1>2 DEF Evaluate

LEMMA DatabaseStep == ASSUME TypeOK, Database, Owing, Next PROVE Database'
<1>1. ASSUME NEW c, NEW q \in Svc!Questions, NEW k \in Keys, NEW t \in Texts, Submit(c, q, k, t)
      PROVE  Database'
  BY <1>1, SubmitStep DEF Submit
<1>2. ASSUME NEW q \in Svc!Questions, NEW k \in Keys, NEW t \in Texts, RestSubmit(q, k, t)
      PROVE  Database'
  BY <1>2, SubmitStep DEF RestSubmit
<1>3. Elsewhere => Database'
  BY <1>2, PrepareStep, FinishStep, ContinueStep, EvaluateStep DEF Elsewhere
<1>4. ASSUME NEW c \in Connections, \/ Reply(c) \/ \E q, k, t : Replay(c, q, k, t)
      PROVE  Database'
  BY <1>4, ReplySteps, RepliesWrite
<1> QED
  BY <1>1, <1>3, <1>4, StepCases, QuietSteps, QuietDatabase

\* Answers are only added.
LEMMA AnswersGrow ==
    ASSUME TypeOK, Database, Owing, Next
    PROVE  /\ answers \in [Svc!Questions -> Nat] /\ answers' \in [Svc!Questions -> Nat]
           /\ \A q \in Svc!Questions : answers'[q] >= answers[q]
<1>1. answers \in [Svc!Questions -> Nat] /\ answers' \in [Svc!Questions -> Nat]
  BY DatabaseStep DEF Database, Svc!TypeOK
<1>2. ASSUME NEW q \in Svc!Questions, answers' = [answers EXCEPT ![q] = answers[q] + 1]
      PROVE  \A p \in Svc!Questions : answers'[p] >= answers[p]
  BY <1>1, <1>2
<1>3. UNCHANGED answers => \A p \in Svc!Questions : answers'[p] >= answers[p]
  BY <1>1
<1>4. ASSUME NEW c, NEW q \in Svc!Questions, NEW k \in Keys, NEW t \in Texts, Submit(c, q, k, t)
      PROVE  answers' = [answers EXCEPT ![q] = answers[q] + 1]
  BY <1>4, SubmitStep DEF Submit
<1>5. ASSUME NEW q \in Svc!Questions, NEW k \in Keys, NEW t \in Texts, RestSubmit(q, k, t)
      PROVE  answers' = [answers EXCEPT ![q] = answers[q] + 1]
  BY <1>5, SubmitStep DEF RestSubmit
<1>6. Elsewhere => \A p \in Svc!Questions : answers'[p] >= answers[p]
  BY <1>2, <1>3, <1>5, PrepareStep, FinishStep, ContinueStep, EvaluateStep DEF Elsewhere
<1>7. UNCHANGED database => UNCHANGED answers
  BY DEF database
<1> QED
  BY <1>1, <1>2, <1>3, <1>4, <1>6, <1>7, StepCases, QuietSteps, ReplySteps

-----------------------------------------------------------------------------
(* Connections.                                                             *)

Types ==
    /\ alone \in BOOLEAN
    /\ sessions \in [SessionIds -> {"none", "ACTIVE", "ENDED"}]
    /\ socket \in [Connections -> {"closed", "open", "replying", "enqueuing"}]
    /\ ticket \in [Connections -> SessionIds]
    /\ view \in [Connections -> Svc!Views]
    /\ due \in [Connections -> Answered]
    /\ pending \subseteq Answered
    /\ orphaned \subseteq Answered

LEMMA Initially == NoView \in Svc!Views /\ NoAnswer \in Answered /\ 1 \in SessionIds
BY QuestionFacts, MaxSessionsAssumption
   DEF NoView, Svc!Views, Svc!Statuses, NoAnswer, Answered, SessionIds

LEMMA TypesStep == ASSUME TypeOK, Database, Owing, Next PROVE Types'
<1>0. /\ row \in Svc!Views /\ "EVALUATING" \in Svc!Statuses
      /\ \A q \in Svc!Questions : <<q, answers[q] + 1>> \in Answered
  BY DEF Database, Svc!TypeOK, Svc!Statuses, Answered
<1>1. CASE CreateSession
  BY <1>1 DEF TypeOK, Types, CreateSession, connection
<1>2. ASSUME NEW c \in Connections, Handles(c) PROVE Types'
  <2>1. ASSUME NEW s \in SessionIds, Connect(c, s) PROVE Types'
    BY <1>0, <2>1 DEF TypeOK, Types, Connect, Goto
  <2>2. CASE Disconnect(c)
    BY <2>2, Initially DEF TypeOK, Types, Disconnect, Close, Goto
  <2>3. CASE EndSession(c)
    BY <2>3, Initially DEF TypeOK, Types, EndSession, Close, Goto
  <2>4. CASE Enqueue(c)
    BY <2>4, Initially DEF TypeOK, Types, Enqueue, Goto
  <2>5. ASSUME NEW q, NEW k, NEW t, Refuse(c, q, k, t) PROVE Types'
    BY <2>5, Initially DEF TypeOK, Types, Refuse, Close, Goto
  <2> QED
    BY <1>2, <2>1, <2>2, <2>3, <2>4, <2>5 DEF Handles
<1>3. ASSUME NEW c \in Connections, Reply(c) PROVE Types'
  BY <1>0, <1>3 DEF TypeOK, Types, Reply, Goto
<1>4. ASSUME NEW c \in Connections, NEW q \in Svc!Questions, NEW k, NEW t, Submit(c, q, k, t)
      PROVE  Types'
  <2>1. view' = [view EXCEPT ![c].status = "EVALUATING"]
    BY <1>4 DEF Submit
  <2>2. view' \in [Connections -> Svc!Views]
    BY <1>0, <2>1 DEF TypeOK, Svc!Views
  <2> QED
    BY <1>0, <1>4, <2>2 DEF TypeOK, Types, Submit, Goto
<1>5. ASSUME NEW c, NEW q, NEW k, NEW t, Replay(c, q, k, t) PROVE Types'
  BY <1>5 DEF TypeOK, Types, Replay, connection
<1>6. CASE Elsewhere
  <2>1. UNCHANGED <<alone, sessions, socket, ticket, view, due, orphaned>>
    BY <1>6 DEF Elsewhere, Prepare, RestFinish, Continue, RestSubmit, Evaluate, connection
  <2>2. pending' \subseteq Answered
    <3>1. ASSUME NEW q \in Svc!Questions, NEW k, NEW t, RestSubmit(q, k, t)
          PROVE  pending' \subseteq Answered
      BY <1>0, <3>1 DEF RestSubmit, TypeOK
    <3>2. Prepare \/ RestFinish \/ Continue \/ (\E a \in pending : Evaluate(a))
             => pending' \subseteq pending
      BY DEF Prepare, RestFinish, Continue, Evaluate
    <3> QED
      BY <1>6, <3>1, <3>2 DEF Elsewhere, TypeOK
  <2> QED
    BY <2>1, <2>2 DEF TypeOK, Types
<1> QED
  BY <1>1, <1>2, <1>3, <1>4, <1>5, <1>6, StepCases

\* An answer that exists goes on existing.
LEMMA GivenStays ==
    ASSUME TypeOK, Database, Owing, Next, NEW a, Given(a), a[1] \in Svc!Questions
    PROVE  Given(a)'
<1>1. /\ answers[a[1]] \in Nat /\ answers'[a[1]] \in Nat
      /\ answers'[a[1]] >= answers[a[1]]
  BY AnswersGrow
<1> QED
  BY <1>1 DEF Given

\* The connections' part of Owing.
Owes(c) == IF socket[c] \in {"replying", "enqueuing"} THEN Given(due[c]) ELSE due[c] = NoAnswer

LEMMA OwesStays ==
    ASSUME TypeOK, Database, Owing, Next, NEW c \in Connections,
           socket'[c] = socket[c], due'[c] = due[c]
    PROVE  Owes(c)'
<1>1. PICK a : a = due[c]
  OBVIOUS
<1>2. a[1] \in Svc!Questions
  BY <1>1 DEF TypeOK, Answered
<1>3. CASE socket[c] \in {"replying", "enqueuing"}
  <2>1. Given(a)
    BY <1>1, <1>3 DEF Owing
  <2>2. Given(a)'
    BY <1>2, <2>1, GivenStays
  <2> QED
    BY <1>1, <1>3, <2>2 DEF Owes, Given
<1>4. CASE socket[c] \notin {"replying", "enqueuing"}
  BY <1>4 DEF Owing, Owes
<1> QED
  BY <1>3, <1>4

\* A step of one connection leaves the others where they are.
LEMMA OthersStay ==
    ASSUME TypeOK, NEW c \in Connections,
           \/ Handles(c) \/ Reply(c)
           \/ \E q, k, t : Submit(c, q, k, t) \/ Replay(c, q, k, t),
           NEW d \in Connections, d # c
    PROVE  socket'[d] = socket[d] /\ due'[d] = due[d] /\ view'[d] = view[d]
BY DEF TypeOK, Handles, Connect, Disconnect, EndSession, Enqueue, Refuse, Reply, Submit, Replay,
   Close, Goto, connection

LEMMA OwingStep == ASSUME TypeOK, Database, Owing, Next PROVE Owing'
<1>1. ASSUME NEW c \in Connections, Handles(c) PROVE Owes(c)'
  <2>1. ASSUME NEW s, Connect(c, s) PROVE Owes(c)'
    BY <2>1 DEF Connect, Goto, Owes, Owing, TypeOK
  <2>2. CASE ~\E s \in SessionIds : Connect(c, s)
    BY <1>1, <2>2 DEF Handles, Disconnect, EndSession, Enqueue, Refuse, Close, Goto, Owes, TypeOK
  <2> QED
    BY <2>1, <2>2
<1>2. ASSUME NEW c \in Connections, Reply(c) PROVE Owes(c)'
  <2>1. Given(due[c]) /\ due' = due /\ answers' = answers /\ socket'[c] = "enqueuing"
    BY <1>2 DEF Reply, Goto, Owing, TypeOK
  <2> QED
    BY <2>1 DEF Owes, Given
<1>3. ASSUME NEW c \in Connections, NEW q \in Svc!Questions, NEW k \in Keys, NEW t \in Texts,
             Submit(c, q, k, t)
      PROVE  Owes(c)'
  <2>1. /\ socket'[c] = "replying" /\ due'[c] = <<q, answers[q] + 1>>
    BY <1>3 DEF Submit, Goto, TypeOK
  <2>2. answers[q] \in Nat /\ answers'[q] = answers[q] + 1
    BY <1>3, SubmitStep DEF Submit, Database, Svc!TypeOK
  <2> QED
    BY <2>1, <2>2 DEF Owes, Given
<1>4. ASSUME NEW c \in Connections PROVE Owes(c)'
  <2>1. ASSUME NEW d, NEW q, NEW k, NEW t, Replay(d, q, k, t) PROVE socket' = socket /\ due' = due
    BY <2>1 DEF Replay, connection
  <2>2. CreateSession \/ Elsewhere => socket' = socket /\ due' = due
    BY DEF CreateSession, Elsewhere, Prepare, RestFinish, Continue, RestSubmit, Evaluate, connection
  <2> QED
    BY <1>1, <1>2, <1>3, <2>1, <2>2, StepCases, OthersStay, OwesStays
<1>5. ASSUME NEW a \in pending' PROVE Given(a)'
  <2>1. CASE a \in pending
    BY <2>1, GivenStays DEF Owing, TypeOK, Answered
  <2>2. ASSUME NEW c \in Connections, Enqueue(c), a = due[c] PROVE Given(a)'
    BY <2>2 DEF Enqueue, Owing, Given, database
  <2>3. ASSUME NEW q \in Svc!Questions, NEW k \in Keys, NEW t \in Texts, RestSubmit(q, k, t),
               a = <<q, answers[q] + 1>>
        PROVE  Given(a)'
    <3>1. answers[q] \in Nat /\ answers'[q] = answers[q] + 1
      BY <2>3, SubmitStep DEF RestSubmit, Database, Svc!TypeOK
    <3> QED
      BY <2>3, <3>1 DEF Given
  <2>4. \/ a \in pending
        \/ \E c \in Connections : Enqueue(c) /\ a = due[c]
        \/ \E q \in Svc!Questions, k \in Keys, t \in Texts :
              RestSubmit(q, k, t) /\ a = <<q, answers[q] + 1>>
    BY StepCases DEF CreateSession, Handles, Connect, Disconnect, EndSession, Enqueue, Refuse,
       Reply, Submit, Replay, Elsewhere, Prepare, RestFinish, Continue, RestSubmit, Evaluate
  <2> QED
    BY <2>1, <2>2, <2>3, <2>4
<1> QED
  BY <1>4, <1>5 DEF Owing, Owes

-----------------------------------------------------------------------------
(* One connection at a time.                                                *)

\* While the interview waits for the answer of a candidate who uses one
\* connection, nobody else changes its row.
LEMMA NobodyInterferes ==
    ASSUME TypeOK, Database, Owing, alone, Elsewhere, row.status \in Waiting
    PROVE  row' = row
<1>1. ASSUME NEW a \in pending, Evaluate(a) PROVE row' = row
  BY <1>1, EvaluateStep DEF database, Waiting
<1>2. ~RestFinish /\ \A q, k, t : ~RestSubmit(q, k, t)
  BY DEF RestFinish, RestSubmit
<1>3. ~Continue
  BY ContinueStep
<1>4. Prepare => row' = row
  BY PrepareStep
<1> QED
  BY <1>1, <1>2, <1>3, <1>4 DEF Elsewhere

LEMMA AloneStep == ASSUME TypeOK, Database, Owing, Alone, Next PROVE Alone'
<1> SUFFICES ASSUME alone' PROVE
      /\ \A c, d \in Connections : socket'[c] # "closed" /\ socket'[d] # "closed" => c = d
      /\ \A c \in Connections :
            socket'[c] \in {"open", "enqueuing"} /\ view'[c].status \in Waiting => view'[c] = row'
  BY DEF Alone
<1>1. alone
  BY DEF Next, CreateSession, Connect, Disconnect, EndSession, Enqueue, Refuse, Reply, Submit,
     Replay, Prepare, RestFinish, Continue, RestSubmit, Evaluate
<1>2. /\ \A c, d \in Connections : socket[c] # "closed" /\ socket[d] # "closed" => c = d
      /\ \A c \in Connections :
            socket[c] \in {"open", "enqueuing"} /\ view[c].status \in Waiting => view[c] = row
  BY <1>1 DEF Alone
<1>3. ASSUME NEW c \in Connections,
             \/ Handles(c) \/ Reply(c)
             \/ \E q \in Svc!Questions, k \in Keys, t \in Texts : Submit(c, q, k, t)
      PROVE  /\ \/ socket[c] # "closed"
                \/ /\ \A d \in Connections : socket[d] = "closed"
                   /\ view' = [view EXCEPT ![c] = row] /\ row' = row
             /\ row' = row \/ socket'[c] = "replying"
             /\ socket'[c] \in {"open", "enqueuing"} =>
                  \/ view'[c] = row /\ row' = row
                  \/ socket[c] = "enqueuing" /\ view' = view /\ row' = row
  <2>1. ASSUME NEW s, Connect(c, s)
        PROVE  /\ \A d \in Connections : socket[d] = "closed"
               /\ view' = [view EXCEPT ![c] = row] /\ row' = row
               /\ view'[c] = row
    BY <1>1, <2>1 DEF Connect, database, TypeOK
  <2>2. CASE Disconnect(c) \/ EndSession(c) \/ \E q, k, t : Refuse(c, q, k, t)
    BY <2>2 DEF Disconnect, EndSession, Refuse, Close, Goto, database, TypeOK
  <2>3. CASE Enqueue(c)
    BY <2>3 DEF Enqueue, Goto, database, TypeOK
  <2>4. CASE Reply(c)
    BY <2>4 DEF Reply, Goto, TypeOK
  <2>5. CASE \E q, k, t : Submit(c, q, k, t)
    BY <2>5 DEF Submit, Goto, TypeOK
  <2> QED
    BY <1>3, <2>1, <2>2, <2>3, <2>4, <2>5 DEF Handles
<1>4. ASSUME \/ CreateSession \/ Elsewhere
             \/ \E c \in Connections, q \in Svc!Questions, k \in Keys, t \in Texts :
                  Replay(c, q, k, t)
      PROVE  /\ socket' = socket /\ view' = view
             /\ row.status \in Waiting => row' = row
  <2>1. UNCHANGED <<socket, view>>
    BY <1>4 DEF CreateSession, Elsewhere, Prepare, RestFinish, Continue, RestSubmit, Evaluate,
       Replay, connection
  <2>2. CreateSession => row' = row
    BY DEF CreateSession, database
  <2> QED
    BY <1>1, <1>4, <2>1, <2>2, NobodyInterferes, ReplySteps
<1>5. CASE \/ CreateSession \/ Elsewhere
           \/ \E c \in Connections, q \in Svc!Questions, k \in Keys, t \in Texts :
                Replay(c, q, k, t)
  BY <1>2, <1>4, <1>5
<1>6. ASSUME NEW c \in Connections,
             \/ Handles(c) \/ Reply(c)
             \/ \E q \in Svc!Questions, k \in Keys, t \in Texts : Submit(c, q, k, t)
      PROVE  /\ \A d, e \in Connections : socket'[d] # "closed" /\ socket'[e] # "closed" => d = e
             /\ \A d \in Connections :
                   socket'[d] \in {"open", "enqueuing"} /\ view'[d].status \in Waiting =>
                      view'[d] = row'
  <2>1. \A d \in Connections : d # c => socket'[d] = socket[d] /\ view'[d] = view[d]
    BY <1>6, OthersStay
  <2>2. \A d \in Connections : d # c => socket'[d] = "closed"
    BY <1>2, <1>3, <1>6, <2>1
  <2>3. socket'[c] \in {"open", "enqueuing"} /\ view'[c].status \in Waiting => view'[c] = row'
    BY <1>2, <1>3, <1>6
  <2> QED
    BY <2>2, <2>3
<1> QED
  BY <1>5, <1>6, StepCases

-----------------------------------------------------------------------------
(* The answer that is evaluated.                                            *)

Accounted(a) ==
    /\ a # NoAnswer
    /\ a \in pending \/ a \in orphaned \/ \E c \in Connections : due[c] = a

LEMMA AccountedMeans ==
    EvaluationAccountedFor <=>
       (row.status = "EVALUATING" => \E a : Accounted(a) /\ Svc!Evaluable(row, a[1], a[2]))
BY DEF EvaluationAccountedFor, Accounted

\* An answer owed, enqueued or orphaned stays so until it is evaluated.
LEMMA StaysAccounted ==
    ASSUME TypeOK, Owing, NEW a, Accounted(a), Svc!Evaluable(row, a[1], a[2]), Next,
           \A c \in Connections, q \in Svc!Questions, k \in Keys, t \in Texts :
              ~Submit(c, q, k, t),
           \A b \in pending : Evaluate(b) => ~Svc!Evaluable(row, b[1], b[2])
    PROVE  Accounted(a)'
<1>1. orphaned \subseteq orphaned'
  BY StepCases DEF CreateSession, Handles, Connect, Disconnect, EndSession, Enqueue, Refuse,
     Reply, Replay, Elsewhere, Prepare, RestFinish, Continue, RestSubmit, Evaluate
<1>2. a \in pending => a \in pending'
  BY StepCases DEF CreateSession, Handles, Connect, Disconnect, EndSession, Enqueue, Refuse,
     Reply, Replay, Elsewhere, Prepare, RestFinish, Continue, RestSubmit, Evaluate
<1>3. ASSUME NEW c \in Connections, due[c] = a, a # NoAnswer
      PROVE  due'[c] = a \/ a \in pending' \/ a \in orphaned'
  <2>1. socket[c] \in {"replying", "enqueuing"}
    BY <1>3 DEF Owing
  <2>2. CASE CreateSession \/ Elsewhere
    BY <1>3, <2>2 DEF CreateSession, Elsewhere, Prepare, RestFinish, Continue, RestSubmit,
       Evaluate, connection
  <2>3. CASE Handles(c) \/ Reply(c)
    BY <1>3, <2>1, <2>3 DEF Handles, Connect, Disconnect, EndSession, Enqueue, Refuse, Reply
  <2>4. ASSUME NEW d, NEW q, NEW k, NEW t, Replay(d, q, k, t) PROVE due' = due
    BY <2>4 DEF Replay, connection
  <2>5. ASSUME NEW d \in Connections, d # c, Handles(d) \/ Reply(d) PROVE due'[c] = due[c]
    BY <2>5, OthersStay
  <2> QED
    BY <1>3, <2>2, <2>3, <2>4, <2>5, StepCases
<1> QED
  BY <1>1, <1>2, <1>3 DEF Accounted

LEMMA AccountedStep ==
    ASSUME TypeOK, Database, Owing, EvaluationAccountedFor, Next
    PROVE  EvaluationAccountedFor'
<1> SUFFICES ASSUME row'.status = "EVALUATING"
             PROVE  \E a : Accounted(a)' /\ Svc!Evaluable(row, a[1], a[2])'
  BY DEF EvaluationAccountedFor, Accounted, Svc!Evaluable
<1>1. ASSUME NEW q \in Svc!Questions, NEW k \in Keys, NEW t \in Texts, NEW v,
             NEW told \in BOOLEAN, Svc!SubmitAnswer(v, q, k, t, told), NEW a,
             a = <<q, answers[q] + 1>>
      PROVE  a # NoAnswer /\ Svc!Evaluable(row, a[1], a[2])'
  <2>1. /\ answers' = [answers EXCEPT ![q] = answers[q] + 1]
        /\ current' = answers' /\ <<q, answers[q] + 1>> \notin evaluated'
    BY <1>1, SubmitStep
  <2>2. answers[q] \in Nat /\ answers'[q] = answers[q] + 1
    BY <2>1 DEF Database, Svc!TypeOK
  <2> QED
    BY <1>1, <2>1, <2>2 DEF Svc!Evaluable, NoAnswer
<1>2. ASSUME NEW c \in Connections, NEW q \in Svc!Questions, NEW k \in Keys, NEW t \in Texts,
             Submit(c, q, k, t)
      PROVE  \E a : Accounted(a)' /\ Svc!Evaluable(row, a[1], a[2])'
  <2>1. PICK a : a = <<q, answers[q] + 1>>
    OBVIOUS
  <2>2. a # NoAnswer /\ Svc!Evaluable(row, a[1], a[2])'
    BY <1>1, <1>2, <2>1 DEF Submit
  <2>3. due'[c] = a
    BY <1>2, <2>1 DEF Submit, TypeOK
  <2> QED
    BY <2>2, <2>3 DEF Accounted
<1>3. ASSUME NEW q \in Svc!Questions, NEW k \in Keys, NEW t \in Texts, RestSubmit(q, k, t)
      PROVE  \E a : Accounted(a)' /\ Svc!Evaluable(row, a[1], a[2])'
  <2>1. PICK a : a = <<q, answers[q] + 1>>
    OBVIOUS
  <2>2. a # NoAnswer /\ Svc!Evaluable(row, a[1], a[2])'
    BY <1>1, <1>3, <2>1 DEF RestSubmit
  <2>3. a \in pending'
    BY <1>3, <2>1 DEF RestSubmit
  <2> QED
    BY <2>2, <2>3 DEF Accounted
<1>4. CASE /\ \A c \in Connections, q \in Svc!Questions, k \in Keys, t \in Texts : ~Submit(c, q, k, t)
           /\ \A q \in Svc!Questions, k \in Keys, t \in Texts : ~RestSubmit(q, k, t)
  <2>1. \A b \in pending : Evaluate(b) => UNCHANGED database /\ ~Svc!Evaluable(row, b[1], b[2])
    BY EvaluateStep
  <2>2. UNCHANGED <<row, current, evaluated>>
    <3>1. UNCHANGED database => UNCHANGED <<row, current, evaluated>>
      BY DEF database
    <3>2. Elsewhere => UNCHANGED <<row, current, evaluated>>
      BY <1>4, <2>1, <3>1, PrepareStep, FinishStep, ContinueStep DEF Elsewhere
    <3> QED
      BY <1>4, <3>1, <3>2, StepCases, QuietSteps, ReplySteps
  <2>3. PICK a : Accounted(a) /\ Svc!Evaluable(row, a[1], a[2])
    BY <2>2, AccountedMeans
  <2>4. Svc!Evaluable(row, a[1], a[2])'
    BY <2>2, <2>3 DEF Svc!Evaluable
  <2>5. Accounted(a)'
    BY <1>4, <2>1, <2>3, StaysAccounted
  <2> QED
    BY <2>4, <2>5
<1> QED
  BY <1>2, <1>3, <1>4

-----------------------------------------------------------------------------
(* The invariant and the theorems.                                          *)

LEMMA Typed == (TypeOK <=> Svc!TypeOK /\ Types) /\ (TypeOK /\ Stored => Database)
BY SameTypes DEF TypeOK, Types, Database

LEMMA InitIInv == Init => IInv
<1> SUFFICES ASSUME Init PROVE IInv
  OBVIOUS
<1>1. Db!IInv
  <2>1. Db!Init
    BY SameQuestions DEF Init, Db!Init, Svc!Init
  <2> QED
    BY <2>1, Db!InitIInv, InterviewAssumption, SameQuestions
<1>2. Svc!TypeOK
  BY <1>1, SameTypes DEF Db!IInv, Db!Core
<1>3. Types
  BY Initially DEF Init, Types
<1>4. Stored
  BY <1>1 DEF Db!IInv, Db!Core, Db!Prepared, Stored
<1>5. Owing /\ Alone
  BY DEF Init, Owing, Alone
<1>6. row.status = "CREATED"
  BY DEF Init, Svc!Init
<1> QED
  BY <1>2, <1>3, <1>4, <1>5, <1>6, Typed DEF IInv, EvaluationAccountedFor

LEMMA NextIInv == IInv /\ [Next]_vars => IInv'
<1> SUFFICES ASSUME IInv, [Next]_vars PROVE IInv'
  OBVIOUS
<1>1. TypeOK /\ Database /\ Owing /\ Alone /\ EvaluationAccountedFor
  BY Typed DEF IInv
<1>2. CASE Next
  <2>1. Database' /\ Types'
    BY <1>1, <1>2, DatabaseStep, TypesStep
  <2>2. TypeOK'
    BY <2>1 DEF TypeOK, Types, Database
  <2>3. Owing' /\ Alone' /\ EvaluationAccountedFor'
    BY <1>1, <1>2, OwingStep, AloneStep, AccountedStep
  <2> QED
    BY <2>1, <2>2, <2>3 DEF IInv, Database
<1>3. CASE UNCHANGED vars
  <2>1. UNCHANGED <<database, alone, sessions, socket, ticket, view, due, pending, orphaned>>
    BY <1>3 DEF vars, connection
  <2>2. UNCHANGED <<row, questions, answers, current, evaluated, followUps, idempotency,
                    report, replies>>
    BY <2>1 DEF database
  <2>3. Database'
    BY <1>1, <2>1, QuietDatabase
  <2>4. TypeOK'
    BY <1>1, <2>1, <2>3 DEF TypeOK, Database
  <2>5. Owing' /\ Alone'
    BY <1>1, <2>1, <2>2 DEF Owing, Given, Alone
  <2>6. EvaluationAccountedFor'
    BY <1>1, <2>1, <2>2 DEF EvaluationAccountedFor, Svc!Evaluable
  <2> QED
    BY <2>3, <2>4, <2>5, <2>6 DEF IInv, Database
<1> QED
  BY <1>2, <1>3

LEMMA Invariance == Spec => []IInv
BY InitIInv, NextIInv, PTL DEF Spec

\* Every variable keeps its type.
THEOREM GatewayTypeCorrect == Spec => []TypeOK
BY Invariance, PTL DEF IInv

\* Over any mix of connections with old objects, reconnections and REST: keys
\* and answers correspond one to one, and a client is only told of the answer
\* its key has (service.py:278-322).
THEOREM GatewaySubmissionsSound == Spec => []SubmissionsSound
<1>1. Db!ExactlyOnceSubmission => SubmissionsSound
  BY SameQuestions DEF SubmissionsSound, Svc!ExactlyOnceSubmission, Db!ExactlyOnceSubmission
<1>2. IInv => SubmissionsSound
  BY <1>1 DEF IInv, Stored
<1> QED
  BY <1>2, Invariance, PTL

\* EVALUATING names an answer that is enqueued, about to be, or lost with its
\* connection (websocket.py:157-159): whatever objects the connections hold,
\* the evaluation is missing for no other reason.
THEOREM EvaluationsAreAccountedFor == Spec => []EvaluationAccountedFor
BY Invariance, PTL DEF IInv

\* What a lone candidate's step does to the database, the service could do.
LEMMA AloneNext ==
    ASSUME IInv, Next, alone PROVE Svc!Next \/ UNCHANGED database
<1>1. TypeOK /\ Database /\ Owing /\ Alone
  BY Typed DEF IInv
<1>2. ASSUME NEW c \in Connections, NEW q \in Svc!Questions, NEW k \in Keys, NEW t \in Texts,
             Submit(c, q, k, t)
      PROVE  Svc!Next
  <2>1. socket[c] = "open" /\ view[c].status \in Waiting /\ Svc!SubmitAnswer(view[c], q, k, t, FALSE)
    BY <1>2 DEF Submit, Svc!SubmitAnswer, Svc!Accepts, Waiting
  <2>2. view[c] = row
    BY <1>1, <2>1 DEF Alone
  <2> QED
    BY <2>1, <2>2 DEF Svc!Next
<1>3. ASSUME NEW c, NEW q \in Svc!Questions, NEW k \in Keys, NEW t \in Texts, Replay(c, q, k, t)
      PROVE  Svc!Next
  BY <1>3 DEF Replay, Svc!Next
<1>4. ASSUME NEW c \in Connections, Reply(c) PROVE Svc!Next
  <2>1. due[c] \in Answered /\ Given(due[c])
    BY <1>1, <1>4 DEF Reply, Owing, TypeOK
  <2>2. PICK s \in idempotency : s.question = due[c][1] /\ s.attempt = due[c][2]
    BY <1>1, <2>1, SameQuestions DEF Database, Stored, Db!ExactlyOnceSubmission, Answered, Given
  <2>3. {r \in idempotency : <<r.question, r.attempt>> = due[c]} = {s}
    <3>1. <<s.question, s.attempt>> = due[c]
      BY <2>1, <2>2 DEF Answered
    <3>2. \A r \in idempotency : <<r.question, r.attempt>> = <<s.question, s.attempt>> => r = s
      BY <1>1 DEF Database, Stored, Db!ExactlyOnceSubmission
    <3> QED
      BY <3>1, <3>2
  <2>4. s.question \in Svc!Questions /\ s.key \in Keys /\ s.text \in Texts
    BY <1>1 DEF Database, Svc!TypeOK, Svc!Submission
  <2>5. Svc!ReplayAnswer(s.question, s.key, s.text)
    BY <1>4, <2>3 DEF Reply, Svc!ReplayAnswer, Svc!KeyRows
  <2> QED
    BY <2>4, <2>5 DEF Svc!Next
<1>5. CASE Elsewhere
  <2>1. ~RestFinish /\ \A q, k, t : ~RestSubmit(q, k, t)
    BY DEF RestFinish, RestSubmit
  <2>2. Prepare \/ Continue => Svc!Next
    BY DEF Prepare, Continue, Svc!Next
  <2>3. ASSUME NEW a \in pending, Evaluate(a) PROVE Svc!Next \/ UNCHANGED database
    BY <1>1, <2>3, PendingAnswer DEF Evaluate, Svc!Next
  <2> QED
    BY <1>5, <2>1, <2>2, <2>3 DEF Elsewhere
<1> QED
  BY <1>2, <1>3, <1>4, <1>5, StepCases, QuietSteps

\* A candidate who uses one connection at a time and leaves REST alone gets
\* the interview service: no step on the connection's object does anything
\* that a freshly loaded row would not allow (websocket.py:54, 140-160).
THEOREM AloneGetsTheService == Spec => AloneImplementsService
<1>1. IInv /\ [Next]_vars => [alone => Svc!Next]_database
  BY AloneNext DEF vars
<1> QED
  BY <1>1, Invariance, PTL DEF Spec, AloneImplementsService
===============================================================================
