---------------------------- MODULE OneWorkerProofs ----------------------------
(***************************************************************************)
(* Machine-checked proofs about InterviewPipeline with one worker and a    *)
(* candidate who does not finish by hand; the deployment of                *)
(* docker-compose with one of its two workers.  Any faults may happen.     *)
(*                                                                         *)
(* The worker's old object is then as good as the row wherever a           *)
(* transaction decides on it (Fresh): the requests of the candidate only   *)
(* touch statuses in which the worker holds no object it will decide on.   *)
(* So the pipeline implements the service.                                 *)
(*                                                                         *)
(* Before the first fault there is also exactly one generation task, which *)
(* nothing can make fail (Calm), and whatever status the interview is in,  *)
(* somebody carries it on.                                                 *)
(*                                                                         *)
(* That ended interviews stay ended needs only the one worker: the last    *)
(* section allows finishing by hand.                                       *)
(***************************************************************************)
EXTENDS InterviewPipelineProofs

OneWorker ==
    /\ ~ManualFinish
    /\ \A w, x \in Workers : w = x

\* What the worker saw is still so.
Fresh ==
    \A w \in Workers :
       /\ MayMark(w) => row.status = "PREPARING"
       /\ pc[w] = "failing" /\ view[w].status # "REPORT_READY" =>
             row.status \notin {"FAILED", "REPORT_READY"}
       /\ pc[w] = "refresh" => row.status = "NEXT_QUESTION"
       /\ pc[w] = "move" => row.status = "NEXT_QUESTION" /\ view[w] = row
       /\ pc[w] = "begin" => row.status = "COMPLETED" /\ ~report
       /\ pc[w] = "write" => row.status = "REPORT_GENERATING" /\ ~report
       /\ pc[w] = "complete" =>
             row.status = "REPORT_GENERATING" /\ ~report /\ view[w] = row

\* A worker is in the task of its message.
Labelled ==
    \A w \in Workers :
       /\ pc[w] \in {"generate", "ready", "giveup", "failing"} => job[w].task = "generate"
       /\ pc[w] \in {"evaluate", "refresh", "move", "settle"} => job[w].task = "evaluate"
       /\ pc[w] \in {"report", "begin", "write", "complete"} => job[w].task = "report"

\* The report and the evaluations it averages.
Reported ==
    /\ report => row.status = "REPORT_READY"
    /\ row.status \in {"COMPLETED", "REPORT_GENERATING"} => evaluated # {}

\* What does not depend on the faults.
Steady ==
    /\ IInv
    /\ Fresh
    /\ Labelled
    /\ Reported

\* A generation task is in the bag; there is one copy of it at most.
Generation(b) == \E m \in BagToSet(b) : m.task = "generate"
Single(b) == \A m \in BagToSet(b) : m.task = "generate" => m = GenerateTask /\ b[m] = 1

\* One generation task, until the questions are there.
GeneratedOnce ==
    /\ Single(owed) /\ Single(queue)
    /\ ~(Generation(owed) /\ Generation(queue))
    /\ Generation(owed) \/ Generation(queue) =>
          questions = {} /\ \A w \in Workers : pc[w] \notin {"generate", "ready"}
    /\ \A w \in Workers : pc[w] = "generate" => questions = {}
    /\ row.status = "CREATED" =>
          /\ questions = {} /\ ~Generation(owed) /\ ~Generation(queue)
          /\ \A w \in Workers : pc[w] \notin {"generate", "ready"}

Calm ==
    NoFaults =>
      /\ \A w \in Workers : /\ pc[w] \notin {"giveup", "failing"}
                            /\ pc[w] = "ready" => view[w].status = "PREPARING"
      /\ questions = {} => row.status \in {"CREATED", "PREPARING"}
      /\ row.status # "FAILED"
      /\ GeneratedOnce

OneIInv ==
    /\ Steady
    /\ Calm
    /\ SomeoneCarriesOn

-----------------------------------------------------------------------------
(* The object is as good as the row, whatever faults happen.               *)

\* Requests leave alone the statuses in which the worker decides.
LEMMA RequestsLeave ==
    ASSUME OneWorker, IInv, Api \/ Candidate
    PROVE  /\ UNCHANGED workers
           /\ report' = report /\ evaluated' = evaluated
           /\ row.status \in {"PREPARING", "NEXT_QUESTION", "COMPLETED", "REPORT_GENERATING"} =>
                 row' = row
           /\ row.status \notin {"FAILED", "REPORT_READY"} =>
                 row'.status \notin {"FAILED", "REPORT_READY"}
<1>1. Quiet \/ Began \/ Started \/ Submitted
  BY RequestEffects DEF IInv, OneWorker
<1>2. UNCHANGED workers
  BY RequestsTouchNoWorker
<1> QED
  BY <1>1, <1>2 DEF Quiet, Began, Started, Submitted, RowOnly

LEMMA FreshStep == ASSUME OneWorker, IInv, Fresh, Next PROVE Fresh'
<1>0. Processes
  BY ProcessesTyped DEF IInv
<1>1. CASE Api \/ Candidate
  BY <1>1, RequestsLeave DEF Fresh, MayMark, workers
<1>2. ASSUME NEW m, LoseDispatch(m) PROVE Fresh'
  BY <1>2 DEF LoseDispatch, database, workers, Fresh, MayMark
<1>3. ASSUME NEW w \in Workers, Redeliver(w) PROVE Fresh'
  BY <1>3 DEF Redeliver, database, workers, Fresh, MayMark
<1>4. ASSUME NEW w \in Workers,
             pc'[w] \notin {"ready", "failing", "refresh", "move", "begin", "write", "complete"}
      PROVE  Fresh'
  BY <1>4 DEF OneWorker, Fresh, MayMark
<1>5. ASSUME NEW w \in Workers, Take(w) PROVE Fresh'
  <2>1. PICK m \in BagToSet(queue) : Goto(w, m.task)
    BY <1>5 DEF Take
  <2>2. m.task \in {"generate", "evaluate", "report"}
    BY <1>0, <2>1 DEF Processes, Tasks, Sent
  <2> QED
    BY <1>0, <1>4, <2>1, <2>2 DEF Goto, Processes
<1>6. ASSUME NEW w \in Workers, Ack(w) \/ Die(w) PROVE Fresh'
  BY <1>0, <1>4, <1>6 DEF Ack, Die, Goto, Processes
<1>7. ASSUME NEW w \in Workers, InTask(w) PROVE Fresh'
  <2>0. /\ \A x \in Workers : x = w
        /\ \A l : Goto(w, l) => pc'[w] = l
        /\ \A v : view' = [view EXCEPT ![w] = v] => view'[w] = v
    BY <1>0 DEF OneWorker, Goto, Processes
  <2>1. CASE GenerateQuestions(w)
    <3>1. pc'[w] = "ready" /\ view'[w] = row /\ row' = row
      BY <2>0, <2>1 DEF GenerateQuestions, Svc!PersistQuestions
    <3> QED
      BY <2>0, <3>1 DEF Fresh, MayMark
  <2>2. CASE GiveUp(w)
    <3>1. /\ view'[w] = row /\ row' = row
          /\ pc'[w] = "done" \/ (pc'[w] = "failing" /\ row.status # "FAILED")
      BY <2>0, <2>2 DEF GiveUp, database
    <3> QED
      BY <2>0, <3>1 DEF Fresh, MayMark
  <2>3. CASE EvaluateAnswer(w)
    <3>1. \/ pc'[w] = "refresh" /\ row'.status = "NEXT_QUESTION"
          \/ pc'[w] = "settle"
      BY <1>0, <2>3, SavedEvaluation DEF IInv
    <3> QED
      BY <2>0, <3>1 DEF Fresh, MayMark
  <2>4. CASE RefreshInterview(w)
    <3>1. pc[w] = "refresh" /\ pc'[w] = "move" /\ view'[w] = row /\ row' = row
      BY <2>0, <2>4 DEF RefreshInterview, database
    <3> QED
      BY <2>0, <3>1 DEF Fresh, MayMark
  <2>5. CASE CheckReport(w)
    <3>1. /\ row' = row /\ report' = report
          /\ pc'[w] = "done" \/ (pc'[w] = "begin" /\ ~report /\ row.status = "COMPLETED")
      BY <2>0, <2>5 DEF CheckReport, database
    <3> QED
      BY <2>0, <3>1 DEF Fresh, MayMark
  <2>6. CASE BeginReport(w)
    <3>1. /\ pc[w] = "begin" /\ pc'[w] = "write" /\ row'.status = "REPORT_GENERATING"
          /\ report' = report
      BY <2>0, <2>6, TransitionWrites DEF BeginReport, Svc!BeginReport, IInv
    <3> QED
      BY <2>0, <3>1 DEF Fresh, MayMark
  <2>7. CASE WriteReport(w)
    <3>1. /\ pc[w] = "write" /\ pc'[w] \in {"done", "complete"} /\ view'[w] = row
          /\ row' = row /\ report' = report
      BY <2>0, <2>7 DEF WriteReport, database
    <3> QED
      BY <2>0, <3>1 DEF Fresh, MayMark
  <2>8. CASE \/ GenerateTwice(w) \/ GenerateFails(w) \/ MarkReady(w) \/ FailInterview(w)
             \/ SkipEvaluation(w) \/ EvaluationFails(w) \/ MoveToNextQuestion(w)
             \/ SettleEvaluation(w) \/ ReportFails(w) \/ CompleteReport(w)
    <3>1. pc'[w] \in {"giveup", "done", "settle"}
      BY <2>0, <2>8 DEF GenerateTwice, GenerateFails, MarkReady, FailInterview, SkipEvaluation,
         EvaluationFails, MoveToNextQuestion, SettleEvaluation, ReportFails, CompleteReport, Raise
    <3> QED
      BY <1>4, <3>1
  <2> QED
    BY <1>7, <2>1, <2>2, <2>3, <2>4, <2>5, <2>6, <2>7, <2>8 DEF InTask
<1> QED
  BY <1>1, <1>2, <1>3, <1>5, <1>6, <1>7, StepCases

LEMMA LabelledStep == ASSUME OneWorker, IInv, Labelled, Next PROVE Labelled'
<1>0. Processes
  BY ProcessesTyped DEF IInv
<1>1. UNCHANGED workers => Labelled'
  BY DEF workers, Labelled
<1>2. ASSUME NEW w \in Workers, Take(w) PROVE Labelled'
  <2>1. PICK m \in BagToSet(queue) : Goto(w, m.task) /\ job' = [job EXCEPT ![w] = m]
    BY <1>2 DEF Take
  <2>2. m.task \in {"generate", "evaluate", "report"}
    BY <1>0, <2>1 DEF Processes, Tasks, Sent
  <2>3. pc'[w] = m.task /\ job'[w] = m
    BY <1>0, <2>1 DEF Goto, Processes
  <2> QED
    BY <2>2, <2>3 DEF OneWorker, Labelled
<1>3. ASSUME NEW w \in Workers, Ack(w) \/ Die(w) PROVE Labelled'
  <2>1. pc'[w] = "idle"
    BY <1>0, <1>3 DEF Ack, Die, Goto, Processes
  <2> QED
    BY <2>1 DEF OneWorker, Labelled
<1>4. ASSUME NEW w \in Workers, InTask(w) PROVE Labelled'
  <2>1. job' = job /\ \A l : Goto(w, l) => pc'[w] = l
    BY <1>0, <1>4 DEF Goto, Processes, InTask, GenerateQuestions, GenerateTwice, GenerateFails,
       MarkReady, GiveUp, FailInterview, SkipEvaluation, EvaluateAnswer, EvaluationFails,
       RefreshInterview, MoveToNextQuestion, SettleEvaluation, CheckReport, BeginReport,
       WriteReport, ReportFails, CompleteReport
  <2>2. \/ pc'[w] = "done"
        \/ /\ pc[w] \in {"generate", "ready", "giveup"}
           /\ pc'[w] \in {"ready", "giveup", "failing"}
        \/ /\ pc[w] \in {"evaluate", "refresh", "move"}
           /\ pc'[w] \in {"refresh", "move", "settle"}
        \/ /\ pc[w] \in {"report", "begin", "write"}
           /\ pc'[w] \in {"begin", "write", "complete"}
    BY <1>4, <2>1 DEF InTask, GenerateQuestions, GenerateTwice, GenerateFails,
       MarkReady, GiveUp, FailInterview, SkipEvaluation, EvaluateAnswer, EvaluationFails,
       RefreshInterview, MoveToNextQuestion, SettleEvaluation, CheckReport, BeginReport,
       WriteReport, ReportFails, CompleteReport, Raise
  <2> QED
    BY <2>1, <2>2 DEF OneWorker, Labelled
<1>5. ASSUME NEW w, Redeliver(w) PROVE UNCHANGED workers
  BY <1>5 DEF Redeliver
<1> QED
  BY <1>1, <1>2, <1>3, <1>4, <1>5, RequestsTouchNoWorker, StepCases

LEMMA ReportedStep == ASSUME OneWorker, IInv, Fresh, Reported, Next PROVE Reported'
<1>0. Processes
  BY ProcessesTyped DEF IInv
<1>1. Quiet \/ Persisted => Reported'
  BY DEF Quiet, Persisted, Reported
<1>2. Began \/ Started \/ Submitted => Reported'
  BY DEF Began, Started, Submitted, RowOnly, Reported
<1>3. ASSUME NEW w \in Workers, InTask(w) PROVE Reported'
  <2>1. CASE Marked(w)
    BY <2>1 DEF Marked, RowOnly, Fresh, Reported
  <2>2. CASE Assessed(w)
    BY <2>2 DEF Assessed, Reported
  <2>3. CASE Moved(w)
    <3>1. row.status = "NEXT_QUESTION"
      BY <2>3 DEF Moved, MayMove, Fresh
    <3> QED
      BY <2>3, <3>1 DEF Moved, Reported
  <2>4. CASE Concluded(w)
    <3>1. ASSUME MayMove(w) PROVE evaluated # {}
      <4>1. /\ answers[row.index] > 0 /\ answers[row.index] \in Nat
            /\ \A n \in 1 .. answers[row.index] : <<row.index, n>> \in evaluated
        BY <3>1, SameQuestions DEF IInv, Moving, Db!Core, Db!Prepared, Db!TypeOK
      <4>2. 1 \in 1 .. answers[row.index]
        BY <4>1
      <4> QED
        BY <4>1, <4>2
    <3> QED
      BY <2>4, <3>1 DEF Concluded, RowOnly, Fresh, Reported
  <2> QED
    BY <1>0, <1>1, <1>3, <2>1, <2>2, <2>3, <2>4, TaskEffects DEF IInv
<1>4. UNCHANGED database => Quiet
  BY DEF database, Quiet
<1>5. ASSUME NEW m, LoseDispatch(m) PROVE UNCHANGED database
  BY <1>5 DEF LoseDispatch
<1>6. Api \/ Candidate => Reported'
  BY <1>1, <1>2, RequestEffects DEF IInv, OneWorker
<1> QED
  BY <1>1, <1>3, <1>4, <1>5, <1>6, ReadingSteps, StepCases

\* Every transaction is one of the service's on the row.
LEMMA OnRow ==
    ASSUME OneWorker, IInv, Fresh, Labelled, Next
    PROVE  Svc!Next \/ UNCHANGED database
<1>0. Processes
  BY ProcessesTyped DEF IInv
<1>1. CASE Api
  <2>1. CASE ApiPrepare
    BY <2>1 DEF ApiPrepare, Svc!Next
  <2>2. ASSUME NEW m, ApiDispatch(m) PROVE Svc!Next \/ UNCHANGED database
    <3>1. /\ replies' = replies \cup {s \in idempotency : m = EvaluateTask(s.question, s.attempt)}
          /\ UNCHANGED <<row, questions, answers, current, evaluated, followUps,
                         idempotency, report>>
      BY <2>2 DEF ApiDispatch
    <3>2. CASE {s \in idempotency : m = EvaluateTask(s.question, s.attempt)} = {}
      BY <3>1, <3>2 DEF database
    <3>3. ASSUME NEW s \in idempotency, m = EvaluateTask(s.question, s.attempt) PROVE Svc!Next
      <4>1. \A r \in idempotency : m = EvaluateTask(r.question, r.attempt) => r = s
        BY <3>3 DEF IInv, Db!Core, Db!ExactlyOnceSubmission, EvaluateTask, Message
      <4>2. replies' = replies \cup {s}
        BY <3>1, <3>3, <4>1
      <4>3. s.question \in Svc!Questions /\ s.key \in Keys /\ s.text \in Texts
        BY DEF IInv, TypeOK, Svc!TypeOK, Svc!Submission
      <4>4. Svc!ReplayAnswer(s.question, s.key, s.text)
        BY <3>1, <4>2 DEF Svc!ReplayAnswer, Svc!KeyRows
      <4> QED
        BY <4>3, <4>4 DEF Svc!Next
    <3> QED
      BY <3>2, <3>3
  <2> QED
    BY <1>1, <2>1, <2>2 DEF Api
<1>2. CASE Candidate
  BY <1>2 DEF Candidate, ApiStart, ApiSubmit, ApiReplay, ApiFinish, OneWorker, Svc!Next
<1>3. ASSUME NEW w \in Workers, InTask(w) PROVE Svc!Next \/ UNCHANGED database
  <2>1. CASE GenerateQuestions(w)
    BY <2>1 DEF GenerateQuestions, Svc!Next
  <2>2. CASE MarkReady(w)
    <3>1. CASE view[w].status = "PREPARING"
      <4>1. row.status = "PREPARING"
        BY <2>2, <3>1 DEF MarkReady, MayMark, Fresh
      <4>2. Svc!MarkReady(row)
        BY <2>2, <3>1, <4>1 DEF MarkReady, Svc!MarkReady, Svc!Transition
      <4> QED
        BY <4>2 DEF Svc!Next
    <3> QED
      BY <2>2, <3>1 DEF MarkReady
  <2>3. CASE FailInterview(w)
    <3>1. CASE view[w].status # "REPORT_READY"
      <4>1. row.status \notin {"FAILED", "REPORT_READY"} /\ row.status \in Svc!Statuses
        BY <2>3, <3>1 DEF FailInterview, Fresh, IInv, TypeOK, Svc!TypeOK, Svc!Views
      <4>2. Svc!Allowed(row.status, "FAILED")
        BY <4>1
           DEF Svc!Allowed, Svc!ALLOWED_TRANSITIONS, Svc!Statuses
      <4>3. Svc!FailInterview(row)
        BY <2>3, <3>1, <4>1, <4>2 DEF FailInterview, Svc!FailInterview, Svc!Transition
      <4> QED
        BY <4>3 DEF Svc!Next
    <3> QED
      BY <2>3, <3>1 DEF FailInterview
  <2>4. CASE EvaluateAnswer(w)
    <3>1. /\ job[w].question \in Svc!Questions
          /\ job[w].attempt \in 1 .. answers[job[w].question]
      BY <1>0, <2>4, EvaluatesPosition, SameQuestions DEF IInv
    <3>2. PICK f \in BOOLEAN : Svc!SaveEvaluation(row, job[w].question, job[w].attempt, f)
      BY <2>4 DEF EvaluateAnswer
    <3> QED
      BY <3>1, <3>2 DEF Svc!Next
  <2>5. CASE MoveToNextQuestion(w)
    <3>1. view[w] = row
      BY <2>5 DEF MoveToNextQuestion, Fresh
    <3> QED
      BY <2>5, <3>1 DEF MoveToNextQuestion, Svc!Next
  <2>6. CASE BeginReport(w)
    <3>1. row.status = "COMPLETED" /\ view[w].status = "COMPLETED"
      BY <2>6 DEF BeginReport, Svc!BeginReport, Fresh
    <3>2. Svc!BeginReport(row)
      BY <2>6, <3>1 DEF BeginReport, Svc!BeginReport, Svc!Transition
    <3> QED
      BY <3>2 DEF Svc!Next
  <2>7. CASE CompleteReport(w)
    <3>1. view[w] = row
      BY <2>7 DEF CompleteReport, Fresh
    <3> QED
      BY <2>7, <3>1 DEF CompleteReport, Svc!Next
  <2> QED
    BY <1>3, <2>1, <2>2, <2>3, <2>4, <2>5, <2>6, <2>7, ReadingSteps DEF InTask
<1>4. ASSUME NEW m, LoseDispatch(m) PROVE UNCHANGED database
  BY <1>4 DEF LoseDispatch
<1> QED
  BY <1>1, <1>2, <1>3, <1>4, ReadingSteps, StepCases

LEMMA InitSteady == Init => Steady
<1> SUFFICES ASSUME Init PROVE Steady
  OBVIOUS
<1>1. row.status = "CREATED" /\ ~report /\ \A w \in Workers : pc[w] = "idle"
  BY DEF Init, Svc!Init
<1> QED
  BY <1>1, InitIInv DEF Steady, Fresh, MayMark, Labelled, Reported

LEMMA NextSteady == ASSUME OneWorker, Steady, [Next]_vars PROVE Steady'
<1>1. IInv'
  BY NextIInv DEF Steady
<1>2. CASE Next
  BY <1>1, <1>2, FreshStep, LabelledStep, ReportedStep DEF Steady
<1>3. CASE UNCHANGED vars
  BY <1>1, <1>3 DEF Steady, vars, database, workers, Fresh, MayMark, Labelled, Reported
<1> QED
  BY <1>2, <1>3

LEMMA SteadyInvariance == ASSUME OneWorker PROVE Spec => []Steady
<1>1. Steady /\ [Next]_vars => Steady'
  BY NextSteady
<1> QED
  BY <1>1, InitSteady, PTL DEF Spec

\* With one worker and no finishing by hand every run of the pipeline, with any
\* faults, is a run of the service: a worker that keeps its Interview object
\* over several transactions commits only what transactions on a fresh row
\* could (workers.py:88-107, 233-235, 249-325).
THEOREM WorkerImplementsService == ASSUME OneWorker PROVE Spec => ImplementsService
<1>1. Init => Svc!Init
  BY DEF Init
<1>2. Steady /\ [Next]_vars => [Svc!Next]_(Svc!vars)
  <2>1. UNCHANGED database => UNCHANGED Svc!vars
    BY DEF database, Svc!vars
  <2>2. UNCHANGED vars => UNCHANGED database
    BY DEF vars
  <2> QED
    BY <2>1, <2>2, OnRow DEF Steady
<1> QED
  BY <1>1, <1>2, SteadyInvariance, PTL DEF Spec, ImplementsService, Svc!Spec

-----------------------------------------------------------------------------
(* Before the first fault: one generation task.                            *)

LEMMA OthersComeAndGo ==
    ASSUME NEW b, IsABag(b), Single(b), NEW m, m.task # "generate"
    PROVE  /\ Single(b (+) SetToBag({m})) /\ (Generation(b (+) SetToBag({m})) => Generation(b))
           /\ Single(b (-) SetToBag({m})) /\ (Generation(b (-) SetToBag({m})) => Generation(b))
<1>1. \A x \in BagToSet(b) : x # m => (b (+) SetToBag({m}))[x] = b[x]
  BY DEF IsABag, BagToSet, SetToBag, (+), BagIn
<1>2. \A x \in BagToSet(b (-) SetToBag({m})) :
         x \in BagToSet(b) /\ (x # m => (b (-) SetToBag({m}))[x] = b[x])
  BY DEF IsABag, BagToSet, SetToBag, (-), BagIn
<1>3. BagToSet(b (+) SetToBag({m})) = BagToSet(b) \cup {m}
  BY BagPlus
<1> QED
  BY <1>1, <1>2, <1>3 DEF Single, Generation

LEMMA FirstCopy ==
    ASSUME NEW b, IsABag(b), ~Generation(b)
    PROVE  Single(b (+) SetToBag({GenerateTask})) /\ Generation(b (+) SetToBag({GenerateTask}))
<1>1. PICK g : g = GenerateTask /\ g.task = "generate"
  BY MessageTypes
<1>2. BagToSet(b (+) SetToBag({g})) = BagToSet(b) \cup {g}
  BY BagPlus
<1>3. g \notin BagToSet(b)
  BY <1>1 DEF Generation
<1>4. (b (+) SetToBag({g}))[g] = 1
  BY <1>3 DEF IsABag, BagToSet, SetToBag, (+), BagIn
<1> QED
  BY <1>1, <1>2, <1>4 DEF Generation, Single

LEMMA LastCopy ==
    ASSUME NEW b, IsABag(b), Single(b), NEW m \in BagToSet(b), m.task = "generate"
    PROVE  ~Generation(b (-) SetToBag({m}))
<1>1. b[m] = 1
  BY DEF Single
<1>2. m \notin BagToSet(b (-) SetToBag({m}))
  BY <1>1 DEF IsABag, BagToSet, SetToBag, (-), BagIn
<1>3. BagToSet(b (-) SetToBag({m})) \subseteq BagToSet(b)
  BY BagMinus
<1> QED
  BY <1>2, <1>3 DEF Generation, Single

LEMMA EmptySingle == ASSUME NEW b, ~Generation(b) PROVE Single(b)
BY DEF Generation, Single

LEMMA NoFaultBefore ==
    ASSUME Processes, Next, NoFaults' PROVE NoFaults /\ \A kind : ~Fault(kind)
<1>1. /\ \A kind \in FaultKinds : /\ faults.seen[kind] \in Nat /\ faults'.seen[kind] = 0
                                  /\ faults'.seen[kind] >= faults.seen[kind]
  BY NextFaults DEF NoFaults, FaultsGrow, FaultsType, Processes
<1>2. ASSUME NEW kind, Fault(kind) PROVE FALSE
  BY <1>1, <1>2, FaultCounts DEF Processes
<1> QED
  BY <1>1, <1>2 DEF NoFaults

\* What the worker's steps do to the bags and to its label.
LEMMA CalmTask ==
    ASSUME OneWorker, Steady, Calm, NoFaults, \A kind : ~Fault(kind),
           NEW w \in Workers, InTask(w)
    PROVE  /\ owed' = owed
           /\ queue' = queue \/ Send(ReportTask)
           /\ pc'[w] \notin {"giveup", "failing", "generate"}
           /\ pc'[w] = "ready" => GenerateQuestions(w) /\ view'[w] = row
<1>0. Processes
  BY ProcessesTyped DEF Steady, IInv
<1>1. pc[w] \notin {"giveup", "failing"} /\ (pc[w] = "ready" => view[w].status = "PREPARING")
  BY DEF Calm
<1>2. pc[w] = "generate" => questions = {}
  BY DEF Calm, GeneratedOnce
<1>3. /\ \A l : Goto(w, l) => pc'[w] = l
      /\ \A v : view' = [view EXCEPT ![w] = v] => view'[w] = v
  BY <1>0 DEF Goto, Processes
<1>4. ~GenerateTwice(w) /\ ~GenerateFails(w) /\ ~GiveUp(w) /\ ~FailInterview(w) /\ ~Raise(w)
  BY <1>1, <1>2 DEF GenerateTwice, GenerateFails, GiveUp, FailInterview, Raise
<1>5. MarkReady(w) => pc'[w] = "done"
  BY <1>1, <1>3 DEF MarkReady
<1> QED
  BY <1>3, <1>4, <1>5 DEF InTask, GenerateQuestions, MarkReady, SkipEvaluation, EvaluateAnswer,
     EvaluationFails, RefreshInterview, MoveToNextQuestion, SettleEvaluation, CheckReport,
     BeginReport, WriteReport, ReportFails, CompleteReport

\* What the steps do to the status.
LEMMA CalmRow ==
    ASSUME OneWorker, Steady, Calm, NoFaults, Next
    PROVE  /\ questions' = {} => questions = {} /\ row'.status \in {"CREATED", "PREPARING"}
           /\ row'.status # "FAILED"
           /\ row'.status = "CREATED" => row.status = "CREATED"
<1>0. Processes
  BY ProcessesTyped DEF Steady, IInv
<1>1. /\ questions = {} => row.status \in {"CREATED", "PREPARING"}
      /\ row.status # "FAILED"
      /\ \A w \in Workers : pc[w] # "failing"
  BY DEF Calm
<1>2. CASE Quiet
  BY <1>1, <1>2 DEF Quiet
<1>3. CASE Began \/ Started \/ Submitted
  BY <1>1, <1>3 DEF Began, Started, Submitted, RowOnly
<1>4. ASSUME NEW w \in Workers, InTask(w), ~Quiet
      PROVE  /\ questions' = {} => questions = {} /\ row'.status \in {"CREATED", "PREPARING"}
             /\ row'.status # "FAILED"
             /\ row'.status = "CREATED" => row.status = "CREATED"
  <2>1. CASE Persisted
    <3>1. 0 \in Svc!Questions
      BY InterviewAssumption DEF Svc!Questions
    <3> QED
      BY <1>1, <2>1, <3>1 DEF Persisted
  <2>2. CASE Marked(w)
    <3>1. questions # {}
      BY <2>2 DEF Marked, MayMark, Steady, IInv, Marking
    <3> QED
      BY <2>2, <3>1 DEF Marked, RowOnly
  <2>3. CASE Assessed(w)
    BY <1>1, <2>3 DEF Assessed
  <2>4. CASE Moved(w)
    <3>1. row.status = "NEXT_QUESTION"
      BY <2>4 DEF Moved, MayMove, Steady, Fresh
    <3> QED
      BY <1>1, <2>4, <3>1 DEF Moved
  <2>5. CASE Concluded(w)
    <3>1. row.status \in {"NEXT_QUESTION", "COMPLETED", "REPORT_GENERATING"}
      BY <1>1, <2>5 DEF Concluded, MayMove, Steady, Fresh
    <3> QED
      BY <1>1, <2>5, <3>1 DEF Concluded, RowOnly
  <2> QED
    BY <1>0, <1>4, <2>1, <2>2, <2>3, <2>4, <2>5, TaskEffects DEF Steady, IInv
<1>5. UNCHANGED database => Quiet
  BY DEF database, Quiet
<1>6. ASSUME NEW m, LoseDispatch(m) PROVE UNCHANGED database
  BY <1>6 DEF LoseDispatch
<1>7. Api \/ Candidate => Quiet \/ Began \/ Started \/ Submitted
  BY RequestEffects DEF Steady, IInv, OneWorker
<1> QED
  BY <1>2, <1>3, <1>4, <1>5, <1>6, <1>7, ReadingSteps, StepCases

\* The generation task is owed, then queued, then taken.
LEMMA GeneratedOnceStep ==
    ASSUME OneWorker, Steady, Calm, NoFaults, \A kind : ~Fault(kind), Next
    PROVE  GeneratedOnce'
<1>0. /\ Processes /\ IsABag(owed) /\ IsABag(queue)
  BY ProcessesTyped DEF Steady, IInv, Processes
<1>1. GeneratedOnce
  BY DEF Calm
<1>2. /\ questions' = {} => questions = {}
      /\ row'.status = "CREATED" => row.status = "CREATED"
  BY CalmRow
<1>3. ASSUME Single(owed'), Single(queue'),
             Generation(owed') => Generation(owed),
             Generation(queue') => Generation(queue),
             questions' = questions, UNCHANGED workers
      PROVE  GeneratedOnce'
  BY <1>1, <1>2, <1>3 DEF GeneratedOnce, workers
<1>4. CASE ApiPrepare
  <2>1. /\ owed' = (owed (-) SetToBag({Prepare})) (+) SetToBag({GenerateTask})
        /\ queue' = queue /\ UNCHANGED workers /\ questions' = questions
    BY <1>4 DEF ApiPrepare, Svc!BeginPreparation
  <2>2. row.status = "CREATED" /\ row'.status = "PREPARING"
    BY <1>4, TransitionWrites DEF ApiPrepare, Svc!BeginPreparation, Svc!Transition, Svc!Allowed,
       Svc!ALLOWED_TRANSITIONS, Steady, IInv
  <2>3. PICK b, p : b = owed (-) SetToBag({p}) /\ p = Prepare
    OBVIOUS
  <2>4. p.task # "generate"
    BY <2>3 DEF Prepare, Message
  <2>5. IsABag(b) /\ ~Generation(b)
    BY <1>0, <1>1, <2>2, <2>3, <2>4, BagMinus, OthersComeAndGo DEF GeneratedOnce
  <2>6. Single(owed') /\ Generation(owed')
    BY <2>1, <2>3, <2>5, FirstCopy
  <2> QED
    BY <1>1, <2>1, <2>2, <2>6 DEF GeneratedOnce, workers
<1>5. ASSUME NEW m \in BagToSet(owed), ApiDispatch(m) PROVE GeneratedOnce'
  <2>1. /\ owed' = owed (-) SetToBag({m})
        /\ queue' = queue \/ queue' = queue (+) SetToBag({m})
        /\ m # ReportTask => queue' = queue (+) SetToBag({m})
        /\ questions' = questions /\ UNCHANGED workers /\ row' = row
    BY <1>5 DEF ApiDispatch, Settled, Send
  <2>2. CASE m.task # "generate"
    <3>1. Single(owed') /\ (Generation(owed') => Generation(owed))
      BY <1>0, <1>1, <2>1, <2>2, OthersComeAndGo DEF GeneratedOnce
    <3>2. Single(queue') /\ (Generation(queue') => Generation(queue))
      BY <1>0, <1>1, <2>1, <2>2, OthersComeAndGo DEF GeneratedOnce
    <3> QED
      BY <1>3, <2>1, <3>1, <3>2
  <2>3. CASE m.task = "generate"
    <3>1. Generation(owed) /\ ~Generation(queue) /\ m = GenerateTask
      BY <1>1, <2>3 DEF GeneratedOnce, Generation, Single
    <3>2. ~Generation(owed')
      BY <1>0, <1>1, <2>1, <2>3, LastCopy DEF GeneratedOnce
    <3>3. m # ReportTask
      BY <2>3 DEF ReportTask, Message
    <3>4. Single(queue') /\ Generation(queue')
      BY <1>0, <2>1, <3>1, <3>3, FirstCopy
    <3>5. Single(owed')
      BY <3>2, EmptySingle
    <3> QED
      BY <1>1, <2>1, <3>1, <3>2, <3>4, <3>5 DEF GeneratedOnce, workers
  <2> QED
    BY <2>2, <2>3
<1>6. CASE Candidate
  <2>1. /\ owed' = owed \/ \E q, n : owed' = owed (+) SetToBag({EvaluateTask(q, n)})
        /\ queue' = queue /\ questions' = questions /\ UNCHANGED workers
    BY <1>6 DEF Candidate, ApiStart, ApiSubmit, ApiReplay, ApiFinish, OneWorker, Owe,
       Svc!StartInterview, Svc!SubmitAnswer, Svc!ReplayAnswer
  <2>2. ASSUME NEW q, NEW n, NEW m, m = EvaluateTask(q, n), owed' = owed (+) SetToBag({m})
        PROVE  Single(owed') /\ (Generation(owed') => Generation(owed))
    <3>1. m.task # "generate"
      BY <2>2 DEF EvaluateTask, Message
    <3> QED
      BY <1>0, <1>1, <2>2, <3>1, OthersComeAndGo DEF GeneratedOnce
  <2>3. Single(owed') /\ (Generation(owed') => Generation(owed)) /\ Single(queue')
    BY <1>1, <2>1, <2>2 DEF GeneratedOnce
  <2> QED
    BY <1>3, <2>1, <2>3
<1>7. ASSUME NEW w \in Workers, Take(w) PROVE GeneratedOnce'
  <2>1. PICK m \in BagToSet(queue) : queue' = queue (-) SetToBag({m}) /\ Goto(w, m.task)
    BY <1>7 DEF Take
  <2>2. owed' = owed /\ row' = row /\ questions' = questions
    BY <1>7 DEF Take, database
  <2>3. pc'[w] = m.task /\ \A x \in Workers : x = w
    BY <1>0, <2>1 DEF Goto, Processes, OneWorker
  <2>4. m.task \in {"generate", "evaluate", "report"}
    BY <1>0 DEF Processes, Tasks, Sent
  <2>5. CASE m.task # "generate"
    <3>1. Single(queue') /\ (Generation(queue') => Generation(queue))
      BY <1>0, <1>1, <2>1, <2>5, OthersComeAndGo DEF GeneratedOnce
    <3> QED
      BY <1>1, <2>2, <2>3, <2>4, <2>5, <3>1 DEF GeneratedOnce
  <2>6. CASE m.task = "generate"
    <3>1. Generation(queue) /\ ~Generation(owed) /\ questions = {} /\ row.status # "CREATED"
      BY <1>1, <2>6 DEF GeneratedOnce, Generation
    <3>2. ~Generation(queue')
      BY <1>0, <1>1, <2>1, <2>6, LastCopy DEF GeneratedOnce
    <3> QED
      BY <1>1, <2>2, <2>3, <2>6, <3>1, <3>2, EmptySingle DEF GeneratedOnce
  <2> QED
    BY <2>5, <2>6
<1>8. ASSUME NEW w \in Workers, Ack(w) PROVE GeneratedOnce'
  <2>1. /\ UNCHANGED <<owed, queue, row, questions>>
        /\ pc'[w] = "idle" /\ \A x \in Workers : x = w
    BY <1>0, <1>8 DEF Ack, Goto, Processes, OneWorker, database
  <2> QED
    BY <1>1, <2>1 DEF GeneratedOnce
<1>9. ASSUME NEW w \in Workers, InTask(w) PROVE GeneratedOnce'
  <2>1. /\ owed' = owed
        /\ queue' = queue \/ Send(ReportTask)
        /\ pc'[w] # "generate"
        /\ pc'[w] = "ready" => GenerateQuestions(w)
        /\ \A x \in Workers : x = w
    BY <1>9, CalmTask DEF OneWorker
  <2>2. Single(queue') /\ (Generation(queue') => Generation(queue))
    <3>1. PICK m : m = ReportTask /\ m.task # "generate"
      BY MessageTypes
    <3> QED
      BY <1>0, <1>1, <2>1, <3>1, OthersComeAndGo DEF GeneratedOnce, Send
  <2>3. GenerateQuestions(w) => pc[w] = "generate"
    BY DEF GenerateQuestions
  <2>4. questions = {} /\ pc[w] # "generate" => questions' = {}
    <3>1. ~Persisted \/ pc[w] = "generate" \/ ~GenerateQuestions(w)
      BY <2>3
    <3> QED
      BY <1>0, <1>9, <3>1, TaskEffects DEF Steady, IInv, Quiet, Concluded, RowOnly, Marked,
         Assessed, Moved
  <2> QED
    BY <1>1, <1>2, <2>1, <2>2, <2>3, <2>4 DEF GeneratedOnce
<1>10. ASSUME NEW w \in Workers PROVE ~Die(w) /\ ~Redeliver(w)
  BY DEF Die, Redeliver
<1>11. ASSUME NEW m PROVE ~LoseDispatch(m)
  BY DEF LoseDispatch
<1> QED
  BY <1>4, <1>5, <1>6, <1>7, <1>8, <1>9, <1>10, <1>11, StepCases DEF Api

LEMMA CalmStep == ASSUME OneWorker, Steady, Calm, Next PROVE Calm'
<1> SUFFICES ASSUME NoFaults'
             PROVE  /\ \A w \in Workers : /\ pc'[w] \notin {"giveup", "failing"}
                                          /\ pc'[w] = "ready" => view'[w].status = "PREPARING"
                    /\ questions' = {} => row'.status \in {"CREATED", "PREPARING"}
                    /\ row'.status # "FAILED"
                    /\ GeneratedOnce'
  BY DEF Calm
<1>0. Processes /\ NoFaults /\ \A kind : ~Fault(kind)
  BY ProcessesTyped, NoFaultBefore DEF Steady, IInv
<1>1. \A w \in Workers : /\ pc[w] \notin {"giveup", "failing"}
                         /\ pc[w] = "ready" => view[w].status = "PREPARING"
  BY <1>0 DEF Calm
<1>2. ASSUME NEW w \in Workers
      PROVE  /\ pc'[w] \notin {"giveup", "failing"}
             /\ pc'[w] = "ready" => view'[w].status = "PREPARING"
  <2>1. CASE UNCHANGED workers
    BY <1>1, <2>1 DEF workers
  <2>2. ASSUME NEW x \in Workers, InTask(x)
        PROVE  /\ pc'[w] \notin {"giveup", "failing"}
               /\ pc'[w] = "ready" => view'[w].status = "PREPARING"
    <3>1. w = x
      BY DEF OneWorker
    <3>2. /\ pc'[w] \notin {"giveup", "failing"}
          /\ pc'[w] = "ready" => GenerateQuestions(w) /\ view'[w] = row
      BY <1>0, <2>2, <3>1, CalmTask
    <3>3. GenerateQuestions(w) => row.status = "PREPARING"
      BY <1>0 DEF GenerateQuestions, Svc!PersistQuestions, Calm
    <3> QED
      BY <3>2, <3>3
  <2>3. ASSUME NEW x \in Workers, Take(x)
        PROVE  pc'[w] \notin {"giveup", "failing", "ready"}
    <3>1. w = x
      BY DEF OneWorker
    <3>2. PICK m \in BagToSet(queue) : Goto(x, m.task)
      BY <2>3 DEF Take
    <3>3. m.task \in {"generate", "evaluate", "report"}
      BY <1>0 DEF Processes, Tasks, Sent
    <3> QED
      BY <1>0, <3>1, <3>2, <3>3 DEF Goto, Processes
  <2>4. ASSUME NEW x \in Workers, Ack(x)
        PROVE  pc'[w] \notin {"giveup", "failing", "ready"}
    BY <1>0, <2>4 DEF OneWorker, Ack, Goto, Processes
  <2>5. ASSUME NEW x, Redeliver(x) \/ Die(x) PROVE FALSE
    BY <1>0, <2>5 DEF Redeliver, Die
  <2> QED
    BY <2>1, <2>2, <2>3, <2>4, <2>5, StepCases, RequestsTouchNoWorker
<1> QED
  BY <1>0, <1>2, CalmRow, GeneratedOnceStep

-----------------------------------------------------------------------------
(* Somebody carries the interview on.                                      *)

\* A message of a task.
Owed(t) == \E m \in BagToSet(owed) : m.task = t
Queued(t) == \E m \in BagToSet(queue) : m.task = t

LEMMA WaitsMeans == \A t : Waits(t) <=> Owed(t) \/ Queued(t)
BY DEF Waits, Owed, Queued

\* A message waits until a worker takes it; the finish route alone drops one,
\* when the interview is no longer COMPLETED.
LEMMA WaitsOn ==
    ASSUME Processes, \A kind : ~Fault(kind), Next,
           NEW t \in {"prepare", "generate", "report"}, Owed(t) \/ Queued(t),
           t = "prepare" => ~ApiPrepare,
           t = "report" => row.status = "COMPLETED"
    PROVE  Owed(t)' \/ Queued(t)' \/ \E w \in Workers : pc'[w] = t /\ job'[w].task = t
<1>0. IsABag(owed) /\ IsABag(queue)
  BY DEF Processes
<1>1. CASE BagToSet(owed) \subseteq BagToSet(owed') /\ BagToSet(queue) \subseteq BagToSet(queue')
  BY <1>1 DEF Owed, Queued
<1>2. CASE ApiPrepare
  <2>1. /\ owed' = (owed (-) SetToBag({Prepare})) (+) SetToBag({GenerateTask})
        /\ queue' = queue
    BY <1>2 DEF ApiPrepare
  <2>2. PICK b, p, g : b = owed (-) SetToBag({p}) /\ p = Prepare /\ g = GenerateTask
    OBVIOUS
  <2>3. IsABag(b) /\ \A x \in BagToSet(owed) : x # p => x \in BagToSet(b)
    BY <1>0, <2>2, BagMinus
  <2>4. owed' = b (+) SetToBag({g})
    BY <2>1, <2>2
  <2>5. BagToSet(owed') = BagToSet(b) \cup {g}
    BY <2>3, <2>4, BagPlus
  <2>6. p.task = "prepare"
    BY <2>2 DEF Prepare, Message
  <2> QED
    BY <1>2, <2>1, <2>3, <2>5, <2>6 DEF Owed, Queued
<1>3. ASSUME NEW m \in BagToSet(owed), ApiDispatch(m) PROVE Owed(t)' \/ Queued(t)'
  <2>1. /\ owed' = owed (-) SetToBag({m}) /\ m # Prepare
        /\ queue' = queue \/ queue' = queue (+) SetToBag({m})
        /\ m # ReportTask \/ row.status = "COMPLETED" => queue' = queue (+) SetToBag({m})
    BY <1>3 DEF ApiDispatch, Settled, Send
  <2>2. \A x \in BagToSet(owed) : x # m => x \in BagToSet(owed')
    BY <1>0, <2>1, BagMinus
  <2>3. queue' = queue (+) SetToBag({m}) => BagToSet(queue') = BagToSet(queue) \cup {m}
    BY <1>0, BagPlus
  <2>4. m.task = t => queue' = queue (+) SetToBag({m})
    BY <2>1, MessageTypes
  <2> QED
    BY <2>1, <2>2, <2>3, <2>4 DEF Owed, Queued
<1>4. CASE Candidate
  <2>1. queue' = queue /\ (owed' = owed \/ \E m : Owe(m))
    BY <1>4 DEF Candidate, ApiStart, ApiSubmit, ApiReplay, ApiFinish
  <2> QED
    BY <1>0, <1>1, <2>1, OwedKeeps
<1>5. ASSUME NEW w \in Workers, Take(w)
      PROVE  Owed(t)' \/ Queued(t)' \/ (pc'[w] = t /\ job'[w].task = t)
  <2>1. PICK m \in BagToSet(queue) :
          queue' = queue (-) SetToBag({m}) /\ Goto(w, m.task) /\ job' = [job EXCEPT ![w] = m]
    BY <1>5 DEF Take
  <2>2. owed' = owed
    BY <1>5 DEF Take
  <2>3. \A x \in BagToSet(queue) : x # m => x \in BagToSet(queue')
    BY <1>0, <2>1, BagMinus
  <2>4. pc'[w] = m.task /\ job'[w] = m
    BY <2>1 DEF Goto, Processes
  <2>5. CASE m.task = t
    BY <2>4, <2>5
  <2>6. CASE m.task # t
    BY <2>2, <2>3, <2>6 DEF Owed, Queued
  <2> QED
    BY <2>5, <2>6
<1>6. ASSUME NEW w \in Workers, Ack(w) \/ InTask(w)
      PROVE  BagToSet(owed) \subseteq BagToSet(owed') /\ BagToSet(queue) \subseteq BagToSet(queue')
  <2>1. owed' = owed /\ (queue' = queue \/ \E m : Send(m))
    BY <1>6 DEF Ack, InTask, GenerateQuestions, GenerateTwice, GenerateFails, MarkReady, GiveUp,
       FailInterview, SkipEvaluation, EvaluateAnswer, EvaluationFails, RefreshInterview,
       MoveToNextQuestion, SettleEvaluation, CheckReport, BeginReport, WriteReport,
       ReportFails, CompleteReport, Raise
  <2> QED
    BY <1>0, <2>1, QueueKeeps
<1>7. ASSUME NEW w \in Workers PROVE ~Die(w) /\ ~Redeliver(w)
  BY DEF Die, Redeliver
<1>8. ASSUME NEW m PROVE ~LoseDispatch(m)
  BY DEF LoseDispatch
<1> QED
  BY <1>1, <1>2, <1>3, <1>4, <1>5, <1>6, <1>7, <1>8, StepCases DEF Api

\* A step that leaves the status alone, by the only worker or by the others.
LEMMA WhoSteps ==
    ASSUME OneWorker, Steady, \A kind : ~Fault(kind), Next
    PROVE  \/ UNCHANGED workers /\ (Api \/ Candidate)
           \/ \E w \in Workers :
                /\ \A x \in Workers : x = w
                /\ \/ Take(w) /\ pc[w] = "idle"
                   \/ Ack(w) /\ pc[w] = "done"
                   \/ InTask(w) /\ job' = job
<1>1. ASSUME NEW w \in Workers PROVE ~Die(w) /\ ~Redeliver(w)
  BY DEF Die, Redeliver
<1>2. ASSUME NEW m PROVE ~LoseDispatch(m)
  BY DEF LoseDispatch
<1>3. ASSUME NEW w \in Workers, InTask(w) PROVE job' = job
  BY <1>3 DEF InTask, GenerateQuestions, GenerateTwice, GenerateFails, MarkReady, GiveUp,
     FailInterview, SkipEvaluation, EvaluateAnswer, EvaluationFails, RefreshInterview,
     MoveToNextQuestion, SettleEvaluation, CheckReport, BeginReport, WriteReport,
     ReportFails, CompleteReport
<1> QED
  BY <1>1, <1>2, <1>3, StepCases, RequestsTouchNoWorker DEF Take, Ack, OneWorker

\* Statuses come from the steps that write them.
LEMMA WhoWrites ==
    ASSUME OneWorker, Steady, Next, row' # row
    PROVE  \/ row'.status \in {"READY", "WAITING_FOR_ANSWER", "FOLLOW_UP_REQUIRED", "EVALUATING",
                               "REPORT_READY", "FAILED"}
           \/ row'.status = "PREPARING" /\ ApiPrepare
           \/ \E w \in Workers :
                \/ row'.status = "NEXT_QUESTION" /\ pc'[w] = "refresh"
                \/ row'.status = "COMPLETED" /\ pc'[w] = "settle"
                \/ row'.status = "REPORT_GENERATING" /\ pc'[w] = "write"
<1>0. Processes
  BY ProcessesTyped DEF Steady, IInv
<1>1. ASSUME NEW w \in Workers, InTask(w)
      PROVE  \/ row'.status \in {"READY", "WAITING_FOR_ANSWER", "FOLLOW_UP_REQUIRED", "EVALUATING",
                                 "REPORT_READY", "FAILED"}
             \/ row'.status = "NEXT_QUESTION" /\ pc'[w] = "refresh"
             \/ row'.status = "COMPLETED" /\ pc'[w] = "settle"
             \/ row'.status = "REPORT_GENERATING" /\ pc'[w] = "write"
  <2>1. \A l : pc' = [pc EXCEPT ![w] = l] => pc'[w] = l
    BY <1>0 DEF Processes
  <2> QED
    BY <1>0, <1>1, <2>1, TaskEffects DEF Steady, IInv, Quiet, Persisted, Marked, Assessed, Moved,
       Concluded, RowOnly
<1>2. UNCHANGED database => row' = row
  BY DEF database
<1>3. ASSUME NEW m, LoseDispatch(m) PROVE UNCHANGED database
  BY <1>3 DEF LoseDispatch
<1>4. CASE Candidate
  <2>1. ApiStart => row'.status \in {"WAITING_FOR_ANSWER", "FAILED"}
    BY TransitionWrites DEF ApiStart, Svc!StartInterview, Steady, IInv
  <2>2. ASSUME NEW q, NEW k, NEW t, ApiSubmit(q, k, t) PROVE row'.status = "EVALUATING"
    <3>1. row' = [row EXCEPT !.status = "EVALUATING"]
      BY <2>2 DEF ApiSubmit, Svc!SubmitAnswer
    <3> QED
      BY <3>1 DEF Steady, IInv, Db!Core, Db!TypeOK, Db!Views
  <2>3. ASSUME NEW q, NEW k, NEW t, ApiReplay(q, k, t) PROVE row' = row
    BY <2>3 DEF ApiReplay, Svc!ReplayAnswer
  <2> QED
    BY <1>4, <2>1, <2>2, <2>3 DEF Candidate, ApiFinish, OneWorker
<1>5. ASSUME NEW m, ApiDispatch(m) PROVE row' = row
  BY <1>5 DEF ApiDispatch
<1>6. ApiPrepare => row'.status = "PREPARING"
  BY TransitionWrites DEF ApiPrepare, Svc!BeginPreparation, Steady, IInv
<1> QED
  BY <1>1, <1>2, <1>3, <1>4, <1>5, <1>6, StepCases, ReadingSteps DEF Api

\* SomeoneCarriesOn, status by status.
Carried ==
    /\ row.status = "CREATED" => Owed("prepare") \/ Queued("prepare")
    /\ row.status = "PREPARING" => \/ Owed("generate") \/ Queued("generate")
                                   \/ Holds("generate", {"generate", "ready"})
    /\ row.status = "EVALUATING" => EvaluationUnderWay
    /\ row.status = "NEXT_QUESTION" => Holds("evaluate", {"refresh", "move"})
    /\ row.status = "COMPLETED" => \/ Owed("report") \/ Queued("report")
                                   \/ Holds("evaluate", {"settle"})
                                   \/ Holds("report", {"report", "begin"})
    /\ row.status = "REPORT_GENERATING" => Holds("report", {"write", "complete"})
    /\ row.status # "FAILED"

LEMMA CarriedMeans == SomeoneCarriesOn <=> (NoFaults => Carried)
BY WaitsMeans DEF SomeoneCarriesOn, Carried

LEMMA CarriedMeansNext == SomeoneCarriesOn' <=> (NoFaults => Carried)'
<1>1. \A t : Waits(t)' <=> Owed(t)' \/ Queued(t)'
  BY DEF Waits, Owed, Queued
<1> QED
  BY <1>1 DEF SomeoneCarriesOn, Carried

\* The hypotheses of what follows: a step that is no fault.
Before ==
    /\ OneWorker /\ Steady /\ Calm /\ Carried
    /\ NoFaults /\ \A kind : ~Fault(kind)

LEMMA BeforeTypes == ASSUME Before PROVE Processes /\ \A w, x \in Workers : w = x
BY ProcessesTyped DEF Before, OneWorker, Steady, IInv

LEMMA CreatedStep ==
    ASSUME Before, Next, row'.status = "CREATED" PROVE Owed("prepare")' \/ Queued("prepare")'
<1>1. row.status = "CREATED" /\ ~ApiPrepare
  BY CalmRow, WhoWrites, TransitionWrites DEF Before, ApiPrepare, Svc!BeginPreparation, Steady, IInv
<1>2. Owed("prepare") \/ Queued("prepare")
  BY <1>1 DEF Before, Carried
<1>3. ASSUME NEW w \in Workers, Take(w) PROVE pc'[w] # "prepare"
  <2>1. PICK m \in BagToSet(queue) : Goto(w, m.task)
    BY <1>3 DEF Take
  <2> QED
    BY <2>1, BeforeTypes DEF Goto, Processes, Tasks, Sent
<1>4. \A w \in Workers : pc'[w] # "prepare"
  <2>1. Processes'
    BY BeforeTypes, ProcessesStep DEF Before, Steady, IInv, TypeOK, Svc!TypeOK
  <2> QED
    BY <2>1 DEF Processes, PCs
<1> QED
  BY <1>1, <1>2, <1>4, BeforeTypes, WaitsOn DEF Before

LEMMA PreparingStep ==
    ASSUME Before, Next, row'.status = "PREPARING"
    PROVE  Owed("generate")' \/ Queued("generate")' \/ Holds("generate", {"generate", "ready"})'
<1>1. CASE ApiPrepare
  <2>1. owed' = (owed (-) SetToBag({Prepare})) (+) SetToBag({GenerateTask})
    BY <1>1 DEF ApiPrepare
  <2>2. PICK b, g : b = owed (-) SetToBag({Prepare}) /\ g = GenerateTask /\ g.task = "generate"
    BY MessageTypes
  <2>3. IsABag(b)
    BY <2>2, BagMinus, BeforeTypes DEF Processes
  <2>4. g \in BagToSet(owed')
    <3>1. owed' = b (+) SetToBag({g})
      BY <2>1, <2>2
    <3> QED
      BY <2>3, <3>1, BagPlus
  <2> QED
    BY <2>2, <2>4 DEF Owed
<1>2. CASE ~ApiPrepare
  <2>1. row' = row
    BY <1>2, WhoWrites DEF Before
  <2>2. CASE Owed("generate") \/ Queued("generate")
    <3>1. \/ Owed("generate")' \/ Queued("generate")'
          \/ \E w \in Workers : pc'[w] = "generate" /\ job'[w].task = "generate"
      BY <2>2, BeforeTypes, WaitsOn DEF Before
    <3> QED
      BY <3>1 DEF Holds
  <2>3. CASE ~Owed("generate") /\ ~Queued("generate")
    <3>1. PICK w \in Workers : job[w].task = "generate" /\ pc[w] \in {"generate", "ready"}
      BY <2>1, <2>3 DEF Before, Carried, Holds
    <3>2. CASE UNCHANGED workers
      BY <3>1, <3>2 DEF Holds, workers
    <3>3. CASE InTask(w) /\ job' = job
      <4>1. /\ pc[w] = "ready" => view[w].status = "PREPARING"
            /\ pc[w] = "generate" => questions = {}
        BY DEF Before, Calm, GeneratedOnce
      <4>2. ~MarkReady(w)
        BY <2>1, <3>1, <4>1, TransitionWrites DEF MarkReady, Svc!MarkReady, Before, Steady, IInv
      <4>3. ~GenerateTwice(w) /\ ~GenerateFails(w)
        BY <4>1 DEF GenerateTwice, GenerateFails, Before
      <4>4. GenerateQuestions(w)
        BY <3>1, <3>3, <4>2, <4>3 DEF InTask, GiveUp, FailInterview, SkipEvaluation,
           EvaluateAnswer, EvaluationFails, RefreshInterview, MoveToNextQuestion,
           SettleEvaluation, CheckReport, BeginReport, WriteReport, ReportFails, CompleteReport
      <4>5. pc'[w] = "ready"
        BY <4>4, BeforeTypes DEF GenerateQuestions, Goto, Processes
      <4> QED
        BY <3>1, <3>3, <4>5 DEF Holds
    <3> QED
      BY <3>1, <3>2, <3>3, WhoSteps, BeforeTypes DEF Before
  <2> QED
    BY <2>2, <2>3
<1> QED
  BY <1>1, <1>2

LEMMA NextQuestionStep ==
    ASSUME Before, Next, row'.status = "NEXT_QUESTION"
    PROVE  Holds("evaluate", {"refresh", "move"})'
<1>1. Labelled'
  BY NextSteady DEF Before, Steady
<1>2. CASE row' # row
  <2>1. PICK w \in Workers : pc'[w] = "refresh"
    BY <1>2, WhoWrites DEF Before
  <2> QED
    BY <1>1, <2>1 DEF Holds, Labelled
<1>3. CASE row' = row
  <2>1. PICK w \in Workers : job[w].task = "evaluate" /\ pc[w] \in {"refresh", "move"}
    BY <1>3 DEF Before, Carried, Holds
  <2>2. CASE UNCHANGED workers
    BY <2>1, <2>2 DEF Holds, workers
  <2>3. CASE InTask(w) /\ job' = job
    <3>1. ~MoveToNextQuestion(w)
      <4>1. ASSUME MoveToNextQuestion(w) PROVE row'.status \in {"WAITING_FOR_ANSWER", "COMPLETED"}
        <5>1. Svc!MoveToNextQuestion(view[w])
          BY <1>3, <4>1 DEF MoveToNextQuestion, Before, Steady, Fresh
        <5> QED
          BY <5>1, TransitionWrites DEF Svc!MoveToNextQuestion, Svc!FinishInterview, Before, Steady,
             IInv
      <4> QED
        BY <4>1
    <3>2. RefreshInterview(w)
      BY <2>1, <2>3, <3>1 DEF InTask, GenerateQuestions, GenerateTwice, GenerateFails, MarkReady,
         GiveUp, FailInterview, SkipEvaluation, EvaluateAnswer, EvaluationFails,
         SettleEvaluation, CheckReport, BeginReport, WriteReport, ReportFails, CompleteReport
    <3>3. pc'[w] = "move"
      BY <3>2, BeforeTypes DEF RefreshInterview, Goto, Processes
    <3> QED
      BY <2>1, <2>3, <3>3 DEF Holds
  <2> QED
    BY <2>1, <2>2, <2>3, WhoSteps, BeforeTypes DEF Before
<1> QED
  BY <1>2, <1>3

LEMMA CompletedStep ==
    ASSUME Before, Next, row'.status = "COMPLETED"
    PROVE  \/ Owed("report")' \/ Queued("report")'
           \/ Holds("evaluate", {"settle"})'
           \/ Holds("report", {"report", "begin"})'
<1>1. Labelled'
  BY NextSteady DEF Before, Steady
<1>2. CASE row' # row
  <2>1. PICK w \in Workers : pc'[w] = "settle"
    BY <1>2, WhoWrites DEF Before
  <2> QED
    BY <1>1, <2>1 DEF Holds, Labelled
<1>3. CASE row' = row
  <2>1. CASE Owed("report") \/ Queued("report")
    <3>1. \/ Owed("report")' \/ Queued("report")'
          \/ \E w \in Workers : pc'[w] = "report" /\ job'[w].task = "report"
      BY <1>3, <2>1, BeforeTypes, WaitsOn DEF Before
    <3> QED
      BY <3>1 DEF Holds
  <2>2. CASE ~Owed("report") /\ ~Queued("report")
    <3>1. PICK w \in Workers : \/ job[w].task = "evaluate" /\ pc[w] = "settle"
                               \/ job[w].task = "report" /\ pc[w] \in {"report", "begin"}
      BY <1>3, <2>2 DEF Before, Carried, Holds
    <3>2. CASE UNCHANGED workers
      BY <3>1, <3>2 DEF Holds, workers
    <3>3. CASE InTask(w) /\ job' = job
      <4>1. ~BeginReport(w)
        BY <1>3, TransitionWrites DEF BeginReport, Svc!BeginReport, Before, Steady, IInv
      <4>2. SettleEvaluation(w) \/ CheckReport(w)
        BY <3>1, <3>3, <4>1 DEF InTask, GenerateQuestions, GenerateTwice, GenerateFails, MarkReady,
           GiveUp, FailInterview, SkipEvaluation, EvaluateAnswer, EvaluationFails,
           RefreshInterview, MoveToNextQuestion, WriteReport, ReportFails, CompleteReport
      <4>3. CASE SettleEvaluation(w)
        <5>1. queue' = queue (+) SetToBag({ReportTask})
          BY <1>3, <4>3 DEF SettleEvaluation, Before, Send
        <5>2. PICK m : m = ReportTask /\ m.task = "report"
          BY MessageTypes
        <5>3. BagToSet(queue') = BagToSet(queue) \cup {m}
          BY <5>1, <5>2, BagPlus, BeforeTypes DEF Processes
        <5> QED
          BY <5>2, <5>3 DEF Queued
      <4>4. CASE CheckReport(w)
        <5>1. ~report
          BY <1>3 DEF Before, Steady, Reported
        <5>2. pc[w] = "report" /\ pc'[w] = "begin"
          BY <1>3, <4>4, <5>1, BeforeTypes DEF CheckReport, Goto, Processes
        <5> QED
          BY <3>1, <3>3, <5>2 DEF Holds
      <4> QED
        BY <4>2, <4>3, <4>4
    <3> QED
      BY <3>1, <3>2, <3>3, WhoSteps, BeforeTypes DEF Before
  <2> QED
    BY <2>1, <2>2
<1> QED
  BY <1>2, <1>3

LEMMA GeneratingStep ==
    ASSUME Before, Next, row'.status = "REPORT_GENERATING"
    PROVE  Holds("report", {"write", "complete"})'
<1>1. Labelled'
  BY NextSteady DEF Before, Steady
<1>2. CASE row' # row
  <2>1. PICK w \in Workers : pc'[w] = "write"
    BY <1>2, WhoWrites DEF Before
  <2> QED
    BY <1>1, <2>1 DEF Holds, Labelled
<1>3. CASE row' = row
  <2>1. PICK w \in Workers : job[w].task = "report" /\ pc[w] \in {"write", "complete"}
    BY <1>3 DEF Before, Carried, Holds
  <2>2. CASE UNCHANGED workers
    BY <2>1, <2>2 DEF Holds, workers
  <2>3. CASE InTask(w) /\ job' = job
    <3>1. ~CompleteReport(w)
      <4>1. ASSUME CompleteReport(w) PROVE row'.status = "REPORT_READY"
        <5>1. Svc!CompleteReport(view[w])
          BY <1>3, <4>1 DEF CompleteReport, Before, Steady, Fresh
        <5> QED
          BY <5>1, TransitionWrites DEF Svc!CompleteReport, Before, Steady, IInv
      <4> QED
        BY <4>1
    <3>2. evaluated # {} /\ ~ReportFails(w)
      BY <1>3 DEF Before, Steady, Reported, ReportFails, Raise
    <3>3. WriteReport(w)
      BY <2>1, <2>3, <3>1, <3>2 DEF InTask, GenerateQuestions, GenerateTwice, GenerateFails,
         MarkReady, GiveUp, FailInterview, SkipEvaluation, EvaluateAnswer, EvaluationFails,
         RefreshInterview, MoveToNextQuestion, SettleEvaluation, CheckReport, BeginReport
    <3>4. pc'[w] = "complete"
      BY <3>2, <3>3, BeforeTypes DEF WriteReport, Goto, Processes
    <3> QED
      BY <2>1, <2>3, <3>4 DEF Holds
  <2> QED
    BY <2>1, <2>2, <2>3, WhoSteps, BeforeTypes DEF Before
<1> QED
  BY <1>2, <1>3

LEMMA CarriesOnStep ==
    ASSUME OneWorker, Steady, Calm, SomeoneCarriesOn, Next PROVE SomeoneCarriesOn'
<1> SUFFICES ASSUME NoFaults' PROVE Carried'
  BY CarriedMeansNext
<1>1. Before
  BY NoFaultBefore, CarriedMeans, ProcessesTyped DEF Before, Steady, IInv
<1>2. row'.status = "EVALUATING" => EvaluationUnderWay'
  <2>1. AnswerNotOrphaned'
    BY NextSteady DEF Steady, IInv
  <2>2. OnlyDelays'
    BY EnvironmentAssumption DEF NoFaults, OnlyDelays, FaultKinds
  <2> QED
    BY <2>1, <2>2 DEF AnswerNotOrphaned
<1>3. row'.status # "FAILED"
  BY <1>1, CalmRow DEF Before
<1> QED
  BY <1>1, <1>2, <1>3, CreatedStep, PreparingStep, NextQuestionStep, CompletedStep,
     GeneratingStep DEF Carried

-----------------------------------------------------------------------------
(* The invariant.                                                          *)

LEMMA InitOneIInv == Init => OneIInv
<1> SUFFICES ASSUME Init PROVE OneIInv
  OBVIOUS
<1>1. /\ row.status = "CREATED" /\ questions = {} /\ \A w \in Workers : pc[w] = "idle"
  BY DEF Init, Svc!Init
<1>2. BagToSet(owed) = {Prepare} /\ BagToSet(queue) = {}
  BY DEF Init, BagToSet, SetToBag, EmptyBag
<1>3. PICK p : p = Prepare /\ p.task = "prepare"
  <2>1. Prepare.task = "prepare"
    BY DEF Prepare, Message
  <2> QED
    BY <2>1
<1>4. ~Generation(owed) /\ ~Generation(queue)
  BY <1>2, <1>3 DEF Generation
<1>5. Calm
  BY <1>1, <1>4, EmptySingle DEF Calm, GeneratedOnce
<1>6. Owed("prepare")
  BY <1>2, <1>3 DEF Owed
<1> QED
  BY <1>1, <1>5, <1>6, InitSteady, CarriedMeans DEF OneIInv, Steady, Carried

LEMMA NextOneIInv == ASSUME OneWorker, OneIInv, [Next]_vars PROVE OneIInv'
<1>1. Steady'
  BY NextSteady DEF OneIInv, Steady
<1>2. CASE Next
  BY <1>1, <1>2, CalmStep, CarriesOnStep DEF OneIInv, Steady
<1>3. CASE UNCHANGED vars
  <2>1. Calm'
    BY <1>3 DEF OneIInv, vars, database, workers, Calm, NoFaults, GeneratedOnce, Single, Generation
  <2>2. SomeoneCarriesOn'
    BY <1>3 DEF OneIInv, vars, database, workers, SomeoneCarriesOn, NoFaults, Waits, Holds,
       EvaluationUnderWay
  <2> QED
    BY <1>1, <2>1, <2>2 DEF OneIInv, Steady
<1> QED
  BY <1>2, <1>3

\* Before the first fault, with one worker and no finishing by hand, whatever
\* status the interview is in somebody will carry it on: the candidate, the
\* request that still owes a dispatch, a message, or the worker
\* (tasks.py:14-15, workers.py:51-325).
THEOREM SomeoneAlwaysCarriesOn == ASSUME OneWorker PROVE Spec => []SomeoneCarriesOn
<1>1. OneIInv /\ [Next]_vars => OneIInv'
  BY NextOneIInv
<1>2. OneIInv => SomeoneCarriesOn
  BY DEF OneIInv
<1> QED
  BY <1>1, <1>2, InitOneIInv, PTL DEF Spec

-----------------------------------------------------------------------------
(* REPORT_READY and FAILED are terminal, finishing by hand or not.         *)

\* Once the interview has ended the worker, the only one, holds no object that
\* lets it write the status again.
AtRest ==
    row.status \in {"FAILED", "REPORT_READY"} =>
       \A w \in Workers :
          /\ pc[w] \notin {"refresh", "move", "begin", "write", "complete"}
          /\ ~MayMark(w)
          /\ pc[w] = "failing" => view[w].status = "REPORT_READY"

\* What requests do to an interview that has ended, or may end it.
LEMMA RequestsEndNothing ==
    ASSUME IInv, Api \/ Candidate
    PROVE  /\ row.status \in {"FAILED", "REPORT_READY"} => row' = row
           /\ row'.status \in {"FAILED", "REPORT_READY"} => row' = row
<1>1. Quiet => row' = row
  BY DEF Quiet
<1>2. ASSUME ApiFinish
      PROVE  row.status \notin {"FAILED", "REPORT_READY"} /\ row'.status = "COMPLETED"
  <2>1. Svc!Transition(row, "COMPLETED")
    BY <1>2 DEF ApiFinish, Svc!FinishInterview
  <2>2. row.status \notin {"FAILED", "REPORT_READY"}
    BY <2>1 DEF Svc!Transition, Svc!Allowed, Svc!ALLOWED_TRANSITIONS
  <2> QED
    BY <2>1, <2>2, TransitionWrites DEF IInv
<1>3. ASSUME ~ApiFinish PROVE Quiet \/ Began \/ Started \/ Submitted
  BY <1>3, RequestEffects DEF IInv
<1> QED
  BY <1>1, <1>2, <1>3 DEF Began, Started, Submitted, RowOnly

\* What the worker does to the status, and where it is then.
LEMMA EndedForGood ==
    ASSUME IInv, AtRest, NEW w \in Workers, InTask(w)
    PROVE  /\ row.status \in {"FAILED", "REPORT_READY"} => row' = row
           /\ row'.status \in {"FAILED", "REPORT_READY"} => row' = row \/ pc'[w] = "done"
<1>0. Processes
  BY ProcessesTyped DEF IInv
<1>1. Quiet \/ Persisted => row' = row
  BY DEF Quiet, Persisted
<1>2. CASE Marked(w) \/ Assessed(w) \/ Moved(w)
  BY <1>2 DEF Marked, Assessed, Moved, MayMove, AtRest, RowOnly
<1>3. CASE Concluded(w)
  <2>1. row.status \notin {"FAILED", "REPORT_READY"}
    BY <1>3 DEF Concluded, AtRest
  <2>2. row'.status \in {"FAILED", "REPORT_READY"} => pc[w] \in {"failing", "complete"}
    BY <1>3 DEF Concluded, RowOnly
  <2>3. pc[w] \in {"failing", "complete"} => pc'[w] = "done"
    BY <1>0 DEF InTask, GenerateQuestions, GenerateTwice, GenerateFails, MarkReady, GiveUp,
       FailInterview, SkipEvaluation, EvaluateAnswer, EvaluationFails, RefreshInterview,
       MoveToNextQuestion, SettleEvaluation, CheckReport, BeginReport, WriteReport,
       ReportFails, CompleteReport, Goto, Processes
  <2> QED
    BY <2>1, <2>2, <2>3
<1> QED
  BY <1>0, <1>1, <1>2, <1>3, TaskEffects DEF IInv

\* In an interview that has ended nothing brings the worker to a decision.
LEMMA AtRestLabels ==
    ASSUME IInv, row.status \in {"FAILED", "REPORT_READY"}, row' = row, AtRest,
           NEW w \in Workers, Next
    PROVE  /\ pc'[w] \notin {"refresh", "move", "begin", "write", "complete"}
           /\ ~MayMark(w)'
           /\ pc'[w] = "failing" => view'[w].status = "REPORT_READY"
<1>0. Processes
  BY ProcessesTyped DEF IInv
<1>1. pc[w] # "refresh" /\ row.status # "EVALUATING" /\ row.status # "PREPARING"
  BY DEF AtRest
<1>2. ~EvaluateAnswer(w) /\ ~RefreshInterview(w)
  BY <1>1 DEF EvaluateAnswer, Svc!SaveEvaluation, Svc!Evaluable, RefreshInterview
<1>3. pc'[w] \notin {"refresh", "move"} /\ ~MayMark(w)'
  BY <1>0, <1>1, <1>2, Labels DEF AtRest, MayMark
<1>4. pc'[w] \notin {"begin", "write", "complete"}
  BY <1>0, ReportLabels DEF IInv, AtRest, Reporting
<1>5. ASSUME pc'[w] = "failing"
      PROVE  (pc[w] = "failing" /\ view'[w] = view[w]) \/ (view'[w] = row /\ row.status # "FAILED")
  <2>1. UNCHANGED workers => pc'[w] = pc[w] /\ view'[w] = view[w]
    BY DEF workers
  <2>2. ASSUME Take(w) PROVE FALSE
    <3>1. PICK m \in BagToSet(queue) : Goto(w, m.task)
      BY <2>2 DEF Take
    <3>2. m.task \in {"generate", "evaluate", "report"}
      BY <1>0, <3>1 DEF Processes, Tasks, Sent
    <3> QED
      BY <1>0, <1>5, <3>1, <3>2 DEF Goto, Processes
  <2>3. ~Ack(w) /\ ~Die(w)
    BY <1>0, <1>5 DEF Ack, Die, Goto, Processes
  <2>4. Redeliver(w) => UNCHANGED workers
    BY DEF Redeliver
  <2>5. GiveUp(w) => view'[w] = row /\ row.status # "FAILED"
    BY <1>0, <1>5 DEF GiveUp, Goto, Processes
  <2>6. InTask(w) => GiveUp(w)
    BY <1>0, <1>5 DEF InTask, GenerateQuestions, GenerateTwice, GenerateFails, MarkReady,
       FailInterview, SkipEvaluation, EvaluateAnswer, EvaluationFails, RefreshInterview,
       MoveToNextQuestion, SettleEvaluation, CheckReport, BeginReport, WriteReport,
       ReportFails, CompleteReport, Raise, Goto, Processes
  <2> QED
    BY <1>0, <1>5, <2>1, <2>2, <2>3, <2>4, <2>5, <2>6, StepCases, OthersStay, RequestsTouchNoWorker
<1> QED
  BY <1>3, <1>4, <1>5 DEF AtRest

LEMMA TerminalEdges ==
    ASSUME IInv, AtRest, Next
    PROVE  /\ row.status \in {"FAILED", "REPORT_READY"} => row' = row
           /\ row'.status \in {"FAILED", "REPORT_READY"} =>
                 row' = row \/ \E w \in Workers : pc'[w] = "done"
<1>1. UNCHANGED database => row' = row
  BY DEF database
<1>2. ASSUME NEW m, LoseDispatch(m) PROVE UNCHANGED database
  BY <1>2 DEF LoseDispatch
<1> QED
  BY <1>1, <1>2, RequestsEndNothing, EndedForGood, ReadingSteps, StepCases

LEMMA AtRestStep ==
    ASSUME \A w, x \in Workers : w = x, IInv, AtRest, Next PROVE AtRest'
<1> SUFFICES ASSUME row'.status \in {"FAILED", "REPORT_READY"}, NEW w \in Workers
             PROVE  /\ pc'[w] \notin {"refresh", "move", "begin", "write", "complete"}
                    /\ ~MayMark(w)'
                    /\ pc'[w] = "failing" => view'[w].status = "REPORT_READY"
  BY DEF AtRest
<1>1. CASE row' = row
  BY <1>1, AtRestLabels
<1>2. CASE row' # row
  <2>1. pc'[w] = "done"
    BY <1>2, TerminalEdges
  <2> QED
    BY <2>1 DEF MayMark
<1> QED
  BY <1>1, <1>2

\* REPORT_READY and FAILED are terminal (README.md:81) with one worker, whatever
\* the candidate does and whatever faults happen; two workers break it
\* (workers.py:255-263).
THEOREM OneWorkerKeepsTerminal ==
    ASSUME \A w, x \in Workers : w = x PROVE Spec => TerminalStatusesStay
<1>1. Init => AtRest
  BY DEF Init, Svc!Init, AtRest
<1>2. IInv /\ AtRest /\ [Next]_vars => AtRest'
  <2>1. AtRest /\ UNCHANGED vars => AtRest'
    BY DEF vars, database, workers, AtRest, MayMark
  <2> QED
    BY <2>1, AtRestStep
<1>3. IInv /\ AtRest /\ [Next]_vars =>
        [row.status \in {"REPORT_READY", "FAILED"} => row'.status = row.status]_vars
  BY TerminalEdges
<1> QED
  BY <1>1, <1>2, <1>3, Invariance, PTL DEF Spec, TerminalStatusesStay
===============================================================================
