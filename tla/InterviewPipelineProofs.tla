------------------------ MODULE InterviewPipelineProofs ------------------------
(***************************************************************************)
(* Machine-checked proofs about InterviewPipeline: for any number of       *)
(* workers, questions, keys and retries, any set of faults and any number  *)
(* of them, whether or not the candidate finishes by hand.  The last       *)
(* section is about a candidate who does not.                              *)
(*                                                                         *)
(* Most transactions decide on the row itself, and InterviewServiceProofs  *)
(* shows what they preserve (Core).  Two that matter decide on an object   *)
(* from an earlier transaction: mark_ready and move_to_next_question.      *)
(* They are harmless because what they assume is still true when they take *)
(* the lock, whatever has happened to the status meanwhile: there is one   *)
(* worker at a time that can still mark the interview ready, and nobody    *)
(* has answered while it can (Marking); there is one at a time that can    *)
(* still move the position, and the position is the one it saw (Moving).   *)
(* The other stale writes (FAILED, COMPLETED, REPORT_GENERATING and        *)
(* REPORT_READY) write no status that the tables depend on.                *)
(***************************************************************************)
EXTENDS InterviewPipeline, FiniteSetTheorems, TLAPS

\* Its facts about the operators and the transactions, for this database.
Db == INSTANCE InterviewServiceProofs

\* A message that can have been sent, and was retried once for each provider
\* error at most.  (Prepare is owed and never sent.)
Sent(m) ==
    /\ m \in Messages
    /\ m.task \in {"generate", "evaluate", "report"}
    /\ m.task = "evaluate" => m.attempt > 0
    /\ m.retries <= faults.seen["provider_error"]

Tasks ==
    /\ \A m \in BagToSet(owed) : m = Prepare \/ Sent(m)
    /\ \A m \in BagToSet(queue) : Sent(m)
    /\ \A w \in Workers :
          /\ pc[w] # "idle" => Sent(job[w])
          /\ pc[w] = "evaluate" => job[w].task = "evaluate"

\* Workers that have persisted the questions and not yet marked them.
MayMark(w) == pc[w] = "ready" /\ view[w].status = "PREPARING"

Marking ==
    /\ \A w \in Workers : pc[w] = "ready" => questions # {}
    /\ \A w, x \in Workers : pc[w] = "ready" /\ pc[x] = "ready" => w = x
    /\ \A w \in Workers : MayMark(w) =>
          /\ row.status \notin Db!Live \cup {"READY"}
          /\ row.index = 0
          /\ \A q \in Svc!Questions : answers[q] = 0

\* Workers that have evaluated the last answer of the position and not yet
\* moved it.
MayMove(w) == \/ pc[w] = "refresh"
              \/ pc[w] = "move" /\ view[w].status = "NEXT_QUESTION"

Moving ==
    /\ \A w, x \in Workers : MayMove(w) /\ MayMove(x) => w = x
    /\ \A w \in Workers : MayMove(w) =>
          /\ row.status \notin Db!Live \ {"NEXT_QUESTION"}
          /\ questions = Svc!Questions
          /\ answers[row.index] > 0
          /\ \A n \in 1 .. answers[row.index] : <<row.index, n>> \in evaluated
          /\ pc[w] = "move" => view[w].index = row.index

IInv ==
    /\ TypeOK
    /\ Db!Core
    /\ ReportReadyIsBacked
    /\ Tasks
    /\ Marking
    /\ Moving
    /\ AnswerNotOrphaned

-----------------------------------------------------------------------------
(* Facts about the operators.                                              *)

LEMMA BagPlus ==
    ASSUME NEW b, IsABag(b), NEW m
    PROVE  /\ IsABag(b (+) SetToBag({m}))
           /\ BagToSet(b (+) SetToBag({m})) = BagToSet(b) \cup {m}
BY DEF IsABag, BagToSet, SetToBag, (+)

\* Taking one copy away leaves the other messages in the bag.
LEMMA BagMinus ==
    ASSUME NEW b, IsABag(b), NEW m
    PROVE  /\ IsABag(b (-) SetToBag({m}))
           /\ BagToSet(b (-) SetToBag({m})) \subseteq BagToSet(b)
           /\ \A x \in BagToSet(b) : x # m => x \in BagToSet(b (-) SetToBag({m}))
BY DEF IsABag, BagToSet, SetToBag, (-)

FaultsType ==
    /\ faults \in [seen : [FaultKinds -> Nat], left : Nat]
    /\ \A kind \in FaultKinds :
          /\ faults.seen[kind] + faults.left <= MaxFaults
          /\ faults.seen[kind] > 0 => kind \in Faults

FaultsGrow ==
    /\ FaultsType'
    /\ \A kind \in FaultKinds : faults'.seen[kind] >= faults.seen[kind]

\* Everything but the database.
Processes ==
    /\ IsABag(owed) /\ BagToSet(owed) \subseteq Messages
    /\ IsABag(queue) /\ BagToSet(queue) \subseteq Messages
    /\ job \in [Workers -> Messages]
    /\ pc \in [Workers -> PCs]
    /\ view \in [Workers -> Svc!Views]
    /\ FaultsType
    /\ Tasks

LEMMA FaultCounts ==
    ASSUME FaultsType, NEW kind, Fault(kind)
    PROVE  /\ FaultsGrow
           /\ kind \in FaultKinds
           /\ faults'.seen[kind] = faults.seen[kind] + 1
<1>1. /\ kind \in Faults /\ kind \in FaultKinds
      /\ faults.left > 0
      /\ faults' = [faults EXCEPT !.seen[kind] = @ + 1, !.left = @ - 1]
  BY EnvironmentAssumption DEF Fault
<1>2. faults.seen \in [FaultKinds -> Nat] /\ faults.left \in Nat /\ MaxFaults \in Nat
  BY EnvironmentAssumption DEF FaultsType
<1>3. /\ faults' = [seen |-> [faults.seen EXCEPT ![kind] = @ + 1], left |-> faults.left - 1]
  BY <1>1 DEF FaultsType
<1>4. /\ faults'.seen \in [FaultKinds -> Nat] /\ faults'.left \in Nat
      /\ faults'.left = faults.left - 1
      /\ faults'.seen[kind] = faults.seen[kind] + 1
      /\ \A k \in FaultKinds : k # kind => faults'.seen[k] = faults.seen[k]
  BY <1>1, <1>2, <1>3
<1>5. faults' \in [seen : [FaultKinds -> Nat], left : Nat]
  BY <1>3, <1>4
<1>6. \A k \in FaultKinds : /\ faults'.seen[k] + faults'.left <= MaxFaults
                            /\ faults'.seen[k] > 0 => k \in Faults
                            /\ faults'.seen[k] >= faults.seen[k]
  BY <1>1, <1>2, <1>4 DEF FaultsType
<1> QED
  BY <1>1, <1>4, <1>5, <1>6 DEF FaultsGrow, FaultsType

LEMMA SameFaults == ASSUME FaultsType, UNCHANGED faults PROVE FaultsGrow
BY DEF FaultsGrow, FaultsType

LEMMA StaysSent ==
    ASSUME FaultsType, FaultsGrow, NEW m, Sent(m) PROVE Sent(m)'
<1>1. "provider_error" \in FaultKinds
  BY DEF FaultKinds
<1>2. /\ faults.seen["provider_error"] \in Nat /\ faults'.seen["provider_error"] \in Nat
      /\ faults'.seen["provider_error"] >= faults.seen["provider_error"]
      /\ m.retries \in Nat
  BY <1>1, EnvironmentAssumption DEF FaultsType, FaultsGrow, Sent, Messages
<1> QED
  BY <1>2 DEF Sent

LEMMA FirstTry ==
    ASSUME FaultsType, NEW m \in Messages,
           m.task \in {"generate", "evaluate", "report"}, m.retries = 0,
           m.task = "evaluate" => m.attempt > 0
    PROVE  Sent(m)
BY DEF FaultsType, Sent, FaultKinds

LEMMA MessageTypes ==
    /\ Prepare \in Messages /\ NoJob \in Messages
    /\ GenerateTask \in Messages /\ GenerateTask.task = "generate" /\ GenerateTask.retries = 0
    /\ ReportTask \in Messages /\ ReportTask.task = "report" /\ ReportTask.retries = 0
    /\ \A q \in Svc!Questions, n \in Nat :
          /\ EvaluateTask(q, n) \in Messages
          /\ EvaluateTask(q, n).task = "evaluate"
          /\ EvaluateTask(q, n).question = q
          /\ EvaluateTask(q, n).attempt = n
          /\ EvaluateTask(q, n).retries = 0
BY InterviewAssumption, EnvironmentAssumption
   DEF Messages, Message, Prepare, NoJob, GenerateTask, ReportTask, EvaluateTask, Svc!Questions

-----------------------------------------------------------------------------
(* Messages and workers.                                                    *)

\* Steps of the API and the broker: they move messages and touch no worker.
LEMMA MessagesMove ==
    ASSUME Processes, FaultsGrow, UNCHANGED workers,
           IsABag(owed'), \A m \in BagToSet(owed') : m \in BagToSet(owed) \/ Sent(m)',
           IsABag(queue'), \A m \in BagToSet(queue') : m \in BagToSet(queue) \/ Sent(m)'
    PROVE  Processes'
<1>1. job' = job /\ pc' = pc /\ view' = view
  BY DEF workers
<1>2. \A m : Sent(m) => Sent(m)'
  BY StaysSent DEF Processes
<1>3. \A m \in BagToSet(owed') : m = Prepare \/ Sent(m)'
  BY <1>2 DEF Processes, Tasks
<1>4. \A m \in BagToSet(queue') : Sent(m)'
  BY <1>2 DEF Processes, Tasks
<1>5. BagToSet(owed') \subseteq Messages /\ BagToSet(queue') \subseteq Messages
  BY <1>3, <1>4, MessageTypes DEF Sent
<1>6. Tasks'
  <2>1. ASSUME NEW w \in Workers
        PROVE  (pc[w] # "idle" => Sent(job[w])') /\ (pc[w] = "evaluate" => job[w].task = "evaluate")
    <3>1. PICK m : m = job[w]
      OBVIOUS
    <3>2. pc[w] # "idle" => Sent(m)'
      BY <1>2, <3>1 DEF Processes, Tasks
    <3>3. Sent(m)' => Sent(job[w])'
      BY <1>1, <3>1 DEF Sent
    <3> QED
      BY <3>2, <3>3 DEF Processes, Tasks
  <2> QED
    BY <1>1, <1>3, <1>4, <2>1 DEF Tasks
<1> QED
  BY <1>1, <1>5, <1>6 DEF Processes, FaultsGrow

LEMMA OneWorkerSteps ==
    ASSUME Processes, FaultsGrow, owed' = owed, NEW w \in Workers,
           NEW m \in Messages, NEW l \in PCs, NEW v \in Svc!Views,
           job' = [job EXCEPT ![w] = m],
           pc' = [pc EXCEPT ![w] = l],
           view' = [view EXCEPT ![w] = v],
           l # "idle" => Sent(m)',
           l = "evaluate" => m.task = "evaluate",
           IsABag(queue'), \A x \in BagToSet(queue') : x \in BagToSet(queue) \/ Sent(x)'
    PROVE  Processes'
<1>1. /\ job' \in [Workers -> Messages] /\ pc' \in [Workers -> PCs]
      /\ view' \in [Workers -> Svc!Views]
      /\ job'[w] = m /\ pc'[w] = l
      /\ \A x \in Workers : x # w => job'[x] = job[x] /\ pc'[x] = pc[x]
  BY DEF Processes
<1>2. \A x : Sent(x) => Sent(x)'
  BY StaysSent DEF Processes
<1>3. \A x \in BagToSet(owed') : x = Prepare \/ Sent(x)'
  BY <1>2 DEF Processes, Tasks
<1>4. \A x \in BagToSet(queue') : Sent(x)'
  BY <1>2 DEF Processes, Tasks
<1>5. BagToSet(owed') \subseteq Messages /\ BagToSet(queue') \subseteq Messages
  BY <1>3, <1>4, MessageTypes DEF Sent
<1>6. ASSUME NEW x \in Workers
      PROVE  /\ pc'[x] # "idle" => Sent(job[x])'
             /\ pc'[x] = "evaluate" => job'[x].task = "evaluate"
  <2>1. PICK y : y = job'[x]
    OBVIOUS
  <2>2. Sent(y)' => Sent(job[x])'
    BY <2>1 DEF Sent
  <2>3. CASE x = w
    BY <1>1, <2>1, <2>2, <2>3
  <2>4. CASE x # w
    BY <1>1, <1>2, <2>1, <2>2, <2>4 DEF Processes, Tasks
  <2> QED
    BY <2>3, <2>4
<1>7. Tasks'
  BY <1>3, <1>4, <1>6 DEF Tasks
<1> QED
  BY <1>1, <1>5, <1>7 DEF Processes, FaultsGrow

LEMMA QueueGrows ==
    ASSUME IsABag(queue), NEW m, Sent(m)', Send(m)
    PROVE  /\ IsABag(queue')
           /\ \A x \in BagToSet(queue') : x \in BagToSet(queue) \/ Sent(x)'
<1>1. queue' = queue (+) SetToBag({m})
  BY DEF Send
<1>2. IsABag(queue') /\ BagToSet(queue') = BagToSet(queue) \cup {m}
  BY <1>1, BagPlus
<1> QED
  BY <1>2

\* A worker goes on with its task, and may send a message.
LEMMA WorkerGoesOn ==
    ASSUME Processes, FaultsGrow, UNCHANGED <<owed, job>>, NEW w \in Workers,
           pc[w] # "idle", NEW l \in PCs, l # "evaluate", Goto(w, l),
           NEW v \in Svc!Views, view' = view \/ view' = [view EXCEPT ![w] = v],
           queue' = queue \/ \E m : Send(m) /\ Sent(m)'
    PROVE  Processes'
<1>1. PICK m : m = job[w]
  OBVIOUS
<1>2. m \in Messages /\ Sent(m)'
  <2>1. m \in Messages /\ Sent(m)
    BY <1>1 DEF Processes, Tasks
  <2> QED
    BY <2>1, StaysSent DEF Processes
<1>3. job' = [job EXCEPT ![w] = m]
  BY <1>1 DEF Processes
<1>4. \E u \in Svc!Views : view' = [view EXCEPT ![w] = u]
  <2>1. view[w] \in Svc!Views /\ view = [view EXCEPT ![w] = view[w]]
    BY DEF Processes
  <2> QED
    BY <2>1
<1>5. /\ IsABag(queue')
      /\ \A x \in BagToSet(queue') : x \in BagToSet(queue) \/ Sent(x)'
  BY QueueGrows DEF Processes
<1> QED
  BY <1>2, <1>3, <1>4, <1>5, OneWorkerSteps DEF Goto

LEMMA NoViewType == NoView \in Svc!Views
BY DEF NoView, Svc!Views, Svc!Statuses

\* A worker is free again; its message may be back in the queue.
LEMMA WorkerStops ==
    ASSUME Processes, FaultsGrow, owed' = owed, NEW w \in Workers, pc[w] # "idle",
           Goto(w, "idle"),
           job' = [job EXCEPT ![w] = NoJob],
           view' = [view EXCEPT ![w] = NoView],
           queue' = queue \/ Send(job[w])
    PROVE  Processes'
<1>1. PICK m : m = job[w]
  OBVIOUS
<1>2. Sent(m)'
  <2>1. Sent(m)
    BY <1>1 DEF Processes, Tasks
  <2> QED
    BY <2>1, StaysSent DEF Processes
<1>3. /\ IsABag(queue')
      /\ \A x \in BagToSet(queue') : x \in BagToSet(queue) \/ Sent(x)'
  BY <1>1, <1>2, QueueGrows DEF Processes
<1>4. "idle" \in PCs
  BY DEF PCs
<1> QED
  BY <1>3, <1>4, NoViewType, MessageTypes, OneWorkerSteps DEF Goto

LEMMA WorkerTakes ==
    ASSUME Processes, NEW w \in Workers, Take(w) PROVE Processes'
<1>1. PICK m \in BagToSet(queue) :
        /\ queue' = queue (-) SetToBag({m})
        /\ job' = [job EXCEPT ![w] = m]
        /\ Goto(w, m.task)
  BY DEF Take
<1>2. owed' = owed /\ view' = view /\ faults' = faults
  BY DEF Take
<1>3. FaultsGrow
  BY <1>2, SameFaults DEF Processes
<1>4. m \in Messages /\ Sent(m)
  BY <1>1 DEF Processes, Tasks
<1>5. Sent(m)'
  BY <1>3, <1>4, StaysSent DEF Processes
<1>6. m.task \in PCs
  BY <1>4 DEF Sent, PCs
<1>7. /\ IsABag(queue')
      /\ \A x \in BagToSet(queue') : x \in BagToSet(queue)
  BY <1>1, BagMinus DEF Processes
<1>8. view[w] \in Svc!Views /\ view' = [view EXCEPT ![w] = view[w]]
  BY <1>2 DEF Processes
<1> QED
  BY <1>1, <1>2, <1>3, <1>4, <1>5, <1>6, <1>7, <1>8, OneWorkerSteps DEF Goto

\* The retry of a task counts the provider error that caused it.
LEMMA RaiseSends ==
    ASSUME Processes, NEW w \in Workers, pc[w] # "idle", Raise(w)
    PROVE  /\ FaultsGrow
           /\ Goto(w, "done")
           /\ \/ queue' = queue
              \/ \E m : Send(m) /\ Sent(m)' /\ m = [job[w] EXCEPT !.retries = @ + 1]
<1>1. FaultsGrow /\ Goto(w, "done")
  BY FaultCounts DEF Raise, Processes
<1>2. CASE Fault("provider_error") /\ job[w].retries < MaxRetries
           /\ Send([job[w] EXCEPT !.retries = @ + 1])
  <2>1. job[w] \in Messages /\ Sent(job[w])
    BY DEF Processes, Tasks
  <2>2. PICK m : m = [job[w] EXCEPT !.retries = @ + 1]
    OBVIOUS
  <2>3. /\ m.retries = job[w].retries + 1
        /\ m.task = job[w].task /\ m.attempt = job[w].attempt
        /\ job[w].retries \in Nat
    BY <2>1, <2>2, EnvironmentAssumption DEF Messages
  <2>4. m \in Messages
    <3>1. job[w].retries + 1 \in 0 .. MaxRetries
      BY <1>2, <2>1, EnvironmentAssumption DEF Messages
    <3> QED
      BY <2>1, <2>2, <3>1 DEF Messages
  <2>5. /\ faults'.seen["provider_error"] = faults.seen["provider_error"] + 1
        /\ faults.seen["provider_error"] \in Nat
    BY <1>2, FaultCounts DEF Processes, FaultsType
  <2>6. Sent(m)'
    BY <2>1, <2>3, <2>4, <2>5 DEF Sent
  <2> QED
    BY <1>1, <1>2, <2>2, <2>6
<1>3. CASE UNCHANGED queue
  BY <1>1, <1>3
<1> QED
  BY <1>1, <1>2, <1>3 DEF Raise

\* The steps of a task between taking its message and acknowledging it.
InTask(w) ==
    \/ GenerateQuestions(w) \/ GenerateTwice(w) \/ GenerateFails(w) \/ MarkReady(w)
    \/ GiveUp(w) \/ FailInterview(w)
    \/ SkipEvaluation(w) \/ EvaluateAnswer(w) \/ EvaluationFails(w) \/ RefreshInterview(w)
    \/ MoveToNextQuestion(w) \/ SettleEvaluation(w)
    \/ CheckReport(w) \/ BeginReport(w) \/ WriteReport(w) \/ ReportFails(w)
    \/ CompleteReport(w)

LEMMA InTaskStep ==
    ASSUME Processes, row \in Svc!Views, NEW w \in Workers, InTask(w)
    PROVE  Processes'
<1>1. /\ pc[w] # "idle" /\ owed' = owed /\ job' = job
      /\ view' = view \/ view' = [view EXCEPT ![w] = row]
  BY DEF InTask, GenerateQuestions, GenerateTwice, GenerateFails, MarkReady, GiveUp,
     FailInterview, SkipEvaluation, EvaluateAnswer, EvaluationFails, RefreshInterview,
     MoveToNextQuestion, SettleEvaluation, CheckReport, BeginReport, WriteReport,
     ReportFails, CompleteReport
<1>2. CASE EvaluationFails(w) \/ ReportFails(w)
  <2>1. /\ FaultsGrow
        /\ Goto(w, "done")
        /\ queue' = queue \/ \E m : Send(m) /\ Sent(m)'
    BY <1>1, <1>2, RaiseSends DEF EvaluationFails, ReportFails
  <2>2. "done" \in PCs
    BY DEF PCs
  <2> QED
    BY <1>1, <2>1, <2>2, WorkerGoesOn
<1>3. CASE SettleEvaluation(w)
  <2>1. FaultsGrow
    BY <1>3, SameFaults, FaultCounts DEF SettleEvaluation, Processes
  <2>2. queue' = queue \/ Send(ReportTask)
    BY <1>3 DEF SettleEvaluation
  <2>3. Sent(ReportTask) /\ Sent(ReportTask)'
    <3>1. Sent(ReportTask)
      BY FirstTry, MessageTypes DEF Processes
    <3>2. \A m : Sent(m) => Sent(m)'
      BY <2>1, StaysSent DEF Processes
    <3>3. PICK m : m = ReportTask
      OBVIOUS
    <3>4. Sent(m)' => Sent(ReportTask)'
      BY <3>3 DEF Sent, ReportTask, Message
    <3> QED
      BY <3>1, <3>2, <3>3, <3>4
  <2>4. queue' = queue \/ \E m : Send(m) /\ Sent(m)'
    <3>1. PICK m : m = ReportTask
      OBVIOUS
    <3>2. Sent(ReportTask)' => Sent(m)'
      BY <3>1 DEF Sent, ReportTask, Message
    <3> QED
      BY <2>2, <2>3, <3>1, <3>2
  <2>5. Goto(w, "done") /\ "done" \in PCs
    BY <1>3 DEF SettleEvaluation, PCs
  <2> QED
    BY <1>1, <2>1, <2>4, <2>5, WorkerGoesOn
<1>4. CASE ~(EvaluationFails(w) \/ ReportFails(w) \/ SettleEvaluation(w))
  <2>1. FaultsGrow
    BY <1>4, SameFaults, FaultCounts
       DEF InTask, GenerateQuestions, GenerateTwice, GenerateFails, MarkReady, GiveUp,
       FailInterview, SkipEvaluation, EvaluateAnswer, RefreshInterview,
       MoveToNextQuestion, CheckReport, BeginReport, WriteReport, CompleteReport, Processes
  <2>2. queue' = queue
    BY <1>4 DEF InTask, GenerateQuestions, GenerateTwice, GenerateFails, MarkReady, GiveUp,
       FailInterview, SkipEvaluation, EvaluateAnswer, RefreshInterview,
       MoveToNextQuestion, CheckReport, BeginReport, WriteReport, CompleteReport
  <2>3. \E l \in PCs \ {"evaluate"} : Goto(w, l)
    BY <1>4 DEF InTask, GenerateQuestions, GenerateTwice, GenerateFails, MarkReady, GiveUp,
       FailInterview, SkipEvaluation, EvaluateAnswer, RefreshInterview,
       MoveToNextQuestion, CheckReport, BeginReport, WriteReport, CompleteReport, PCs
  <2> QED
    BY <1>1, <2>1, <2>2, <2>3, WorkerGoesOn
<1> QED
  BY <1>2, <1>3, <1>4

LEMMA Owes ==
    ASSUME Processes, NEW m, Owe(m), Sent(m), UNCHANGED <<queue, workers, faults>>
    PROVE  Processes'
<1>1. FaultsGrow
  BY SameFaults DEF Processes
<1>2. Sent(m)'
  BY <1>1, StaysSent DEF Processes
<1>3. owed' = owed (+) SetToBag({m})
  BY DEF Owe
<1>4. IsABag(owed') /\ BagToSet(owed') = BagToSet(owed) \cup {m}
  BY <1>3, BagPlus DEF Processes
<1> QED
  BY <1>1, <1>2, <1>4, MessagesMove DEF Processes

LEMMA ApiStep ==
    ASSUME Processes, Api PROVE Processes'
<1>1. CASE ApiPrepare
  <2>1. /\ owed' = (owed (-) SetToBag({Prepare})) (+) SetToBag({GenerateTask})
        /\ UNCHANGED <<queue, workers, faults>>
    BY <1>1 DEF ApiPrepare
  <2>2. PICK b : b = owed (-) SetToBag({Prepare})
    OBVIOUS
  <2>3. IsABag(b) /\ BagToSet(b) \subseteq BagToSet(owed)
    BY <2>2, BagMinus DEF Processes
  <2>4. PICK m : m = GenerateTask
    OBVIOUS
  <2>5. IsABag(owed') /\ BagToSet(owed') = BagToSet(b) \cup {m}
    BY <2>1, <2>2, <2>3, <2>4, BagPlus
  <2>6. FaultsGrow /\ Sent(m)
    BY <2>1, <2>4, SameFaults, FirstTry, MessageTypes DEF Processes
  <2>7. Sent(m)'
    BY <2>6, StaysSent DEF Processes
  <2> QED
    BY <2>1, <2>3, <2>5, <2>6, <2>7, MessagesMove DEF Processes
<1>2. ASSUME NEW m \in BagToSet(owed), ApiDispatch(m) PROVE Processes'
  <2>1. /\ owed' = owed (-) SetToBag({m}) /\ m # Prepare
        /\ UNCHANGED <<workers, faults>>
        /\ queue' = queue \/ Send(m)
    BY <1>2 DEF ApiDispatch, Settled
  <2>2. FaultsGrow /\ Sent(m)
    BY <2>1, SameFaults DEF Processes, Tasks
  <2>3. Sent(m)'
    BY <2>2, StaysSent DEF Processes
  <2>4. IsABag(owed') /\ BagToSet(owed') \subseteq BagToSet(owed)
    BY <2>1, BagMinus DEF Processes
  <2>5. /\ IsABag(queue')
        /\ \A x \in BagToSet(queue') : x \in BagToSet(queue) \/ Sent(x)'
    BY <2>1, <2>3, QueueGrows DEF Processes
  <2> QED
    BY <2>1, <2>2, <2>4, <2>5, MessagesMove
<1> QED
  BY <1>1, <1>2 DEF Api

LEMMA CandidateStep ==
    ASSUME Processes, answers \in [Svc!Questions -> Nat], Candidate PROVE Processes'
<1>1. ASSUME UNCHANGED <<owed, queue, workers, faults>> PROVE Processes'
  <2>1. FaultsGrow
    BY <1>1, SameFaults DEF Processes
  <2> QED
    BY <1>1, <2>1, MessagesMove DEF Processes
<1>2. ASSUME NEW q \in Svc!Questions, NEW k \in Keys, NEW t \in Texts, ApiSubmit(q, k, t)
      PROVE  Processes'
  <2>1. PICK m : m = EvaluateTask(q, answers[q] + 1)
    OBVIOUS
  <2>2. answers[q] + 1 \in Nat /\ answers[q] + 1 > 0
    OBVIOUS
  <2>3. Sent(m)
    BY <2>1, <2>2, MessageTypes, FirstTry DEF Processes
  <2> QED
    BY <1>2, <2>1, <2>3, Owes DEF ApiSubmit
<1>3. CASE ApiFinish
  <2>1. PICK m : m = ReportTask
    OBVIOUS
  <2>2. Sent(m)
    BY <2>1, MessageTypes, FirstTry DEF Processes
  <2> QED
    BY <1>3, <2>1, <2>2, Owes DEF ApiFinish
<1> QED
  BY <1>1, <1>2, <1>3 DEF Candidate, ApiStart, ApiReplay

LEMMA BrokerStep ==
    ASSUME Processes, \/ \E m \in BagToSet(owed) : LoseDispatch(m)
                      \/ \E w \in Workers : Redeliver(w)
    PROVE  Processes'
<1>1. ASSUME NEW m \in BagToSet(owed), LoseDispatch(m) PROVE Processes'
  <2>1. /\ FaultsGrow /\ owed' = owed (-) SetToBag({m})
        /\ UNCHANGED <<queue, workers>>
    BY <1>1, FaultCounts DEF LoseDispatch, Settled, Processes
  <2>2. IsABag(owed') /\ BagToSet(owed') \subseteq BagToSet(owed)
    BY <2>1, BagMinus DEF Processes
  <2> QED
    BY <2>1, <2>2, MessagesMove DEF Processes
<1>2. ASSUME NEW w \in Workers, Redeliver(w) PROVE Processes'
  <2>1. /\ FaultsGrow /\ pc[w] # "idle" /\ Send(job[w])
        /\ UNCHANGED <<owed, workers>>
    BY <1>2, FaultCounts DEF Redeliver, Processes
  <2>2. PICK m : m = job[w]
    OBVIOUS
  <2>3. Sent(m)
    BY <2>1, <2>2 DEF Processes, Tasks
  <2>4. Sent(m)'
    BY <2>1, <2>3, StaysSent DEF Processes
  <2>5. /\ IsABag(queue')
        /\ \A x \in BagToSet(queue') : x \in BagToSet(queue) \/ Sent(x)'
    BY <2>1, <2>2, <2>4, QueueGrows DEF Processes
  <2> QED
    BY <2>1, <2>5, MessagesMove DEF Processes
<1> QED
  BY <1>1, <1>2

LEMMA WorkerEnds ==
    ASSUME Processes, NEW w \in Workers, Ack(w) \/ Die(w) PROVE Processes'
<1>1. /\ pc[w] # "idle" /\ owed' = owed /\ Goto(w, "idle")
      /\ job' = [job EXCEPT ![w] = NoJob]
      /\ view' = [view EXCEPT ![w] = NoView]
      /\ queue' = queue \/ Send(job[w])
  BY DEF Ack, Die
<1>2. FaultsGrow
  BY SameFaults, FaultCounts DEF Ack, Die, Processes
<1> QED
  BY <1>1, <1>2, WorkerStops

\* Every step is one of these.
LEMMA StepCases ==
    ASSUME Next
    PROVE  \/ Api \/ Candidate
           \/ \E w \in Workers : Take(w) \/ Ack(w) \/ Die(w) \/ Redeliver(w) \/ InTask(w)
           \/ \E m \in BagToSet(owed) : LoseDispatch(m)
BY DEF Next, Work, Misfortune, InTask

LEMMA ProcessesStep ==
    ASSUME Processes, row \in Svc!Views, answers \in [Svc!Questions -> Nat], Next
    PROVE  Processes'
BY StepCases, ApiStep, CandidateStep, BrokerStep, WorkerTakes, WorkerEnds, InTaskStep

-----------------------------------------------------------------------------
(* The database.                                                            *)

LEMMA SameQuestions == Db!Questions = Svc!Questions
BY DEF Db!Questions, Svc!Questions

LEMMA SameCardinality == \A S : Db!Cardinality(S) = Svc!Cardinality(S)
BY DEF Db!Cardinality, Svc!Cardinality

LEMMA SameTransactions ==
    /\ Svc!BeginPreparation(row) => Db!BeginPreparation(row)
    /\ Svc!PersistQuestions(row) => Db!PersistQuestions(row)
    /\ Svc!StartInterview(row) => Db!StartInterview(row)
    /\ \A q, k, t, told : Svc!SubmitAnswer(row, q, k, t, told) => Db!SubmitAnswer(row, q, k, t, told)
    /\ \A q \in Svc!Questions : \A n, f :
          Svc!SaveEvaluation(row, q, n, f) => Db!SaveEvaluation(row, q, n, f)
<1>1. \A s, t : Svc!Allowed(s, t) <=> Db!Allowed(s, t)
  BY DEF Svc!Allowed, Db!Allowed, Svc!ALLOWED_TRANSITIONS, Db!ALLOWED_TRANSITIONS
<1>2. \A t : Svc!Transition(row, t) <=> Db!Transition(row, t)
  BY <1>1 DEF Svc!Transition, Db!Transition
<1>3. Svc!BeginPreparation(row) => Db!BeginPreparation(row)
  BY <1>2 DEF Svc!BeginPreparation, Db!BeginPreparation
<1>4. Svc!PersistQuestions(row) => Db!PersistQuestions(row)
  BY DEF Svc!PersistQuestions, Db!PersistQuestions, Svc!Questions, Db!Questions
<1>5. Svc!StartInterview(row) => Db!StartInterview(row)
  BY <1>1, <1>2 DEF Svc!StartInterview, Db!StartInterview, Svc!Lowest, Db!Lowest
<1>6. \A q, k, t, told : Svc!SubmitAnswer(row, q, k, t, told) => Db!SubmitAnswer(row, q, k, t, told)
  BY <1>1 DEF Svc!SubmitAnswer, Db!SubmitAnswer, Svc!Accepts, Db!Accepts, Svc!KeyRows, Db!KeyRows
<1>7. \A q \in Svc!Questions : \A n, f :
          Svc!SaveEvaluation(row, q, n, f) => Db!SaveEvaluation(row, q, n, f)
  <2>1. \A q, n : Svc!Evaluable(row, q, n) <=> Db!Evaluable(row, q, n)
    BY DEF Svc!Evaluable, Db!Evaluable
  <2>2. \A q \in Svc!Questions : Svc!MayFollowUp(q) <=> Db!MayFollowUp(q)
    <3>1. \A q : Svc!Budget(q) = Db!Budget(q)
      BY DEF Svc!Budget, Db!Budget
    <3> QED
      BY <3>1, SameCardinality DEF Svc!MayFollowUp, Db!MayFollowUp
  <2> QED
    BY <1>2, <2>1, <2>2 DEF Svc!SaveEvaluation, Db!SaveEvaluation
<1> QED
  BY <1>3, <1>4, <1>5, <1>6, <1>7

LEMMA QuietStep == ASSUME Db!Core, UNCHANGED database PROVE Db!Core'
<1>1. UNCHANGED Db!vars
  BY DEF database, Db!vars
<1> QED
  BY <1>1, Db!NextCore, InterviewAssumption, SameQuestions

\* A transaction decided on an old object that ends the interview or reports
\* on it.
LEMMA LateEnding ==
    ASSUME Db!Core, NEW t \in {"FAILED", "COMPLETED", "REPORT_GENERATING", "REPORT_READY"},
           NEW v, Svc!Transition(v, t), report' \in BOOLEAN,
           UNCHANGED <<questions, answers, current, evaluated, followUps, idempotency, replies>>
    PROVE  Db!Core'
<1>1. row' = [row EXCEPT !.status = t]
  BY DEF Svc!Transition
<1> QED
  BY <1>1, Db!EndingStep, InterviewAssumption, SameQuestions

LEMMA RequestCore ==
    ASSUME Db!Core, Tasks, Api \/ Candidate PROVE Db!Core'
<1>1. ASSUME ApiPrepare PROVE Db!Core'
  <2>1. Db!BeginPreparation(row)
    BY <1>1, SameTransactions DEF ApiPrepare
  <2> QED
    BY <2>1, Db!BeginPreparationStep, InterviewAssumption, SameQuestions
<1>2. ASSUME NEW m, ApiDispatch(m) PROVE Db!Core'
  <2>1. /\ replies' \subseteq replies \cup idempotency
        /\ UNCHANGED <<row, questions, answers, current, evaluated, followUps,
                       idempotency, report>>
    BY <1>2 DEF ApiDispatch
  <2> QED
    BY <2>1, Db!RepliesStep, InterviewAssumption, SameQuestions
<1>3. ASSUME ApiStart PROVE Db!Core'
  <2>1. Db!StartInterview(row)
    BY <1>3, SameTransactions DEF ApiStart
  <2> QED
    BY <2>1, Db!StartInterviewStep, InterviewAssumption, SameQuestions
<1>4. ASSUME NEW q \in Svc!Questions, NEW k \in Keys, NEW t \in Texts, ApiSubmit(q, k, t)
      PROVE  Db!Core'
  <2>1. Db!SubmitAnswer(row, q, k, t, FALSE) /\ q \in Db!Questions
    BY <1>4, SameTransactions, SameQuestions DEF ApiSubmit
  <2> QED
    BY <2>1, Db!SubmitAnswerStep, InterviewAssumption, SameQuestions
<1>5. ASSUME NEW q, NEW k, NEW t, ApiReplay(q, k, t) PROVE Db!Core'
  <2>1. /\ replies' \subseteq replies \cup idempotency
        /\ UNCHANGED <<row, questions, answers, current, evaluated, followUps,
                       idempotency, report>>
    BY <1>5 DEF ApiReplay, Svc!ReplayAnswer, Svc!KeyRows
  <2> QED
    BY <2>1, Db!RepliesStep, InterviewAssumption, SameQuestions
<1>6. ASSUME ApiFinish PROVE Db!Core'
  BY <1>6, LateEnding DEF ApiFinish, Svc!FinishInterview, Db!Core, Db!TypeOK
<1> QED
  BY <1>1, <1>2, <1>3, <1>4, <1>5, <1>6 DEF Api, Candidate

\* The steps of a task that leave the database alone.
LEMMA ReadingSteps ==
    ASSUME NEW w, \/ Take(w) \/ Ack(w) \/ Die(w) \/ Redeliver(w)
                  \/ GenerateTwice(w) \/ GenerateFails(w) \/ GiveUp(w)
                  \/ SkipEvaluation(w) \/ EvaluationFails(w) \/ RefreshInterview(w)
                  \/ SettleEvaluation(w) \/ CheckReport(w) \/ WriteReport(w) \/ ReportFails(w)
    PROVE  UNCHANGED database
BY DEF Take, Ack, Die, Redeliver, GenerateTwice, GenerateFails, GiveUp, SkipEvaluation,
   EvaluationFails, RefreshInterview, SettleEvaluation, CheckReport, WriteReport, ReportFails

\* mark_ready and move_to_next_question find what they need.
LEMMA MarkReadyCore ==
    ASSUME Db!Core, Marking, NEW w \in Workers, MarkReady(w) PROVE Db!Core'
<1>1. CASE view[w].status = "PREPARING"
  <2>1. /\ row' = [row EXCEPT !.status = "READY"]
        /\ UNCHANGED <<questions, answers, current, evaluated, followUps,
                       idempotency, report, replies>>
        /\ MayMark(w)
    BY <1>1 DEF MarkReady, Svc!MarkReady, Svc!Transition, MayMark
  <2>2. questions # {} /\ row.index = 0 /\ \A q \in Db!Questions : answers[q] = 0
    BY <2>1, SameQuestions DEF Marking, MayMark
  <2> QED
    BY <2>1, <2>2, Db!ReadyStep, InterviewAssumption, SameQuestions
<1>2. CASE view[w].status # "PREPARING"
  BY <1>2, QuietStep DEF MarkReady, database
<1> QED
  BY <1>1, <1>2

LEMMA MoveCore ==
    ASSUME Db!Core, Moving, NEW w \in Workers, MoveToNextQuestion(w) PROVE Db!Core'
<1>1. CASE view[w].status = "NEXT_QUESTION" /\ Svc!Later(view[w]) # {}
  <2>1. MayMove(w) /\ pc[w] = "move"
    BY <1>1 DEF MoveToNextQuestion, MayMove
  <2>2. /\ questions = Db!Questions
        /\ answers[row.index] > 0
        /\ \A n \in 1 .. answers[row.index] : <<row.index, n>> \in evaluated
        /\ view[w].index = row.index
    BY <2>1, SameQuestions DEF Moving
  <2>3. Svc!Later(view[w]) = Db!Later(row)
    BY <2>2 DEF Svc!Later, Db!Later
  <2>4. Svc!Lowest(Db!Later(row)) = Db!Lowest(Db!Later(row))
    BY DEF Svc!Lowest, Db!Lowest
  <2>5. /\ row' = [status |-> "WAITING_FOR_ANSWER", index |-> Db!Lowest(Db!Later(row))]
        /\ UNCHANGED <<questions, answers, current, evaluated, followUps,
                       idempotency, report, replies>>
    BY <1>1, <2>3, <2>4 DEF MoveToNextQuestion, Svc!MoveToNextQuestion
  <2> QED
    BY <1>1, <2>2, <2>3, <2>5, Db!NextPositionStep, InterviewAssumption, SameQuestions
<1>2. CASE view[w].status = "NEXT_QUESTION" /\ Svc!Later(view[w]) = {}
  <2>1. Svc!FinishInterview(view[w])
    BY <1>2 DEF MoveToNextQuestion, Svc!MoveToNextQuestion
  <2> QED
    BY <2>1, LateEnding DEF Svc!FinishInterview, Db!Core, Db!TypeOK
<1>3. CASE view[w].status # "NEXT_QUESTION"
  BY <1>3, QuietStep DEF MoveToNextQuestion
<1> QED
  BY <1>1, <1>2, <1>3

\* The evaluation of an answer is of the newest one, at the position.
LEMMA EvaluatesPosition ==
    ASSUME Db!Core, Processes, NEW w \in Workers, EvaluateAnswer(w)
    PROVE  \E f \in BOOLEAN :
              /\ Goto(w, IF f THEN "settle" ELSE "refresh")
              /\ job[w].question \in Db!Questions
              /\ job[w].attempt \in 1 .. answers[job[w].question]
              /\ Db!SaveEvaluation(row, job[w].question, job[w].attempt, f)
<1>1. PICK f \in BOOLEAN :
        /\ Svc!SaveEvaluation(row, job[w].question, job[w].attempt, f)
        /\ Goto(w, IF f THEN "settle" ELSE "refresh")
        /\ pc[w] = "evaluate"
  BY DEF EvaluateAnswer
<1>2. /\ job[w] \in Messages /\ job[w].attempt > 0
      /\ job[w].question \in Svc!Questions /\ job[w].attempt \in Nat
  BY <1>1 DEF Processes, Tasks, Sent, Messages
<1>3. current[job[w].question] = job[w].attempt
  BY <1>1 DEF Svc!SaveEvaluation, Svc!Evaluable
<1>4. answers[job[w].question] = job[w].attempt
  BY <1>3 DEF Db!Core, Db!Tables
<1> QED
  BY <1>1, <1>2, <1>4, SameQuestions, SameTransactions

LEMMA InTaskCore ==
    ASSUME Db!Core, Processes, Marking, Moving, NEW w \in Workers, InTask(w)
    PROVE  Db!Core'
<1>1. CASE GenerateQuestions(w)
  <2>1. Db!PersistQuestions(row)
    BY <1>1, SameTransactions DEF GenerateQuestions
  <2> QED
    BY <2>1, Db!PersistQuestionsStep, InterviewAssumption, SameQuestions
<1>2. CASE EvaluateAnswer(w)
  BY <1>2, EvaluatesPosition, Db!SaveEvaluationStep, InterviewAssumption, SameQuestions
<1>3. CASE FailInterview(w)
  <2>1. CASE view[w].status = "REPORT_READY"
    BY <1>3, <2>1, QuietStep DEF FailInterview
  <2>2. CASE view[w].status # "REPORT_READY"
    BY <1>3, <2>2, LateEnding DEF FailInterview, Svc!FailInterview, Db!Core, Db!TypeOK
  <2> QED
    BY <2>1, <2>2
<1>4. CASE BeginReport(w)
  BY <1>4, LateEnding DEF BeginReport, Svc!BeginReport, Db!Core, Db!TypeOK
<1>5. CASE CompleteReport(w)
  <2>1. CASE view[w].status = "REPORT_GENERATING" /\ ~report
    BY <1>5, <2>1, LateEnding DEF CompleteReport, Svc!CompleteReport
  <2>2. CASE ~(view[w].status = "REPORT_GENERATING" /\ ~report)
    BY <1>5, <2>2, QuietStep DEF CompleteReport
  <2> QED
    BY <2>1, <2>2
<1> QED
  BY <1>1, <1>2, <1>3, <1>4, <1>5, MarkReadyCore, MoveCore, ReadingSteps, QuietStep DEF InTask

LEMMA CoreStep ==
    ASSUME Db!Core, Processes, Marking, Moving, Next PROVE Db!Core'
<1>1. ASSUME NEW m, LoseDispatch(m) PROVE UNCHANGED database
  BY <1>1 DEF LoseDispatch
<1> QED
  BY <1>1, StepCases, RequestCore, InTaskCore, ReadingSteps, QuietStep DEF Processes

-----------------------------------------------------------------------------
(* What a step may do to the interview.                                     *)

Quiet == UNCHANGED <<row, questions, answers, current, evaluated, followUps, report>>

RowOnly(t) ==
    /\ row'.status = t /\ row'.index = row.index
    /\ UNCHANGED <<questions, answers, current, evaluated, followUps>>

Persisted ==
    /\ questions = {} /\ questions' = Svc!Questions
    /\ UNCHANGED <<row, answers, current, evaluated, followUps, report>>

Began == row.status = "CREATED" /\ RowOnly("PREPARING") /\ report' = report

Marked(w) ==
    /\ MayMark(w) /\ pc' = [pc EXCEPT ![w] = "done"]
    /\ RowOnly("READY") /\ report' = report

Started == row.status = "READY" /\ RowOnly("WAITING_FOR_ANSWER") /\ report' = report

Submitted ==
    /\ row.status \in {"WAITING_FOR_ANSWER", "FOLLOW_UP_REQUIRED"}
    /\ row'.status = "EVALUATING" /\ row'.index = row.index
    /\ answers' = [answers EXCEPT ![row.index] = @ + 1]
    /\ current' = [current EXCEPT ![row.index] = answers[row.index] + 1]
    /\ Owe(EvaluateTask(row.index, answers[row.index] + 1))
    /\ UNCHANGED <<questions, evaluated, followUps, report, queue, workers, faults>>

Assessed(w) ==
    /\ row.status = "EVALUATING"
    /\ row'.index = row.index
    /\ \/ row'.status = "FOLLOW_UP_REQUIRED" /\ pc' = [pc EXCEPT ![w] = "settle"]
       \/ row'.status = "NEXT_QUESTION" /\ pc' = [pc EXCEPT ![w] = "refresh"]
    /\ evaluated \subseteq evaluated'
    /\ \A q \in Svc!Questions : followUps[q] \subseteq followUps'[q]
    /\ UNCHANGED <<questions, answers, current, report>>

Moved(w) ==
    /\ MayMove(w) /\ pc' = [pc EXCEPT ![w] = "settle"]
    /\ row'.status = "WAITING_FOR_ANSWER" /\ row'.index = row.index + 1
    /\ UNCHANGED <<questions, answers, current, evaluated, followUps, report>>

\* FAILED and COMPLETED, and what follows, may come at any time.
Ended ==
    \/ \E t \in {"FAILED", "COMPLETED", "REPORT_GENERATING"} : RowOnly(t) /\ report' = report
    \/ RowOnly("REPORT_READY") /\ report' /\ evaluated # {}

\* A task that ends the interview or reports on it.
Concluded(w) ==
    \/ /\ pc[w] = "move" /\ MayMove(w) /\ pc' = [pc EXCEPT ![w] = "settle"]
       /\ RowOnly("COMPLETED") /\ report' = report
    \/ /\ pc[w] = "failing" /\ view[w].status # "REPORT_READY"
       /\ RowOnly("FAILED") /\ report' = report
    \/ /\ pc[w] = "begin" /\ pc' = [pc EXCEPT ![w] = "write"]
       /\ RowOnly("REPORT_GENERATING") /\ report' = report
    \/ /\ pc[w] = "complete"
       /\ RowOnly("REPORT_READY") /\ report' /\ evaluated # {}

LEMMA TransitionWrites ==
    ASSUME Db!Core, NEW v, NEW t, Svc!Transition(v, t)
    PROVE  row'.status = t /\ row'.index = row.index
BY DEF Svc!Transition, Db!Core, Db!TypeOK, Db!Views

LEMMA RequestEffects ==
    ASSUME Db!Core, Api \/ Candidate
    PROVE  Quiet \/ Began \/ Started \/ Submitted \/ (ManualFinish /\ ApiFinish /\ Ended)
<1>1. ASSUME ApiPrepare PROVE Began
  <2>1. row.status = "CREATED"
    BY <1>1 DEF ApiPrepare, Svc!BeginPreparation, Svc!Transition, Svc!Allowed,
       Svc!ALLOWED_TRANSITIONS
  <2> QED
    BY <1>1, <2>1, TransitionWrites DEF ApiPrepare, Svc!BeginPreparation, Began, RowOnly
<1>2. ASSUME NEW m, ApiDispatch(m) PROVE Quiet
  BY <1>2 DEF ApiDispatch, Quiet
<1>3. ASSUME ApiStart PROVE Started
  <2>1. row.status = "READY"
    BY <1>3 DEF ApiStart, Svc!StartInterview
  <2>2. questions = Svc!Questions /\ row.index = 0
    BY <2>1, SameQuestions DEF Db!Core, Db!Prepared
  <2>3. questions # {} /\ Db!Lowest(questions) = 0
    <3>1. questions \in SUBSET Nat /\ 0 \in questions /\ \A r \in questions : 0 <= r
      BY <2>2, InterviewAssumption DEF Svc!Questions
    <3> QED
      BY <3>1, Db!LowestIs, InterviewAssumption, SameQuestions
  <2>4. Svc!Lowest(questions) = 0
    BY <2>3 DEF Svc!Lowest, Db!Lowest
  <2>5. /\ row' = [status |-> "WAITING_FOR_ANSWER", index |-> 0]
        /\ UNCHANGED <<questions, answers, current, evaluated, followUps, report>>
    BY <1>3, <2>3, <2>4 DEF ApiStart, Svc!StartInterview
  <2> QED
    BY <2>1, <2>2, <2>5 DEF Started, RowOnly
<1>4. ASSUME NEW q \in Svc!Questions, NEW k \in Keys, NEW t \in Texts, ApiSubmit(q, k, t)
      PROVE  Submitted
  <2>1. /\ q = row.index
        /\ row.status \in {"WAITING_FOR_ANSWER", "FOLLOW_UP_REQUIRED"}
        /\ row' = [row EXCEPT !.status = "EVALUATING"]
        /\ answers' = [answers EXCEPT ![q] = answers[q] + 1]
        /\ current' = [current EXCEPT ![q] = answers[q] + 1]
        /\ Owe(EvaluateTask(q, answers[q] + 1))
        /\ UNCHANGED <<questions, evaluated, followUps, report, queue, workers, faults>>
    BY <1>4 DEF ApiSubmit, Svc!SubmitAnswer, Svc!Accepts
  <2>2. row'.status = "EVALUATING" /\ row'.index = row.index
    BY <2>1 DEF Db!Core, Db!TypeOK, Db!Views
  <2> QED
    BY <2>1, <2>2 DEF Submitted
<1>5. ASSUME NEW q, NEW k, NEW t, ApiReplay(q, k, t) PROVE Quiet
  BY <1>5 DEF ApiReplay, Svc!ReplayAnswer, Quiet
<1>6. ASSUME ApiFinish PROVE ManualFinish /\ ApiFinish /\ Ended
  BY <1>6, TransitionWrites DEF ApiFinish, Svc!FinishInterview, Ended, RowOnly
<1> QED
  BY <1>1, <1>2, <1>3, <1>4, <1>5, <1>6 DEF Api, Candidate

LEMMA TaskEffects ==
    ASSUME Db!Core, Processes, Moving, NEW w \in Workers, InTask(w)
    PROVE  \/ Quiet \/ Concluded(w)
           \/ Persisted /\ GenerateQuestions(w)
           \/ Marked(w)
           \/ Assessed(w)
           \/ Moved(w)
<1>1. ASSUME GenerateQuestions(w) PROVE Persisted
  BY <1>1 DEF GenerateQuestions, Svc!PersistQuestions, Persisted
<1>2. ASSUME MarkReady(w) PROVE Quiet \/ Marked(w)
  <2>1. CASE view[w].status = "PREPARING"
    BY <1>2, <2>1, TransitionWrites DEF MarkReady, Svc!MarkReady, Marked, MayMark, RowOnly, Goto
  <2>2. CASE view[w].status # "PREPARING"
    BY <1>2, <2>2 DEF MarkReady, database, Quiet
  <2> QED
    BY <2>1, <2>2
<1>3. ASSUME FailInterview(w) PROVE Quiet \/ Concluded(w)
  BY <1>3, TransitionWrites
     DEF FailInterview, Svc!FailInterview, database, Quiet, Concluded, RowOnly
<1>4. ASSUME EvaluateAnswer(w) PROVE Assessed(w)
  <2>1. PICK f \in BOOLEAN :
          /\ Svc!SaveEvaluation(row, job[w].question, job[w].attempt, f)
          /\ Goto(w, IF f THEN "settle" ELSE "refresh")
    BY <1>4 DEF EvaluateAnswer
  <2>2. /\ row.status = "EVALUATING" /\ evaluated \subseteq evaluated'
        /\ UNCHANGED <<questions, answers, current, report>>
    BY <2>1 DEF Svc!SaveEvaluation, Svc!Evaluable
  <2>3. CASE f
    <3>1. /\ followUps' = [followUps EXCEPT ![job[w].question] = @ \cup {job[w].attempt}]
          /\ Svc!Transition(row, "FOLLOW_UP_REQUIRED")
      BY <2>1, <2>3 DEF Svc!SaveEvaluation
    <3>2. \A q \in Svc!Questions : followUps[q] \subseteq followUps'[q]
      BY <3>1, SameQuestions DEF Db!Core, Db!TypeOK
    <3> QED
      BY <2>1, <2>2, <2>3, <3>1, <3>2, TransitionWrites DEF Assessed, Goto
  <2>4. CASE ~f
    BY <2>1, <2>2, <2>4, TransitionWrites DEF Svc!SaveEvaluation, Assessed, Goto
  <2> QED
    BY <2>3, <2>4
<1>5. ASSUME MoveToNextQuestion(w) PROVE Quiet \/ Moved(w) \/ Concluded(w)
  <2>1. CASE view[w].status = "NEXT_QUESTION" /\ Svc!Later(view[w]) # {}
    <3>1. MayMove(w) /\ pc[w] = "move"
      BY <1>5, <2>1 DEF MoveToNextQuestion, MayMove
    <3>2. questions = Db!Questions /\ view[w].index = row.index /\ view[w].index \in Db!Questions
      BY <3>1, SameQuestions DEF Moving, Db!Core, Db!Prepared
    <3>3. Svc!Later(view[w]) = Db!Later(view[w]) /\ Db!Later(view[w]) # {}
      BY <2>1 DEF Svc!Later, Db!Later
    <3>4. Db!Lowest(Db!Later(view[w])) = row.index + 1
      BY <3>2, <3>3, Db!NextQuestion, InterviewAssumption, SameQuestions
    <3>5. Svc!Lowest(Svc!Later(view[w])) = row.index + 1
      BY <3>3, <3>4 DEF Svc!Lowest, Db!Lowest
    <3>6. /\ row' = [status |-> "WAITING_FOR_ANSWER", index |-> row.index + 1]
          /\ UNCHANGED <<questions, answers, current, evaluated, followUps, report>>
          /\ Goto(w, "settle")
      BY <1>5, <2>1, <3>5 DEF MoveToNextQuestion, Svc!MoveToNextQuestion
    <3> QED
      BY <3>1, <3>6 DEF Moved, Goto
  <2>2. CASE view[w].status = "NEXT_QUESTION" /\ Svc!Later(view[w]) = {}
    BY <1>5, <2>2, TransitionWrites
       DEF MoveToNextQuestion, Svc!MoveToNextQuestion, Svc!FinishInterview, Concluded, RowOnly,
       MayMove, Goto
  <2>3. CASE view[w].status # "NEXT_QUESTION"
    BY <1>5, <2>3 DEF MoveToNextQuestion, database, Quiet
  <2> QED
    BY <2>1, <2>2, <2>3
<1>6. ASSUME BeginReport(w) PROVE Concluded(w)
  BY <1>6, TransitionWrites DEF BeginReport, Svc!BeginReport, Concluded, RowOnly, Goto
<1>7. ASSUME CompleteReport(w) PROVE Quiet \/ Concluded(w)
  BY <1>7, TransitionWrites
     DEF CompleteReport, Svc!CompleteReport, database, Quiet, Concluded, RowOnly
<1>8. UNCHANGED database => Quiet
  BY DEF database, Quiet
<1> QED
  BY <1>1, <1>2, <1>3, <1>4, <1>5, <1>6, <1>7, <1>8, ReadingSteps DEF InTask

LEMMA Effects ==
    ASSUME Db!Core, Processes, Moving, Next
    PROVE  \/ Quiet \/ Began \/ Started \/ Submitted \/ Ended
           \/ Persisted
           \/ \E w \in Workers : Marked(w) \/ Assessed(w) \/ Moved(w)
<1>1. ASSUME NEW m, LoseDispatch(m) PROVE Quiet
  BY <1>1 DEF LoseDispatch, database, Quiet
<1>2. UNCHANGED database => Quiet
  BY DEF database, Quiet
<1>3. \A w : Concluded(w) => Ended
  BY DEF Concluded, Ended
<1> QED
  BY <1>1, <1>2, <1>3, StepCases, RequestEffects, TaskEffects, ReadingSteps

\* The report stays, and is there when the status says so.
LEMMA ReportStep ==
    ASSUME Db!Core, Processes, Moving, ReportReadyIsBacked, Next
    PROVE  ReportReadyIsBacked'
BY Effects DEF ReportReadyIsBacked, Quiet, Began, Started, Submitted, Ended, Persisted,
   Marked, Assessed, Moved, RowOnly

-----------------------------------------------------------------------------
(* Who may still mark the interview ready, and who may still move it.       *)

\* A step of one worker leaves the others where they are.
LEMMA OthersStay ==
    ASSUME Processes, NEW w \in Workers,
           Take(w) \/ Ack(w) \/ Die(w) \/ Redeliver(w) \/ InTask(w),
           NEW x \in Workers, x # w
    PROVE  pc'[x] = pc[x] /\ view'[x] = view[x] /\ job'[x] = job[x]
<1>1. CASE Take(w) \/ Ack(w) \/ Die(w) \/ Redeliver(w)
  BY <1>1 DEF Take, Ack, Die, Redeliver, Goto, workers, Processes
<1>2. CASE InTask(w)
  BY <1>2 DEF InTask, GenerateQuestions, GenerateTwice, GenerateFails, MarkReady, GiveUp,
     FailInterview, SkipEvaluation, EvaluateAnswer, EvaluationFails, RefreshInterview,
     MoveToNextQuestion, SettleEvaluation, CheckReport, BeginReport, WriteReport,
     ReportFails, CompleteReport, Raise, Goto, Processes
<1> QED
  BY <1>1, <1>2

\* What a step can do to the label of its worker.
LEMMA OwnLabel ==
    ASSUME Processes, NEW w \in Workers,
           Take(w) \/ Ack(w) \/ Die(w) \/ Redeliver(w) \/ InTask(w)
    PROVE  \/ UNCHANGED workers
           \/ GenerateQuestions(w) /\ pc'[w] = "ready" /\ view'[w] = row
           \/ EvaluateAnswer(w)
           \/ RefreshInterview(w) /\ pc'[w] = "move" /\ view'[w] = row
           \/ pc'[w] \notin {"ready", "refresh", "move"}
<1>1. CASE Take(w)
  <2>1. PICK m \in BagToSet(queue) : Goto(w, m.task)
    BY <1>1 DEF Take
  <2>2. m.task \in {"generate", "evaluate", "report"}
    BY <2>1 DEF Processes, Tasks, Sent
  <2> QED
    BY <2>1, <2>2 DEF Goto, Processes
<1>2. CASE Ack(w) \/ Die(w) \/ Redeliver(w)
  BY <1>2 DEF Ack, Die, Redeliver, Goto, workers, Processes
<1>3. CASE InTask(w)
  BY <1>3 DEF InTask, GenerateQuestions, GenerateTwice, GenerateFails, MarkReady, GiveUp,
     FailInterview, SkipEvaluation, EvaluationFails, RefreshInterview,
     MoveToNextQuestion, SettleEvaluation, CheckReport, BeginReport, WriteReport,
     ReportFails, CompleteReport, Raise, Goto, Processes
<1> QED
  BY <1>1, <1>2, <1>3

\* Steps of the API and of the broker touch no worker.
LEMMA RequestsTouchNoWorker ==
    ASSUME Api \/ Candidate \/ \E m : LoseDispatch(m) PROVE UNCHANGED workers
BY DEF Api, Candidate, LoseDispatch, ApiPrepare, ApiDispatch, ApiStart, ApiSubmit, ApiReplay,
   ApiFinish, workers

LEMMA Labels ==
    ASSUME Processes, Next, NEW x \in Workers
    PROVE  \/ pc'[x] = pc[x] /\ view'[x] = view[x]
           \/ GenerateQuestions(x) /\ pc'[x] = "ready" /\ view'[x] = row
           \/ EvaluateAnswer(x)
           \/ RefreshInterview(x) /\ pc'[x] = "move" /\ view'[x] = row
           \/ pc'[x] \notin {"ready", "refresh", "move"}
<1>1. UNCHANGED workers => pc'[x] = pc[x] /\ view'[x] = view[x]
  BY DEF workers
<1> QED
  BY <1>1, StepCases, OthersStay, OwnLabel, RequestsTouchNoWorker

\* EvaluateAnswer leads to settle or refresh.
LEMMA EvaluateLabel ==
    ASSUME Processes, NEW w \in Workers, EvaluateAnswer(w)
    PROVE  pc[w] = "evaluate" /\ pc'[w] \in {"settle", "refresh"}
BY DEF EvaluateAnswer, Goto, Processes

\* EvaluateAnswer leads to settle or refresh, and to the status that goes with it.
LEMMA SavedEvaluation ==
    ASSUME Db!Core, Processes, NEW w \in Workers, EvaluateAnswer(w)
    PROVE  /\ questions' = questions
           /\ \/ pc'[w] = "refresh" /\ row'.status = "NEXT_QUESTION"
              \/ pc'[w] = "settle" /\ row'.status = "FOLLOW_UP_REQUIRED"
<1>1. PICK f \in BOOLEAN :
        /\ Svc!SaveEvaluation(row, job[w].question, job[w].attempt, f)
        /\ Goto(w, IF f THEN "settle" ELSE "refresh")
  BY DEF EvaluateAnswer
<1>2. questions' = questions
  BY <1>1 DEF Svc!SaveEvaluation
<1>3. CASE f
  BY <1>1, <1>2, <1>3, TransitionWrites DEF Svc!SaveEvaluation, Goto, Processes
<1>4. CASE ~f
  BY <1>1, <1>2, <1>4, TransitionWrites DEF Svc!SaveEvaluation, Goto, Processes
<1> QED
  BY <1>3, <1>4

\* Two workers do not take a step together.
LEMMA OneAtATime ==
    ASSUME Processes, NEW w \in Workers, NEW x \in Workers, w # x, InTask(w)
    PROVE  pc'[x] = pc[x]
BY OthersStay

LEMMA MarkingStep ==
    ASSUME Db!Core, Processes, Marking, Moving, Next PROVE Marking'
<1>0. /\ questions \in {{}, Svc!Questions} /\ 0 \in Svc!Questions
      /\ answers \in [Svc!Questions -> Nat]
  BY InterviewAssumption, SameQuestions DEF Db!Core, Db!Prepared, Db!TypeOK, Svc!Questions
<1>1. ASSUME NEW x \in Workers, pc'[x] = "ready"
      PROVE  \/ pc[x] = "ready" /\ view'[x] = view[x]
             \/ GenerateQuestions(x) /\ view'[x] = row
  BY <1>1, Labels, EvaluateLabel
<1>2. ASSUME NEW x \in Workers, GenerateQuestions(x)
      PROVE  /\ questions = {} /\ questions' = Svc!Questions /\ pc[x] = "generate"
             /\ row' = row /\ answers' = answers /\ InTask(x)
  BY <1>2 DEF GenerateQuestions, Svc!PersistQuestions, InTask
<1>3. questions # {} => questions' # {}
  BY Effects, <1>0 DEF Quiet, Began, Started, Submitted, Ended, Persisted, Marked, Assessed,
     Moved, RowOnly
<1>4. \A x \in Workers : pc'[x] = "ready" => questions' # {}
  BY <1>0, <1>1, <1>2, <1>3 DEF Marking
<1>5. ASSUME NEW w \in Workers, NEW x \in Workers, pc'[w] = "ready", pc'[x] = "ready", w # x
      PROVE  FALSE
  <2>1. GenerateQuestions(w) => pc[x] = "ready"
    BY <1>1, <1>2, <1>5, OneAtATime
  <2>2. GenerateQuestions(x) => pc[w] = "ready"
    BY <1>1, <1>2, <1>5, OneAtATime
  <2>3. pc[w] = "ready" /\ pc[x] = "ready"
    BY <1>1, <1>2, <1>5, <2>1, <2>2 DEF Marking
  <2> QED
    BY <1>5, <2>3 DEF Marking
<1>6. ASSUME NEW x \in Workers, MayMark(x)'
      PROVE  /\ row'.status \notin Db!Live \cup {"READY"}
             /\ row'.index = 0
             /\ \A q \in Svc!Questions : answers'[q] = 0
  <2>1. CASE GenerateQuestions(x) /\ view'[x] = row
    <3>1. row.status = "PREPARING" /\ row' = row /\ answers' = answers
      BY <1>2, <1>6, <2>1 DEF MayMark
    <3> QED
      BY <3>1, SameQuestions DEF Db!Core, Db!Prepared, Db!Live
  <2>2. CASE pc[x] = "ready" /\ view'[x] = view[x]
    <3>1. MayMark(x)
      BY <1>6, <2>2 DEF MayMark
    <3>2. /\ row.status \notin Db!Live \cup {"READY"}
          /\ row.index = 0
          /\ \A q \in Svc!Questions : answers[q] = 0
      BY <3>1 DEF Marking
    <3>3. ~Started /\ ~Submitted
      BY <3>2 DEF Started, Submitted, Db!Live
    <3>4. \A w \in Workers : ~Assessed(w)
      BY <3>2 DEF Assessed, Db!Live
    <3>5. \A w \in Workers : ~Moved(w)
      BY <1>0, <3>2 DEF Moved, Moving
    <3>6. \A w \in Workers : ~Marked(w)
      <4>1. SUFFICES ASSUME NEW w \in Workers, Marked(w) PROVE FALSE
        OBVIOUS
      <4>2. w = x
        BY <3>1, <4>1 DEF Marked, MayMark, Marking
      <4> QED
        BY <1>6, <4>1, <4>2 DEF Marked, MayMark, Processes
    <3>7. Quiet \/ Began \/ Ended \/ Persisted
      BY Effects, <3>3, <3>4, <3>5, <3>6
    <3> QED
      BY <3>2, <3>7 DEF Quiet, Began, Ended, Persisted, RowOnly, Db!Live
  <2> QED
    BY <1>1, <1>6, <2>1, <2>2 DEF MayMark
<1> QED
  BY <1>4, <1>5, <1>6 DEF Marking

LEMMA MovingStep ==
    ASSUME Db!Core, Processes, Marking, Moving, Next PROVE Moving'
<1>0. /\ 0 \in Svc!Questions /\ row.index \in Svc!Questions
      /\ answers \in [Svc!Questions -> Nat]
  BY InterviewAssumption, SameQuestions DEF Db!Core, Db!Prepared, Db!TypeOK, Svc!Questions
<1>1. ASSUME NEW x \in Workers, MayMove(x)'
      PROVE  \/ MayMove(x) /\ pc'[x] = pc[x] /\ view'[x] = view[x]
             \/ RefreshInterview(x) /\ pc'[x] = "move" /\ view'[x] = row
             \/ EvaluateAnswer(x) /\ pc'[x] = "refresh"
  BY <1>1, Labels, EvaluateLabel DEF MayMove
<1>2. ASSUME NEW x \in Workers, RefreshInterview(x) PROVE MayMove(x) /\ Quiet
  BY <1>2, ReadingSteps DEF RefreshInterview, MayMove, database, Quiet
<1>3. ASSUME NEW x \in Workers, EvaluateAnswer(x) PROVE row.status = "EVALUATING" /\ InTask(x)
  BY <1>3 DEF EvaluateAnswer, Svc!SaveEvaluation, Svc!Evaluable, InTask
<1>4. row.status = "EVALUATING" => \A x \in Workers : ~MayMove(x)
  BY DEF Moving, Db!Live
<1>5. ASSUME NEW w \in Workers, NEW x \in Workers, MayMove(w)', MayMove(x)', w # x
      PROVE  FALSE
  <2>1. CASE EvaluateAnswer(w)
    <3>1. EvaluateAnswer(x) /\ pc'[x] = "refresh"
      BY <1>1, <1>2, <1>3, <1>4, <1>5, <2>1
    <3>2. pc[x] = "evaluate"
      BY <3>1, EvaluateLabel
    <3> QED
      BY <1>3, <1>5, <2>1, <3>1, <3>2, OneAtATime
  <2>2. CASE ~EvaluateAnswer(w) /\ EvaluateAnswer(x)
    BY <1>1, <1>2, <1>3, <1>4, <1>5, <2>2
  <2>3. CASE ~EvaluateAnswer(w) /\ ~EvaluateAnswer(x)
    BY <1>1, <1>2, <1>5, <2>3 DEF Moving
  <2> QED
    BY <2>1, <2>2, <2>3
<1>6. ASSUME NEW x \in Workers, MayMove(x)'
      PROVE  /\ row'.status \notin Db!Live \ {"NEXT_QUESTION"}
             /\ questions' = Svc!Questions
             /\ answers'[row'.index] > 0
             /\ \A n \in 1 .. answers'[row'.index] : <<row'.index, n>> \in evaluated'
             /\ pc'[x] = "move" => view'[x].index = row'.index
  <2>1. CASE EvaluateAnswer(x) /\ pc'[x] = "refresh"
    <3>1. InTask(x) /\ row.status = "EVALUATING"
      BY <1>3, <2>1
    <3>2. Db!Core'
      BY <3>1, InTaskCore
    <3>3. row'.status = "NEXT_QUESTION" /\ questions' = questions
      BY <2>1, SavedEvaluation DEF Processes
    <3>4. questions = Svc!Questions
      BY <3>1, SameQuestions DEF Db!Core, Db!Prepared, Db!Live
    <3>5. /\ answers'[row'.index] > 0
          /\ \A n \in 1 .. answers'[row'.index] : <<row'.index, n>> \in evaluated'
      BY <3>2, <3>3 DEF Db!Core, Db!Position
    <3> QED
      BY <2>1, <3>3, <3>4, <3>5 DEF Db!Live
  <2>2. CASE RefreshInterview(x) /\ pc'[x] = "move" /\ view'[x] = row
    <3>1. /\ row.status \notin Db!Live \ {"NEXT_QUESTION"}
          /\ questions = Svc!Questions
          /\ answers[row.index] > 0
          /\ \A n \in 1 .. answers[row.index] : <<row.index, n>> \in evaluated
      BY <1>2, <2>2 DEF Moving
    <3> QED
      BY <1>2, <2>2, <3>1 DEF Quiet
  <2>3. CASE MayMove(x) /\ pc'[x] = pc[x] /\ view'[x] = view[x]
    <3>1. /\ row.status \notin Db!Live \ {"NEXT_QUESTION"}
          /\ questions = Svc!Questions
          /\ answers[row.index] > 0
          /\ \A n \in 1 .. answers[row.index] : <<row.index, n>> \in evaluated
          /\ pc[x] = "move" => view[x].index = row.index
      BY <2>3 DEF Moving
    <3>2. ~Submitted /\ ~Persisted
      BY <1>0, <3>1 DEF Submitted, Persisted, Db!Live
    <3>3. ~Started
      BY <1>0, <3>1, SameQuestions DEF Started, Db!Core, Db!Prepared
    <3>4. \A w \in Workers : ~Assessed(w)
      BY <3>1 DEF Assessed, Db!Live
    <3>5. \A w \in Workers : ~Moved(w)
      <4>1. SUFFICES ASSUME NEW w \in Workers, Moved(w) PROVE FALSE
        OBVIOUS
      <4>2. w = x
        BY <2>3, <4>1 DEF Moved, Moving
      <4> QED
        BY <1>6, <4>1, <4>2 DEF Moved, MayMove, Processes
    <3>6. \A w \in Workers : ~Marked(w)
      BY <1>0, <3>1 DEF Marked, Marking
    <3>7. Quiet \/ Began \/ Ended
      BY Effects, <3>2, <3>3, <3>4, <3>5, <3>6
    <3> QED
      BY <2>3, <3>1, <3>7 DEF Quiet, Began, Ended, RowOnly, Db!Live
  <2> QED
    BY <1>1, <1>6, <2>1, <2>2, <2>3
<1> QED
  BY <1>5, <1>6 DEF Moving

-----------------------------------------------------------------------------
(* A submitted answer keeps its task through crashes, redeliveries and      *)
(* retries.                                                                 *)

Asks(m, q, n) == m.task = "evaluate" /\ m.question = q /\ m.attempt = n

\* EvaluationUnderWay, of attempt n at question q.
UnderWay(q, n) ==
    \/ \E m \in BagToSet(owed) : Asks(m, q, n)
    \/ \E m \in BagToSet(queue) : Asks(m, q, n)
    \/ \E w \in Workers : Asks(job[w], q, n) /\ pc[w] = "evaluate"

LEMMA UnderWayMeans == EvaluationUnderWay <=> UnderWay(row.index, current[row.index])
BY DEF EvaluationUnderWay, UnderWay, Asks

LEMMA TaskFaults ==
    ASSUME Processes, NEW w \in Workers, InTask(w) PROVE FaultsGrow
<1>1. CASE EvaluationFails(w) \/ ReportFails(w)
  BY <1>1, RaiseSends DEF EvaluationFails, ReportFails
<1>2. CASE ~(EvaluationFails(w) \/ ReportFails(w))
  BY <1>2, SameFaults, FaultCounts
     DEF InTask, GenerateQuestions, GenerateTwice, GenerateFails, MarkReady, GiveUp,
     FailInterview, SkipEvaluation, EvaluateAnswer, RefreshInterview, MoveToNextQuestion,
     SettleEvaluation, CheckReport, BeginReport, WriteReport, CompleteReport, Processes
<1> QED
  BY <1>1, <1>2

\* The count of a fault never goes down.
LEMMA NextFaults == ASSUME Processes, Next PROVE FaultsGrow
<1>1. ASSUME Api \/ Candidate PROVE FaultsGrow
  BY <1>1, SameFaults DEF Api, Candidate, ApiPrepare, ApiDispatch, ApiStart, ApiSubmit,
     ApiReplay, ApiFinish, Processes
<1>2. ASSUME NEW m, LoseDispatch(m) PROVE FaultsGrow
  BY <1>2, FaultCounts DEF LoseDispatch, Processes
<1>3. ASSUME NEW w \in Workers, Take(w) \/ Ack(w) \/ Die(w) \/ Redeliver(w) PROVE FaultsGrow
  BY <1>3, SameFaults, FaultCounts DEF Take, Ack, Die, Redeliver, Processes
<1> QED
  BY <1>1, <1>2, <1>3, StepCases, TaskFaults

\* A fault that loses a task is no delay.
LEMMA LossIsNoDelay ==
    ASSUME FaultsType, NEW kind \in {"lost_dispatch", "time_limit", "other_exception"},
           Fault(kind)
    PROVE  ~OnlyDelays'
<1>1. /\ faults'.seen[kind] = faults.seen[kind] + 1
      /\ faults.seen[kind] \in Nat
  BY FaultCounts DEF FaultsType
<1> QED
  BY <1>1 DEF OnlyDelays

\* A provider error leaves a retry, unless it was one more than there are.
LEMMA DelayedRaise ==
    ASSUME Processes, NEW w \in Workers, pc[w] # "idle", Raise(w), OnlyDelays'
    PROVE  Send([job[w] EXCEPT !.retries = @ + 1])
<1>1. ~Fault("other_exception")
  BY LossIsNoDelay DEF Processes
<1>2. ASSUME Fault("provider_error"), job[w].retries >= MaxRetries PROVE FALSE
  <2>1. PICK m : m = job[w]
    OBVIOUS
  <2>2. /\ m.retries <= faults.seen["provider_error"] /\ m.retries \in Nat
        /\ m.retries >= MaxRetries
    BY <1>2, <2>1, EnvironmentAssumption DEF Processes, Tasks, Sent, Messages
  <2>3. /\ faults'.seen["provider_error"] = faults.seen["provider_error"] + 1
        /\ faults.seen["provider_error"] \in Nat
    BY <1>2, FaultCounts DEF Processes, FaultsType
  <2>4. faults'.seen["provider_error"] <= MaxRetries
    BY DEF OnlyDelays
  <2> QED
    BY <2>2, <2>3, <2>4, EnvironmentAssumption
<1> QED
  BY <1>1, <1>2 DEF Raise

\* Sending a task again, or for the first time, puts it under way.
LEMMA SendAsks ==
    ASSUME IsABag(queue), NEW m, NEW q, NEW n, Asks(m, q, n), Send(m)
    PROVE  UnderWay(q, n)'
<1>1. queue' = queue (+) SetToBag({m})
  BY DEF Send
<1>2. m \in BagToSet(queue')
  BY <1>1, BagPlus
<1> QED
  BY <1>2 DEF UnderWay, Asks

LEMMA OweAsks ==
    ASSUME IsABag(owed), NEW m, NEW q, NEW n, Asks(m, q, n), Owe(m)
    PROVE  UnderWay(q, n)'
<1>1. owed' = owed (+) SetToBag({m})
  BY DEF Owe
<1>2. m \in BagToSet(owed')
  BY <1>1, BagPlus
<1> QED
  BY <1>2 DEF UnderWay, Asks

\* What stays where it is stays under way.
LEMMA NothingTaken ==
    ASSUME NEW q, NEW n, UnderWay(q, n),
           BagToSet(owed) \subseteq BagToSet(owed'),
           BagToSet(queue) \subseteq BagToSet(queue'),
           \A w \in Workers : pc[w] = "evaluate" => pc'[w] = pc[w] /\ job'[w] = job[w]
    PROVE  UnderWay(q, n)'
BY DEF UnderWay, Asks

LEMMA QueueKeeps ==
    ASSUME IsABag(queue), queue' = queue \/ \E m : Send(m)
    PROVE  BagToSet(queue) \subseteq BagToSet(queue')
<1>1. ASSUME NEW m, Send(m) PROVE BagToSet(queue) \subseteq BagToSet(queue')
  <2>1. queue' = queue (+) SetToBag({m})
    BY <1>1 DEF Send
  <2>2. BagToSet(queue') = BagToSet(queue) \cup {m}
    BY <2>1, BagPlus
  <2> QED
    BY <2>2
<1> QED
  BY <1>1

LEMMA OwedKeeps ==
    ASSUME IsABag(owed), owed' = owed \/ \E m : Owe(m)
    PROVE  BagToSet(owed) \subseteq BagToSet(owed')
<1>1. ASSUME NEW m, Owe(m) PROVE BagToSet(owed) \subseteq BagToSet(owed')
  <2>1. owed' = owed (+) SetToBag({m})
    BY <1>1 DEF Owe
  <2>2. BagToSet(owed') = BagToSet(owed) \cup {m}
    BY <2>1, BagPlus
  <2> QED
    BY <2>2
<1> QED
  BY <1>1

\* The API still owes a task, or has just dispatched it.
LEMMA ApiKeepsTasks ==
    ASSUME Processes, NEW q, NEW n, UnderWay(q, n), Api PROVE UnderWay(q, n)'
<1>1. CASE ApiPrepare
  <2>1. /\ owed' = (owed (-) SetToBag({Prepare})) (+) SetToBag({GenerateTask})
        /\ UNCHANGED <<queue, job, pc>>
    BY <1>1 DEF ApiPrepare, workers
  <2>2. PICK b : b = owed (-) SetToBag({Prepare})
    OBVIOUS
  <2>3. IsABag(b) /\ \A x \in BagToSet(owed) : x # Prepare => x \in BagToSet(b)
    BY <2>2, BagMinus DEF Processes
  <2>4. \A x \in BagToSet(owed) : x # Prepare => x \in BagToSet(owed')
    <3>1. PICK m : m = GenerateTask
      OBVIOUS
    <3>2. owed' = b (+) SetToBag({m})
      BY <2>1, <2>2, <3>1
    <3>3. BagToSet(owed') = BagToSet(b) \cup {m}
      BY <2>3, <3>2, BagPlus
    <3> QED
      BY <2>3, <3>3
  <2>5. ~Asks(Prepare, q, n)
    BY DEF Asks, Prepare, Message
  <2> QED
    BY <2>1, <2>4, <2>5 DEF UnderWay, Asks
<1>2. ASSUME NEW m \in BagToSet(owed), ApiDispatch(m) PROVE UnderWay(q, n)'
  <2>1. /\ owed' = owed (-) SetToBag({m})
        /\ UNCHANGED <<job, pc>>
        /\ m # ReportTask => Send(m)
        /\ queue' = queue \/ Send(m)
    BY <1>2 DEF ApiDispatch, Settled, workers
  <2>2. \A x \in BagToSet(owed) : x # m => x \in BagToSet(owed')
    BY <2>1, BagMinus DEF Processes
  <2>3. BagToSet(queue) \subseteq BagToSet(queue')
    BY <2>1, QueueKeeps DEF Processes
  <2>4. CASE Asks(m, q, n)
    <3>1. m # ReportTask
      BY <2>4 DEF Asks, ReportTask, Message
    <3> QED
      BY <2>1, <2>4, <3>1, SendAsks DEF Processes
  <2>5. CASE ~Asks(m, q, n)
    BY <2>1, <2>2, <2>3, <2>5 DEF UnderWay, Asks
  <2> QED
    BY <2>4, <2>5
<1> QED
  BY <1>1, <1>2 DEF Api

LEMMA CandidateKeepsTasks ==
    ASSUME Processes, NEW q, NEW n, UnderWay(q, n), Candidate PROVE UnderWay(q, n)'
<1>1. /\ owed' = owed \/ \E m : Owe(m)
      /\ UNCHANGED <<queue, job, pc>>
  BY DEF Candidate, ApiStart, ApiSubmit, ApiReplay, ApiFinish, workers
<1>2. BagToSet(owed) \subseteq BagToSet(owed')
  BY <1>1, OwedKeeps DEF Processes
<1> QED
  BY <1>1, <1>2, NothingTaken

\* A worker that takes the task has it; one that dies puts it back.
LEMMA WorkersKeepTasks ==
    ASSUME Processes, NEW q, NEW n, UnderWay(q, n), OnlyDelays',
           NEW w \in Workers, Take(w) \/ Ack(w) \/ Die(w) \/ Redeliver(w)
    PROVE  UnderWay(q, n)'
<1>1. CASE Take(w)
  <2>1. PICK m \in BagToSet(queue) :
          /\ queue' = queue (-) SetToBag({m})
          /\ job' = [job EXCEPT ![w] = m]
          /\ Goto(w, m.task)
    BY <1>1 DEF Take
  <2>2. owed' = owed /\ pc[w] = "idle"
    BY <1>1 DEF Take
  <2>3. \A x \in BagToSet(queue) : x # m => x \in BagToSet(queue')
    BY <2>1, BagMinus DEF Processes
  <2>4. job'[w] = m /\ pc'[w] = m.task
    BY <2>1 DEF Goto, Processes
  <2>5. \A x \in Workers : pc[x] = "evaluate" => pc'[x] = pc[x] /\ job'[x] = job[x]
    BY <1>1, <2>2, OthersStay
  <2>6. CASE Asks(m, q, n)
    BY <2>4, <2>6 DEF UnderWay, Asks
  <2>7. CASE ~Asks(m, q, n)
    BY <2>2, <2>3, <2>5, <2>7 DEF UnderWay, Asks
  <2> QED
    BY <2>6, <2>7
<1>2. CASE Ack(w)
  <2>1. \A x \in Workers : pc[x] = "evaluate" => pc'[x] = pc[x] /\ job'[x] = job[x]
    BY <1>2, OthersStay DEF Ack
  <2> QED
    BY <1>2, <2>1, NothingTaken DEF Ack
<1>3. CASE Die(w)
  <2>1. Send(job[w]) /\ owed' = owed
    BY <1>3, LossIsNoDelay DEF Die, Processes
  <2>2. BagToSet(queue) \subseteq BagToSet(queue')
    BY <2>1, QueueKeeps DEF Processes
  <2>3. PICK m : m = job[w]
    OBVIOUS
  <2>4. CASE Asks(m, q, n)
    BY <2>1, <2>3, <2>4, SendAsks DEF Processes
  <2>5. CASE ~Asks(m, q, n)
    <3>1. \A x \in Workers : x # w => pc'[x] = pc[x] /\ job'[x] = job[x]
      BY <1>3, OthersStay
    <3> QED
      BY <2>1, <2>2, <2>3, <2>5, <3>1 DEF UnderWay, Asks
  <2> QED
    BY <2>4, <2>5
<1>4. CASE Redeliver(w)
  <2>1. Send(job[w]) /\ UNCHANGED <<owed, job, pc>>
    BY <1>4 DEF Redeliver, workers
  <2>2. BagToSet(queue) \subseteq BagToSet(queue')
    BY <2>1, QueueKeeps DEF Processes
  <2> QED
    BY <2>1, <2>2, NothingTaken
<1> QED
  BY <1>1, <1>2, <1>3, <1>4

\* A worker with the task finds its work, and puts it back when it fails.
LEMMA TasksKeepTasks ==
    ASSUME Processes, NEW q, NEW n, UnderWay(q, n), OnlyDelays', row.status = "EVALUATING",
           current[q] = n, <<q, n>> \notin evaluated,
           NEW w \in Workers, InTask(w), ~EvaluateAnswer(w)
    PROVE  UnderWay(q, n)'
<1>0. /\ owed' = owed /\ job' = job
  BY DEF InTask, GenerateQuestions, GenerateTwice, GenerateFails, MarkReady, GiveUp,
     FailInterview, SkipEvaluation, EvaluateAnswer, EvaluationFails, RefreshInterview,
     MoveToNextQuestion, SettleEvaluation, CheckReport, BeginReport, WriteReport,
     ReportFails, CompleteReport
<1>1. CASE EvaluationFails(w)
  <2>1. Raise(w) /\ pc[w] = "evaluate"
    BY <1>1 DEF EvaluationFails
  <2>2. Send([job[w] EXCEPT !.retries = @ + 1])
    BY <2>1, DelayedRaise
  <2>3. PICK m : m = [job[w] EXCEPT !.retries = @ + 1]
    OBVIOUS
  <2>4. CASE Asks(job[w], q, n)
    <3>1. Asks(m, q, n)
      BY <2>3, <2>4 DEF Asks, Processes, Messages
    <3> QED
      BY <2>2, <2>3, <3>1, SendAsks DEF Processes
  <2>5. CASE ~Asks(job[w], q, n)
    <3>1. \A x \in Workers : x # w => pc'[x] = pc[x]
      BY OthersStay
    <3>2. BagToSet(queue) \subseteq BagToSet(queue')
      BY <2>2, QueueKeeps DEF Processes
    <3> QED
      BY <1>0, <2>5, <3>1, <3>2 DEF UnderWay, Asks
  <2> QED
    BY <2>4, <2>5
<1>2. CASE SkipEvaluation(w)
  <2>1. /\ pc[w] = "evaluate" /\ job[w].task = "evaluate" /\ queue' = queue
        /\ ~Svc!Evaluable(row, job[w].question, job[w].attempt)
    BY <1>2 DEF SkipEvaluation, Evaluable, Processes, Tasks
  <2>2. ~Asks(job[w], q, n)
    BY <2>1 DEF Asks, Svc!Evaluable
  <2>3. \A x \in Workers : x # w => pc'[x] = pc[x]
    BY OthersStay
  <2> QED
    BY <1>0, <2>1, <2>2, <2>3 DEF UnderWay, Asks
<1>3. CASE ~EvaluationFails(w) /\ ~SkipEvaluation(w)
  <2>1. pc[w] # "evaluate"
    BY <1>3 DEF InTask, GenerateQuestions, GenerateTwice, GenerateFails, MarkReady, GiveUp,
       FailInterview, RefreshInterview, MoveToNextQuestion, SettleEvaluation, CheckReport,
       BeginReport, WriteReport, ReportFails, CompleteReport
  <2>2. queue' = queue \/ \E m : Send(m)
    BY <1>3 DEF InTask, GenerateQuestions, GenerateTwice, GenerateFails, MarkReady, GiveUp,
       FailInterview, RefreshInterview, MoveToNextQuestion, SettleEvaluation, CheckReport,
       BeginReport, WriteReport, ReportFails, CompleteReport, Raise
  <2>3. BagToSet(queue) \subseteq BagToSet(queue')
    BY <2>2, QueueKeeps DEF Processes
  <2>4. \A x \in Workers : x # w => pc'[x] = pc[x]
    BY OthersStay
  <2> QED
    BY <1>0, <2>1, <2>3, <2>4, NothingTaken
<1> QED
  BY <1>1, <1>2, <1>3

LEMMA TaskStaysUnderWay ==
    ASSUME Db!Core, Processes, NEW q, NEW n, UnderWay(q, n), OnlyDelays', Next,
           row.status = "EVALUATING", current[q] = n, <<q, n>> \notin evaluated,
           row'.status = "EVALUATING"
    PROVE  UnderWay(q, n)'
<1>1. ASSUME NEW m, LoseDispatch(m) PROVE FALSE
  BY <1>1, LossIsNoDelay DEF LoseDispatch, Processes
<1>2. \A w \in Workers : ~EvaluateAnswer(w)
  BY SavedEvaluation
<1> QED
  BY <1>1, <1>2, StepCases, ApiKeepsTasks, CandidateKeepsTasks, WorkersKeepTasks, TasksKeepTasks

LEMMA OrphanStep ==
    ASSUME Db!Core, Processes, Moving, AnswerNotOrphaned, Next PROVE AnswerNotOrphaned'
<1> SUFFICES ASSUME row'.status = "EVALUATING", OnlyDelays'
             PROVE  EvaluationUnderWay'
  BY DEF AnswerNotOrphaned
<1>1. ASSUME NEW q, NEW n, q = row'.index, n = current'[row'.index], UnderWay(q, n)'
      PROVE  EvaluationUnderWay'
  BY <1>1 DEF EvaluationUnderWay, UnderWay, Asks
<1>2. OnlyDelays
  <2>1. FaultsGrow
    BY NextFaults
  <2>2. \A kind \in FaultKinds : /\ faults.seen[kind] \in Nat /\ faults'.seen[kind] \in Nat
                                 /\ faults'.seen[kind] >= faults.seen[kind]
    BY <2>1 DEF FaultsGrow, FaultsType, Processes
  <2> QED
    BY <2>2, EnvironmentAssumption DEF OnlyDelays, FaultKinds
<1>3. Submitted \/ Quiet \/ Persisted
  BY Effects DEF Began, Started, Ended, Marked, Assessed, Moved, RowOnly
<1>4. CASE Submitted
  <2>1. PICK q, n : q = row.index /\ n = answers[row.index] + 1
    OBVIOUS
  <2>2. row.index \in Svc!Questions /\ current \in [Svc!Questions -> Nat]
    BY SameQuestions DEF Db!Core, Db!Prepared, Db!TypeOK
  <2>3. row'.index = q /\ current'[row'.index] = n
    BY <1>4, <2>1, <2>2 DEF Submitted
  <2>4. Owe(EvaluateTask(q, n)) /\ Asks(EvaluateTask(q, n), q, n)
    BY <1>4, <2>1 DEF Submitted, Asks, EvaluateTask, Message
  <2>5. UnderWay(q, n)'
    BY <2>4, OweAsks DEF Processes
  <2> QED
    BY <1>1, <2>3, <2>5
<1>5. CASE Quiet \/ Persisted
  <2>1. row' = row /\ current' = current
    BY <1>5 DEF Quiet, Persisted
  <2>2. PICK q, n : q = row.index /\ n = current[row.index]
    OBVIOUS
  <2>3. row.status = "EVALUATING" /\ UnderWay(q, n)
    BY <1>2, <2>1, <2>2, UnderWayMeans DEF AnswerNotOrphaned
  <2>4. <<q, n>> \notin evaluated
    BY <2>2, <2>3 DEF Db!Core, Db!EvaluatingHasWork
  <2>5. UnderWay(q, n)'
    BY <2>2, <2>3, <2>4, TaskStaysUnderWay
  <2> QED
    BY <1>1, <2>1, <2>2, <2>5
<1> QED
  BY <1>3, <1>4, <1>5

-----------------------------------------------------------------------------
(* The invariant.                                                           *)

LEMMA SameTypes == Db!TypeOK <=> Svc!TypeOK
BY SameQuestions DEF Db!TypeOK, Svc!TypeOK, Db!Views, Svc!Views, Db!Statuses, Svc!Statuses,
   Db!Submission, Svc!Submission

LEMMA SameTypesNext == Db!TypeOK' <=> Svc!TypeOK'
BY SameTypes, SameQuestions DEF Db!TypeOK, Svc!TypeOK, Db!Views, Svc!Views, Db!Statuses,
   Svc!Statuses, Db!Submission, Svc!Submission

LEMMA ProcessesTyped == TypeOK /\ Tasks <=> Svc!TypeOK /\ Processes
BY DEF TypeOK, Processes, FaultsType

LEMMA InitIInv == Init => IInv
<1> SUFFICES ASSUME Init PROVE IInv
  OBVIOUS
<1>1. Db!Core
  <2>1. Db!Init
    BY SameQuestions DEF Init, Db!Init, Svc!Init
  <2> QED
    BY <2>1, Db!InitIInv, InterviewAssumption, SameQuestions DEF Db!IInv
<1>2. Processes
  <2>1. IsABag(owed) /\ BagToSet(owed) = {Prepare}
    BY DEF Init, IsABag, BagToSet, SetToBag
  <2>2. IsABag(queue) /\ BagToSet(queue) = {}
    BY DEF Init, IsABag, BagToSet, SetToBag, EmptyBag
  <2>3. FaultsType
    BY EnvironmentAssumption DEF Init, FaultsType
  <2>4. /\ job \in [Workers -> Messages] /\ pc \in [Workers -> PCs]
        /\ view \in [Workers -> Svc!Views]
    BY MessageTypes, NoViewType DEF Init, PCs
  <2>5. Tasks
    BY <2>1, <2>2 DEF Init, Tasks
  <2> QED
    BY <2>1, <2>2, <2>3, <2>4, <2>5, MessageTypes DEF Processes
<1>3. row.status = "CREATED" /\ ~report /\ \A w \in Workers : pc[w] = "idle"
  BY DEF Init, Svc!Init
<1>4. ReportReadyIsBacked /\ Marking /\ Moving /\ AnswerNotOrphaned
  BY <1>3 DEF ReportReadyIsBacked, Marking, MayMark, Moving, MayMove, AnswerNotOrphaned
<1> QED
  BY <1>1, <1>2, <1>4, ProcessesTyped, SameTypes DEF IInv, Db!Core

LEMMA StutterIInv == IInv /\ UNCHANGED vars => IInv'
<1> SUFFICES ASSUME IInv, UNCHANGED vars PROVE IInv'
  OBVIOUS
<1>1. UNCHANGED <<database, owed, queue, job, pc, view, faults>>
  BY DEF vars, workers
<1>2. UNCHANGED <<row, questions, answers, current, evaluated, followUps, idempotency,
                  report, replies>>
  BY <1>1 DEF database
<1>3. Db!Core'
  BY <1>1, QuietStep DEF IInv
<1>4. FaultsGrow
  BY <1>1, SameFaults, ProcessesTyped DEF IInv, Processes
<1>5. Processes'
  BY <1>1, <1>4, ProcessesTyped, MessagesMove DEF IInv, Processes, workers
<1>6. Marking' /\ Moving'
  BY <1>1, <1>2 DEF IInv, Marking, MayMark, Moving, MayMove
<1>7. ReportReadyIsBacked'
  BY <1>2 DEF IInv, ReportReadyIsBacked
<1>8. AnswerNotOrphaned'
  BY <1>1, <1>2 DEF IInv, AnswerNotOrphaned, OnlyDelays, EvaluationUnderWay
<1>9. Svc!TypeOK'
  BY <1>3, SameTypesNext DEF Db!Core
<1> QED
  BY <1>3, <1>5, <1>6, <1>7, <1>8, <1>9 DEF IInv, TypeOK, Processes, FaultsType

LEMMA NextIInv == IInv /\ [Next]_vars => IInv'
<1> SUFFICES ASSUME IInv, Next PROVE IInv'
  BY StutterIInv
<1>1. Processes
  BY ProcessesTyped DEF IInv
<1>2. Processes'
  BY <1>1, ProcessesStep DEF IInv, TypeOK, Svc!TypeOK
<1>3. Db!Core'
  BY <1>1, CoreStep DEF IInv
<1>4. /\ ReportReadyIsBacked'
      /\ Marking'
      /\ Moving'
      /\ AnswerNotOrphaned'
  BY <1>1, ReportStep, MarkingStep, MovingStep, OrphanStep DEF IInv
<1>5. Svc!TypeOK'
  BY <1>3, SameTypesNext DEF Db!Core
<1> QED
  BY <1>2, <1>3, <1>4, <1>5 DEF IInv, TypeOK, Processes, FaultsType

LEMMA Invariance == Spec => []IInv
BY InitIInv, NextIInv, PTL DEF Spec

-----------------------------------------------------------------------------
(* Theorems.                                                                *)

\* Every variable keeps its type; in particular no fault is counted that
\* cannot happen, and no more of them than there may be.
THEOREM PipelineTypeCorrect == Spec => []TypeOK
BY Invariance, PTL DEF IInv

\* For any number of workers, keys, retries and faults: keys and answers stay
\* one to one, and a client is only told of the answer its key has
\* (service.py:278-322).
THEOREM PipelineSubmissionsSound == Spec => []SubmissionsSound
<1>1. Db!ExactlyOnceSubmission => SubmissionsSound
  BY SameQuestions DEF SubmissionsSound, Svc!ExactlyOnceSubmission, Db!ExactlyOnceSubmission
<1>2. IInv => SubmissionsSound
  BY <1>1 DEF IInv, Db!Core
<1> QED
  BY <1>2, Invariance, PTL

\* However often an evaluation is delivered or retried, a question gets at
\* most its budget of follow-ups and one answer for each (workers.py:206-231).
THEOREM PipelineFollowUpsSound == Spec => []FollowUpsSound
<1>1. Db!FollowUpDiscipline => FollowUpsSound
  <2>1. \A q : Svc!Budget(q) = Db!Budget(q)
    BY DEF Svc!Budget, Db!Budget
  <2> QED
    BY <2>1, SameQuestions, SameCardinality
       DEF FollowUpsSound, Svc!FollowUpDiscipline, Db!FollowUpDiscipline
<1>2. IInv => FollowUpsSound
  BY <1>1 DEF IInv, Db!Core
<1> QED
  BY <1>2, Invariance, PTL

\* The position passes no unanswered and no unevaluated question although
\* move_to_next_question decides on an object read before the lock
\* (workers.py:233-235): whoever can still move finds the position it saw.
THEOREM PipelinePositionSound == Spec => []PositionSound
<1>1. Db!NothingSkipped => PositionSound
  BY SameQuestions DEF PositionSound, Svc!NothingSkipped, Db!NothingSkipped
<1>2. IInv => PositionSound
  BY <1>1 DEF IInv, Db!Core
<1> QED
  BY <1>2, Invariance, PTL

\* EVALUATING names an answer that can still be evaluated, so a redelivered
\* task finds its work (workers.py:159-165).
THEOREM PipelineEvaluationPossible == Spec => []EvaluationPossible
<1>1. Db!EvaluatingHasWork => EvaluationPossible
  BY DEF EvaluationPossible, Svc!EvaluatingHasWork, Db!EvaluatingHasWork
<1>2. IInv => EvaluationPossible
  BY <1>1 DEF IInv, Db!Core
<1> QED
  BY <1>2, Invariance, PTL

\* REPORT_READY promises a report with evaluations behind it, although the
\* status can be written over later (resources.py:114-131).
THEOREM ReportsAreBacked == Spec => []ReportReadyIsBacked
BY Invariance, PTL DEF IInv

\* As long as no fault loses a task for good, and there were no more provider
\* errors than a task has retries, the answer being evaluated has its task:
\* owed, queued or with a worker that has not looked at it
\* (tasks.py:14-15, 28-33).
THEOREM AnswersAreNotOrphaned == Spec => []AnswerNotOrphaned
BY Invariance, PTL DEF IInv

LEMMA GrowStep ==
    ASSUME IInv, Next
    PROVE  /\ row'.index >= row.index
           /\ \A q \in Svc!Questions : answers'[q] >= answers[q]
           /\ \A q \in Svc!Questions : followUps[q] \subseteq followUps'[q]
           /\ evaluated \subseteq evaluated'
           /\ report => report'
<1>1. Processes
  BY ProcessesTyped DEF IInv
<1>2. /\ answers \in [Svc!Questions -> Nat] /\ row.index \in Nat
      /\ row.index \in Svc!Questions
  BY SameQuestions, InterviewAssumption DEF IInv, Db!Core, Db!TypeOK, Db!Prepared, Svc!Questions
<1>3. CASE Submitted
  BY <1>2, <1>3 DEF Submitted
<1>4. CASE ~Submitted
  BY <1>1, <1>2, <1>4, Effects DEF IInv, Quiet, Began, Started, Ended, Persisted, Marked,
     Assessed, Moved, RowOnly
<1> QED
  BY <1>3, <1>4

\* Whatever old object a transaction decides on, it takes nothing back: the
\* position never returns, no answer, evaluation, follow-up or report is lost.
THEOREM RecordsGrow == Spec => RecordsOnlyGrow
<1>1. IInv /\ [Next]_vars =>
        [ /\ row'.index >= row.index
          /\ \A q \in Svc!Questions : answers'[q] >= answers[q]
          /\ \A q \in Svc!Questions : followUps[q] \subseteq followUps'[q]
          /\ evaluated \subseteq evaluated'
          /\ report => report' ]_vars
  BY GrowStep
<1> QED
  BY <1>1, Invariance, PTL DEF Spec, RecordsOnlyGrow

-----------------------------------------------------------------------------
(* What the documents say, when nobody finishes by hand.                   *)

Over == {"COMPLETED", "REPORT_GENERATING", "REPORT_READY"}

\* Workers that go on with the report without asking whether it is there.
Reporting(w) == pc[w] \in {"begin", "write", "complete"}

\* The last answer of the last question has been moved past.
Finished == row.status \in Over \/ report \/ \E w \in Workers : Reporting(w)

\* From then on nobody can hand the interview back, and COMPLETED has no
\* report yet and nobody who writes one.
Closed ==
    /\ Finished =>
          /\ row.status \in Over \cup {"FAILED"}
          /\ \A w \in Workers : ~MayMove(w) /\ ~MayMark(w)
    /\ row.status = "COMPLETED" =>
          ~report /\ \A w \in Workers : pc[w] \notin {"write", "complete"}

\* A worker reports because the status was COMPLETED, or as it did.
LEMMA ReportLabels ==
    ASSUME Db!Core, Processes, Next, NEW x \in Workers, Reporting(x)'
    PROVE  \/ pc'[x] = pc[x]
           \/ row.status = "COMPLETED" /\ pc'[x] = "begin"
           \/ pc[x] = "begin" /\ pc'[x] = "write" /\ row'.status = "REPORT_GENERATING"
           \/ pc[x] = "write" /\ pc'[x] = "complete"
<1>1. UNCHANGED workers => pc'[x] = pc[x]
  BY DEF workers
<1>2. ASSUME Take(x) PROVE FALSE
  <2>1. PICK m \in BagToSet(queue) : Goto(x, m.task)
    BY <1>2 DEF Take
  <2>2. m.task \in {"generate", "evaluate", "report"}
    BY <2>1 DEF Processes, Tasks, Sent
  <2> QED
    BY <2>1, <2>2 DEF Goto, Processes, Reporting
<1>3. Ack(x) \/ Die(x) => FALSE
  BY DEF Ack, Die, Goto, Processes, Reporting
<1>4. Redeliver(x) => UNCHANGED workers
  BY DEF Redeliver
<1>5. BeginReport(x) => pc[x] = "begin" /\ pc'[x] = "write" /\ row'.status = "REPORT_GENERATING"
  BY TransitionWrites DEF BeginReport, Svc!BeginReport, Goto, Processes
<1>6. CheckReport(x) => row.status = "COMPLETED" /\ pc'[x] = "begin"
  BY DEF CheckReport, Goto, Processes, Reporting
<1>7. WriteReport(x) => pc[x] = "write" /\ pc'[x] = "complete"
  BY DEF WriteReport, Goto, Processes, Reporting
<1>8. InTask(x) => BeginReport(x) \/ CheckReport(x) \/ WriteReport(x)
  BY DEF InTask, GenerateQuestions, GenerateTwice, GenerateFails, MarkReady, GiveUp,
     FailInterview, SkipEvaluation, EvaluateAnswer, EvaluationFails, RefreshInterview,
     MoveToNextQuestion, SettleEvaluation, ReportFails, CompleteReport, Raise, Goto,
     Processes, Reporting
<1> QED
  BY <1>1, <1>2, <1>3, <1>4, <1>5, <1>6, <1>7, <1>8, StepCases, OthersStay, RequestsTouchNoWorker

\* After the last question the status only goes on to the report, or fails.
LEMMA ClosedEdges ==
    ASSUME ~ManualFinish, IInv, Closed, Finished, Next
    PROVE  \/ row' = row /\ report' = report
           \/ row'.status \in {"REPORT_GENERATING", "FAILED"}
           \/ row'.status = "REPORT_READY" /\ \E w \in Workers : pc[w] = "complete"
<1>0. Processes
  BY ProcessesTyped DEF IInv
<1>1. Quiet \/ Persisted => row' = row /\ report' = report
  BY DEF Quiet, Persisted
<1>2. /\ ~Began /\ ~Started /\ ~Submitted
      /\ \A w \in Workers : ~Marked(w) /\ ~Assessed(w) /\ ~Moved(w)
  BY DEF Closed, Over, Began, Started, Submitted, Marked, Assessed, Moved
<1>3. ASSUME NEW w \in Workers, Concluded(w)
      PROVE  \/ row'.status \in {"REPORT_GENERATING", "FAILED"}
             \/ row'.status = "REPORT_READY" /\ pc[w] = "complete"
  BY <1>3 DEF Concluded, RowOnly, Closed
<1>4. UNCHANGED database => Quiet
  BY DEF database, Quiet
<1>5. ASSUME NEW m, LoseDispatch(m) PROVE UNCHANGED database
  BY <1>5 DEF LoseDispatch
<1> QED
  BY <1>0, <1>1, <1>2, <1>3, <1>4, <1>5, StepCases, RequestEffects, TaskEffects, ReadingSteps
     DEF IInv

\* The last question is moved past by the one worker that can.
LEMMA ClosingStep ==
    ASSUME ~ManualFinish, IInv, ~Finished, Next, Finished'
    PROVE  \E w \in Workers :
              /\ MayMove(w) /\ pc' = [pc EXCEPT ![w] = "settle"]
              /\ InTask(w) /\ row'.status = "COMPLETED" /\ report' = report
<1>0. Processes
  BY ProcessesTyped DEF IInv
<1>1. \A x \in Workers : ~Reporting(x)'
  BY <1>0, ReportLabels DEF IInv, Finished, Over, Reporting
<1>2. row'.status \in Over \/ report'
  BY <1>1 DEF Finished
<1>3. ~Quiet /\ ~Persisted
  BY <1>2 DEF Quiet, Persisted, Finished
<1>4. /\ ~Began /\ ~Started /\ ~Submitted
      /\ \A w \in Workers : ~Marked(w) /\ ~Assessed(w) /\ ~Moved(w)
  BY <1>2 DEF Finished, Over, Began, Started, Submitted, Marked, Assessed, Moved, RowOnly
<1>5. UNCHANGED database => Quiet
  BY DEF database, Quiet
<1>6. ASSUME NEW m, LoseDispatch(m) PROVE UNCHANGED database
  BY <1>6 DEF LoseDispatch
<1>7. PICK w \in Workers : InTask(w) /\ Concluded(w)
  BY <1>0, <1>3, <1>4, <1>5, <1>6, StepCases, RequestEffects, TaskEffects, ReadingSteps DEF IInv
<1> QED
  BY <1>2, <1>7 DEF Concluded, RowOnly, Finished, Reporting, Over

LEMMA ClosedStep == ASSUME ~ManualFinish, IInv, Closed, Next PROVE Closed'
<1>0. Processes
  BY ProcessesTyped DEF IInv
<1>1. CASE Finished
  <2>1. row'.status \in Over \cup {"FAILED"}
    BY <1>1, ClosedEdges DEF Closed, Over
  <2>2. row.status \notin {"PREPARING", "EVALUATING"} /\ \A x \in Workers : ~MayMove(x) /\ ~MayMark(x)
    BY <1>1 DEF Closed, Over
  <2>3. \A x \in Workers : ~EvaluateAnswer(x) /\ ~RefreshInterview(x)
    BY <2>2 DEF EvaluateAnswer, Svc!SaveEvaluation, Svc!Evaluable, RefreshInterview, MayMove
  <2>4. ASSUME NEW x \in Workers PROVE ~MayMove(x)' /\ ~MayMark(x)'
    BY <1>0, <2>2, <2>3, Labels DEF MayMove, MayMark
  <2>5. ASSUME row'.status = "COMPLETED"
        PROVE  ~report' /\ \A x \in Workers : pc'[x] \notin {"write", "complete"}
    <3>1. row' = row /\ report' = report
      BY <1>1, <2>5, ClosedEdges
    <3>2. ~report /\ \A x \in Workers : pc[x] \notin {"write", "complete"}
      BY <2>5, <3>1 DEF Closed
    <3> QED
      BY <1>0, <2>5, <3>1, <3>2, ReportLabels DEF IInv, Reporting
  <2> QED
    BY <2>1, <2>4, <2>5 DEF Closed
<1>2. CASE ~Finished /\ Finished'
  <2>1. PICK w \in Workers :
          /\ MayMove(w) /\ pc' = [pc EXCEPT ![w] = "settle"]
          /\ InTask(w) /\ row'.status = "COMPLETED" /\ report' = report
    BY <1>2, ClosingStep
  <2>2. pc'[w] = "settle" /\ \A x \in Workers : x # w => pc'[x] = pc[x] /\ view'[x] = view[x]
    BY <1>0, <2>1, OthersStay DEF Processes
  <2>3. \A x \in Workers : ~MayMark(x)
    <3>1. answers[row.index] > 0 /\ row.index \in Svc!Questions
      BY <2>1, SameQuestions DEF IInv, Moving, Db!Core, Db!Prepared
    <3>2. \A x \in Workers : MayMark(x) => answers[row.index] = 0
      BY <3>1 DEF IInv, Marking
    <3> QED
      BY <3>1, <3>2
  <2>4. \A x \in Workers : ~MayMove(x)' /\ ~MayMark(x)'
    BY <2>1, <2>2, <2>3 DEF IInv, Moving, MayMove, MayMark
  <2>5. ~report' /\ \A x \in Workers : pc'[x] \notin {"write", "complete"}
    BY <1>2, <2>1, <2>2 DEF Finished, Reporting
  <2> QED
    BY <2>1, <2>4, <2>5 DEF Closed, Over
<1>3. CASE ~Finished'
  BY <1>3 DEF Closed, Finished, Over
<1> QED
  BY <1>1, <1>2, <1>3

LEMMA ClosedInvariance == ASSUME ~ManualFinish PROVE Spec => []Closed
<1>1. Init => Closed
  <2>1. Init => row.status = "CREATED" /\ ~report /\ \A w \in Workers : pc[w] = "idle"
    BY DEF Init, Svc!Init
  <2> QED
    BY <2>1 DEF Closed, Finished, Over, Reporting
<1>2. IInv /\ Closed /\ [Next]_vars => Closed'
  <2>1. UNCHANGED vars => UNCHANGED <<row, report, pc, view>>
    BY DEF vars, database, workers
  <2>2. Closed /\ UNCHANGED vars => Closed'
    BY <2>1 DEF Closed, Finished, Reporting, MayMove, MayMark
  <2> QED
    BY <2>2, ClosedStep
<1> QED
  BY <1>1, <1>2, Invariance, PTL DEF Spec

\* COMPLETED is not reopened (docs/interview-state-machine.md:31), however many
\* workers there are and whatever faults happen, unless the candidate finishes
\* by hand while a worker is between its commits (workers.py:233-235).
THEOREM OnlyFinishReopens == ASSUME ~ManualFinish PROVE Spec => CompletedIsNotReopened
<1>1. ASSUME IInv, Closed, Next, row.status = "COMPLETED"
      PROVE  row'.status \in {"COMPLETED", "REPORT_GENERATING", "FAILED"}
  <2>1. Finished /\ \A w \in Workers : pc[w] # "complete"
    BY <1>1 DEF Closed, Finished, Over
  <2> QED
    BY <1>1, <2>1, ClosedEdges
<1>2. IInv /\ Closed /\ [Next]_vars =>
        [row.status = "COMPLETED" =>
            row'.status \in {"COMPLETED", "REPORT_GENERATING", "FAILED"}]_vars
  BY <1>1
<1> QED
  BY <1>2, Invariance, ClosedInvariance, PTL DEF Spec, CompletedIsNotReopened

\* Two workers can write over REPORT_READY, but without finishing by hand they
\* never hand a completed interview back to the candidate: what they write is the
\* report's progress once more, or FAILED (workers.py:134-140, 255-300).
NeverHandedBack ==
    [][row.status \in Over => row'.status \in Over \cup {"FAILED"}]_vars

THEOREM CompletedStaysOver == ASSUME ~ManualFinish PROVE Spec => NeverHandedBack
<1>1. IInv /\ Closed /\ [Next]_vars =>
        [row.status \in Over => row'.status \in Over \cup {"FAILED"}]_vars
  BY ClosedEdges DEF Finished, Over
<1> QED
  BY <1>1, Invariance, ClosedInvariance, PTL DEF Spec, NeverHandedBack
===============================================================================
