# A verification project for the AI Interview Preparation System

TLA+ models of the interview back end in `src/backend/app`, the TLC
configurations that check them and proofs that TLAPS checks. Paths below are
relative to `src/backend/app` unless they start with `src/`, `docs/` or
`README.md` (the latter two are in the repository's `src/`).

## 1. The system

A candidate registers, uploads a resume and creates an interview. The API
commits a row and *dispatches* Celery tasks; workers call an AI provider and
commit what it returns. The candidate answers over REST or a websocket, polls,
and finally reads a report. All coordination goes through PostgreSQL rows and
the Redis broker; processes share nothing else.

### Inventory

| Component | State | Operations | What makes it correct |
| --- | --- | --- | --- |
| State machine (`interviews/state_machine.py`, `models/interview.py`) | the status column | `validate_transition` | a status changes only along the table; phases are never entered again |
| Interview service (`interviews/service.py`) | interviews, questions, answers, keys | `begin_preparation`, `mark_ready`, `start_interview`, `submit_answer`, `advance_after_evaluation`, `move_to_next_question`, `finish_interview`, `fail_interview`, `begin_report` | nothing skipped, answered once per key, follow-ups bounded, EVALUATING has an answer to evaluate |
| API routes (`api/interviews.py`) | none; commit, then dispatch | create, start, submit, finish, realtime session | whatever is committed has somebody to carry it on |
| Dispatch and tasks (`interviews/pipeline.py`, `ai/tasks.py`) | broker messages | `run_task`, four tasks, late acknowledgement, retries | a task lost to a crash comes back; a task delivered twice does no harm |
| Workers (`workers.py`) | one database session per task | generate, evaluate, report, resume | several transactions that together act like the service |
| AI services (`ai/*_service.py`, `ai/retry.py`) | none | bounded attempts, fallback question bank, follow-up decision | the budget of attempts and of follow-ups |
| Realtime gateway (`realtime/websocket.py`) | session rows, one database session per connection | connect, transcript, audio, end | the same answer service as REST |
| Authentication (`auth/service.py`, `api/auth.py`) | refresh token rows | login, rotate, revoke, expire | a token rotates once; a logout is final |
| API client (`src/frontend/src/api/client.js`, `src/frontend/src/auth/AuthContext.jsx`) | access token, exchange in flight, sign-in status; the cookie jar of the browser | request, single-flight exchange, restore, login, logout | nobody is signed out without a cause; no request is left behind |
| Resumes (`api/resources.py`, `storage/__init__.py`, `process_resume_work`) | files, resume rows, analyses | upload, process, delete | file and row go together; a READY resume has its analysis; processing ends |
| Question generation (`ai/question_service.py`, `ai/question_bank.py`, `ai/retry.py`) | the questions asked so far | attempts, validation, bank | distinct, fitting questions; an outage of the provider is survived |
| Scoring (`evaluations/scoring.py`) | none | rounded means | results in range, no anomaly by rounding |
| Interview page (`src/frontend/src/pages/InterviewPage.jsx`) | draft, idempotency key, polling | submit, retry, poll | a retry keeps its key until the answer is known |

### How the parts interact

`POST /interviews` commits CREATED, then PREPARING, then dispatches generation.
The worker stores all questions and commits READY. `start` opens the first
question. `submit_answer` commits answer, pointer (`current_answer_id`), key and
EVALUATING in one transaction; the request then dispatches the evaluation. The
evaluation worker locks, calls the AI, commits evaluation and follow-up together
with FOLLOW_UP_REQUIRED or NEXT_QUESTION, refreshes, and in the second case moves
the position in a *second* transaction. If it then reads COMPLETED it dispatches
the report, which is again several transactions.

### What is hard here

* **Old objects.** `get_locked_interview` takes the row lock, but a SQLAlchemy
  session that already holds the Interview returns the object it holds
  (`expire_on_commit=False`, no `populate_existing`). A session older than one
  transaction therefore decides on what it remembers. Workers and websockets
  have such sessions. In the models this object is the `view` parameter of every
  action: guards read the view, writes go to the row.
* **Several commits per task**, with a crash, a redelivery or a request between.
* **Commit before dispatch**: a window in which only one process knows the work.
* **At-least-once delivery**, `acks_late`, redelivery after a lost worker, and
  the exception: a task that hits `task_time_limit` is acknowledged.
* **Client retries** under an idempotency key while the interview moves on.
* **Many requests, one cookie.** The exchange of a refresh token is single-flight
  in a loaded page, unordered between tabs, and reads and writes the row without
  a lock. The server ends what it has begun: a page that is closed, reloaded or
  cut off leaves an exchange running and can start another with the same cookie.
* **Storage, database, broker**: an upload or a deletion touches two or three of
  them in turn, and nothing undoes the first step when the second fails.

`PROJECT.json` lists each hazard at its line with the properties that cover it.

## 2. The modules

| Module | Models |
| --- | --- |
| `InterviewStateMachine` | the statuses and the transition table |
| `InterviewLifecycle` | abstract specification: what one commit may do to the status |
| `InterviewService` | one interview's rows; one action per transaction |
| `InterviewServiceProofs` | theorems about `InterviewService` |
| `InterviewPipeline` | API requests, broker, workers and candidate around the service |
| `InterviewPipelineProofs` | theorems about it for any number of workers and faults |
| `OneWorkerProofs` | theorems about it for one worker: refinement, terminal statuses and who carries on |
| `RealtimeGateway`, `RealtimeGatewayProofs` | sessions, websocket connections and the answers they carry; theorems |
| `RefreshTokens` | the table refresh_tokens and the operations on it |
| `AccountSession`, `AccountSessionProofs` | tabs, cookie jar, network and auth routes around it; theorems |
| `ResumeProcessing` | files, rows and tasks of uploaded resumes |
| `QuestionGeneration` | operators: attempts, validation and bank for one question |
| `InterviewPreparation`, `InterviewPreparationProofs` | an interview created over a resume and its generation, composed of the two above; theorems |
| `Scoring`, `ScoringProofs` | the score formulas as operators, and theorems about them |
| `MC*` | constants and symmetry for TLC |

`InterviewPipeline` and `RealtimeGateway` each take `InterviewService` as
`Svc == INSTANCE InterviewService` over the same database variables and call its
actions with the view of the process that acts. Refinement goes upward:
`InterviewPipeline` => `InterviewService` => `InterviewLifecycle`.

`AccountSession` extends `RefreshTokens` and decides what may happen between a
request's read (`Usable`) and its commit (`RotateRefresh`). `InterviewPreparation`
extends `ResumeProcessing` and `QuestionGeneration`; it computes what the
generation makes of a resume, while `InterviewPipeline` models how the same task
is delivered, repeated and lost.

### Model and code

* `row` is the interviews row (status and position); `questions`, `answers`,
  `current`, `evaluated`, `followUps`, `idempotency`, `report` are the other
  tables. Attempts are numbered 1..n, so `answers[q]` is the largest attempt.
  `replies` is history: what clients were told.
* A commit is one action. Statuses flushed and overwritten inside a transaction
  (IN_PROGRESS in `start`, WAITING_FOR_ANSWER when a follow-up is answered) are
  never visible, and the abstract lifecycle says so (`MoveThrough`).
* `owed` holds what a request still has to do after its commit; `queue` the
  broker's messages; `job`, `pc`, `view` a worker's message, place and object.
* Text is a model value; the request hash is (question, text). AI output is the
  choice of `needsFollowUp` or of failing.
* Refresh tokens are numbered in the order of issue; all rows live equally long,
  so `expired` is a number too. A tab's `call` record is a request on its way:
  sent with the cookie of that moment, read by the server, answered. Requests
  whose client gives up (`GiveUp`: a broken connection, `Close`, a reload as
  `Close` and `Load`) move to an `Adrift` caller at whatever stage they are; the
  server goes on with them, their answer reaches nobody, and the tab may send
  others meanwhile. Rows expire only while no request is out (days against
  seconds). `GET /auth/me` and logins are answered at once, the former well or
  badly; access tokens are not stored anywhere, so any request may be answered
  401. Registration, wrong passwords and disabled accounts change no session.
* A worker's session reads a resume row once (`expire_on_commit=False`) and
  writes what differs from what it holds: the `view` of a `ResumeProcessing`
  stage. `upload` and `removing` say how far a request has come, and a request
  may break after each step.
* A question is a model value; `Fits` is what validation reads off its fields,
  `Within` what it compares between texts, `Bank` the bank's entries for one
  configuration. The provider's `replies` are every sequence of questions,
  schema violations and errors.
* A refused request changes nothing, so the service has no action for it. On a
  websocket it does: the exception ends the connection (`Refuse`).

## 3. The runs

| Run | Question | Bounds | Distinct states |
| --- | --- | --- | --- |
| `service` | do transactions on fresh rows keep the tables consistent? | 3 questions with budgets 2, 0 (counts as 1) and forbidden; 4 keys, 2 texts | 9.5 thousand |
| `one_worker` | does the pipeline implement the service, and does the interview come back? | 1 worker, 2 questions, 3 keys, 2 faults of any kind, no manual finish | 55 thousand |
| `hostile` | what survives two workers, manual finish and any fault? | 2 workers, 2 questions, 3 keys, 1 fault | 475 thousand |
| `realtime` | what do connections with old objects preserve? | 2 connections, 2 sessions, 2 questions, 3 keys | 474 thousand |
| `account` | what do two tabs over one cookie, reloads and a network that breaks preserve? | 2 tabs, 1 client that gave up, 3 refresh tokens | 588 thousand |
| `preparation` | do files, rows and tasks agree, and what questions does an interview get? | 1 resume, 2 workers, 3 deliveries; 2 questions wanted of 5, 2 in the bank, 2 attempts | 167 thousand |
| `late_finish`, `second_report`, `finished_early`, `lost_worker`, `stale_connection`, `second_answer` | where documents and code disagree (section 5) | as above | counterexamples |

**Why the bounds suffice.** Two questions give a first one with a successor and
a last one; three in `service` also separate "the next" from "a later" question.
Three keys allow every answer the two questions can get (first, follow-up,
second question) and replays of each. Nothing in the code counts workers beyond
two meeting on one row. Two texts separate a replay from another payload under
the same key; where that is not the question one text suffices. A single fault
already reaches every fault action; two let a redelivered task fail again. The
bounds of the model itself are `MaxFaults`, `MaxSessions`, `MaxTokens`,
`MaxDeliveries` and the finite `Keys`; `MaxRetries` is the source's 2, or 1 where the state space matters. The
`realtime` run contains both candidates who use one connection at a time
(`alone`, chosen in `Init`) and candidates who do anything.

Three refresh tokens are a first one and either two successors of it or a chain;
two tabs are the least number that can race. One client that gave up (`Adrift`)
is enough for a tab to race with its own past, beside the other tab; while its
requests are out no second client gives up before the server has answered it
(the proofs have any number). `Room` withholds only actions that
could need a token beyond the bound. One resume suffices because resumes share
nothing but the pool of workers; three deliveries are a first one, one that
overlaps it and one after both. In the bank of the run one entry's text occurs in
a question of the provider, so that the bank can run dry although an entry is
unused.

`CHECK_DEADLOCK FALSE` throughout: an interview that is finished, failed or out
of keys really stops.

**Symmetry** is over keys, texts, workers and connections, and only in runs
without liveness properties.

**Fairness.** `FairSpec` is weak fairness of the API's own next step (a request
that committed goes on to dispatch) and of each worker's work. A worker
step is enabled until taken, requests have no timeout, and acknowledgements are
Celery's. Nothing is assumed of the candidate, and faults are never fair.
Liveness is claimed only before the first fault (`ReturnsToCandidate`) or under
faults that merely delay (`EvaluationEnds`). In `AccountSession` the server
handles a request that reached it and a connection ends, well or badly; no user
or clock is fair, and nothing is assumed of requests whose client has gone. In `InterviewPreparation` workers take messages and go on with
their tasks; crashes, redelivery, deletion and the time limit are not fair.

### What they show

*Service.* `EvaluatingHasWork`, `NothingSkipped`, `FollowUpDiscipline`,
`ExactlyOnceSubmission`, `ReportMatchesStatus`, `EvidenceFrozen`,
`PositionAdvances` and the lifecycle hold for sessions opened per request.

*One worker.* `ImplementsService`: despite its old object, one worker commits
only what a fresh row would allow, under every fault, provided the candidate does
not finish by hand. `SomeoneCarriesOn` names, for each status the candidate
cannot leave, the request, message or worker that will.

*Hostile.* Statuses can go wrong (section 5), but submissions stay one to one,
follow-ups stay in budget, the position skips nothing, records only grow, a
report shown as ready exists, and an EVALUATING answer always has its task unless
a fault that destroys tasks happened.

*Realtime.* Used one connection at a time, with any number of reconnections, the
gateway implements the service (`AloneImplementsService`). However it is used,
submissions stay sound and an EVALUATING interview has an evaluable answer that
is enqueued, about to be, or was lost when its connection broke between the
replies and the enqueue (`EvaluationAccountedFor`). The other parties of this
module act on fresh rows; FAILED and failed evaluations are left to the pipeline.

*Account.* A refresh token gets two successors only when two requests that
carried it were under way at once: of two tabs, or of a page and of one it had
given up, since a reload or a broken connection does not stop the exchange at
the server (`UsedOnce`). A token that comes back once its exchange is over is
refused. After a logout the token is dead, and a successor of it is alive only
if an exchange overlapped the logout or its answer reached nobody
(`LogoutIsFinal`): a logout in one tab can lose against an exchange in another,
or against one that a page left behind. A tab is signed out only by its own logout, a broken
exchange, or a token that expired, was logged out, was raced for, or whose
successor was lost (`SignedOutForCause`): the last is the price of rotation
without a grace period. Nothing that waits for an exchange waits forever
(`ExchangeSettles`).

*Preparation.* A row without a file is always the rest of a broken deletion, a
file without a row the rest of a broken upload (`FilesFollowRows`). READY stays
and means exactly one analysis unless two workers had the resume at once
(`ReadyStays`, `ReadyIsAnalysed`); whatever crashes or is deleted, a resume whose
task is queued or running leaves PROCESSING unless the time limit killed the task
(`ProcessingEnds`). An interview over a READY resume is generated from its
analysis although the status may fall back meanwhile (`Grounded`); its questions
fit and do not repeat each other whatever mixture of provider and bank they come
from (`QuestionsSound`); and a generation for which the bank has enough entries
fails only when a question of the provider had been accepted before
(`OutageSurvived`). The bank in the source has six entries for all configurations
together, so longer interviews do depend on the provider.

Every property of a passing run has a mutant of the code's model, kept next to
the definition it changes (`Mut...`), that breaks it under the same configuration.

## 4. The proofs

Seven modules hold theorems; `PROJECT.json` lists them with the properties they
state. Every invariant, action property and refinement of the passing runs is a
theorem; what TLC shows alone is liveness (end of this section). Each inductive
invariant was checked by TLC on the run of its module before it was proved.

**The service** (`InterviewServiceProofs`), for every `TotalQuestions` in 1..50,
every metadata and all sets of keys and texts: `TypeCorrect`, `WorkExists`,
`NothingIsSkipped`, `FollowUpsAreBounded`, `SubmissionsTakeEffectOnce`,
`ReportIsConsistent`, `EvidenceIsFrozen`, `PositionIsMonotone`,
`ServiceImplementsLifecycle`, `PhasesNeverGoBack`.

The invariants alone are not inductive: an answer is accepted in
WAITING_FOR_ANSWER or FOLLOW_UP_REQUIRED, and only then creates the EVALUATING
they speak of. `Core` therefore adds `Prepared` (questions are none or all, and
which statuses imply all), `Tables` (`current_answer_id` is the newest attempt,
only existing answers are evaluated) and `Position` (while an answer is awaited
every answer at the position is evaluated and there are at least as many
follow-ups as answers; in NEXT_QUESTION the last answer called for none).
`IInv` is `Core` with `ReportMatchesStatus`. The two are apart because workers
with old objects break the second and keep the first. There is one lemma per
transaction, stated so that the modules around the service can cite it.

**The pipeline** (`InterviewPipelineProofs`), for any number of workers, keys,
retries and faults of any kind, with or without finishing by hand:
`PipelineTypeCorrect`, `PipelineSubmissionsSound`, `PipelineFollowUpsSound`,
`PipelinePositionSound`, `PipelineEvaluationPossible`, `ReportsAreBacked`,
`AnswersAreNotOrphaned`, `RecordsGrow`. This is the integrity of the data
although statuses go wrong (section 5), and the argument says why:

* Transactions that decide on the row keep `Core` by the service's lemmas. The
  old objects of FAILED, COMPLETED, REPORT_GENERATING and REPORT_READY write
  statuses of which `Core` asks little (`LateEnding`).
* `mark_ready` is harmless because one worker at a time can still mark, and
  while it can no answer exists (`Marking`); `move_to_next_question` because one
  worker at a time can still move, the row still has the position it saw, and the
  last answer there is evaluated (`Moving`), whatever the status says by then.
* `Tasks` says which messages exist and that a message was retried at most once
  per provider error. With it, "as many provider errors as retries" suffices to
  show that a failing evaluation is queued again (`DelayedRaise`).

Two more theorems assume that the candidate does not finish by hand, and nothing
else. `OnlyFinishReopens` proves `CompletedIsNotReopened`, so the finish that
`late_finish` shows is the only cause of that divergence. `CompletedStaysOver`:
although two workers can write over REPORT_READY (`second_report`), what they
write is the report's progress or FAILED, and the candidate is never asked again.
By `Closed`, the one worker that could still move the position is the one that
completed the interview; from then on nobody can move or mark it, nobody starts a
report before COMPLETED, and COMPLETED itself has no report and nobody who writes
one.

The module takes the service's lemmas as `Db == INSTANCE InterviewServiceProofs`
over the same variables; a few lemmas (`SameTransactions`, `SameTypes`) identify
its copies of the operators with those of `Svc`.

**One worker** (`OneWorkerProofs`), under the hypothesis `OneWorker`: at most one
worker, and the candidate does not finish by hand. Any number of any fault may
happen. The hypothesis is the setting of the `one_worker` run; `late_finish` and
`second_report` are what happens without it.

* `WorkerImplementsService` proves `ImplementsService`. By `Fresh`, wherever a
  transaction of the worker decides on its object, the row still agrees with it:
  the candidate's requests act only in statuses in which the worker holds no such
  object. Each step of the pipeline is then a step of the service or a stutter
  (`OnRow`). `Labelled` ties the worker's place to its task, `Reported` gives
  that a COMPLETED interview has evaluations and no report yet.
* `SomeoneAlwaysCarriesOn`: before the first fault each status the candidate
  cannot leave has the request, message or worker that will. The invariant is not
  inductive, because a second generation task would fail the interview: `Calm`
  adds that there is exactly one, owed, queued or taken, which counts copies in
  the bags. The step has one lemma per status.

`OneWorkerKeepsTerminal` needs one worker only; the candidate may finish by hand.
It proves `TerminalStatusesStay` (README.md:81), which `second_report` refutes for
two workers: the worker that ends an interview is done with its task, and in an
ended interview nothing brings it to a decision again (`AtRest`).

**The gateway** (`RealtimeGatewayProofs`), for any number of connections and
sessions: `GatewayTypeCorrect`, `GatewaySubmissionsSound`,
`EvaluationsAreAccountedFor`, and the refinement `AloneGetsTheService`. A
connection can store an answer on an object as old as itself, so `Core` fails
here; what holds is what `submit_answer` reads in its transaction (`Stored`) and
that a connection owes the enqueue of exactly the answer it stored (`Owing`). Of
a candidate who uses one connection at a time, `Alone` shows that an object that
accepts an answer equals the row.

**Refresh tokens** (`AccountSessionProofs`), for any number of tabs, tokens and
requests left adrift (`AdriftAssumption`: tabs and adrift callers differ):
`SessionTypeCorrect`, `TokensAreUsedOnce`, `LogoutsAreFinal`,
`SignOutsHaveCauses`. The properties speak of rows, what keeps them true is where
each token is. The invariant follows a token: nobody's but its answer's until
stored (`Fresh`), gone from cookie and requests once its successor is stored
(`HandedOver`), carried by two requests only if these met (`Meetings`, `Reads`). A request whose
client gives up changes hands with its token and stage (`Moves`, `MoveStep`);
once answered it is over (`Unheard`).

**Preparation** (`InterviewPreparationProofs`), for any number of resumes,
workers, deliveries, questions and bank entries: `PreparationTypeCorrect`,
`FilesFollowTheirRows`, `ReadyResumesAreAnalysed`, `ReadyIsKept`,
`InterviewsAreGrounded`, `QuestionsAreSound`, `OutagesAreSurvived`. Since rows
have no lock, READY rests on who works on a resume: `Alone` (one worker on a
resume no two have had at once, none once it is READY), `Deliveries` (analyses
plus workers on it are at most the deliveries, a count over a finite set) and
`InBankOrder` (until the provider contributes, the questions are the bank's first
ones).

**Scores** (`ScoringProofs`), for all evaluations the schema accepts and any
number of answers: the stored marks satisfy the CHECK constraints
(`MarksInRange`); an answer better in every dimension never scores less
(`BetterAnswersScoreNoLess`); every score of a report lies between the lowest and
the highest mark averaged (`ReportBetweenItsAnswers`); an answer's score differs
from the documented formula by at most 5 points of 100 (`RoundedBeforeScaling`).
They rest on one description of rounding half up (`HalfUpIsNearest`).

**Assumptions.** `TotalQuestionsAssumption` and `MetadataAssumption` of the
service (the request schema's 1..50, the blueprint's `max_follow_ups`), repeated
as `InterviewAssumption` where the service is instantiated;
`EnvironmentAssumption` (which faults may happen); bounds of the models are
natural numbers. `BankAssumption` says that the bank's entries for one
configuration fit it and do not repeat each other, which is so of the six entries
of `ai/question_bank.py`; without it `OutageSurvived` would be false, because only
the first unused entry is tried. `ExceptionsAssumption` tells questions from the
names of exceptions. TLC evaluates all of them on its runs.

**Model-checked only.** `ReturnsToCandidate`, `EvaluationEnds`, `ExchangeSettles`
and `ProcessingEnds` are liveness under fairness, which TLAPS cannot prove
(it does not reason about ENABLED). `AnswersAreNotOrphaned` and
`SomeoneAlwaysCarriesOn` prove their safety halves: who will take the next step
exists. That a report's fold computes the sum that `ReportBetweenItsAnswers`
takes as given would need induction over data, also out of reach. The attempts of
a question's generation are a bounded set of indices in the model, so its theorems
need none.

## 5. Where documents and code disagree

Each is a run whose single property TLC finds violated.

1. `late_finish` - POST /finish between the two commits of an evaluation: the
   worker's old NEXT_QUESTION makes it write WAITING_FOR_ANSWER over COMPLETED.
2. `second_report` - two evaluation workers both read COMPLETED; the slower
   report task writes REPORT_GENERATING over REPORT_READY, without any fault.
3. `finished_early` - an interview finished before any evaluation commits
   REPORT_GENERATING, raises, and stays there.
4. `lost_worker` - a worker lost between the two commits of an evaluation leaves
   NEXT_QUESTION, and the redelivered task returns because it is not EVALUATING.
5. `stale_connection` - an answer over a connection opened before the interview
   was finished is stored and reopens it.
6. `second_answer` - a connection refuses every answer after its first, because
   its Interview object keeps saying EVALUATING.

Further facts that the models contain and no property claims against:
`docs/interview-state-machine.md:27-29` omits the edges to COMPLETED that the
table has; a redelivered generation runs into the unique `order_index` and fails
the interview, even a live one (`workers.py:134-144`); a provider error in the
report is retried in vain, because the retry finds REPORT_GENERATING; a second
realtime session of an interview cannot be ended, because the ENDED row violates
the unique constraint; a task killed by `task_time_limit` is not redelivered.
`docs/question-generation.md:17-18` says validate, then retry, but a question
that fails validation is not retried (`ai/retry.py:15` catches only
AIValidationError); only the bank's first unused entry is tried although a later
one might pass (`ai/question_service.py:93-96`); a `.doc` is accepted by the
upload and never extractable; a FAILED resume has no route that processes it
again; `docs/scoring.md` rounds after scaling, the code before.
Outside the models: `pause` and `resume` raise NameError; a worker process whose
`SessionLocal` was never initialised (`db/base.py:21`) can do no task;
`move_to_next_question`'s FOLLOW_UP_REQUIRED branch has no caller.

## 6. Not modelled, and the plan

| Next | Content | Intended properties |
| --- | --- | --- |
| 1. Proofs | the lifecycle as a corollary for one worker and for a candidate alone on the gateway, through the two refinements | the phases never go back |
| 2. Interview page | idempotency key, lost replies, bounded polling, over the pipeline | a shown answer is the stored one; the key is dropped only when safe |
| 3. Evaluation and follow-up services | attempts and rejections inside an evaluation | a rejected follow-up does not cost an evaluation |

A database that fails while `process_resume_work` records FAILED
(`workers.py:70-74`) is not modelled: `ProcessingEnds` takes that commit to
succeed, and where it does not, the row stays PROCESSING unless a retry of the
task gets through.

Partly modelled: of the evaluation and follow-up services only the budget and the
outcomes success, provider error and other failure; of the frontend the API
client and the AuthProvider, not the interview page.

Not planned: AI vendors, prompts and speech providers (external services and
wording), configuration, migrations, read-only routes, password hashing and
token encoding, and page rendering.
