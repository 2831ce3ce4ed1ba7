-------------------------- MODULE RealtimeGateway ---------------------------
(***************************************************************************)
(* The websocket gateway: realtime session rows, the connections that use  *)
(* them, and the answers that arrive over a connection.                    *)
(*                                                                         *)
(* A connection has one database session for its whole life and loads the  *)
(* interview once (websocket.py:54).  view[c] is that object: submit_answer *)
(* judges the answer by it and refreshes it only after an answer of the    *)
(* same connection was accepted.  Every other party here - workers and     *)
(* REST requests - acts on a freshly loaded row; what workers can do with  *)
(* old objects is the subject of InterviewPipeline.                        *)
(***************************************************************************)
EXTENDS Naturals, FiniteSets, InterviewStateMachine

CONSTANTS
    TotalQuestions, MaxFollowUps, FollowUpAllowed, Keys, Texts,
    Connections,      \* websocket connections (reused after they close)
    MaxSessions       \* bound on realtime session rows (the model's)

ASSUME MaxSessionsAssumption == MaxSessions \in Nat \ {0}

VARIABLES
    row, questions, answers, current, evaluated, followUps, idempotency,
    report, replies,  \* the database and the replies: see InterviewService
    alone,    \* the candidate uses one connection at a time and nothing else
    sessions, \* status of each realtime session row; "none": no such row
    socket,   \* where each connection is
    ticket,   \* the session row each connection was opened with
    view,     \* the Interview object of each connection
    due,      \* the answer each connection has committed and not yet enqueued
    pending,  \* answers whose evaluation task is enqueued
    orphaned  \* history: answers whose connection broke before the enqueue

Svc == INSTANCE InterviewService

\* What InterviewService assumes of an interview and its metadata.
ASSUME InterviewAssumption ==
    /\ TotalQuestions \in 1 .. 50
    /\ MaxFollowUps \in [Svc!Questions -> 0 .. 3]
    /\ FollowUpAllowed \in [Svc!Questions -> BOOLEAN]

database == <<row, questions, answers, current, evaluated, followUps,
              idempotency, report, replies>>
connection == <<socket, ticket, view, due>>
vars == <<database, alone, sessions, connection, pending, orphaned>>

SessionIds == 1 .. MaxSessions
Answered == Svc!Questions \X Nat
NoAnswer == <<0, 0>>
NoView == [status |-> "CREATED", index |-> 0]

TypeOK ==
    /\ Svc!TypeOK
    /\ alone \in BOOLEAN
    /\ sessions \in [SessionIds -> {"none", "ACTIVE", "ENDED"}]
    /\ socket \in [Connections -> {"closed", "open", "replying", "enqueuing"}]
    /\ ticket \in [Connections -> SessionIds]
    /\ view \in [Connections -> Svc!Views]
    /\ due \in [Connections -> Answered]
    /\ pending \subseteq Answered
    /\ orphaned \subseteq Answered

Init ==
    /\ Svc!Init
    /\ alone \in BOOLEAN
    /\ sessions = [s \in SessionIds |-> "none"]
    /\ socket = [c \in Connections |-> "closed"]
    /\ ticket = [c \in Connections |-> 1]
    /\ view = [c \in Connections |-> NoView]
    /\ due = [c \in Connections |-> NoAnswer]
    /\ pending = {}
    /\ orphaned = {}

Goto(c, place) == socket' = [socket EXCEPT ![c] = place]

\* db.close(): the objects of the connection are gone.
Close(c) ==
    /\ Goto(c, "closed")
    /\ ticket' = [ticket EXCEPT ![c] = 1]
    /\ view' = [view EXCEPT ![c] = NoView]
    /\ due' = [due EXCEPT ![c] = NoAnswer]

-----------------------------------------------------------------------------
(* Sessions and connections.                                               *)

\* POST realtime/session: the ACTIVE row if there is one (nothing changes),
\* otherwise a new one.  Two requests at once: the unique
\* (interview, user, status) refuses the second row.
CreateSession ==
    /\ row.status \in {"IN_PROGRESS", "WAITING_FOR_ANSWER", "FOLLOW_UP_REQUIRED",
                       "EVALUATING"}
    /\ \A s \in SessionIds : sessions[s] # "ACTIVE"
    /\ \E s \in SessionIds :
         /\ sessions[s] = "none"
         /\ sessions' = [sessions EXCEPT ![s] = "ACTIVE"]
    /\ UNCHANGED <<database, alone, connection, pending, orphaned>>

\* Mutant of Connect: an active session is taken to be waiting for an answer.
MutConnect(c, s) ==
    /\ socket[c] = "closed"
    /\ alone => \A d \in Connections : socket[d] = "closed"
    /\ sessions[s] = "ACTIVE"
    /\ Goto(c, "open")
    /\ ticket' = [ticket EXCEPT ![c] = s]
    /\ view' = [view EXCEPT ![c] = [row EXCEPT !.status = "WAITING_FOR_ANSWER"]]
    /\ UNCHANGED <<database, alone, sessions, due, pending, orphaned>>

\* The interview is loaded here, in whatever status it is.
Connect(c, s) ==
    /\ socket[c] = "closed"
    /\ alone => \A d \in Connections : socket[d] = "closed"
    /\ sessions[s] = "ACTIVE"
    /\ Goto(c, "open")
    /\ ticket' = [ticket EXCEPT ![c] = s]
    /\ view' = [view EXCEPT ![c] = row]
    /\ UNCHANGED <<database, alone, sessions, due, pending, orphaned>>

\* The client is gone, the message limit is reached or the server stops.  The
\* session stays ACTIVE; an answer not yet enqueued never will be.
Disconnect(c) ==
    /\ socket[c] # "closed"
    /\ Close(c)
    /\ orphaned' = orphaned \cup ({due[c]} \ {NoAnswer})
    /\ UNCHANGED <<database, alone, sessions, pending>>

\* session_end.  Another ENDED row of the interview violates the unique
\* constraint: the commit raises, and the connection breaks down.
EndSession(c) ==
    /\ socket[c] = "open"
    /\ \/ /\ \E s \in SessionIds \ {ticket[c]} : sessions[s] = "ENDED"
          /\ UNCHANGED sessions
       \/ /\ \A s \in SessionIds \ {ticket[c]} : sessions[s] # "ENDED"
          /\ sessions' = [sessions EXCEPT ![ticket[c]] = "ENDED"]
    /\ Close(c)
    /\ UNCHANGED <<database, alone, pending, orphaned>>

-----------------------------------------------------------------------------
(* Answers over a connection.                                              *)

\* answer_complete, or audio_end with the question at the view's position and
\* a new key: up to the commit of submit_answer.
Submit(c, q, k, t) ==
    /\ socket[c] = "open"
    /\ Svc!SubmitAnswer(view[c], q, k, t, FALSE)
    /\ view' = [view EXCEPT ![c].status = "EVALUATING"]
    /\ due' = [due EXCEPT ![c] = <<q, answers[q] + 1>>]
    /\ Goto(c, "replying")
    /\ UNCHANGED <<alone, sessions, ticket, pending, orphaned>>

\* submit_answer refreshes its object and returns; transcript_final and
\* evaluation_started are sent before the task is enqueued.
Reply(c) ==
    /\ socket[c] = "replying"
    /\ replies' = replies \cup {s \in idempotency : <<s.question, s.attempt>> = due[c]}
    /\ view' = [view EXCEPT ![c] = row]
    /\ Goto(c, "enqueuing")
    /\ UNCHANGED <<row, questions, answers, current, evaluated, followUps,
                   idempotency, report, alone, sessions, ticket, due, pending,
                   orphaned>>

\* Mutant of Enqueue: is_duplicate is tested the wrong way round.
MutEnqueue(c) ==
    /\ socket[c] = "enqueuing"
    /\ due' = [due EXCEPT ![c] = NoAnswer]
    /\ Goto(c, "open")
    /\ UNCHANGED <<database, alone, sessions, ticket, view, pending, orphaned>>

Enqueue(c) ==
    /\ socket[c] = "enqueuing"
    /\ pending' = pending \cup {due[c]}
    /\ due' = [due EXCEPT ![c] = NoAnswer]
    /\ Goto(c, "open")
    /\ UNCHANGED <<database, alone, sessions, ticket, view, orphaned>>

Replay(c, q, k, t) ==
    /\ socket[c] = "open"
    /\ Svc!ReplayAnswer(q, k, t)
    /\ UNCHANGED <<alone, sessions, connection, pending, orphaned>>

\* A refused answer raises a domain error, which nothing in the handler
\* catches: the connection ends.
Refuse(c, q, k, t) ==
    /\ socket[c] = "open"
    /\ ~Svc!Accepts(view[c], q, k)
    /\ \A s \in Svc!KeyRows(k) : s.question # q \/ s.text # t
    /\ Close(c)
    /\ UNCHANGED <<database, alone, sessions, pending, orphaned>>

-----------------------------------------------------------------------------
(* Everybody else, on a fresh row.                                         *)

Prepare ==
    /\ \/ Svc!BeginPreparation(row)
       \/ Svc!PersistQuestions(row)
       \/ Svc!MarkReady(row)
       \/ Svc!StartInterview(row)
    /\ UNCHANGED <<alone, sessions, connection, pending, orphaned>>

RestSubmit(q, k, t) ==
    /\ ~alone
    /\ Svc!SubmitAnswer(row, q, k, t, TRUE)
    /\ pending' = pending \cup {<<q, answers[q] + 1>>}
    /\ UNCHANGED <<alone, sessions, connection, orphaned>>

RestFinish ==
    /\ ~alone
    /\ Svc!FinishInterview(row)
    /\ UNCHANGED <<alone, sessions, connection, pending, orphaned>>

\* An evaluation task: the interview moved on, or the answer is evaluated.
\* (Failing and redelivered tasks: InterviewPipeline.)
Evaluate(a) ==
    /\ pending' = pending \ {a}
    /\ \/ /\ ~Svc!Evaluable(row, a[1], a[2])
          /\ UNCHANGED database
       \/ \E needsFollowUp \in BOOLEAN :
            Svc!SaveEvaluation(row, a[1], a[2], needsFollowUp)
    /\ UNCHANGED <<alone, sessions, connection, orphaned>>

Continue ==
    /\ \/ row.status = "NEXT_QUESTION" /\ Svc!MoveToNextQuestion(row)
       \/ Svc!BeginReport(row)
       \/ Svc!CompleteReport(row)
    /\ UNCHANGED <<alone, sessions, connection, pending, orphaned>>

Next ==
    \/ CreateSession
    \/ \E c \in Connections, s \in SessionIds : Connect(c, s)
    \/ \E c \in Connections :
         Disconnect(c) \/ EndSession(c) \/ Reply(c) \/ Enqueue(c)
    \/ \E c \in Connections, q \in Svc!Questions, k \in Keys, t \in Texts :
         Submit(c, q, k, t) \/ Replay(c, q, k, t) \/ Refuse(c, q, k, t)
    \/ Prepare
    \/ \E q \in Svc!Questions, k \in Keys, t \in Texts : RestSubmit(q, k, t)
    \/ RestFinish
    \/ \E a \in pending : Evaluate(a)
    \/ Continue

Spec == Init /\ [][Next]_vars

-----------------------------------------------------------------------------
(* Properties.                                                             *)

\* A candidate who uses one connection at a time, reconnecting at will and
\* leaving REST alone, gets the interview service: no step on a connection's
\* old object does anything that a freshly loaded row would not allow.
AloneImplementsService == [][alone => Svc!Next]_database

\* An interview waiting for an evaluation always has one to wait for.  Some
\* answer that evaluate_answer_work would still evaluate is enqueued, about to
\* be enqueued by its connection, or was lost with a connection that broke
\* between its replies and the enqueue (websocket.py:157-159).  This holds
\* whatever objects the connections remember.
EvaluationAccountedFor ==
    row.status = "EVALUATING" =>
        \E a \in pending \cup {due[c] : c \in Connections} \cup orphaned :
            /\ a # NoAnswer
            /\ Svc!Evaluable(row, a[1], a[2])

\* Keys, answers and replies correspond one to one over any mix of
\* connections with old objects, reconnections and REST: submit_answer looks
\* the key up in the database and never in the object it remembers.
SubmissionsSound == Svc!ExactlyOnceSubmission

\* docs/interview-state-machine.md:64 "State is re-read inside the
\* transaction."  An answer is only stored while the interview, as committed,
\* accepts one.
AnswersOnlyWhenWaiting ==
    [][answers' # answers =>
          row.status \in {"WAITING_FOR_ANSWER", "FOLLOW_UP_REQUIRED"}]_vars

\* docs/frontend-integration-contract.md:51 "It uses the same answer service
\* and idempotency rules as REST submission".  With one connection and nobody
\* else submitting, what REST would accept is accepted by the open connection.
AcceptsWhatRestAccepts ==
    \A c \in Connections, q \in Svc!Questions, k \in Keys :
        alone /\ socket[c] = "open" /\ Svc!Accepts(row, q, k) =>
            Svc!Accepts(view[c], q, k)
=============================================================================
