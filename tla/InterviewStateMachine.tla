------------------------ MODULE InterviewStateMachine ------------------------
(***************************************************************************)
(* The pure transition rules of app/interviews/state_machine.py: the       *)
(* statuses an interview row can hold and the edges validate_transition    *)
(* lets a caller write.  No state; every other module builds on it.        *)
(***************************************************************************)

Statuses ==
    { "CREATED", "PREPARING", "READY", "IN_PROGRESS", "WAITING_FOR_ANSWER",
      "EVALUATING", "FOLLOW_UP_REQUIRED", "NEXT_QUESTION", "COMPLETED",
      "REPORT_GENERATING", "REPORT_READY", "FAILED" }

\* The dictionary of the source as a relation, one line per key.  REPORT_READY
\* and FAILED map to the empty set and contribute no edge.
ALLOWED_TRANSITIONS ==
         {"CREATED"}            \X {"PREPARING", "FAILED"}
    \cup {"PREPARING"}          \X {"READY", "FAILED"}
    \cup {"READY"}              \X {"IN_PROGRESS", "FAILED"}
    \cup {"IN_PROGRESS"}        \X {"WAITING_FOR_ANSWER", "COMPLETED", "FAILED"}
    \cup {"WAITING_FOR_ANSWER"} \X {"EVALUATING", "COMPLETED", "FAILED"}
    \cup {"EVALUATING"}         \X {"FOLLOW_UP_REQUIRED", "NEXT_QUESTION",
                                    "COMPLETED", "FAILED"}
    \cup {"FOLLOW_UP_REQUIRED"} \X {"WAITING_FOR_ANSWER", "COMPLETED", "FAILED"}
    \cup {"NEXT_QUESTION"}      \X {"WAITING_FOR_ANSWER", "COMPLETED", "FAILED"}
    \cup {"COMPLETED"}          \X {"REPORT_GENERATING", "FAILED"}
    \cup {"REPORT_GENERATING"}  \X {"REPORT_READY", "FAILED"}

\* validate_transition raises unless the edge is in the table.
Allowed(current, target) == <<current, target>> \in ALLOWED_TRANSITIONS
==============================================================================
