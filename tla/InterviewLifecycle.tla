------------------------- MODULE InterviewLifecycle -------------------------
(***************************************************************************)
(* What the service promises about the committed status of one interview:  *)
(* it starts CREATED and each transaction moves it along one edge of the   *)
(* table, or along two edges when the service flushes an intermediate      *)
(* status inside the transaction (start passes IN_PROGRESS, answering a    *)
(* follow-up passes WAITING_FOR_ANSWER).  The detailed modules are shown   *)
(* to implement this one.                                                  *)
(***************************************************************************)
EXTENDS Naturals, InterviewStateMachine

VARIABLE status

\* One transition_interview call per commit.
Move(t) == Allowed(status, t) /\ status' = t

\* Two transition_interview calls in one commit; nobody sees the middle.
MoveThrough(from, via, t) ==
    /\ status = from
    /\ Allowed(from, via)
    /\ Allowed(via, t)
    /\ status' = t

Init == status = "CREATED"

Next ==
    \/ \E t \in Statuses : Move(t)
    \/ MoveThrough("READY", "IN_PROGRESS", "WAITING_FOR_ANSWER")
    \/ MoveThrough("FOLLOW_UP_REQUIRED", "WAITING_FOR_ANSWER", "EVALUATING")

Spec == Init /\ [][Next]_status

-----------------------------------------------------------------------------
\* The phases a candidate goes through, in order; FAILED is behind them all.
Phase(s) ==
    CASE s \in {"CREATED", "PREPARING", "READY"}            -> 0
      [] s \in {"IN_PROGRESS", "WAITING_FOR_ANSWER", "EVALUATING",
                "FOLLOW_UP_REQUIRED", "NEXT_QUESTION"}      -> 1
      [] s = "COMPLETED"                                    -> 2
      [] s = "REPORT_GENERATING"                            -> 3
      [] OTHER                                              -> 4

\* A phase that was left is never entered again, and nothing follows
\* REPORT_READY or FAILED (README.md:81 calls both terminal).
NeverGoesBack ==
    [][ /\ Phase(status') >= Phase(status)
        /\ status \in {"REPORT_READY", "FAILED"} => status' = status ]_status
=============================================================================
