-------------------------------- MODULE Scoring --------------------------------
(***************************************************************************)
(* evaluations/scoring.py: the marks of an answer and of a report, as pure *)
(* operators.  Dimensions and marks of an answer are integers in 0..10,    *)
(* scores of a report in 0..100; the database refuses others.              *)
(*                                                                         *)
(* The code divides in floating point, adds 0.5 and takes the floor.  The  *)
(* sums are small integers, so a quotient that is exactly half way is      *)
(* represented exactly and any other is too far from it to be misrounded:  *)
(* HalfUp is what the code computes.                                       *)
(***************************************************************************)
EXTENDS Integers, Sequences, Functions

Dimensions == 0..10

Evaluations ==
    [correctness : Dimensions, relevance : Dimensions, completeness : Dimensions,
     technical_depth : Dimensions,
     clarity : Dimensions, structure : Dimensions, conciseness : Dimensions]

\* round_half_up(a / b)
HalfUp(a, b) == (2 * a + b) \div (2 * b)

TechnicalSum(e) == e.correctness + e.relevance + e.completeness + e.technical_depth
TechnicalOverall(e) == HalfUp(TechnicalSum(e), 4)

CommunicationSum(e) == e.clarity + e.structure + e.conciseness
CommunicationOverall(e) == HalfUp(CommunicationSum(e), 3)

To100(mark) ==
    IF mark * 10 > 100 THEN 100 ELSE IF mark * 10 < 0 THEN 0 ELSE mark * 10

Overall(technical, communication) == HalfUp(technical + communication, 2)

\* The sum of a sequence of numbers.
SumOf(marks) == FoldFunction(+, 0, marks)

\* The scores from the sums of the answers' marks, for n > 0 evaluated answers.
Scores(technicalSum, communicationSum, n) ==
    LET technical == HalfUp(technicalSum, n)
        communication == HalfUp(communicationSum, n)
    IN  [technical |-> technical, communication |-> communication,
         overall |-> Overall(technical, communication)]

\* report_scores, for a non-empty sequence of evaluations.
ReportScores(evaluations) ==
    Scores(SumOf([i \in DOMAIN evaluations |-> To100(TechnicalOverall(evaluations[i]))]),
           SumOf([i \in DOMAIN evaluations |-> To100(CommunicationOverall(evaluations[i]))]),
           Len(evaluations))
===============================================================================
