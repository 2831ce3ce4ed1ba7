------------------------ MODULE MCInterviewPreparation ------------------------
(* One resume, two workers, three deliveries.  Two questions are wanted of   *)
(* the provider's ai1 and ai2, the bank's b1 and b2 and one that fits        *)
(* nothing; the text of b1 occurs in ai1, so the bank may run dry.           *)
EXTENDS InterviewPreparation

CONSTANTS ai1, ai2, b1, b2, misfit

MCQuestions == {ai1, ai2, b1, b2, misfit}
MCFits == {ai1, ai2, b1, b2}
MCWithin == {<<b1, ai1>>}
MCBank == <<b1, b2>>
===============================================================================
