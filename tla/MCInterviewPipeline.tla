------------------------ MODULE MCInterviewPipeline -------------------------
(***************************************************************************)
(* Two questions: the first may be followed up (a stored max_follow_ups of *)
(* 0 counts as 1), the second may not, so three answers at most.           *)
(***************************************************************************)
EXTENDS InterviewPipeline, TLC

MCMaxFollowUps == 0 :> 0 @@ 1 :> 1
MCFollowUpAllowed == 0 :> TRUE @@ 1 :> FALSE

Symmetry == Permutations(Keys) \cup Permutations(Workers)
=============================================================================
