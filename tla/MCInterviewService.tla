------------------------- MODULE MCInterviewService -------------------------
(***************************************************************************)
(* Three questions whose metadata covers the cases of the follow-up budget *)
(* (2; 0, which counts as 1; forbidden): 6 answers at most.                *)
(***************************************************************************)
EXTENDS InterviewService, TLC

MCMaxFollowUps == 0 :> 2 @@ 1 :> 0 @@ 2 :> 3
MCFollowUpAllowed == 0 :> TRUE @@ 1 :> TRUE @@ 2 :> FALSE

Symmetry == Permutations(Keys) \cup Permutations(Texts)
=============================================================================
