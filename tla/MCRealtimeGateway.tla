------------------------- MODULE MCRealtimeGateway --------------------------
(***************************************************************************)
(* Two questions, the first with one follow-up: an answer, its follow-up   *)
(* and the next question can be answered over different connections.       *)
(***************************************************************************)
EXTENDS RealtimeGateway, TLC

MCMaxFollowUps == 0 :> 1 @@ 1 :> 1
MCFollowUpAllowed == 0 :> TRUE @@ 1 :> FALSE

Symmetry == Permutations(Keys) \cup Permutations(Connections)
=============================================================================
