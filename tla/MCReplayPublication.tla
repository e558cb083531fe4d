------------------------- MODULE MCReplayPublication -------------------------
(* Three replay commands over two replay ids. *)
EXTENDS ReplayPublicationProofs, TLC

Symmetry == Permutations(Processes) \cup Permutations(Ids)
=============================================================================
