-------------------------- MODULE MCResearchStage ---------------------------
(* Two commands of one stage over two run ids and two parent contents. *)
EXTENDS ResearchStage, TLC

Symmetry == Permutations(Processes) \cup Permutations(Contents) \cup Permutations(Ids)
=============================================================================
