------------------------------ MODULE MCReplay ------------------------------
(* One requested instrument among two locates and two symbols.             *)
EXTENDS Replay, TLC

CONSTANTS l1, l2, r1, r2

Symmetry == Permutations({l1, l2}) \cup Permutations({r1, r2})
=============================================================================
