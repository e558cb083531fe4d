--------------------------- MODULE MCVisibleQueue ---------------------------
(* Model checking of VisibleQueue on one symbol with both sides.           *)
EXTENDS VisibleQueue, TLC

CONSTANTS o1, r1, r2, m1

MCSlots == {<<1, 1>>, <<1, -1>>}
MCSymmetry == Permutations({r1, r2})
=============================================================================
