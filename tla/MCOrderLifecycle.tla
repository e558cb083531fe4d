-------------------------- MODULE MCOrderLifecycle --------------------------
(* Model checking of OrderLifecycle: two slots and two identifiers, so a  *)
(* slot is reused while an earlier order's actions still wait in the heap. *)
EXTENDS OrderLifecycle, TLC

CONSTANTS o1, o2, bid, ask

MCSymmetry == Permutations({bid, ask}) \cup Permutations({o1, o2})

=============================================================================
