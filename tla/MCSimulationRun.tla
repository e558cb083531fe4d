--------------------------- MODULE MCSimulationRun ---------------------------
(* Model checking of SimulationRun on one symbol with both sides quoted.   *)
EXTENDS SimulationRun, TLC

MCSlots == Symbols \X {-1, 1}
=============================================================================
