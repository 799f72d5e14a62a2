--------------------------- MODULE MCTimerManager ---------------------------
(***************************************************************************)
(* Instances of TimerManager for TLC: threads are interchangeable.         *)
(***************************************************************************)
EXTENDS TimerManager, TLC

Symmetry == Permutations(Runner)
=============================================================================
