---------------------------- MODULE MCIOManager ----------------------------
(***************************************************************************)
(* Instances of IOManager for TLC: which thread each task is pinned to.    *)
(***************************************************************************)
EXTENDS IOManager

\* Tasks any thread may take.
PinFree == [t \in Task |-> AnyThread]
=============================================================================
