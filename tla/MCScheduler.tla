---------------------------- MODULE MCScheduler ----------------------------
(***************************************************************************)
(* Instances of Scheduler for TLC: which thread each task is pinned to.    *)
(***************************************************************************)
EXTENDS Scheduler, TLC

CONSTANTS w1, w2, t1, t2, t3

\* Two tasks any runner may take.
PinFree == [t \in Task |-> AnyThread]

\* The first task for any runner, the second only for a worker thread.
PinWorker == (t1 :> AnyThread) @@ (t2 :> w1)

\* One task for the owner's thread, one for a worker, one for any runner.
PinMixed == (t1 :> Owner) @@ (t2 :> w1) @@ (t3 :> AnyThread)
=============================================================================
