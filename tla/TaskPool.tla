------------------------------ MODULE TaskPool ------------------------------
(***************************************************************************)
(* What the scheduler promises to the code that hands it tasks, without    *)
(* threads, queue or counters: a submitted task is run by one thread at a  *)
(* time, may be suspended and run again, and ends once; the pool closes    *)
(* only when nothing that was submitted is left, and a closed pool takes   *)
(* no more tasks.  Scheduler.tla is shown to implement this module.        *)
(***************************************************************************)
CONSTANT Task   \* the tasks (callbacks or fibers) a program can submit

VARIABLES
  phase,        \* how far each task has come
  closed        \* TRUE once some runner has decided that all work is over

poolVars == <<phase, closed>>

Phase == {"new", "waiting", "running", "done"}

TypeOK ==
  /\ phase \in [Task -> Phase]
  /\ closed \in BOOLEAN

Init ==
  /\ phase = [t \in Task |-> "new"]
  /\ closed = FALSE

Move(t, from, to) ==
  /\ phase[t] = from
  /\ phase' = [phase EXCEPT ![t] = to]

Submit(t)   == ~closed /\ Move(t, "new", "waiting") /\ UNCHANGED closed
Take(t)     == Move(t, "waiting", "running") /\ UNCHANGED closed
Suspend(t)  == Move(t, "running", "waiting") /\ UNCHANGED closed
Complete(t) == Move(t, "running", "done") /\ UNCHANGED closed

Close ==
  /\ ~closed
  /\ \A t \in Task : phase[t] \in {"new", "done"}
  /\ closed' = TRUE
  /\ UNCHANGED phase

Next ==
  \/ \E t \in Task : Submit(t) \/ Take(t) \/ Suspend(t) \/ Complete(t)
  \/ Close

Spec == Init /\ [][Next]_poolVars
=============================================================================
