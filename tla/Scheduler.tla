----------------------------- MODULE Scheduler -----------------------------
(***************************************************************************)
(* The scheduler of src/scheduler.cc: runner threads take tasks from one   *)
(* queue and switch to the fiber of each; tasks add tasks, put themselves  *)
(* back and yield; stop() lets everything drain and joins the threads.     *)
(* The fiber is modelled by its m_state and by whether m_ctx holds the     *)
(* context of its last yield; a Thread by the m_pid that join() reads.     *)
(*                                                                         *)
(* A step is a critical section of _mutex, one atomic counter operation,   *)
(* or the code between two of them.  std::cout lines are left out, and     *)
(* tickle() with them: Scheduler::tickle() only prints.                    *)
(***************************************************************************)
EXTENDS Integers, Sequences, FiniteSets

CONSTANTS
  Worker,      \* the threads start() creates
  Owner,       \* the thread that constructs the scheduler
  Foreign,     \* a thread that never touched the scheduler: t_scheduler is null
  UseCaller,   \* _use_caller: the owner runs tasks too, from inside stop()
  Stopper,     \* the thread that calls stop()
  Task,        \* the tasks the program submits
  AnyThread,   \* the thread id -1: any runner may take the task
  None,        \* no task
  Pin,         \* the thread argument of add_task for each task's submission
  RequeueOwn   \* a task that adds itself again names its own thread, not -1

Runner == Worker \cup (IF UseCaller THEN {Owner} ELSE {})

ASSUME RunnerAssumption ==
  /\ IsFiniteSet(Worker)
  /\ Owner \notin Worker /\ Foreign \notin Worker /\ Owner # Foreign
  /\ AnyThread \notin Runner
  /\ UseCaller \in BOOLEAN /\ RequeueOwn \in BOOLEAN
  /\ Stopper \in {Owner, Foreign}
ASSUME TaskAssumption ==
  /\ None \notin Task
  /\ Pin \in [Task -> Runner \cup {AnyThread}]

VARIABLES
  queue,       \* _queue: a sequence of ScheduleTask
  active,      \* _activeThreadCount
  idle,        \* _idleThreadCount
  stopping,    \* _stopping
  state,       \* m_state of the fiber that runs each task
  saved,       \* m_ctx of that fiber is its entry or the point of its last yield
  pc,          \* where each runner is in run()
  task,        \* the local "task" of run()
  idleDone,    \* the runner's idle fiber is TERM
  mpid,        \* m_pid of each worker's Thread: 0, not yet written, or a tid
  client,      \* where the program is in start() ... stop()
  joined,      \* the threads the loop in stop() is done with
  added,       \* the tasks submitted so far
  failure      \* "none", or what ended the process

runVars    == <<pc, task, idleDone>>
fiberVars  == <<state, saved>>
threadVars == <<mpid, joined>>
vars == <<queue, active, idle, stopping, runVars, fiberVars, threadVars,
          client, added, failure>>

Entry   == [task : Task, thread : Runner \cup {AnyThread}]
BusyPC  == {"resume", "task", "requeued", "switch", "back"}
IdlePC  == {"idle", "idleback"}
RunnerPC == {"off", "born", "fetch", "none", "exit"} \cup BusyPC \cup IdlePC
Busy    == {r \in Runner : pc[r] \in BusyPC}
Idling  == {r \in Runner : pc[r] \in IdlePC}

TypeOK ==
  /\ queue \in Seq(Entry)
  /\ active \in Nat /\ idle \in Nat
  /\ stopping \in BOOLEAN
  /\ state \in [Task -> {"READY", "RUNNING", "TERM"}]
  /\ saved \in [Task -> BOOLEAN]
  /\ pc \in [Runner -> RunnerPC]
  /\ task \in [Runner -> Task \cup {None}]
  /\ idleDone \in [Runner -> BOOLEAN]
  /\ mpid \in [Worker -> {"zero", "junk", "tid"}]
  /\ client \in {"open", "started", "root", "join", "returned"}
  /\ joined \in SUBSET Worker
  /\ added \in SUBSET Task
  /\ failure \in {"none", "assert", "stale", "crash"}

Init ==
  /\ queue = <<>>
  /\ active = 0 /\ idle = 0
  /\ stopping = FALSE
  /\ state = [t \in Task |-> "READY"]
  /\ saved = [t \in Task |-> TRUE]
  /\ pc = [r \in Runner |-> "off"]
  /\ task = [r \in Runner |-> None]
  /\ idleDone = [r \in Runner |-> FALSE]
  /\ mpid = [w \in Worker |-> "zero"]
  /\ client = "open"
  /\ joined = {}
  /\ added = {}
  /\ failure = "none"

---------------------------------------------------------------------------
At(r, where) == failure = "none" /\ pc[r] = where
Goto(r, where) == pc' = [pc EXCEPT ![r] = where]

\* qc_assert(cond): the process aborts when cond is false.
QcAssert(cond) == failure' = IF cond THEN failure ELSE "assert"

\* Mutant of Enqueue: the entry goes to the front (push_front).
EnqueueFront(t, thread) ==
  queue' = <<[task |-> t, thread |-> thread]>> \o queue

\* add_task_nolock: the entry goes to the back of the queue.
Enqueue(t, thread) ==
  queue' = Append(queue, [task |-> t, thread |-> thread])

Submit(t) ==
  /\ t \notin added
  /\ added' = added \cup {t}
  /\ Enqueue(t, Pin[t])

\* Mutant of Erase: the head goes, whichever entry was taken.
EraseHead(q, i) == Tail(q)

\* The list without its i-th entry: _queue.erase(it).
Erase(q, i) == [j \in 1 .. Len(q) - 1 |-> IF j < i THEN q[j] ELSE q[j + 1]]

\* Mutant of SelfPin: the task names no thread.
SelfPinAny(r) == AnyThread

\* The thread a task names when it adds itself again.
SelfPin(r) == IF RequeueOwn THEN r ELSE AnyThread

\* Mutant of Runnable: the test for -1 is missing.
RunnableOwn(entry, r) == entry.thread = r

\* The entry run() does not skip on thread r.
Runnable(entry, r) == entry.thread \in {AnyThread, r}

\* Mutant of CanStop: runners that hold a task are not waited for.
CanStopBusy == stopping /\ queue = <<>>

\* Scheduler::stopping(), evaluated under _mutex.
CanStop == stopping /\ queue = <<>> /\ active = 0

\* Mutant of Occupy: the runner is not counted.
OccupyUncounted(r) == UNCHANGED active /\ Goto(r, "resume")

\* ++_activeThreadCount under the lock, then on to the fiber.
Occupy(r) == active' = active + 1 /\ Goto(r, "resume")

---------------------------------------------------------------------------
\* The program: the owner adds tasks, starts the threads; one thread stops.

OwnerAdd(t) ==
  /\ failure = "none" /\ client \in {"open", "started"}
  /\ Submit(t)
  /\ UNCHANGED <<active, idle, stopping, runVars, fiberVars, threadVars,
                 client, failure>>

\* start(): every Thread is constructed; nothing initialises its m_pid before
\* the new thread writes it.
Start ==
  /\ failure = "none" /\ client = "open"
  /\ client' = "started"
  /\ pc' = [r \in Runner |-> IF r \in Worker THEN "born" ELSE pc[r]]
  /\ mpid' \in [Worker -> {"zero", "junk"}]
  /\ UNCHANGED <<queue, active, idle, stopping, task, idleDone, fiberVars,
                 joined, added, failure>>

\* t_scheduler == this on the thread that calls stop(): the constructor set
\* it on the owner whether or not use_caller was given.
StopperHasScheduler == Stopper = Owner

\* stop() up to and including the switch to the root fiber.
StopCall ==
  /\ failure = "none" /\ client = "started"
  /\ ~CanStop
  /\ stopping' = TRUE
  /\ QcAssert(UseCaller <=> StopperHasScheduler)
  /\ client' = IF UseCaller THEN "root" ELSE "join"
  /\ pc' = IF UseCaller THEN [pc EXCEPT ![Owner] = "fetch"] ELSE pc
  /\ UNCHANGED <<queue, active, idle, task, idleDone, fiberVars, threadVars,
                 added>>

\* The root fiber has left run() and yielded back into stop().
RootDone ==
  /\ client = "root" /\ At(Owner, "exit")
  /\ client' = "join"
  /\ UNCHANGED <<queue, active, idle, stopping, runVars, fiberVars,
                 threadVars, added, failure>>

\* Thread::join: nothing when m_pid is 0; otherwise pthread_join is handed
\* m_pid, a kernel thread number or garbage, as if it were the pthread_t.
Join(w) ==
  /\ failure = "none" /\ client = "join" /\ w \notin joined
  /\ joined' = joined \cup {w}
  /\ failure' = IF mpid[w] = "zero" THEN failure ELSE "crash"
  /\ UNCHANGED <<queue, active, idle, stopping, runVars, fiberVars, mpid,
                 client, added>>

\* stop() returns and destroys its Threads; ~Thread detaches a nonzero m_pid.
Return ==
  /\ failure = "none" /\ client = "join" /\ joined = Worker
  /\ client' = "returned"
  /\ failure' = IF \A w \in Worker : mpid[w] = "zero" THEN failure ELSE "crash"
  /\ UNCHANGED <<queue, active, idle, stopping, runVars, fiberVars,
                 threadVars, added>>

---------------------------------------------------------------------------
\* A runner: Thread::ThreadFunc and the loop of run().

\* The new thread writes m_pid, into freed memory when its Thread is gone.
ThreadFunc(w) ==
  /\ At(w, "born")
  /\ mpid' = [mpid EXCEPT ![w] = "tid"]
  /\ Goto(w, "fetch")
  /\ failure' \in {failure} \cup (IF client = "returned" THEN {"crash"} ELSE {})
  /\ UNCHANGED <<queue, active, idle, stopping, task, idleDone, fiberVars,
                 client, joined, added>>

\* The locked scan finds a task for this thread.
Fetch(r) ==
  /\ At(r, "fetch")
  /\ \E i \in 1 .. Len(queue) :
       /\ Runnable(queue[i], r)
       /\ \A j \in 1 .. i - 1 : ~Runnable(queue[j], r)
       /\ QcAssert(state[queue[i].task] = "READY")
       /\ task' = [task EXCEPT ![r] = queue[i].task]
       /\ queue' = Erase(queue, i)
  /\ Occupy(r)
  /\ UNCHANGED <<idle, stopping, idleDone, fiberVars, threadVars, client,
                 added>>

\* The locked scan finds nothing.
FetchNothing(r) ==
  /\ At(r, "fetch")
  /\ \A i \in 1 .. Len(queue) : ~Runnable(queue[i], r)
  /\ Goto(r, "none")
  /\ UNCHANGED <<queue, active, idle, stopping, task, idleDone, fiberVars,
                 threadVars, client, added, failure>>

GoIdle(r) ==
  /\ At(r, "none") /\ ~idleDone[r]
  /\ idle' = idle + 1
  /\ Goto(r, "idle")
  /\ UNCHANGED <<queue, active, stopping, task, idleDone, fiberVars,
                 threadVars, client, added, failure>>

\* Scheduler::idle: the idle fiber ends once stopping() is true, else yields.
IdleCheck(r) ==
  /\ At(r, "idle")
  /\ idleDone' = [idleDone EXCEPT ![r] = CanStop]
  /\ Goto(r, "idleback")
  /\ UNCHANGED <<queue, active, idle, stopping, task, fiberVars, threadVars,
                 client, added, failure>>

IdleBack(r) ==
  /\ At(r, "idleback")
  /\ idle' = idle - 1
  /\ Goto(r, "fetch")
  /\ UNCHANGED <<queue, active, stopping, task, idleDone, fiberVars,
                 threadVars, client, added, failure>>

Exit(r) ==
  /\ At(r, "none") /\ idleDone[r]
  /\ Goto(r, "exit")
  /\ UNCHANGED <<queue, active, idle, stopping, task, idleDone, fiberVars,
                 threadVars, client, added, failure>>

\* Fiber::resume.  Switching to a context that its last runner has not saved
\* yet runs the fiber from an old point on a stack in use.
Resume(r) ==
  /\ At(r, "resume")
  /\ LET t == task[r] IN
       /\ failure' = CASE state[t] # "READY" -> "assert"
                       [] state[t] = "READY" /\ ~saved[t] -> "stale"
                       [] OTHER -> failure
       /\ state' = [state EXCEPT ![t] = "RUNNING"]
       /\ saved' = [saved EXCEPT ![t] = FALSE]
  /\ Goto(r, "task")
  /\ UNCHANGED <<queue, active, idle, stopping, task, idleDone, threadVars,
                 client, added>>

\* The switch back into run() has happened: the runner leaves the task.
Back(r) ==
  /\ At(r, "back")
  /\ active' = active - 1
  /\ task' = [task EXCEPT ![r] = None]
  /\ Goto(r, "fetch")
  /\ UNCHANGED <<queue, idle, stopping, idleDone, fiberVars, threadVars,
                 client, added, failure>>

---------------------------------------------------------------------------
\* The code of a task, on runner r.

\* The task adds another task.
Spawn(r, t) ==
  /\ At(r, "task")
  /\ Submit(t)
  /\ UNCHANGED <<active, idle, stopping, runVars, fiberVars, threadVars,
                 client, failure>>

\* add_task(Fiber::GetThis(), ...): the task puts itself back, then yields.
Requeue(r) ==
  /\ At(r, "task")
  /\ Enqueue(task[r], SelfPin(r))
  /\ Goto(r, "requeued")
  /\ UNCHANGED <<active, idle, stopping, task, idleDone, fiberVars,
                 threadVars, client, added, failure>>

\* Mutant of BeginYield: the fiber stays RUNNING.
BeginYieldRunning(r) ==
  /\ At(r, "requeued")
  /\ Goto(r, "switch")
  /\ UNCHANGED <<queue, active, idle, stopping, task, idleDone, fiberVars,
                 threadVars, client, added, failure>>

\* Fiber::yield up to m_state = READY: the context is not saved yet.
BeginYield(r) ==
  /\ At(r, "requeued")
  /\ state' = [state EXCEPT ![task[r]] = "READY"]
  /\ Goto(r, "switch")
  /\ UNCHANGED <<queue, active, idle, stopping, task, idleDone, saved,
                 threadVars, client, added, failure>>

\* swapcontext in Fiber::yield: the context is saved and run() goes on.
Switch(r) ==
  /\ At(r, "switch")
  /\ saved' = [saved EXCEPT ![task[r]] = TRUE]
  /\ Goto(r, "back")
  /\ UNCHANGED <<queue, active, idle, stopping, task, idleDone, state,
                 threadVars, client, added, failure>>

\* The callback returns: Fiber::MainFunc sets TERM and yields.
Finish(r) ==
  /\ At(r, "task")
  /\ state' = [state EXCEPT ![task[r]] = "TERM"]
  /\ Goto(r, "back")
  /\ UNCHANGED <<queue, active, idle, stopping, task, idleDone, saved,
                 threadVars, client, added, failure>>

---------------------------------------------------------------------------
RunStep(r) ==
  \/ Fetch(r) \/ FetchNothing(r) \/ GoIdle(r) \/ IdleCheck(r) \/ IdleBack(r)
  \/ Exit(r) \/ Resume(r) \/ Back(r)
TaskStep(r) ==
  \/ \E t \in Task : Spawn(r, t)
  \/ Requeue(r) \/ BeginYield(r) \/ Switch(r) \/ Finish(r)
StopStep ==
  StopCall \/ RootDone \/ (\E w \in Worker : Join(w)) \/ Return

\* The process is gone, or every thread has left run().
Ended ==
  \/ failure # "none"
  \/ client = "returned" /\ \A r \in Runner : pc[r] = "exit"
Terminated == Ended /\ UNCHANGED vars

Next ==
  \/ \E t \in Task : OwnerAdd(t)
  \/ Start
  \/ StopStep
  \/ \E w \in Worker : ThreadFunc(w)
  \/ \E r \in Runner : RunStep(r) \/ TaskStep(r)
  \/ Terminated

Spec == Init /\ [][Next]_vars

\* The operating system runs every thread, and the stopping thread goes on
\* once it has called stop().
Fairness ==
  /\ \A w \in Worker : WF_vars(ThreadFunc(w))
  /\ \A r \in Runner : WF_vars(RunStep(r) \/ TaskStep(r))
  /\ WF_vars(RootDone \/ (\E w \in Worker : Join(w)) \/ Return)

FairSpec == Spec /\ Fairness

\* What the program owes: a task that keeps getting the processor ends.
TasksEnd == \A t \in Task : SF_vars(\E r \in Runner : task[r] = t /\ Finish(r))

---------------------------------------------------------------------------
\* Properties.

Queued(t)  == \E i \in 1 .. Len(queue) : queue[i].task = t
Held(t)    == \E r \in Busy : task[r] = t
Drained    == stopping /\ queue = <<>> /\ Busy = {}

\* The counters stopping() and tickle() read say how many runners are between
\* taking a task and leaving it, and how many are inside their idle fiber.
CountersAccurate ==
  /\ active = Cardinality(Busy)
  /\ idle = Cardinality(Idling)

\* No submitted task is lost: it has ended, waits in the queue or is held by
\* a runner (add_task, run() and yield() hand it over without a gap).
NoTaskLost == \A t \in added : state[t] = "TERM" \/ Queued(t) \/ Held(t)

\* A runner decides to leave run() only when stop() was called, nothing is
\* queued, no runner holds a task and every task ever submitted has ended;
\* and that stays so while other runners are still deciding.
DrainedExit ==
  (\E r \in Runner : idleDone[r]) =>
    Drained /\ \A t \in added : state[t] = "TERM"

\* Once the owner's run() has returned into stop(), all work is over.
StopDrains ==
  UseCaller /\ client \in {"join", "returned"} =>
    Drained /\ \A t \in added : state[t] = "TERM"

\* One fiber is never on two threads: no two runners hold the same task.
OneRunner ==
  \A r, q \in Busy : r # q => task[r] # task[q]

\* A fiber is resumed only when READY and with its context saved: neither the
\* assertion of run() nor the one of resume() fails, no stale context runs.
SafeResume == failure \notin {"assert", "stale"}

\* When the loop of stop() is done with a thread, that thread has left run().
JoinWaits == \A w \in joined : failure # "crash" /\ pc[w] = "exit"

\* The abstract pool a client sees.
PhaseOf(t) ==
  IF t \notin added THEN "new"
  ELSE IF state[t] = "TERM" THEN "done"
  ELSE IF Held(t) THEN "running" ELSE "waiting"

Pool == INSTANCE TaskPool WITH
  phase  <- [t \in Task |-> PhaseOf(t)],
  closed <- \E r \in Runner : idleDone[r]

\* The scheduler implements the task pool: a task runs on one thread at a
\* time, ends once, and the pool closes only when nothing is left.
PoolSpec == Pool!Spec

\* A queued task that some running thread may take is eventually taken, even
\* if other tasks put themselves back for ever.
Servable(t) ==
  \E i \in 1 .. Len(queue) :
    queue[i].task = t
      /\ \E r \in Runner : pc[r] # "off" /\ Runnable(queue[i], r)
NoStarvation == \A t \in Task : Servable(t) ~> Held(t)

\* After stop() every task submitted so far or by a running task ends, and the
\* owner's stop() gets past its run(), provided no task goes on for ever.
StopCompletes ==
  TasksEnd =>
    (stopping ~>
       client \in {"join", "returned"} /\ \A t \in added : state[t] = "TERM")
=============================================================================
