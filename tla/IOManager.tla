------------------------------ MODULE IOManager ------------------------------
(***************************************************************************)
(* The IOManager as a whole: the loop of Scheduler::run with the idle()    *)
(* and stopping() of src/iomanager.cc, which bring together the queue, the *)
(* timers, the descriptor events and the pipe that wakes a sleeper.        *)
(*                                                                         *)
(* A task is a callback the program hands over once: to add_task, to       *)
(* add_timer (one-shot), or to addEvent (each on a descriptor of its own). *)
(* What happens inside a fiber, a timer or a descriptor is the subject of  *)
(* Scheduler, TimerManager and FdEvents; here a task runs in one go, time  *)
(* is the fact that a timer is due, and nobody cancels anything.           *)
(***************************************************************************)
EXTENDS Integers, Sequences, FiniteSets

CONSTANTS
  Worker,      \* the threads start() creates
  Owner,       \* the thread that constructs the manager (use_caller)
  Task,        \* the callbacks the program hands over
  AnyThread,   \* the thread id -1
  None,        \* no task
  Pin,         \* the thread argument of add_task for each task
  Wrap         \* 2^64, the range of size_t

Runner == Worker \cup {Owner}

ASSUME RunnerAssumption ==
  IsFiniteSet(Worker) /\ Owner \notin Worker /\ AnyThread \notin Runner
ASSUME TaskAssumption ==
  /\ IsFiniteSet(Task) /\ None \notin Task
  /\ Pin \in [Task -> Runner \cup {AnyThread}]
  /\ Wrap \in Nat \ {0}

VARIABLES
  queue,       \* _queue
  active,      \* _activeThreadCount
  idle,        \* _idleThreadCount
  stopping,    \* _stopping
  pending,     \* m_pendingEventCount
  timers,      \* m_timers, by their callbacks
  due,         \* the timers whose time has come
  events,      \* the registered events (m_events), by their callbacks
  ctx,         \* the callbacks that are still in their EventContext
  ready,       \* what epoll has to report of the events
  twice,       \* history: what became ready again before a thread was done with it
  pipe,        \* a byte in m_tickleFds that epoll has to report
  pc,          \* where each thread is
  after,       \* where it goes after tickle()
  task,        \* the task it runs
  cbs,         \* the local "cbs" of idle()
  batch,       \* the events that epoll_wait returned and idle() still handles
  arg,         \* the one it handles now
  idleDone,    \* its idle fiber is TERM
  added,       \* the tasks handed over so far
  done         \* the tasks that have ended

countVars == <<active, idle, pending>>
timerVars == <<timers, due>>
epollVars == <<events, ctx, ready, twice, pipe>>
placeVars == <<pc, after>>
localVars == <<cbs, batch, arg>>
vars == <<queue, countVars, stopping, timerVars, epollVars, placeVars, task,
          localVars, idleDone, added, done>>

IdlePC == {"count", "sched", "timers", "asleep", "expire", "add", "dispatch",
           "trigger", "clear", "del", "again", "failed", "idleback"}
RunPC  == {"off", "fetch", "task", "none", "exit"}

TypeOK ==
  /\ queue \in Seq([task : Task, thread : Runner \cup {AnyThread}])
  /\ active \in 0 .. Cardinality(Runner) /\ idle \in 0 .. Cardinality(Runner)
  /\ stopping \in BOOLEAN
  /\ pending \in 0 .. Wrap - 1
  /\ timers \subseteq added /\ due \subseteq timers
  /\ events \subseteq added /\ ctx \subseteq events /\ ready \subseteq events
  /\ twice \subseteq added \ timers
  /\ pipe \in BOOLEAN
  /\ pc \in [Runner -> {"tickle"} \cup RunPC \cup IdlePC]
  /\ after \in [Runner -> RunPC \cup IdlePC]
  /\ task \in [Runner -> Task \cup {None}]
  /\ cbs \in [Runner -> SUBSET Task] /\ batch \in [Runner -> SUBSET Task]
  /\ arg \in [Runner -> Task \cup {None}]
  /\ idleDone \in [Runner -> BOOLEAN]
  /\ added \subseteq Task /\ done \subseteq added

\* The constructor of IOManager ends with start(): the workers run already.
Init ==
  /\ queue = <<>>
  /\ active = 0 /\ idle = 0 /\ pending = 0
  /\ stopping = FALSE
  /\ timers = {} /\ due = {}
  /\ events = {} /\ ctx = {} /\ ready = {} /\ twice = {} /\ pipe = FALSE
  /\ pc = [r \in Runner |-> IF r = Owner THEN "off" ELSE "fetch"]
  /\ after = [r \in Runner |-> "off"]
  /\ task = [r \in Runner |-> None]
  /\ cbs = [r \in Runner |-> {}] /\ batch = [r \in Runner |-> {}]
  /\ arg = [r \in Runner |-> None]
  /\ idleDone = [r \in Runner |-> FALSE]
  /\ added = {} /\ done = {}

---------------------------------------------------------------------------
At(r, where) == pc[r] = where
Goto(r, where) == pc' = [pc EXCEPT ![r] = where] /\ UNCHANGED after

\* On to "where", by way of tickle() if cond holds.
TickleIf(cond, r, where) ==
  IF cond
    THEN /\ pc' = [pc EXCEPT ![r] = "tickle"]
         /\ after' = [after EXCEPT ![r] = where]
    ELSE Goto(r, where)

\* IOManager::tickle(): a byte in the pipe, if some thread counts as idle.  It
\* makes a step of its own: the caller has given the lock back before.
Tickle(r) ==
  /\ At(r, "tickle")
  /\ pipe' = (pipe \/ idle > 0)
  /\ pc' = [pc EXCEPT ![r] = after[r]]
  /\ after' = [after EXCEPT ![r] = "off"]
  /\ UNCHANGED <<queue, countVars, stopping, timerVars, events, ctx, ready, twice,
                 task, localVars, idleDone, added, done>>

\* add_task: tickle() only when the queue was empty.
AddTask(r, t, thread, where) ==
  /\ queue' = Append(queue, [task |-> t, thread |-> thread])
  /\ TickleIf(queue = <<>>, r, where)

Runnable(entry, r) == entry.thread \in {AnyThread, r}
Erase(q, i) == [j \in 1 .. Len(q) - 1 |-> IF j < i THEN q[j] ELSE q[j + 1]]

\* Scheduler::stopping() under _mutex.
CanStop == stopping /\ queue = <<>> /\ active = 0

\* Mutant of Uncount: the count is a signed number.
UncountSigned == pending' = pending - 1

\* --m_pendingEventCount.
Uncount == pending' = (pending - 1) % Wrap

---------------------------------------------------------------------------
\* What a program does: from a task, or on the owner's thread before stop().

Calling(a) == At(a, "task") \/ (a = Owner /\ At(a, "off"))

HandOver(t) == t \notin added /\ added' = added \cup {t}

CallAddTask(a, t) ==
  /\ Calling(a) /\ HandOver(t)
  /\ AddTask(a, t, Pin[t], pc[a])
  /\ UNCHANGED <<countVars, stopping, timerVars, epollVars, task, localVars,
                 idleDone, done>>

\* add_timer: OnTimerInsertedAtFront() is called or not (see TimerManager).
CallAddTimer(a, t) ==
  /\ Calling(a) /\ HandOver(t)
  /\ timers' = timers \cup {t}
  /\ \E first \in BOOLEAN : TickleIf(first, a, pc[a])
  /\ UNCHANGED <<queue, countVars, stopping, due, epollVars, task, localVars,
                 idleDone, done>>

CallAddEvent(a, t) ==
  /\ Calling(a) /\ HandOver(t)
  /\ events' = events \cup {t} /\ ctx' = ctx \cup {t}
  /\ pending' = (pending + 1) % Wrap
  /\ UNCHANGED <<queue, active, idle, stopping, timerVars, ready, twice, pipe,
                 placeVars, task, localVars, idleDone, done>>

\* stop(): a tickle per worker, in one step here; then the owner's thread
\* resumes the root fiber, which is run().
StopCall ==
  /\ At(Owner, "off")
  /\ stopping' = TRUE
  /\ pipe' = (pipe \/ (idle > 0 /\ Worker # {}))
  /\ Goto(Owner, "fetch")
  /\ UNCHANGED <<queue, countVars, timerVars, events, ctx, ready, twice, task,
                 localVars, idleDone, added, done>>

\* The time of a timer comes.
Expires(t) ==
  /\ t \in timers \ due
  /\ due' = due \cup {t}
  /\ UNCHANGED <<queue, countVars, stopping, timers, epollVars, placeVars, task,
                 localVars, idleDone, added, done>>

InHands(t) == \E r \in Runner : t = arg[r] \/ t \in batch[r]

\* A descriptor becomes ready, and ready again: with EPOLLET new data is a new
\* report, to any thread, while another may still be at the last one.
Arrive(t) ==
  /\ t \in events \ ready
  /\ ready' = ready \cup {t}
  /\ twice' = IF InHands(t) THEN twice \cup {t} ELSE twice
  /\ UNCHANGED <<queue, countVars, stopping, timerVars, events, ctx, pipe,
                 placeVars, task, localVars, idleDone, added, done>>

---------------------------------------------------------------------------
\* Scheduler::run.

\* The locked scan takes a task; the others are told if entries remain.
Fetch(r) ==
  /\ At(r, "fetch")
  /\ \E i \in 1 .. Len(queue) :
       /\ Runnable(queue[i], r)
       /\ \A j \in 1 .. i - 1 : ~Runnable(queue[j], r)
       /\ task' = [task EXCEPT ![r] = queue[i].task]
       /\ queue' = Erase(queue, i)
  /\ active' = active + 1
  /\ TickleIf(Len(queue) > 1, r, "task")
  /\ UNCHANGED <<idle, pending, stopping, timerVars, epollVars, localVars,
                 idleDone, added, done>>

FetchNothing(r) ==
  /\ At(r, "fetch")
  /\ \A i \in 1 .. Len(queue) : ~Runnable(queue[i], r)
  /\ TickleIf(queue # <<>>, r, "none")
  /\ UNCHANGED <<queue, countVars, stopping, timerVars, epollVars, task,
                 localVars, idleDone, added, done>>

\* Mutant of Unoccupy: --_activeThreadCount is missing.
UnoccupyNot == UNCHANGED active

Unoccupy == active' = active - 1

\* The task ends and run() leaves it.
Finish(r) ==
  /\ At(r, "task")
  /\ done' = done \cup {task[r]}
  /\ task' = [task EXCEPT ![r] = None]
  /\ Unoccupy
  /\ Goto(r, "fetch")
  /\ UNCHANGED <<queue, idle, pending, stopping, timerVars, epollVars, localVars,
                 idleDone, added>>

GoIdle(r) ==
  /\ At(r, "none") /\ ~idleDone[r]
  /\ idle' = idle + 1
  /\ Goto(r, "count")
  /\ UNCHANGED <<queue, active, pending, stopping, timerVars, epollVars, task,
                 localVars, idleDone, added, done>>

IdleBack(r) ==
  /\ At(r, "idleback")
  /\ idle' = idle - 1
  /\ Goto(r, "fetch")
  /\ UNCHANGED <<queue, active, pending, stopping, timerVars, epollVars, task,
                 localVars, idleDone, added, done>>

Exit(r) ==
  /\ At(r, "none") /\ idleDone[r]
  /\ Goto(r, "exit")
  /\ UNCHANGED <<queue, countVars, stopping, timerVars, epollVars, task,
                 localVars, idleDone, added, done>>

---------------------------------------------------------------------------
\* IOManager::idle.

\* One read of stopping(): on to the next, or to epoll_wait if cond fails.
Read(r, from, cond, to) ==
  /\ At(r, from)
  /\ Goto(r, IF cond THEN to ELSE "asleep")
  /\ idleDone' = [idleDone EXCEPT ![r] = cond /\ to = "idleback"]
  /\ UNCHANGED <<queue, countVars, stopping, timerVars, epollVars, task,
                 localVars, added, done>>

\* Mutant of Stopping: the timers are looked at first.
StoppingTimersFirst(r) ==
  \/ Read(r, "count", timers = {}, "sched")
  \/ Read(r, "sched", pending = 0, "timers")
  \/ Read(r, "timers", CanStop, "idleback")

\* IOManager::stopping() reads the count of events, what Scheduler::stopping()
\* says, and the timers, one after the other; then idle() breaks or goes on.
Stopping(r) ==
  \/ Read(r, "count", pending = 0, "sched")
  \/ Read(r, "sched", CanStop, "timers")
  \/ Read(r, "timers", timers = {}, "idleback")

\* Mutant of Returns: epoll_wait has no timeout.
ReturnsOnEvent == pipe \/ ready # {}

\* epoll_wait returns, at the latest after MAX_TIMEOUT.
Returns == TRUE

\* Mutant of Reported: the events are registered without EPOLLET.
ReportedToAll == UNCHANGED ready

\* EPOLLET: what epoll_wait has reported to one thread it reports to no other.
Reported == ready' = {}

\* epoll_wait returns with all there is; the pipe is read empty.
Wake(r) ==
  /\ At(r, "asleep") /\ Returns
  /\ pipe' = FALSE
  /\ Reported
  /\ batch' = [batch EXCEPT ![r] = ready]
  /\ Goto(r, "expire")
  /\ UNCHANGED <<queue, countVars, stopping, timerVars, events, ctx, twice, task,
                 cbs, arg, idleDone, added, done>>

\* listExpiredCb: the expired timers leave m_timers.
Expire(r) ==
  /\ At(r, "expire")
  /\ timers' = timers \ due /\ due' = {}
  /\ cbs' = [cbs EXCEPT ![r] = due]
  /\ Goto(r, "add")
  /\ UNCHANGED <<queue, countVars, stopping, epollVars, task, batch, arg,
                 idleDone, added, done>>

\* add_task for each expired callback; none is left: on to the events.
AddExpired(r) ==
  /\ At(r, "add")
  /\ \/ \E t \in cbs[r] :
          /\ cbs' = [cbs EXCEPT ![r] = @ \ {t}]
          /\ AddTask(r, t, AnyThread, "add")
     \/ cbs[r] = {} /\ Goto(r, "dispatch") /\ UNCHANGED <<queue, cbs>>
  /\ UNCHANGED <<countVars, stopping, timerVars, epollVars, task, batch, arg,
                 idleDone, added, done>>

\* Under the lock of its descriptor idle() looks whether a reported event is
\* still registered; none is left: yield to run().
Look(r) ==
  /\ At(r, "dispatch")
  /\ \/ \E t \in batch[r] :
          /\ batch' = [batch EXCEPT ![r] = @ \ {t}]
          /\ \/ t \in events /\ Goto(r, "trigger") /\ arg' = [arg EXCEPT ![r] = t]
             \/ t \notin events /\ UNCHANGED <<placeVars, arg>>
     \/ batch[r] = {} /\ Goto(r, "idleback") /\ UNCHANGED <<batch, arg>>
  /\ UNCHANGED <<queue, countVars, stopping, timerVars, epollVars, task, cbs,
                 idleDone, added, done>>

\* triggerEvent, without the lock: the callback is queued.  If another thread has
\* taken the event out (an assertion) or reset its context, the process ends here.
Trigger(r) ==
  /\ At(r, "trigger")
  /\ IF arg[r] \in events \cap ctx
       THEN AddTask(r, arg[r], AnyThread, "clear")
       ELSE Goto(r, "failed") /\ UNCHANGED queue
  /\ UNCHANGED <<countVars, stopping, timerVars, epollVars, task, localVars,
                 idleDone, added, done>>

\* ... and resets the context.
Clear(r) ==
  /\ At(r, "clear")
  /\ ctx' = ctx \ {arg[r]}
  /\ Goto(r, "del")
  /\ UNCHANGED <<queue, countVars, stopping, timerVars, events, ready, twice, pipe,
                 task, localVars, idleDone, added, done>>

\* delEvent takes the event out and counts it down, unless another thread has ...
Del(r) ==
  /\ At(r, "del")
  /\ \/ /\ arg[r] \in events
        /\ events' = events \ {arg[r]} /\ ready' = ready \ {arg[r]}
        /\ ctx' = ctx \ {arg[r]}
        /\ Uncount
     \/ arg[r] \notin events /\ UNCHANGED <<events, ready, ctx, pending>>
  /\ Goto(r, "again")
  /\ UNCHANGED <<queue, active, idle, stopping, timerVars, twice, pipe, task,
                 localVars, idleDone, added, done>>

\* ... and idle() counts it down again.
Again(r) ==
  /\ At(r, "again")
  /\ arg' = [arg EXCEPT ![r] = None]
  /\ Uncount
  /\ Goto(r, "dispatch")
  /\ UNCHANGED <<queue, active, idle, stopping, timerVars, epollVars, task, cbs,
                 batch, idleDone, added, done>>

---------------------------------------------------------------------------
Call(a) ==
  \E t \in Task : CallAddTask(a, t) \/ CallAddTimer(a, t) \/ CallAddEvent(a, t)

IdleStep(r) ==
  \/ Stopping(r)
  \/ Wake(r) \/ Expire(r) \/ AddExpired(r)
  \/ Look(r) \/ Trigger(r) \/ Clear(r) \/ Del(r) \/ Again(r)

RunStep(r) ==
  \/ Tickle(r) \/ Fetch(r) \/ FetchNothing(r) \/ Finish(r) \/ GoIdle(r)
  \/ IdleBack(r) \/ Exit(r) \/ IdleStep(r)

\* No thread has ended the process.
Alive == \A r \in Runner : pc[r] # "failed"

Terminated ==
  /\ (\A r \in Runner : pc[r] = "exit") \/ ~Alive
  /\ UNCHANGED vars

Next ==
  \/ Alive /\ \/ \E a \in Runner : Call(a) \/ RunStep(a)
              \/ StopCall
              \/ \E t \in Task : Expires(t) \/ Arrive(t)
  \/ Terminated

Spec == Init /\ [][Next]_vars

\* Every thread runs, a task ends, time passes.
Fairness ==
  /\ \A r \in Runner : WF_vars(Alive /\ RunStep(r))
  /\ \A t \in Task : WF_vars(Alive /\ Expires(t))

FairSpec == Spec /\ Fairness

\* What the peers owe: every descriptor becomes ready.
PeersAnswer == \A t \in Task : WF_vars(Alive /\ Arrive(t))

---------------------------------------------------------------------------
\* Properties.

\* Where each thread is, or will be after the tickle() it is in.
loc == [r \in Runner |-> IF pc[r] = "tickle" THEN after[r] ELSE pc[r]]

\* The events whose callback triggerEvent has queued and not yet reset.
Queued == {arg[r] : r \in {q \in Runner : loc[q] = "clear"}}

\* Where a callback is kept: in m_timers, with its event until triggerEvent
\* has queued it, or nowhere any more because it has run.
Kept == timers \cup (ctx \ Queued) \cup done

Places(t) ==
  Cardinality({i \in 1 .. Len(queue) : queue[i].task = t})
    + Cardinality({r \in Runner : task[r] = t \/ t \in cbs[r]})
    + (IF t \in Kept THEN 1 ELSE 0)

\* A callback is never lost on its way through m_timers or an event, the hands of
\* an idle thread, the queue and run(), whatever threads dispatch it at once.  It
\* is at one place, unless its descriptor became ready again before an idle thread
\* was done with the last report: then the code may queue it once more.
OnePlace == \A t \in added : Places(t) >= 1 /\ (t \notin twice => Places(t) = 1)

\* m_pendingEventCount is the number of registered events.
CountRight == pending = Cardinality(events)

\* When every idle fiber has ended, nothing but registered events is left: the
\* last thread out saw the queue empty, nobody at work and, after that, no timer,
\* although others took expired callbacks out of m_timers and queued them.
LeaveNothing == (\A r \in Runner : idleDone[r]) => added \ done \subseteq events

\* Once every thread has left run() all callbacks have run (if the count of
\* events is right).  The code violates it: the count is read before the rest,
\* and a task that runs in between may have registered an event.
StopDrains == (\A r \in Runner : pc[r] = "exit") /\ CountRight => added = done

\* While nobody stops the manager, every callback the workers may run is run
\* some time after its timer expired or its descriptor became ready; a tickle()
\* that finds no idle thread yet is made good by the timeout of epoll_wait.  (Two
\* threads that dispatch one event at once may end the process instead.)
AllRun ==
  PeersAnswer =>
    \A t \in Task :
      Pin[t] # Owner => (t \in added ~> (t \in done \/ stopping \/ ~Alive))

\* After stop() the owner gets past its run(), and every callback that is not
\* waiting for an event is run, unless the count of events is wrong or a
\* dispatch has ended the process.
StopCompletes ==
  PeersAnswer =>
    (stopping ~>
       \/ pc[Owner] = "exit" /\ added \ done \subseteq events
       \/ ~CountRight \/ ~Alive)
=============================================================================
