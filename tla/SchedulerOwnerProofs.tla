------------------------ MODULE SchedulerOwnerProofs ------------------------
(***************************************************************************)
(* Theorems about a Scheduler whose tasks name their own thread when they  *)
(* add themselves again: a fiber is on one thread at a time, is resumed    *)
(* only when its context is saved, and the scheduler implements TaskPool.  *)
(***************************************************************************)
EXTENDS SchedulerProofs

\* A task is queued at most once and held by at most one runner; while its
\* runner still holds it, it is queued for no other.
OwnInv ==
  /\ \A i \in 1 .. Len(queue) : queue[i].task \in added
  /\ \A i, j \in 1 .. Len(queue) : queue[i].task = queue[j].task => i = j
  /\ \A r \in Busy : task[r] \in added
  /\ OneRunner
  /\ \A r \in Busy, i \in 1 .. Len(queue) :
       queue[i].task = task[r] =>
         pc[r] \in {"requeued", "switch", "back"} /\ queue[i].thread = r

\* The fiber of a task that nobody holds can be resumed if it is queued; that
\* of a held task is where the runner's place says.
FiberInv ==
  /\ \A t \in Task \ added : state[t] = "READY" /\ saved[t]
  /\ \A t \in Task : Queued(t) /\ ~Held(t) => state[t] = "READY" /\ saved[t]
  /\ \A r \in Busy :
       /\ pc[r] = "resume" => state[task[r]] = "READY" /\ saved[task[r]]
       /\ pc[r] \in {"task", "requeued"} => state[task[r]] = "RUNNING"
       /\ pc[r] = "switch" => state[task[r]] = "READY"
       /\ pc[r] = "back" =>
            \/ state[task[r]] = "READY" /\ saved[task[r]]
            \/ state[task[r]] = "TERM" /\ ~Queued(task[r])

\* The process ends in an assertion only in stop(), called by a thread that the
\* constructor's use_caller does not fit.
AssertInv ==
  /\ failure # "stale"
  /\ failure = "assert" => ~(UseCaller <=> StopperHasScheduler)

---------------------------------------------------------------------------
\* The queue before and after a step.

\* add_task leaves the entries where they are and puts its own behind them.
LEMMA EnqueueIndex ==
  ASSUME TypeOK, NEW t \in Task, NEW thread \in Runner \cup {AnyThread},
         Enqueue(t, thread)
  PROVE  \A i \in 1 .. Len(queue') :
           \/ i \in 1 .. Len(queue) /\ queue'[i] = queue[i]
           \/ i = Len(queue) + 1 /\ queue'[i].task = t /\ queue'[i].thread = thread
<1> DEFINE e == [task |-> t, thread |-> thread]
<1>1. queue' = Append(queue, e) /\ queue \in Seq(Entry) /\ e \in Entry
  BY DEF Enqueue, TypeOK, Entry
<1>2. /\ Len(queue') = Len(queue) + 1 /\ Len(queue) \in Nat
      /\ queue'[Len(queue) + 1] = e
      /\ \A j \in 1 .. Len(queue) : queue'[j] = queue[j]
  BY <1>1
<1>3. QED
  BY <1>2

\* Where the j-th entry was before the i-th was taken.
Before(i, j) == IF j < i THEN j ELSE j + 1

\* Taking an entry keeps the others, each once.
LEMMA EraseIndex ==
  ASSUME TypeOK, NEW i \in 1 .. Len(queue), queue' = Erase(queue, i)
  PROVE  /\ \A j \in 1 .. Len(queue') :
              Before(i, j) \in (1 .. Len(queue)) \ {i} /\ queue'[j] = queue[Before(i, j)]
         /\ \A j, k \in 1 .. Len(queue') : Before(i, j) = Before(i, k) => j = k
<1>1. queue \in Seq(Entry)
  BY DEF TypeOK
<1>2. Len(queue) \in Nat /\ Len(Erase(queue, i)) = Len(queue) - 1
      /\ \A k \in 1 .. Len(queue) - 1 :
           Erase(queue, i)[k] = IF k < i THEN queue[k] ELSE queue[k + 1]
  BY <1>1, EraseType
<1>3. QED
  BY <1>2 DEF Before

---------------------------------------------------------------------------
\* One owner.

\* A step that leaves the queue and the held tasks alone and moves one runner.
LEMMA OwnMove ==
  ASSUME TypeOK, OwnInv, UNCHANGED <<queue, added>>,
         NEW r \in Runner, NEW where \in RunnerPC, Goto(r, where),
         where \in BusyPC => pc[r] \in BusyPC /\ task'[r] = task[r],
         pc[r] \in {"requeued", "switch", "back"} /\ where \in BusyPC =>
           where \in {"requeued", "switch", "back"},
         \A q \in Runner \ {r} : task'[q] = task[q]
  PROVE  OwnInv'
<1>1. /\ \A q \in Runner : pc'[q] = IF q = r THEN where ELSE pc[q]
      /\ \A q \in Busy' : q \in Busy /\ task'[q] = task[q]
  BY MoveRunner DEF Busy
<1>2. OneRunner'
  BY <1>1 DEF OwnInv, OneRunner
<1>3. \A q \in Busy', i \in 1 .. Len(queue) :
        queue[i].task = task'[q] =>
          pc'[q] \in {"requeued", "switch", "back"} /\ queue[i].thread = q
  <2>1. SUFFICES ASSUME NEW q \in Busy', NEW i \in 1 .. Len(queue),
                        queue[i].task = task'[q]
                 PROVE  /\ pc'[q] \in {"requeued", "switch", "back"}
                        /\ queue[i].thread = q
    OBVIOUS
  <2>2. /\ pc[q] \in {"requeued", "switch", "back"} /\ queue[i].thread = q
        /\ q \in Runner /\ pc'[q] \in BusyPC
    BY <1>1, <2>1 DEF OwnInv, Busy
  <2>3. QED
    BY <1>1, <2>2
<1>4. QED
  BY <1>1, <1>2, <1>3 DEF OwnInv

\* A submission.
LEMMA OwnSubmit ==
  ASSUME TypeOK, OwnInv, NEW t \in Task, Submit(t), UNCHANGED <<pc, task>>
  PROVE  OwnInv'
<1>1. /\ t \notin added /\ added' = added \cup {t}
      /\ \A i \in 1 .. Len(queue') :
           \/ i \in 1 .. Len(queue) /\ queue'[i] = queue[i]
           \/ i = Len(queue) + 1 /\ queue'[i].task = t
  BY TaskAssumption, EnqueueIndex DEF Submit
<1>2. Busy' = Busy
  BY DEF Busy
<1>3. QED
  BY <1>1, <1>2 DEF OwnInv, OneRunner

\* Every step keeps one owner for each task, if tasks name their own thread.
LEMMA OwnNext ==
  ASSUME RequeueOwn, CountInv, OwnInv, [Next]_vars
  PROVE  OwnInv'
<1> USE DEF CountInv
<1>1. CASE UNCHANGED vars
  BY <1>1 DEF vars, runVars, OwnInv, OneRunner, Busy
<1>2. ASSUME NEW t \in Task, OwnerAdd(t) PROVE OwnInv'
  BY <1>2, OwnSubmit DEF OwnerAdd, runVars
<1>3. CASE Start
  <2>1. Busy' = Busy /\ UNCHANGED <<queue, added, task>>
    BY <1>3 DEF Start, NotStarted, Busy, BusyPC
  <2>2. \A r \in Busy : pc'[r] = pc[r]
    BY <1>3 DEF Start, NotStarted, Busy, BusyPC
  <2>3. QED
    BY <2>1, <2>2 DEF OwnInv, OneRunner
<1>4. CASE StopCall
  <2>1. \A r \in Runner : pc'[r] = pc[r] \/ (pc[r] = "off" /\ pc'[r] = "fetch")
    BY <1>4 DEF StopCall, TypeOK, NotStarted, Runner
  <2>2. Busy' = Busy /\ UNCHANGED <<queue, added, task>>
    BY <1>4, <2>1 DEF StopCall, Busy, BusyPC
  <2>3. \A r \in Busy : pc'[r] = pc[r]
    BY <2>1 DEF Busy, BusyPC
  <2>4. QED
    BY <2>2, <2>3 DEF OwnInv, OneRunner
<1>5. ASSUME RootDone \/ (\E w \in Worker : Join(w)) \/ Return
      PROVE  OwnInv'
  <2>1. UNCHANGED <<queue, pc, task, added>>
    BY <1>5 DEF RootDone, Join, Return, runVars
  <2>2. QED
    BY <2>1 DEF OwnInv, OneRunner, Busy
<1>6. ASSUME NEW w \in Worker, ThreadFunc(w) PROVE OwnInv'
  BY <1>6, OwnMove DEF ThreadFunc, RunnerPC, BusyPC, Runner
<1>7. ASSUME NEW r \in Runner, Fetch(r) PROVE OwnInv'
  <2>1. PICK i \in 1 .. Len(queue) :
          /\ Runnable(queue[i], r)
          /\ task' = [task EXCEPT ![r] = queue[i].task]
          /\ queue' = Erase(queue, i)
    BY <1>7 DEF Fetch
  <2>2. /\ \A q \in Runner : pc'[q] = IF q = r THEN "resume" ELSE pc[q]
        /\ added' = added /\ pc[r] = "fetch"
        /\ \A q \in Runner : task'[q] = IF q = r THEN queue[i].task ELSE task[q]
    BY <1>7, <2>1 DEF Fetch, Occupy, At, Goto, TypeOK
  <2>3. Busy' = Busy \cup {r} /\ r \notin Busy
    BY <2>2 DEF Busy, BusyPC
  <2>4. \A q \in Busy : task[q] # queue[i].task
    <3>1. SUFFICES ASSUME NEW q \in Busy, task[q] = queue[i].task PROVE FALSE
      OBVIOUS
    <3>2. queue[i].thread = q /\ q \in Runner /\ q # r
      BY <2>3, <3>1 DEF OwnInv, Busy
    <3>3. QED
      BY <2>1, <3>2, RunnerAssumption DEF Runnable
  <2>5. /\ \A j \in 1 .. Len(queue') :
             Before(i, j) \in (1 .. Len(queue)) \ {i} /\ queue'[j] = queue[Before(i, j)]
        /\ \A j, k \in 1 .. Len(queue') : Before(i, j) = Before(i, k) => j = k
    BY <2>1, EraseIndex
  <2>6. \A j \in 1 .. Len(queue') :
          queue'[j].task \in added /\ queue'[j].task # queue[i].task
    BY <2>5 DEF OwnInv
  <2>7. \A j, k \in 1 .. Len(queue') : queue'[j].task = queue'[k].task => j = k
    BY <2>5 DEF OwnInv
  <2>8. \A q \in Busy, j \in 1 .. Len(queue') :
          queue'[j].task = task[q] =>
            pc[q] \in {"requeued", "switch", "back"} /\ queue'[j].thread = q
    BY <2>5 DEF OwnInv
  <2>9. \A q \in Busy : q \in Runner /\ q # r
    BY <2>3 DEF Busy
  <2>10. OneRunner'
    BY <2>2, <2>3, <2>4, <2>9 DEF OwnInv, OneRunner
  <2>11. \A q \in Busy' : task'[q] \in added
    BY <2>2, <2>3, <2>9 DEF OwnInv
  <2>12. \A q \in Busy', j \in 1 .. Len(queue') :
          queue'[j].task = task'[q] =>
            pc'[q] \in {"requeued", "switch", "back"} /\ queue'[j].thread = q
    BY <2>2, <2>3, <2>6, <2>8, <2>9
  <2>13. QED
    BY <2>2, <2>6, <2>7, <2>10, <2>11, <2>12 DEF OwnInv
<1>8. ASSUME NEW r \in Runner, FetchNothing(r) PROVE OwnInv'
  BY <1>8, OwnMove DEF FetchNothing, RunnerPC, BusyPC
<1>9. ASSUME NEW r \in Runner, GoIdle(r) PROVE OwnInv'
  BY <1>9, OwnMove DEF GoIdle, RunnerPC, BusyPC, IdlePC
<1>10. ASSUME NEW r \in Runner, IdleCheck(r) PROVE OwnInv'
  BY <1>10, OwnMove DEF IdleCheck, RunnerPC, BusyPC, IdlePC
<1>11. ASSUME NEW r \in Runner, IdleBack(r) PROVE OwnInv'
  BY <1>11, OwnMove DEF IdleBack, RunnerPC, BusyPC
<1>12. ASSUME NEW r \in Runner, Exit(r) PROVE OwnInv'
  BY <1>12, OwnMove DEF Exit, RunnerPC, BusyPC
<1>13. ASSUME NEW r \in Runner, Resume(r) PROVE OwnInv'
  BY <1>13, OwnMove DEF Resume, At, RunnerPC, BusyPC
<1>14. ASSUME NEW r \in Runner, Back(r) PROVE OwnInv'
  <2>1. \A q \in Runner \ {r} : task'[q] = task[q]
    BY <1>14 DEF Back, TypeOK
  <2>2. QED
    BY <1>14, <2>1, OwnMove DEF Back, RunnerPC, BusyPC
<1>15. ASSUME NEW r \in Runner, Requeue(r) PROVE OwnInv'
  <2>1. /\ \A q \in Runner : pc'[q] = IF q = r THEN "requeued" ELSE pc[q]
        /\ UNCHANGED <<task, added>> /\ pc[r] = "task"
    BY <1>15 DEF Requeue, At, Goto, TypeOK
  <2>2. r \in Busy /\ Busy' = Busy /\ task[r] \in Task
    BY <2>1 DEF Busy, BusyPC, Holding
  <2>3. \A i \in 1 .. Len(queue') :
          \/ i \in 1 .. Len(queue) /\ queue'[i] = queue[i]
          \/ i = Len(queue) + 1 /\ queue'[i].task = task[r] /\ queue'[i].thread = r
    BY <1>15, <2>2, EnqueueIndex DEF Requeue, SelfPin
  <2>4. \A i \in 1 .. Len(queue) : queue[i].task # task[r]
    BY <2>1, <2>2 DEF OwnInv
  <2>5. \A q \in Busy : q # r => task[q] # task[r] /\ pc'[q] = pc[q]
    BY <2>1, <2>2 DEF OwnInv, OneRunner, Busy
  <2>6. QED
    BY <2>1, <2>2, <2>3, <2>4, <2>5 DEF OwnInv, OneRunner
<1>16. ASSUME NEW r \in Runner, BeginYield(r) PROVE OwnInv'
  BY <1>16, OwnMove DEF BeginYield, At, RunnerPC, BusyPC
<1>17. ASSUME NEW r \in Runner, Switch(r) PROVE OwnInv'
  BY <1>17, OwnMove DEF Switch, At, RunnerPC, BusyPC
<1>18. ASSUME NEW r \in Runner, Finish(r) PROVE OwnInv'
  BY <1>18, OwnMove DEF Finish, At, RunnerPC, BusyPC
<1>19. ASSUME NEW r \in Runner, NEW t \in Task, Spawn(r, t) PROVE OwnInv'
  BY <1>19, OwnSubmit DEF Spawn, runVars
<1>20. QED
  BY <1>1, <1>2, <1>3, <1>4, <1>5, <1>6, <1>7, <1>8, <1>9, <1>10, <1>11, <1>12,
     <1>13, <1>14, <1>15, <1>16, <1>17, <1>18, <1>19
  DEF Next, StopStep, RunStep, TaskStep, Terminated

---------------------------------------------------------------------------
\* A fiber is resumed only from a saved context.

\* The entry a runner takes belongs to nobody, and its fiber can be resumed.
LEMMA TakenReady ==
  ASSUME CountInv, OwnInv, FiberInv, NEW r \in Runner, pc[r] = "fetch",
         NEW i \in 1 .. Len(queue), Runnable(queue[i], r)
  PROVE  /\ queue[i].task \in Task /\ ~Held(queue[i].task)
         /\ state[queue[i].task] = "READY" /\ saved[queue[i].task]
<1>1. queue[i].task \in Task
  <2>1. queue \in Seq(Entry)
    BY DEF CountInv, TypeOK
  <2>2. queue[i] \in Entry
    BY <2>1
  <2>3. QED
    BY <2>2 DEF Entry
<1>2. ~Held(queue[i].task)
  <2>1. SUFFICES ASSUME NEW q \in Busy, task[q] = queue[i].task PROVE FALSE
    BY DEF Held
  <2>2. queue[i].thread = q /\ q \in Runner /\ q # r
    BY <2>1 DEF OwnInv, Busy, BusyPC
  <2>3. QED
    BY <2>2, RunnerAssumption DEF Runnable
<1>3. Queued(queue[i].task)
  BY DEF Queued
<1>4. QED
  BY <1>1, <1>2, <1>3 DEF FiberInv

\* A step that changes no fiber, no entry and no busy runner.
LEMMA FiberAlone ==
  ASSUME FiberInv, UNCHANGED <<queue, added, state, saved>>, Busy' = Busy,
         \A r \in Busy : pc'[r] = pc[r] /\ task'[r] = task[r]
  PROVE  FiberInv'
<1>1. \A t : (Queued(t)' <=> Queued(t)) /\ (Held(t)' <=> Held(t))
  BY DEF Queued, Held
<1>2. QED
  BY <1>1 DEF FiberInv

\* A step of the code between Fiber::resume and the switch back, on runner r.
LEMMA FiberInside ==
  ASSUME CountInv, OwnInv, FiberInv, UNCHANGED <<queue, added, task>>,
         NEW r \in Busy, NEW where \in BusyPC, Goto(r, where),
         \A t \in Task : t # task[r] => state'[t] = state[t] /\ saved'[t] = saved[t],
         /\ where = "resume" => state'[task[r]] = "READY" /\ saved'[task[r]]
         /\ where \in {"task", "requeued"} => state'[task[r]] = "RUNNING"
         /\ where = "switch" => state'[task[r]] = "READY"
         /\ where = "back" =>
              \/ state'[task[r]] = "READY" /\ saved'[task[r]]
              \/ state'[task[r]] = "TERM" /\ ~Queued(task[r])
  PROVE  FiberInv'
<1>1. r \in Runner /\ task[r] \in added /\ added \subseteq Task
  BY DEF OwnInv, Busy, CountInv, TypeOK
<1>2. Busy' = Busy /\ \A q \in Runner : pc'[q] = IF q = r THEN where ELSE pc[q]
  <2>1. where \in RunnerPC
    BY DEF RunnerPC
  <2>2. /\ \A q \in Runner : pc'[q] = IF q = r THEN where ELSE pc[q]
        /\ Busy' = Busy \cup {r}
    BY <1>1, <2>1, MoveRunner DEF CountInv
  <2>3. QED
    BY <2>2
<1>3. \A t : (Queued(t)' <=> Queued(t)) /\ (Held(t)' <=> Held(t))
  BY <1>2 DEF Queued, Held
<1>4. \A t \in Task \ added' : state'[t] = "READY" /\ saved'[t]
  BY <1>1 DEF FiberInv
<1>5. Held(task[r])
  BY DEF Held
<1>6. \A t \in Task : Queued(t)' /\ ~Held(t)' => state'[t] = "READY" /\ saved'[t]
  BY <1>3, <1>5 DEF FiberInv
<1>7. \A q \in Busy : q # r => /\ pc'[q] = pc[q] /\ task[q] # task[r]
                               /\ task[q] \in Task /\ q \in Runner
  BY <1>1, <1>2 DEF OwnInv, OneRunner, CountInv, Holding, Busy
<1>8. \A q \in Busy :
        /\ pc'[q] = "resume" => state'[task[q]] = "READY" /\ saved'[task[q]]
        /\ pc'[q] \in {"task", "requeued"} => state'[task[q]] = "RUNNING"
        /\ pc'[q] = "switch" => state'[task[q]] = "READY"
        /\ pc'[q] = "back" =>
             \/ state'[task[q]] = "READY" /\ saved'[task[q]]
             \/ state'[task[q]] = "TERM" /\ ~Queued(task[q])
  <2>1. SUFFICES ASSUME NEW q \in Busy
                 PROVE
        /\ pc'[q] = "resume" => state'[task[q]] = "READY" /\ saved'[task[q]]
        /\ pc'[q] \in {"task", "requeued"} => state'[task[q]] = "RUNNING"
        /\ pc'[q] = "switch" => state'[task[q]] = "READY"
        /\ pc'[q] = "back" =>
             \/ state'[task[q]] = "READY" /\ saved'[task[q]]
             \/ state'[task[q]] = "TERM" /\ ~Queued(task[q])
    OBVIOUS
  <2>2. CASE q = r
    BY <1>1, <1>2, <2>2
  <2>3. CASE q # r
    <3>1. /\ pc'[q] = pc[q] /\ state'[task[q]] = state[task[q]]
          /\ saved'[task[q]] = saved[task[q]]
      BY <1>7, <2>3
    <3>2. QED
      BY <3>1 DEF FiberInv
  <2>4. QED
    BY <2>2, <2>3
<1>9. QED
  BY <1>2, <1>3, <1>4, <1>6, <1>8 DEF FiberInv

\* A submission touches no fiber that is queued or held.
LEMMA FiberSubmit ==
  ASSUME CountInv, OwnInv, FiberInv, NEW t \in Task, Submit(t),
         UNCHANGED <<pc, task, state, saved>>
  PROVE  FiberInv'
<1>1. Busy' = Busy /\ \A u : Held(u)' <=> Held(u)
  BY DEF Busy, Held
<1>2. \A i \in 1 .. Len(queue') :
        \/ i \in 1 .. Len(queue) /\ queue'[i] = queue[i]
        \/ i = Len(queue) + 1 /\ queue'[i].task = t
  BY TaskAssumption, EnqueueIndex DEF Submit, CountInv
<1>3. \A u : Queued(u)' => Queued(u) \/ u = t
  BY <1>2 DEF Queued
<1>4. t \notin added /\ added' = added \cup {t}
  BY DEF Submit
<1>5. \A u \in Task : Queued(u)' /\ ~Held(u)' => state'[u] = "READY" /\ saved'[u]
  BY <1>1, <1>3, <1>4 DEF FiberInv
<1>6. \A r \in Busy : task[r] # t
  BY <1>4 DEF OwnInv
<1>7. \A r \in Busy : ~Queued(task[r]) => ~Queued(task[r])'
  BY <1>3, <1>6
<1>8. QED
  BY <1>1, <1>4, <1>5, <1>7 DEF FiberInv

\* Every step keeps the fibers where their runners' places say, if tasks name
\* their own thread.
LEMMA FiberNext ==
  ASSUME RequeueOwn, CountInv, OwnInv, FiberInv, [Next]_vars
  PROVE  FiberInv'
<1>1. CASE UNCHANGED vars
  <2>1. UNCHANGED <<queue, added, state, saved, pc, task>>
    BY <1>1 DEF vars, runVars, fiberVars
  <2>2. Busy' = Busy
    BY <2>1 DEF Busy
  <2>3. QED
    BY <2>1, <2>2, FiberAlone
<1>2. ASSUME NEW t \in Task, OwnerAdd(t) PROVE FiberInv'
  BY <1>2, FiberSubmit DEF OwnerAdd, runVars, fiberVars
<1>3. CASE Start
  <2>1. Busy' = Busy /\ UNCHANGED <<queue, added, task, state, saved>>
    BY <1>3 DEF Start, CountInv, NotStarted, Busy, BusyPC, fiberVars
  <2>2. \A r \in Busy : pc'[r] = pc[r]
    BY <1>3 DEF Start, CountInv, NotStarted, Busy, BusyPC
  <2>3. QED
    BY <2>1, <2>2, FiberAlone
<1>4. CASE StopCall
  <2>1. \A r \in Runner : pc'[r] = pc[r] \/ (pc[r] = "off" /\ pc'[r] = "fetch")
    BY <1>4 DEF StopCall, CountInv, TypeOK, NotStarted, Runner
  <2>2. Busy' = Busy /\ UNCHANGED <<queue, added, task, state, saved>>
    BY <1>4, <2>1 DEF StopCall, Busy, BusyPC, fiberVars
  <2>3. \A r \in Busy : pc'[r] = pc[r]
    BY <2>1 DEF Busy, BusyPC
  <2>4. QED
    BY <2>2, <2>3, FiberAlone
<1>5. ASSUME RootDone \/ (\E w \in Worker : Join(w)) \/ Return
      PROVE  FiberInv'
  <2>1. UNCHANGED <<queue, pc, task, added, state, saved>>
    BY <1>5 DEF RootDone, Join, Return, runVars, fiberVars
  <2>2. Busy' = Busy
    BY <2>1 DEF Busy
  <2>3. QED
    BY <2>1, <2>2, FiberAlone
<1>6. ASSUME NEW r \in Runner, NEW where \in RunnerPC \ BusyPC,
             pc[r] \notin BusyPC, Goto(r, where),
             UNCHANGED <<queue, added, task, state, saved>>
      PROVE  FiberInv'
  <2>1. Busy' = Busy /\ \A q \in Busy : pc'[q] = pc[q]
    BY <1>6, MoveRunner DEF CountInv, Busy
  <2>2. QED
    BY <1>6, <2>1, FiberAlone
<1>7. ASSUME NEW w \in Worker, ThreadFunc(w) PROVE FiberInv'
  BY <1>6, <1>7 DEF ThreadFunc, At, RunnerPC, BusyPC, Runner, fiberVars
<1>8. ASSUME NEW r \in Runner, Fetch(r) PROVE FiberInv'
  <2>1. PICK i \in 1 .. Len(queue) :
          /\ Runnable(queue[i], r)
          /\ task' = [task EXCEPT ![r] = queue[i].task]
          /\ queue' = Erase(queue, i)
    BY <1>8 DEF Fetch
  <2> DEFINE u == queue[i].task
  <2>2. /\ \A q \in Runner : pc'[q] = IF q = r THEN "resume" ELSE pc[q]
        /\ UNCHANGED <<added, state, saved>> /\ pc[r] = "fetch"
        /\ \A q \in Runner : task'[q] = IF q = r THEN u ELSE task[q]
    BY <1>8, <2>1 DEF Fetch, Occupy, At, Goto, CountInv, TypeOK, fiberVars
  <2>3. u \in Task /\ state[u] = "READY" /\ saved[u]
    BY <2>1, <2>2, TakenReady
  <2>4. /\ Busy' = Busy \cup {r} /\ r \notin Busy
        /\ \A q \in Busy : q \in Runner /\ pc'[q] = pc[q] /\ task'[q] = task[q]
    BY <2>2 DEF Busy, BusyPC
  <2>5. \A j \in 1 .. Len(queue') :
          Before(i, j) \in 1 .. Len(queue) /\ queue'[j] = queue[Before(i, j)]
    BY <2>1, EraseIndex DEF CountInv
  <2>6. \A t : Queued(t)' => Queued(t)
    BY <2>5 DEF Queued
  <2>7. \A t : Held(t) => Held(t)'
    BY <2>4 DEF Held
  <2> HIDE DEF u
  <2>8. /\ \A t \in Task \ added' : state'[t] = "READY" /\ saved'[t]
        /\ \A t \in Task : Queued(t)' /\ ~Held(t)' => state'[t] = "READY" /\ saved'[t]
    BY <2>2, <2>6, <2>7 DEF FiberInv
  <2>9. \A q \in Busy :
        /\ pc'[q] = "resume" => state'[task'[q]] = "READY" /\ saved'[task'[q]]
        /\ pc'[q] \in {"task", "requeued"} => state'[task'[q]] = "RUNNING"
        /\ pc'[q] = "switch" => state'[task'[q]] = "READY"
        /\ pc'[q] = "back" =>
             \/ state'[task'[q]] = "READY" /\ saved'[task'[q]]
             \/ state'[task'[q]] = "TERM" /\ (~Queued(task[q]))'
    <3>1. \A q \in Busy : ~Queued(task[q]) => (~Queued(task[q]))'
      BY <2>4, <2>5 DEF Queued
    <3>2. QED
      BY <2>2, <2>4, <3>1 DEF FiberInv
  <2>10. /\ pc'[r] = "resume" /\ task'[r] = u
         /\ state'[u] = "READY" /\ saved'[u]
    BY <2>2, <2>3
  <2>11. QED
    BY <2>4, <2>8, <2>9, <2>10 DEF FiberInv
<1>9. ASSUME NEW r \in Runner, FetchNothing(r) PROVE FiberInv'
  BY <1>6, <1>9 DEF FetchNothing, At, RunnerPC, BusyPC, fiberVars
<1>10. ASSUME NEW r \in Runner, GoIdle(r) PROVE FiberInv'
  BY <1>6, <1>10 DEF GoIdle, At, RunnerPC, BusyPC, IdlePC, fiberVars
<1>11. ASSUME NEW r \in Runner, IdleCheck(r) PROVE FiberInv'
  BY <1>6, <1>11 DEF IdleCheck, At, RunnerPC, BusyPC, IdlePC, fiberVars
<1>12. ASSUME NEW r \in Runner, IdleBack(r) PROVE FiberInv'
  BY <1>6, <1>12 DEF IdleBack, At, RunnerPC, BusyPC, fiberVars
<1>13. ASSUME NEW r \in Runner, Exit(r) PROVE FiberInv'
  BY <1>6, <1>13 DEF Exit, At, RunnerPC, BusyPC, fiberVars
<1>14. \A r \in Runner : pc[r] \in BusyPC => r \in Busy /\ task[r] \in Task
  BY DEF Busy, CountInv, Holding
<1>15. ASSUME NEW r \in Runner, Resume(r) PROVE FiberInv'
  <2>1. /\ r \in Busy /\ Goto(r, "task") /\ task[r] \in Task
        /\ UNCHANGED <<queue, added, task>>
    BY <1>14, <1>15 DEF Resume, At, BusyPC
  <2>2. /\ state'[task[r]] = "RUNNING"
        /\ \A t \in Task : t # task[r] => state'[t] = state[t] /\ saved'[t] = saved[t]
    BY <1>15, <2>1 DEF Resume, CountInv, TypeOK
  <2>3. QED
    BY <2>1, <2>2, FiberInside DEF BusyPC
<1>16. ASSUME NEW r \in Runner, Back(r) PROVE FiberInv'
  <2>1. /\ r \in Busy /\ pc[r] = "back" /\ Goto(r, "fetch")
        /\ UNCHANGED <<queue, added, state, saved>>
        /\ \A q \in Runner \ {r} : task'[q] = task[q]
    BY <1>14, <1>16 DEF Back, At, BusyPC, fiberVars, CountInv, TypeOK
  <2>2. /\ Busy' = Busy \ {r}
        /\ \A q \in Busy' : pc'[q] = pc[q] /\ task'[q] = task[q] /\ q \in Busy
    BY <2>1, MoveRunner DEF CountInv, RunnerPC, BusyPC, Busy
  <2>3. \A t : Queued(t)' <=> Queued(t)
    BY <2>1 DEF Queued
  <2>4. \A t : Held(t) /\ ~Held(t)' => t = task[r]
    BY <2>2 DEF Held
  <2>5. \A t \in Task : Queued(t)' /\ ~Held(t)' => state'[t] = "READY" /\ saved'[t]
    BY <2>1, <2>3, <2>4 DEF FiberInv
  <2>6. QED
    BY <2>1, <2>2, <2>3, <2>5 DEF FiberInv
<1>17. ASSUME NEW r \in Runner, Requeue(r) PROVE FiberInv'
  <2>1. /\ \A q \in Runner : pc'[q] = IF q = r THEN "requeued" ELSE pc[q]
        /\ UNCHANGED <<task, added, state, saved>> /\ pc[r] = "task"
    BY <1>17 DEF Requeue, At, Goto, fiberVars, CountInv, TypeOK
  <2>2. r \in Busy /\ Busy' = Busy /\ task[r] \in Task
    BY <1>14, <2>1 DEF Busy, BusyPC
  <2>3. \A i \in 1 .. Len(queue') :
          \/ i \in 1 .. Len(queue) /\ queue'[i] = queue[i]
          \/ i = Len(queue) + 1 /\ queue'[i].task = task[r]
    BY <1>17, <2>2, EnqueueIndex DEF Requeue, SelfPin, CountInv
  <2>4. \A t : Queued(t)' => Queued(t) \/ t = task[r]
    BY <2>3 DEF Queued
  <2>5. \A t : Held(t)' <=> Held(t)
    BY <2>1, <2>2 DEF Held
  <2>6. Held(task[r])
    BY <2>2 DEF Held
  <2>7. \A t \in Task : Queued(t)' /\ ~Held(t)' => state'[t] = "READY" /\ saved'[t]
    BY <2>1, <2>4, <2>5, <2>6 DEF FiberInv
  <2>8. \A q \in Busy : q # r => pc'[q] = pc[q] /\ task[q] # task[r]
    BY <2>1, <2>2 DEF OwnInv, OneRunner, Busy
  <2>9. \A q \in Busy : q # r /\ ~Queued(task[q]) => ~Queued(task[q])'
    BY <2>1, <2>3, <2>8 DEF Queued
  <2>10. pc'[r] = "requeued" /\ state'[task'[r]] = "RUNNING"
    BY <2>1, <2>2 DEF FiberInv
  <2>11. QED
    BY <2>1, <2>2, <2>7, <2>8, <2>9, <2>10 DEF FiberInv
<1>18. ASSUME NEW r \in Runner, BeginYield(r) PROVE FiberInv'
  <2>1. /\ r \in Busy /\ Goto(r, "switch") /\ task[r] \in Task
        /\ UNCHANGED <<queue, added, task, saved>>
    BY <1>14, <1>18 DEF BeginYield, At, BusyPC
  <2>2. /\ state'[task[r]] = "READY"
        /\ \A t \in Task : t # task[r] => state'[t] = state[t] /\ saved'[t] = saved[t]
    BY <1>18, <2>1 DEF BeginYield, CountInv, TypeOK
  <2>3. QED
    BY <2>1, <2>2, FiberInside DEF BusyPC
<1>19. ASSUME NEW r \in Runner, Switch(r) PROVE FiberInv'
  <2>1. /\ r \in Busy /\ Goto(r, "back") /\ task[r] \in Task
        /\ UNCHANGED <<queue, added, task, state>>
    BY <1>14, <1>19 DEF Switch, At, BusyPC
  <2>2. /\ saved'[task[r]] /\ state'[task[r]] = "READY"
        /\ \A t \in Task : t # task[r] => state'[t] = state[t] /\ saved'[t] = saved[t]
    BY <1>19, <2>1 DEF Switch, At, CountInv, TypeOK, FiberInv
  <2>3. QED
    BY <2>1, <2>2, FiberInside DEF BusyPC
<1>20. ASSUME NEW r \in Runner, Finish(r) PROVE FiberInv'
  <2>1. /\ r \in Busy /\ Goto(r, "back") /\ task[r] \in Task
        /\ UNCHANGED <<queue, added, task, saved>> /\ pc[r] = "task"
    BY <1>14, <1>20 DEF Finish, At, BusyPC
  <2>2. /\ state'[task[r]] = "TERM"
        /\ \A t \in Task : t # task[r] => state'[t] = state[t] /\ saved'[t] = saved[t]
    BY <1>20, <2>1 DEF Finish, CountInv, TypeOK
  <2>3. ~Queued(task[r])
    BY <2>1 DEF OwnInv, Queued
  <2>4. QED
    BY <2>1, <2>2, <2>3, FiberInside DEF BusyPC
<1>21. ASSUME NEW r \in Runner, NEW t \in Task, Spawn(r, t) PROVE FiberInv'
  BY <1>21, FiberSubmit DEF Spawn, runVars, fiberVars
<1>22. QED
  BY <1>1, <1>2, <1>3, <1>4, <1>5, <1>7, <1>8, <1>9, <1>10, <1>11, <1>12,
     <1>13, <1>15, <1>16, <1>17, <1>18, <1>19, <1>20, <1>21
  DEF Next, StopStep, RunStep, TaskStep, Terminated

\* No step fails an assertion of run() or resume() or runs a stale context.
LEMMA AssertNext ==
  ASSUME CountInv, OwnInv, FiberInv, AssertInv, [Next]_vars
  PROVE  AssertInv'
<1>1. CASE UNCHANGED vars \/ failure' = failure
  BY <1>1 DEF vars, AssertInv
<1>2. CASE StopCall
  BY <1>2 DEF StopCall, QcAssert, AssertInv
<1>3. ASSUME Return \/ \E w \in Worker : Join(w) \/ ThreadFunc(w) PROVE AssertInv'
  <2>1. failure' \in {failure, "crash"}
    BY <1>3 DEF Return, Join, ThreadFunc
  <2>2. QED
    BY <2>1 DEF AssertInv
<1>4. ASSUME NEW r \in Runner, Fetch(r) PROVE AssertInv'
  <2>1. PICK i \in 1 .. Len(queue) :
          Runnable(queue[i], r) /\ QcAssert(state[queue[i].task] = "READY")
    BY <1>4 DEF Fetch
  <2>2. state[queue[i].task] = "READY"
    BY <1>4, <2>1, TakenReady DEF Fetch, At
  <2>3. QED
    BY <2>1, <2>2 DEF QcAssert, AssertInv
<1>5. ASSUME NEW r \in Runner, Resume(r) PROVE AssertInv'
  <2>1. state[task[r]] = "READY" /\ saved[task[r]]
    BY <1>5 DEF Resume, At, FiberInv, Busy, BusyPC
  <2>2. failure' = failure
    BY <1>5, <2>1 DEF Resume
  <2>3. QED
    BY <2>2 DEF AssertInv
<1>6. QED
  BY <1>1, <1>2, <1>3, <1>4, <1>5
  DEF Next, StopStep, RunStep, TaskStep, Terminated, OwnerAdd, Start, RootDone,
      FetchNothing, GoIdle, IdleCheck, IdleBack, Exit, Back, Spawn, Requeue,
      BeginYield, Switch, Finish

\* Initially no task is queued or held, and every fiber stands at its entry.
LEMMA OwnInit == Init => OwnInv /\ FiberInv /\ AssertInv
<1>1. SUFFICES ASSUME Init PROVE OwnInv /\ FiberInv /\ AssertInv
  OBVIOUS
<1> USE <1>1
<1>2. Busy = {} /\ 1 .. Len(queue) = {}
  <2>1. queue = <<>> /\ pc = [r \in Runner |-> "off"]
    BY DEF Init
  <2>2. Len(queue) = 0
    BY <2>1
  <2>3. Busy = {}
    BY <2>1 DEF Busy, BusyPC
  <2>4. QED
    BY <2>2, <2>3
<1>3. OwnInv
  BY <1>2 DEF OwnInv, OneRunner
<1>4. \A t : ~Queued(t)
  BY <1>2 DEF Queued
<1>5. FiberInv
  <2>1. \A t \in Task : state[t] = "READY" /\ saved[t]
    BY DEF Init
  <2>2. QED
    BY <1>2, <1>4, <2>1 DEF FiberInv
<1>6. failure = "none"
  BY DEF Init
<1>7. QED
  BY <1>3, <1>5, <1>6 DEF AssertInv

\* The inductive invariant of a scheduler whose tasks name their own thread.
LEMMA OwnHolds ==
  ASSUME RequeueOwn
  PROVE  Spec => [](CountInv /\ DrainInv /\ TaskInv /\ OwnInv /\ FiberInv /\ AssertInv)
<1>1. Init => CountInv /\ OwnInv /\ FiberInv /\ AssertInv
  BY CountInit, OwnInit
<1>2. CountInv /\ OwnInv /\ FiberInv /\ AssertInv /\ [Next]_vars
        => (CountInv /\ OwnInv /\ FiberInv /\ AssertInv)'
  BY CountNext, OwnNext, FiberNext, AssertNext
<1>3. QED
  BY <1>1, <1>2, InvariantHolds, PTL DEF Spec

\* A fiber is never on two threads, whatever the number of threads and tasks:
\* the task that puts itself back with its own thread id is not taken by
\* another runner before it has yielded.
THEOREM OneRunnerPerFiber == ASSUME RequeueOwn PROVE Spec => []OneRunner
<1>1. OwnInv => OneRunner
  BY DEF OwnInv
<1>2. QED
  BY <1>1, OwnHolds, PTL

\* Neither assertion about the state of a fiber fails and no stale context is
\* resumed, when stop() is called by the thread use_caller asks for.
THEOREM ResumeIsSafe ==
  ASSUME RequeueOwn, UseCaller <=> StopperHasScheduler
  PROVE  Spec => []SafeResume
<1>1. AssertInv => SafeResume
  BY DEF AssertInv, SafeResume
<1>2. QED
  BY <1>1, OwnHolds, PTL

---------------------------------------------------------------------------
\* The scheduler implements the task pool.

\* Whether two states show a client the same of task t: a task that has ended
\* may still be held by the runner that is leaving it.
SameOf(t) ==
  /\ t \in added' <=> t \in added
  /\ state'[t] = "TERM" <=> state[t] = "TERM"
  /\ state[t] # "TERM" => (Held(t)' <=> Held(t))

ClosedPool == \E r \in Runner : idleDone[r]

\* A task that looks the same has the same phase.
LEMMA SamePhase == ASSUME NEW t, SameOf(t) PROVE PhaseOf(t)' = PhaseOf(t)
  BY DEF SameOf, PhaseOf, Held

\* A step that looks the same everywhere is no step of the pool.
LEMMA PoolStutter ==
  ASSUME \A t \in Task : SameOf(t), ClosedPool' <=> ClosedPool
  PROVE  UNCHANGED Pool!poolVars
<1>1. \A t \in Task : PhaseOf(t)' = PhaseOf(t)
  BY SamePhase
<1>2. [t \in Task |-> PhaseOf(t)]' = [t \in Task |-> PhaseOf(t)]
  BY <1>1
<1>3. (\E r \in Runner : idleDone[r])' = (\E r \in Runner : idleDone[r])
  BY DEF ClosedPool
<1>4. QED
  BY <1>2, <1>3 DEF Pool!poolVars

\* A step that changes how one task looks moves that task.
LEMMA PoolMove ==
  ASSUME NEW t \in Task, \A u \in Task \ {t} : SameOf(u)
  PROVE  Pool!Move(t, PhaseOf(t), PhaseOf(t)')
<1> DEFINE ph == [u \in Task |-> PhaseOf(u)]
<1>1. \A u \in Task \ {t} : PhaseOf(u)' = PhaseOf(u)
  BY SamePhase
<1>2. ph' = [u \in Task |-> PhaseOf(u)']
  OBVIOUS
<1>3. ph' = [ph EXCEPT ![t] = PhaseOf(t)']
  BY <1>1, <1>2
<1>4. ph[t] = PhaseOf(t)
  OBVIOUS
<1>5. QED
  BY <1>3, <1>4 DEF Pool!Move

\* A closed pool is drained, so it accepts no task.
LEMMA OpenPool ==
  ASSUME DrainInv, Busy # {} \/ client \in {"open", "started"}
  PROVE  ~ClosedPool
  BY DEF DrainInv, StopFirst, Closed, Drained, ClosedPool

\* add_task, from the owner or from a task, is the pool's Submit.
LEMMA PoolSubmit ==
  ASSUME OwnInv, FiberInv, NEW t \in Task, Submit(t),
         UNCHANGED <<pc, task, state, idleDone>>, ~ClosedPool
  PROVE  Pool!Submit(t)
<1>1. \A u : Held(u)' <=> Held(u)
  BY DEF Held, Busy
<1>2. t \notin added /\ added' = added \cup {t}
  BY DEF Submit
<1>3. state[t] = "READY" /\ ~Held(t)
  BY <1>2 DEF FiberInv, OwnInv, Held
<1>4. \A u \in Task \ {t} : SameOf(u)
  BY <1>1, <1>2 DEF SameOf
<1>5. PhaseOf(t) = "new" /\ PhaseOf(t)' = "waiting"
  BY <1>1, <1>2, <1>3 DEF PhaseOf, Held
<1>6. Pool!Move(t, "new", "waiting")
  BY <1>4, <1>5, PoolMove
<1>7. QED
  BY <1>6 DEF Pool!Submit, ClosedPool

\* A step that leaves the busy runners and the ended tasks as they are shows
\* nothing to a client of the pool.
LEMMA PoolQuiet ==
  ASSUME UNCHANGED <<added, idleDone>>, Busy' = Busy,
         \A r \in Busy : task'[r] = task[r],
         \A t \in Task : state'[t] = "TERM" <=> state[t] = "TERM"
  PROVE  UNCHANGED Pool!poolVars
<1>1. \A t : Held(t)' <=> Held(t)
  BY DEF Held
<1>2. QED
  BY <1>1, PoolStutter DEF SameOf, ClosedPool

\* stopping() says exactly that nothing is queued and no runner is busy.
LEMMA CanStopDrained ==
  ASSUME CountInv
  PROVE  CanStop <=> Drained
<1>1. Busy \in SUBSET Runner
  BY DEF Busy
<1>2. IsFiniteSet(Busy)
  BY <1>1, RunnerFinite, FS_Subset
<1>3. Busy = {} <=> Cardinality(Busy) = 0
  BY <1>2, FS_EmptySet
<1>4. QED
  BY <1>3 DEF CountInv, CountersAccurate, CanStop, Drained

\* Every step of the scheduler is a step of the pool, or none.
LEMMA PoolStep ==
  ASSUME CountInv, DrainInv, TaskInv, OwnInv, FiberInv, [Next]_vars
  PROVE  [Pool!Next]_Pool!poolVars
<1>1. CASE UNCHANGED vars
  <2>1. UNCHANGED <<added, idleDone, pc, task, state>>
    BY <1>1 DEF vars, runVars, fiberVars
  <2>2. QED
    BY <2>1, PoolQuiet DEF Busy
<1>2. ASSUME NEW t \in Task, OwnerAdd(t) PROVE Pool!Next
  <2>1. ~ClosedPool
    BY <1>2, OpenPool DEF OwnerAdd
  <2>2. Pool!Submit(t)
    BY <1>2, <2>1, PoolSubmit DEF OwnerAdd, runVars, fiberVars
  <2>3. QED
    BY <2>2 DEF Pool!Next
<1>3. ASSUME NEW r \in Runner, NEW t \in Task, Spawn(r, t) PROVE Pool!Next
  <2>1. Busy # {}
    BY <1>3 DEF Spawn, At, Busy, BusyPC
  <2>2. ~ClosedPool
    BY <2>1, OpenPool
  <2>3. Pool!Submit(t)
    BY <1>3, <2>2, PoolSubmit DEF Spawn, runVars, fiberVars
  <2>4. QED
    BY <2>3 DEF Pool!Next
<1>4. ASSUME StopCall \/ Start PROVE UNCHANGED Pool!poolVars
  <2>1. \A r \in Runner : pc'[r] = pc[r] \/ (pc[r] = "off" /\ pc'[r] \in {"fetch", "born"})
    BY <1>4 DEF StopCall, Start, CountInv, TypeOK, NotStarted, Runner
  <2>2. Busy' = Busy /\ UNCHANGED <<added, idleDone, task, state>>
    BY <1>4, <2>1 DEF StopCall, Start, Busy, BusyPC, fiberVars
  <2>3. QED
    BY <2>2, PoolQuiet
<1>5. ASSUME RootDone \/ (\E w \in Worker : Join(w)) \/ Return
      PROVE  UNCHANGED Pool!poolVars
  <2>1. UNCHANGED <<added, idleDone, pc, task, state>>
    BY <1>5 DEF RootDone, Join, Return, runVars, fiberVars
  <2>2. QED
    BY <2>1, PoolQuiet DEF Busy
<1>6. ASSUME NEW r \in Runner, NEW where \in RunnerPC,
             where \in BusyPC <=> pc[r] \in BusyPC, Goto(r, where),
             UNCHANGED <<added, idleDone, task>>,
             \A t \in Task : state'[t] = "TERM" <=> state[t] = "TERM"
      PROVE  UNCHANGED Pool!poolVars
  <2>1. Busy' = Busy
    BY <1>6, MoveRunner DEF CountInv, Busy
  <2>2. QED
    BY <1>6, <2>1, PoolQuiet
<1>7. ASSUME NEW w \in Worker, ThreadFunc(w) PROVE UNCHANGED Pool!poolVars
  BY <1>6, <1>7 DEF ThreadFunc, At, RunnerPC, BusyPC, Runner, fiberVars
<1>8. ASSUME NEW r \in Runner, FetchNothing(r) PROVE UNCHANGED Pool!poolVars
  BY <1>6, <1>8 DEF FetchNothing, At, RunnerPC, BusyPC, fiberVars
<1>9. ASSUME NEW r \in Runner, GoIdle(r) PROVE UNCHANGED Pool!poolVars
  BY <1>6, <1>9 DEF GoIdle, At, RunnerPC, BusyPC, IdlePC, fiberVars
<1>10. ASSUME NEW r \in Runner, IdleBack(r) PROVE UNCHANGED Pool!poolVars
  BY <1>6, <1>10 DEF IdleBack, At, RunnerPC, BusyPC, fiberVars
<1>11. ASSUME NEW r \in Runner, Exit(r) PROVE UNCHANGED Pool!poolVars
  BY <1>6, <1>11 DEF Exit, At, RunnerPC, BusyPC, fiberVars
<1>12. ASSUME NEW r \in Runner, Requeue(r) PROVE UNCHANGED Pool!poolVars
  BY <1>6, <1>12 DEF Requeue, At, RunnerPC, BusyPC, fiberVars
<1>13. ASSUME NEW r \in Runner, Switch(r) PROVE UNCHANGED Pool!poolVars
  BY <1>6, <1>13 DEF Switch, At, RunnerPC, BusyPC
<1>14. \A r \in Busy : /\ r \in Runner /\ task[r] \in Task
                       /\ task[r] \in added /\ Held(task[r])
  BY DEF Busy, CountInv, Holding, OwnInv, Held
<1>15. ASSUME NEW r \in Runner, Resume(r) PROVE UNCHANGED Pool!poolVars
  <2>1. /\ r \in Busy /\ state[task[r]] = "READY"
        /\ state' = [state EXCEPT ![task[r]] = "RUNNING"]
    BY <1>15 DEF Resume, At, Busy, BusyPC, FiberInv
  <2>2. \A t \in Task : state'[t] = "TERM" <=> state[t] = "TERM"
    BY <1>14, <2>1 DEF CountInv, TypeOK
  <2>3. QED
    BY <1>6, <1>15, <2>2 DEF Resume, At, RunnerPC, BusyPC
<1>16. ASSUME NEW r \in Runner, BeginYield(r) PROVE UNCHANGED Pool!poolVars
  <2>1. /\ r \in Busy /\ state[task[r]] = "RUNNING"
        /\ state' = [state EXCEPT ![task[r]] = "READY"]
    BY <1>16 DEF BeginYield, At, Busy, BusyPC, FiberInv
  <2>2. \A t \in Task : state'[t] = "TERM" <=> state[t] = "TERM"
    BY <1>14, <2>1 DEF CountInv, TypeOK
  <2>3. QED
    BY <1>6, <1>16, <2>2 DEF BeginYield, At, RunnerPC, BusyPC
<1>17. ASSUME NEW r \in Runner, Fetch(r) PROVE Pool!Next
  <2>1. PICK i \in 1 .. Len(queue) :
          /\ Runnable(queue[i], r)
          /\ task' = [task EXCEPT ![r] = queue[i].task]
    BY <1>17 DEF Fetch
  <2>0. PICK u \in Task : u = queue[i].task
    BY <1>17, <2>1, TakenReady DEF Fetch, At
  <2>2. /\ \A q \in Runner : pc'[q] = IF q = r THEN "resume" ELSE pc[q]
        /\ UNCHANGED <<added, state, idleDone>> /\ pc[r] = "fetch"
        /\ \A q \in Runner : task'[q] = IF q = r THEN u ELSE task[q]
    BY <1>17, <2>0, <2>1 DEF Fetch, Occupy, At, Goto, CountInv, TypeOK, fiberVars
  <2>3. u \in Task /\ u \in added /\ state[u] = "READY" /\ ~Held(u)
    BY <2>0, <2>1, <2>2, TakenReady DEF OwnInv
  <2>4. /\ Busy' = Busy \cup {r} /\ r \notin Busy
        /\ \A q \in Busy : q \in Runner /\ task'[q] = task[q]
    BY <2>2 DEF Busy, BusyPC
  <2>5. \A t : Held(t)' <=> Held(t) \/ t = u
    BY <2>2, <2>4 DEF Held
  <2>6. \A t \in Task \ {u} : SameOf(t)
    BY <2>2, <2>5 DEF SameOf
  <2>7. PhaseOf(u) = "waiting" /\ PhaseOf(u)' = "running"
    BY <2>2, <2>3, <2>5 DEF PhaseOf, Held
  <2>8. Pool!Move(u, "waiting", "running")
    BY <2>3, <2>6, <2>7, PoolMove
  <2>9. Pool!Take(u)
    BY <2>2, <2>8 DEF Pool!Take
  <2>10. QED
    BY <2>3, <2>9 DEF Pool!Next
<1>18. ASSUME NEW r \in Runner, Back(r) PROVE [Pool!Next]_Pool!poolVars
  <2>1. /\ r \in Busy /\ pc[r] = "back" /\ Goto(r, "fetch")
        /\ UNCHANGED <<idleDone, added, state>>
        /\ \A q \in Runner \ {r} : task'[q] = task[q]
    BY <1>18 DEF Back, At, Busy, BusyPC, fiberVars, CountInv, TypeOK
  <2>2. /\ Busy' = Busy \ {r}
        /\ \A q \in Busy' : task'[q] = task[q] /\ task[q] # task[r]
    BY <2>1, MoveRunner DEF CountInv, RunnerPC, BusyPC, Busy, OwnInv, OneRunner
  <2>0. PICK u \in Task : u = task[r]
    BY <1>14, <2>1
  <2>3. u \in Task /\ u \in added /\ Held(u)
    BY <1>14, <2>0, <2>1
  <2>4. \A t : Held(t)' <=> Held(t) /\ t # u
    BY <2>0, <2>1, <2>2 DEF Held
  <2>5. \A t \in Task \ {u} : SameOf(t)
    BY <2>1, <2>4 DEF SameOf
  <2>6. CASE state[u] = "TERM"
    <3>1. SameOf(u)
      BY <2>1, <2>6 DEF SameOf
    <3>2. QED
      BY <2>1, <2>5, <3>1, PoolStutter DEF ClosedPool
  <2>7. CASE state[u] # "TERM"
    <3>1. PhaseOf(u) = "running" /\ PhaseOf(u)' = "waiting"
      BY <2>1, <2>3, <2>4, <2>7 DEF PhaseOf, Held
    <3>2. Pool!Move(u, "running", "waiting")
      BY <2>3, <2>5, <3>1, PoolMove
    <3>3. Pool!Suspend(u)
      BY <2>1, <3>2 DEF Pool!Suspend
    <3>4. QED
      BY <2>3, <3>3 DEF Pool!Next
  <2>8. QED
    BY <2>6, <2>7
<1>19. ASSUME NEW r \in Runner, Finish(r) PROVE Pool!Next
  <2>1. /\ r \in Busy /\ pc[r] = "task" /\ Goto(r, "back")
        /\ UNCHANGED <<idleDone, added, task>>
        /\ state[task[r]] = "RUNNING"
        /\ state' = [state EXCEPT ![task[r]] = "TERM"]
    BY <1>19 DEF Finish, At, Busy, BusyPC, FiberInv
  <2>2. Busy' = Busy
    BY <2>1, MoveRunner DEF CountInv, RunnerPC, BusyPC, Busy
  <2>0. PICK u \in Task : u = task[r]
    BY <1>14, <2>1
  <2>3. u \in Task /\ u \in added /\ Held(u)
    BY <1>14, <2>0, <2>1
  <2>4. \A t : Held(t)' <=> Held(t)
    BY <2>0, <2>1, <2>2 DEF Held
  <2>5. \A t \in Task : state'[t] = IF t = u THEN "TERM" ELSE state[t]
    BY <2>0, <2>1 DEF CountInv, TypeOK
  <2>6. state[u] = "RUNNING"
    BY <2>0, <2>1
  <2>7. \A t \in Task \ {u} : SameOf(t)
    BY <2>1, <2>4, <2>5 DEF SameOf
  <2>8. PhaseOf(u) = "running" /\ PhaseOf(u)' = "done"
    BY <2>1, <2>3, <2>5, <2>6 DEF PhaseOf, Held
  <2>9. Pool!Move(u, "running", "done")
    BY <2>3, <2>7, <2>8, PoolMove
  <2>10. Pool!Complete(u)
    BY <2>1, <2>9 DEF Pool!Complete
  <2>11. QED
    BY <2>3, <2>10 DEF Pool!Next
<1>20. ASSUME NEW r \in Runner, IdleCheck(r) PROVE [Pool!Next]_Pool!poolVars
  <2>1. /\ pc[r] = "idle" /\ Goto(r, "idleback")
        /\ UNCHANGED <<added, state, task>>
        /\ \A q \in Runner : idleDone'[q] = IF q = r THEN CanStop ELSE idleDone[q]
    BY <1>20 DEF IdleCheck, At, fiberVars, CountInv, TypeOK
  <2>2. Busy' = Busy
    BY <2>1, MoveRunner DEF CountInv, RunnerPC, BusyPC, IdlePC, Busy
  <2>3. \A t : Held(t)' <=> Held(t)
    BY <2>1, <2>2 DEF Held
  <2>4. \A t \in Task : SameOf(t)
    BY <2>1, <2>3 DEF SameOf
  <2>5. ClosedPool => CanStop
    BY CanStopDrained DEF DrainInv, Closed, ClosedPool
  <2>6. CASE ClosedPool \/ ~CanStop
    <3>1. ClosedPool' <=> ClosedPool
      BY <2>1, <2>5, <2>6 DEF ClosedPool
    <3>2. QED
      BY <2>4, <3>1, PoolStutter
  <2>7. CASE ~ClosedPool /\ CanStop
    <3>1. \A t \in Task : PhaseOf(t)' = PhaseOf(t)
      BY <2>4, SamePhase
    <3>2. \A t \in added : state[t] = "TERM"
      BY <2>7, CanStopDrained, DrainedEnds
    <3>3. \A t \in Task : PhaseOf(t) \in {"new", "done"}
      BY <3>2 DEF PhaseOf, Held
    <3>4. ClosedPool'
      BY <2>1, <2>7 DEF ClosedPool
    <3>5. [t \in Task |-> PhaseOf(t)]' = [t \in Task |-> PhaseOf(t)]
      BY <3>1
    <3>6. Pool!Close
      BY <2>7, <3>3, <3>4, <3>5 DEF Pool!Close, ClosedPool
    <3>7. QED
      BY <3>6 DEF Pool!Next
  <2>8. QED
    BY <2>6, <2>7
<1>21. QED
  BY <1>1, <1>2, <1>3, <1>4, <1>5, <1>7, <1>8, <1>9, <1>10, <1>11, <1>12,
     <1>13, <1>15, <1>16, <1>17, <1>18, <1>19, <1>20
  DEF Next, StopStep, RunStep, TaskStep, Terminated

\* Initially the pool is open and every task new.
LEMMA PoolInit == Init => Pool!Init
<1>1. SUFFICES ASSUME Init PROVE Pool!Init
  OBVIOUS
<1>2. added = {} /\ \A r \in Runner : ~idleDone[r]
  BY <1>1 DEF Init
<1>3. \A t \in Task : PhaseOf(t) = "new"
  BY <1>2 DEF PhaseOf, Held
<1>4. QED
  BY <1>2, <1>3 DEF Pool!Init

\* The scheduler implements the task pool: whatever the threads do, a client
\* sees each task run by one thread at a time, end once, and the pool close
\* only when nothing is left.
THEOREM ImplementsPool == ASSUME RequeueOwn PROVE Spec => PoolSpec
<1>1. CountInv /\ DrainInv /\ TaskInv /\ OwnInv /\ FiberInv /\ [Next]_vars
        => [Pool!Next]_Pool!poolVars
  BY PoolStep
<1>2. QED
  BY <1>1, PoolInit, OwnHolds, PTL DEF Spec, PoolSpec, Pool!Spec

=============================================================================
