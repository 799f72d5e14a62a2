-------------------------- MODULE IOManagerProofs --------------------------
(***************************************************************************)
(* Theorems about IOManager for any number of threads and callbacks: the   *)
(* counters keep their ranges, a callback is never lost, nor doubled unless *)
(* its event is dispatched by two threads at once, and the threads leave   *)
(* nothing behind but registered events.                                   *)
(***************************************************************************)
EXTENDS IOManager, FiniteSetTheorems, TLAPS

\* The callbacks in the queue and in the hands of each thread.
waiting == {queue[i].task : i \in 1 .. Len(queue)}
hands   == [r \in Runner |-> cbs[r] \cup ({task[r]} \ {None})]

Holders == {r \in Runner : task[r] # None}
Idlers  == {r \in Runner : loc[r] \in IdlePC}

CountInv == active = Cardinality(Holders) /\ idle = Cardinality(Idlers)

\* Where a thread handles an event, where it has reported events left, and where
\* it has queued the callback of the one it handles.
Handling   == {"trigger", "clear", "del", "again", "failed"}
Dispatching == Handling \cup {"expire", "add", "dispatch"}
Triggered  == {"clear", "del", "again"}

\* What a thread has in its hands, by where it is.
LocalInv ==
  \A r \in Runner :
    /\ task[r] # None <=> loc[r] = "task"
    /\ cbs[r] # {} => loc[r] = "add"
    /\ batch[r] # {} => loc[r] \in Dispatching
    /\ arg[r] # None <=> loc[r] \in Handling
    /\ idleDone[r] => loc[r] \in {"idleback", "fetch", "task", "none", "exit"}

\* Unless it becomes ready again meanwhile, an event is reported to one thread and
\* handled by it.
EventInv ==
  /\ \A r \in Runner : batch[r] \subseteq added /\ arg[r] \in added \cup {None}
  /\ \A r, q \in Runner : r # q => batch[r] \cap batch[q] \subseteq twice
  /\ \A r, q \in Runner : r # q /\ arg[r] # None /\ arg[r] = arg[q] => arg[r] \in twice
  /\ \A r, q \in Runner : arg[r] \in batch[q] => arg[r] \in twice
  /\ \A r \in Runner : batch[r] \cap ready \subseteq twice
  /\ \A r \in Runner : arg[r] \in ready => arg[r] \in twice
  /\ timers \cap (events \cup done) = {} /\ (ctx \ Queued) \cap done \subseteq twice

\* No task outside of S is in the queue twice.
Single(q, S) == \A i, j \in 1 .. Len(q) : q[i].task = q[j].task => i = j \/ q[i].task \in S

\* Of the callbacks A none is lost between the queue q, whose tasks are W, the hands
\* H and what is kept, K, and none outside of S is at two of these places.
PlacesOf(q, W, H, K, A, S) ==
  /\ \A t \in A : t \in W \/ (\E r \in Runner : t \in H[r]) \/ t \in K
  /\ W \subseteq A /\ W \cap K \subseteq S
  /\ Single(q, S)
  /\ \A r \in Runner : H[r] \subseteq A
  /\ \A r \in Runner : H[r] \cap (K \cup W) \subseteq S
  /\ \A r, p \in Runner : r # p => H[r] \cap H[p] \subseteq S

\* After triggerEvent the callback has left its event for good.
TriggeredInv ==
  \A r \in Runner : loc[r] \in Triggered =>
    arg[r] \in waiting \cup done \/ \E q \in Runner : arg[r] \in hands[q]

\* A callback is never lost, and unless it was reported twice it is at one place.
PlaceInv == PlacesOf(queue, waiting, hands, Kept, added, twice) /\ TriggeredInv

\* When every thread has found stopping() true up to its look at the timers,
\* no task is queued or run; when every idle fiber has ended, no timer is left.
AllLooked == \A r \in Runner : idleDone[r] \/ loc[r] = "timers"
AllEnded  == \A r \in Runner : idleDone[r]

QuietInv ==
  /\ AllLooked => queue = <<>> /\ Holders = {}
  /\ AllEnded => timers = {}

---------------------------------------------------------------------------
\* Helper operators of the model.

Place == RunPC \cup IdlePC

\* Places are among those a thread can be in.
LEMMA LocType == ASSUME TypeOK PROVE loc \in [Runner -> Place]
  BY DEF TypeOK, loc, Place

\* A thread goes on, with or without a tickle() first.
LEMMA Moved ==
  ASSUME TypeOK, NEW r \in Runner, NEW where \in Place,
         Goto(r, where) \/ \E cond \in BOOLEAN : TickleIf(cond, r, where)
  PROVE  /\ pc' \in [Runner -> {"tickle"} \cup RunPC \cup IdlePC]
         /\ after' \in [Runner -> RunPC \cup IdlePC]
         /\ loc' = [loc EXCEPT ![r] = where]
<1>1. \/ pc' = [pc EXCEPT ![r] = where] /\ after' = after
      \/ pc' = [pc EXCEPT ![r] = "tickle"] /\ after' = [after EXCEPT ![r] = where]
  <2>1. ASSUME NEW cond \in BOOLEAN, TickleIf(cond, r, where)
        PROVE  \/ Goto(r, where)
               \/ pc' = [pc EXCEPT ![r] = "tickle"] /\ after' = [after EXCEPT ![r] = where]
    BY <2>1 DEF TickleIf
  <2>2. QED
    BY <2>1 DEF Goto
<1>2. /\ pc' \in [Runner -> {"tickle"} \cup RunPC \cup IdlePC]
      /\ after' \in [Runner -> RunPC \cup IdlePC]
  <2>1. /\ pc \in [Runner -> {"tickle"} \cup RunPC \cup IdlePC]
        /\ after \in [Runner -> RunPC \cup IdlePC]
        /\ where \in RunPC \cup IdlePC
    BY DEF TypeOK, Place
  <2>2. QED
    BY <1>1, <2>1
<1>3. where # "tickle"
  BY DEF Place, RunPC, IdlePC
<1>4. \A q \in Runner :
        (IF pc'[q] = "tickle" THEN after'[q] ELSE pc'[q]) =
          IF q = r THEN where ELSE IF pc[q] = "tickle" THEN after[q] ELSE pc[q]
  BY <1>1, <1>3 DEF TypeOK
<1>5. QED
  BY <1>2, <1>4 DEF loc

\* add_task appends an entry, and hands its caller on.
LEMMA Added ==
  ASSUME TypeOK, NEW r \in Runner, NEW t \in Task, NEW where \in Place,
         NEW thread \in Runner \cup {AnyThread}, AddTask(r, t, thread, where),
         NEW S
  PROVE  /\ queue' \in Seq([task : Task, thread : Runner \cup {AnyThread}])
         /\ pc' \in [Runner -> {"tickle"} \cup RunPC \cup IdlePC]
         /\ after' \in [Runner -> RunPC \cup IdlePC]
         /\ loc' = [loc EXCEPT ![r] = where]
         /\ waiting' = waiting \cup {t}
         /\ (t \in waiting => t \in S) /\ Single(queue, S) => Single(queue', S)
<1> DEFINE e == [task |-> t, thread |-> thread]
<1>1. queue' = Append(queue, e) /\ TickleIf(queue = <<>>, r, where)
  BY DEF AddTask
<1>2. /\ queue \in Seq([task : Task, thread : Runner \cup {AnyThread}])
      /\ e \in [task : Task, thread : Runner \cup {AnyThread}]
  BY DEF TypeOK
<1>3. /\ queue' \in Seq([task : Task, thread : Runner \cup {AnyThread}])
      /\ Len(queue') = Len(queue) + 1 /\ Len(queue) \in Nat
      /\ queue'[Len(queue) + 1] = e
      /\ \A j \in 1 .. Len(queue) : queue'[j] = queue[j]
  BY <1>1, <1>2
<1>4. \A i \in 1 .. Len(queue') :
        \/ i \in 1 .. Len(queue) /\ queue'[i] = queue[i]
        \/ i = Len(queue) + 1 /\ queue'[i].task = t
  BY <1>3
<1>5. \A i \in 1 .. Len(queue) : i \in 1 .. Len(queue')
  BY <1>3
<1>6. Len(queue) + 1 \in 1 .. Len(queue')
  BY <1>3
<1>7. waiting' = waiting \cup {t}
  BY <1>3, <1>4, <1>5, <1>6 DEF waiting
<1>8. ASSUME t \in waiting => t \in S, Single(queue, S),
             NEW i \in 1 .. Len(queue'), NEW j \in 1 .. Len(queue'),
             queue'[i].task = queue'[j].task
      PROVE  i = j \/ queue'[i].task \in S
  <2>1. \A k \in 1 .. Len(queue) : queue[k].task = t => t \in S
    BY <1>8 DEF waiting
  <2>2. QED
    BY <1>4, <1>8, <2>1 DEF Single
<1>9. (queue = <<>>) \in BOOLEAN
  OBVIOUS
<1>10. (t \in waiting => t \in S) /\ Single(queue, S) => Single(queue', S)
  BY <1>8 DEF Single
<1>11. QED
  BY <1>1, <1>3, <1>7, <1>9, <1>10, Moved

\* Where the j-th entry was before the i-th was taken.
Before(i, j) == IF j < i THEN j ELSE j + 1

\* Taking an entry from the queue leaves the others.
LEMMA Erased ==
  ASSUME TypeOK, NEW i \in 1 .. Len(queue), queue' = Erase(queue, i), NEW S
  PROVE  /\ queue[i].task \in Task /\ queue[i].task \in waiting
         /\ queue' \in Seq([task : Task, thread : Runner \cup {AnyThread}])
         /\ waiting' \subseteq waiting /\ waiting \subseteq waiting' \cup {queue[i].task}
         /\ Single(queue, S) =>
              Single(queue', S) /\ (queue[i].task \in waiting' => queue[i].task \in S)
<1> DEFINE E == [task : Task, thread : Runner \cup {AnyThread}]
<1>1. queue \in Seq(E) /\ Len(queue) - 1 \in Nat /\ Len(queue) \in Nat
  <2>1. queue \in Seq(E)
    BY DEF TypeOK
  <2>2. QED
    BY <2>1
<1> HIDE DEF E
<1>2. \A j \in 1 .. Len(queue) : queue[j] \in E
  BY <1>1
<1>3. \A j \in 1 .. Len(queue) - 1 :
        (IF j < i THEN queue[j] ELSE queue[j + 1]) = queue[Before(i, j)]
        /\ Before(i, j) \in (1 .. Len(queue)) \ {i}
  BY <1>1 DEF Before
<1>4. /\ queue' \in Seq(E) /\ Len(queue') = Len(queue) - 1
      /\ \A j \in 1 .. Len(queue') :
           queue'[j] = queue[Before(i, j)] /\ Before(i, j) \in (1 .. Len(queue)) \ {i}
  BY <1>1, <1>2, <1>3 DEF Erase
<1>5. \A k \in (1 .. Len(queue)) \ {i} : \E j \in 1 .. Len(queue') : Before(i, j) = k
  <2>1. SUFFICES ASSUME NEW k \in (1 .. Len(queue)) \ {i}
                 PROVE  \E j \in 1 .. Len(queue') : Before(i, j) = k
    OBVIOUS
  <2>2. CASE k < i
    <3>1. k \in 1 .. Len(queue') /\ Before(i, k) = k
      BY <1>1, <1>4, <2>2 DEF Before
    <3>2. QED
      BY <3>1
  <2>3. CASE k > i
    <3>1. k - 1 \in 1 .. Len(queue') /\ Before(i, k - 1) = k
      BY <1>1, <1>4, <2>3 DEF Before
    <3>2. QED
      BY <3>1
  <2>4. QED
    <3>1. k \in Nat /\ i \in Nat /\ k # i
      BY <1>1
    <3>2. k < i \/ k > i
      BY <3>1
    <3>3. QED
      BY <2>2, <2>3, <3>2
<1>6. \A j, k \in 1 .. Len(queue') : Before(i, j) = Before(i, k) => j = k
  BY <1>1, <1>4 DEF Before
<1>7. waiting' = {queue[Before(i, j)].task : j \in 1 .. Len(queue')}
  BY <1>4 DEF waiting
<1>8. waiting' \subseteq waiting
  BY <1>4, <1>7 DEF waiting
<1>9. ASSUME NEW t \in waiting \ {queue[i].task} PROVE t \in waiting'
  <2>1. PICK k \in 1 .. Len(queue) : queue[k].task = t
    BY DEF waiting
  <2>2. PICK j \in 1 .. Len(queue') : Before(i, j) = k
    BY <1>5, <1>9, <2>1
  <2>3. QED
    BY <1>7, <2>1, <2>2
<1>10. ASSUME Single(queue, S)
       PROVE  Single(queue', S) /\ (queue[i].task \in waiting' => queue[i].task \in S)
  <2>1. Single(queue', S)
    BY <1>4, <1>6, <1>10 DEF Single
  <2>2. ASSUME queue[i].task \in waiting' PROVE queue[i].task \in S
    <3>1. PICK j \in 1 .. Len(queue') : queue[Before(i, j)].task = queue[i].task
      BY <1>7, <2>2
    <3>2. Before(i, j) \in (1 .. Len(queue)) \ {i}
      BY <1>4
    <3>3. QED
      BY <1>10, <3>1, <3>2 DEF Single
  <2>3. QED
    BY <2>1, <2>2
<1>11. queue[i].task \in Task /\ queue[i].task \in waiting
  BY <1>2 DEF E, waiting
<1>12. QED
  BY <1>4, <1>8, <1>9, <1>10, <1>11 DEF E

\* The number of threads in a set, and in one with a thread more or less.
LEMMA CountChange ==
  ASSUME NEW S \in SUBSET Runner, NEW r \in Runner
  PROVE  /\ Cardinality(S) \in 0 .. Cardinality(Runner)
         /\ r \notin S => Cardinality(S \cup {r}) = Cardinality(S) + 1
         /\ r \in S => Cardinality(S \ {r}) = Cardinality(S) - 1
<1>1. IsFiniteSet(Worker) /\ IsFiniteSet({Owner})
  BY RunnerAssumption, FS_Singleton
<1>2. IsFiniteSet(Runner)
  BY <1>1, FS_Union DEF Runner
<1>3. IsFiniteSet(S)
  BY <1>2, FS_Subset
<1>4. Cardinality(S) \in Nat /\ Cardinality(Runner) \in Nat
  BY <1>2, <1>3, FS_CardinalityType
<1>5. Cardinality(S) <= Cardinality(Runner)
  BY <1>2, FS_Subset
<1>6. r \notin S => Cardinality(S \cup {r}) = Cardinality(S) + 1
  BY <1>3, FS_AddElement
<1>7. r \in S => Cardinality(S \ {r}) = Cardinality(S) - 1
  BY <1>3, FS_RemoveElement
<1>8. QED
  BY <1>4, <1>5, <1>6, <1>7

---------------------------------------------------------------------------
\* Types, counters and hands.

TypeInv == TypeOK /\ CountInv /\ LocalInv

\* A step of one thread keeps the counters and the hands right when both
\* follow where it goes.
LEMMA ThreadStep ==
  ASSUME TypeInv, NEW r \in Runner, NEW where \in Place,
         loc' = [loc EXCEPT ![r] = where],
         \A q \in Runner \ {r} :
           /\ task'[q] = task[q] /\ cbs'[q] = cbs[q] /\ batch'[q] = batch[q]
           /\ arg'[q] = arg[q] /\ idleDone'[q] = idleDone[q],
         task'[r] # None <=> where = "task",
         cbs'[r] # {} => where = "add",
         batch'[r] # {} => where \in Dispatching,
         arg'[r] # None <=> where \in Handling,
         idleDone'[r] => where \in {"idleback", "fetch", "task", "none", "exit"},
         active' = IF where = "task" /\ loc[r] # "task" THEN active + 1
                   ELSE IF where # "task" /\ loc[r] = "task" THEN active - 1
                   ELSE active,
         idle' = IF where \in IdlePC /\ loc[r] \notin IdlePC THEN idle + 1
                 ELSE IF where \notin IdlePC /\ loc[r] \in IdlePC THEN idle - 1
                 ELSE idle
  PROVE  /\ CountInv' /\ LocalInv'
         /\ active' \in 0 .. Cardinality(Runner) /\ idle' \in 0 .. Cardinality(Runner)
<1>1. \A q \in Runner : loc'[q] = IF q = r THEN where ELSE loc[q]
  BY LocType DEF TypeInv
<1>2. LocalInv'
  BY <1>1 DEF TypeInv, LocalInv
<1>3. /\ Holders \in SUBSET Runner /\ Holders' \in SUBSET Runner
      /\ Idlers \in SUBSET Runner /\ Idlers' \in SUBSET Runner
  BY DEF Holders, Idlers
<1>4. r \in Holders <=> loc[r] = "task"
  BY DEF Holders, TypeInv, LocalInv
<1>5. Holders' = IF where = "task" THEN Holders \cup {r} ELSE Holders \ {r}
  BY DEF Holders
<1>6. active' = Cardinality(Holders') /\ active' \in 0 .. Cardinality(Runner)
  <2>1. \/ Holders' = Holders /\ active' = active
        \/ Holders' = Holders \cup {r} /\ r \notin Holders /\ active' = active + 1
        \/ Holders' = Holders \ {r} /\ r \in Holders /\ active' = active - 1
    BY <1>4, <1>5
  <2>2. active = Cardinality(Holders)
    BY DEF TypeInv, CountInv
  <2>3. /\ r \notin Holders => Cardinality(Holders \cup {r}) = Cardinality(Holders) + 1
        /\ r \in Holders => Cardinality(Holders \ {r}) = Cardinality(Holders) - 1
    BY <1>3, CountChange
  <2>4. active' = Cardinality(Holders')
    BY <2>1, <2>2, <2>3
  <2>5. Cardinality(Holders') \in 0 .. Cardinality(Runner)
    BY <1>3, CountChange
  <2>6. QED
    BY <2>4, <2>5
<1>7. r \in Idlers <=> loc[r] \in IdlePC
  BY DEF Idlers
<1>8. Idlers' = IF where \in IdlePC THEN Idlers \cup {r} ELSE Idlers \ {r}
  BY <1>1 DEF Idlers
<1>9. idle' = Cardinality(Idlers') /\ idle' \in 0 .. Cardinality(Runner)
  <2>1. \/ Idlers' = Idlers /\ idle' = idle
        \/ Idlers' = Idlers \cup {r} /\ r \notin Idlers /\ idle' = idle + 1
        \/ Idlers' = Idlers \ {r} /\ r \in Idlers /\ idle' = idle - 1
    BY <1>7, <1>8
  <2>2. idle = Cardinality(Idlers)
    BY DEF TypeInv, CountInv
  <2>3. /\ r \notin Idlers => Cardinality(Idlers \cup {r}) = Cardinality(Idlers) + 1
        /\ r \in Idlers => Cardinality(Idlers \ {r}) = Cardinality(Idlers) - 1
    BY <1>3, CountChange
  <2>4. idle' = Cardinality(Idlers')
    BY <2>1, <2>2, <2>3
  <2>5. Cardinality(Idlers') \in 0 .. Cardinality(Runner)
    BY <1>3, CountChange
  <2>6. QED
    BY <2>4, <2>5
<1>10. QED
  BY <1>2, <1>6, <1>9 DEF CountInv

\* A step that moves no thread and changes none's hands.
LEMMA NobodyMoves ==
  ASSUME TypeInv, UNCHANGED <<loc, active, idle, task, cbs, batch, arg, idleDone>>
  PROVE  CountInv' /\ LocalInv'
  BY DEF TypeInv, CountInv, LocalInv, Holders, Idlers

\* m_pendingEventCount is a size_t.
LEMMA CountRange ==
  ASSUME NEW n \in Int
  PROVE  n % Wrap \in 0 .. Wrap - 1
<1>1. Wrap \in Nat /\ Wrap > 0
  BY TaskAssumption
<1>2. n % Wrap \in Int /\ 0 <= n % Wrap /\ n % Wrap < Wrap
  BY <1>1, Z3
<1>3. QED
  BY <1>1, <1>2

\* Where a program can call from: the calling thread stays there.
LEMMA CallPlace ==
  ASSUME TypeOK, NEW a \in Runner, Calling(a)
  PROVE  /\ pc[a] \in {"task", "off"} /\ pc[a] \in Place
         /\ loc[a] = pc[a] /\ [loc EXCEPT ![a] = pc[a]] = loc
<1>1. pc[a] \in {"task", "off"}
  BY DEF Calling, At
<1>2. loc[a] = pc[a]
  BY <1>1 DEF loc
<1>3. loc \in [Runner -> Place]
  BY LocType
<1>4. [loc EXCEPT ![a] = pc[a]] = loc
  BY <1>2, <1>3
<1>5. pc[a] \in Place
  BY <1>1 DEF Place, RunPC
<1>6. QED
  BY <1>1, <1>2, <1>4, <1>5

\* A call that hands over a callback keeps the types.
LEMMA CallTypes ==
  ASSUME TypeInv, NEW a \in Runner, NEW t \in Task,
         CallAddTask(a, t) \/ CallAddTimer(a, t) \/ CallAddEvent(a, t)
  PROVE  TypeInv'
<1>1. TypeOK /\ Calling(a) /\ added' = added \cup {t} /\ t \notin added
  BY DEF TypeInv, CallAddTask, CallAddTimer, CallAddEvent, HandOver
<1>2. pc[a] \in Place /\ [loc EXCEPT ![a] = pc[a]] = loc
  BY <1>1, CallPlace
<1>3. CASE CallAddTask(a, t)
  <2>1. /\ UNCHANGED <<active, idle, pending, stopping, timers, due, events, ctx, ready, twice>>
        /\ UNCHANGED <<pipe, task, cbs, batch, arg, idleDone, done>>
        /\ AddTask(a, t, Pin[t], pc[a]) /\ Pin[t] \in Runner \cup {AnyThread}
    BY <1>3, TaskAssumption
    DEF CallAddTask, countVars, timerVars, epollVars, localVars
  <2>2. /\ queue' \in Seq([task : Task, thread : Runner \cup {AnyThread}])
        /\ pc' \in [Runner -> {"tickle"} \cup RunPC \cup IdlePC]
        /\ after' \in [Runner -> RunPC \cup IdlePC]
        /\ loc' = loc
    BY <1>1, <1>2, <2>1, Added
  <2>3. TypeOK'
    BY <1>1, <2>1, <2>2 DEF TypeOK
  <2>4. QED
    BY <2>1, <2>2, <2>3, NobodyMoves DEF TypeInv
<1>4. CASE CallAddTimer(a, t)
  <2>1. /\ UNCHANGED <<queue, active, idle, pending, stopping, due, events, ctx, ready, twice>>
        /\ UNCHANGED <<pipe, task, cbs, batch, arg, idleDone, done>>
        /\ timers' = timers \cup {t}
        /\ \E first \in BOOLEAN : TickleIf(first, a, pc[a])
    BY <1>4 DEF CallAddTimer, countVars, epollVars, localVars
  <2>2. /\ pc' \in [Runner -> {"tickle"} \cup RunPC \cup IdlePC]
        /\ after' \in [Runner -> RunPC \cup IdlePC]
        /\ loc' = loc
    BY <1>1, <1>2, <2>1, Moved
  <2>3. TypeOK'
    BY <1>1, <2>1, <2>2 DEF TypeOK
  <2>4. QED
    BY <2>1, <2>2, <2>3, NobodyMoves DEF TypeInv
<1>5. CASE CallAddEvent(a, t)
  <2>1. /\ UNCHANGED <<queue, active, idle, stopping, timers, due, ready, twice, pipe>>
        /\ UNCHANGED <<pc, after, task, cbs, batch, arg, idleDone, done>>
        /\ events' = events \cup {t} /\ ctx' = ctx \cup {t}
        /\ pending' = (pending + 1) % Wrap
    BY <1>5 DEF CallAddEvent, timerVars, placeVars, localVars
  <2>2. pending' \in 0 .. Wrap - 1
    <3>1. pending \in Int
      BY <1>1 DEF TypeOK
    <3>2. QED
      BY <2>1, <3>1, CountRange
  <2>3. loc' = loc
    BY <2>1 DEF loc
  <2>4. TypeOK'
    BY <1>1, <2>1, <2>2 DEF TypeOK
  <2>5. QED
    BY <2>1, <2>3, <2>4, NobodyMoves DEF TypeInv
<1>6. QED
  BY <1>3, <1>4, <1>5

\* Steps of the environment and of stop() keep the types.
LEMMA OtherTypes ==
  ASSUME TypeInv, EventInv,
         \/ StopCall \/ UNCHANGED vars
         \/ \E t \in Task : Expires(t) \/ Arrive(t)
         \/ \E r \in Runner : Tickle(r)
  PROVE  TypeInv'
<1>1. TypeOK
  BY DEF TypeInv
<1>2. CASE StopCall
  <2>1. /\ UNCHANGED <<queue, active, idle, pending, timers, due, events, ctx, ready, twice>>
        /\ UNCHANGED <<task, cbs, batch, arg, idleDone, added, done>>
        /\ stopping' = TRUE /\ Owner \in Runner
        /\ pc[Owner] = "off" /\ Goto(Owner, "fetch")
    BY <1>2 DEF StopCall, At, countVars, timerVars, localVars, Runner
  <2>2. pipe' \in BOOLEAN
    BY <1>2 DEF StopCall
  <2>3. /\ pc' \in [Runner -> {"tickle"} \cup RunPC \cup IdlePC]
        /\ after' \in [Runner -> RunPC \cup IdlePC]
        /\ loc' = [loc EXCEPT ![Owner] = "fetch"]
    BY <1>1, <2>1, Moved DEF Place, RunPC
  <2>4. loc[Owner] = "off"
    BY <2>1 DEF loc
  <2>5. CountInv' /\ LocalInv'
    BY <2>1, <2>3, <2>4, ThreadStep
    DEF TypeInv, LocalInv, Place, RunPC, IdlePC, Handling, Dispatching
  <2>6. TypeOK'
    BY <1>1, <2>1, <2>2, <2>3 DEF TypeOK
  <2>7. QED
    BY <2>5, <2>6 DEF TypeInv
<1>3. CASE UNCHANGED vars
  BY <1>3 DEF TypeInv, TypeOK, CountInv, LocalInv, loc, Holders, Idlers, vars, countVars,
              timerVars, epollVars, placeVars, localVars
<1>4. ASSUME NEW t \in Task, Expires(t) \/ Arrive(t) PROVE TypeInv'
  <2>1. /\ UNCHANGED <<queue, active, idle, pending, stopping, timers, events, ctx, pipe>>
        /\ UNCHANGED <<pc, after, task, cbs, batch, arg, idleDone, added, done>>
        /\ due' \subseteq timers /\ ready' \subseteq events
        /\ twice' = twice \/ (twice' = twice \cup {t} /\ t \in events)
    BY <1>1, <1>4 DEF Expires, Arrive, TypeOK, countVars, timerVars, epollVars,
                      placeVars, localVars
  <2>2. TypeOK'
    BY <1>1, <2>1 DEF TypeOK, EventInv
  <2>3. QED
    BY <2>1, <2>2, NobodyMoves DEF TypeInv, loc
<1>5. ASSUME NEW r \in Runner, Tickle(r) PROVE TypeInv'
  <2>1. /\ UNCHANGED <<queue, active, idle, pending, stopping, timers, due, events, ctx, ready, twice>>
        /\ UNCHANGED <<task, cbs, batch, arg, idleDone, added, done>>
        /\ pc[r] = "tickle" /\ pc' = [pc EXCEPT ![r] = after[r]]
        /\ after' = [after EXCEPT ![r] = "off"]
    BY <1>5 DEF Tickle, At, countVars, timerVars, localVars
  <2>2. pipe' \in BOOLEAN
    BY <1>5 DEF Tickle
  <2>3. /\ pc' \in [Runner -> {"tickle"} \cup RunPC \cup IdlePC]
        /\ after' \in [Runner -> RunPC \cup IdlePC]
    BY <1>1, <2>1 DEF TypeOK, RunPC
  <2>4. after[r] # "tickle"
    BY <1>1 DEF TypeOK, RunPC, IdlePC
  <2>5. loc' = loc
    BY <1>1, <2>1, <2>4 DEF loc, TypeOK
  <2>6. TypeOK'
    BY <1>1, <2>1, <2>2, <2>3 DEF TypeOK
  <2>7. QED
    BY <2>1, <2>5, <2>6, NobodyMoves DEF TypeInv
<1>6. QED
  BY <1>2, <1>3, <1>4, <1>5

\* Steps of run() keep the types.
LEMMA RunTypes ==
  ASSUME TypeInv, PlaceInv, NEW r \in Runner,
         \/ Fetch(r) \/ FetchNothing(r) \/ Finish(r) \/ GoIdle(r)
         \/ IdleBack(r) \/ Exit(r)
  PROVE  TypeInv'
<1>1. TypeOK /\ LocalInv
  BY DEF TypeInv
<1>2. CASE Fetch(r)
  <2>1. /\ UNCHANGED <<idle, pending, stopping, timers, due, events, ctx, ready, twice, pipe>>
        /\ UNCHANGED <<cbs, batch, arg, idleDone, added, done>>
        /\ pc[r] = "fetch" /\ TickleIf(Len(queue) > 1, r, "task")
        /\ active' = active + 1
    BY <1>2 DEF Fetch, At, timerVars, epollVars, localVars
  <2>2. PICK i \in 1 .. Len(queue) :
          task' = [task EXCEPT ![r] = queue[i].task] /\ queue' = Erase(queue, i)
    BY <1>2 DEF Fetch
  <2>3. /\ queue[i].task \in Task
        /\ queue' \in Seq([task : Task, thread : Runner \cup {AnyThread}])
    BY <1>1, <2>2, Erased
  <2>4. (Len(queue) > 1) \in BOOLEAN /\ "task" \in Place
    BY DEF Place, RunPC
  <2>5. /\ pc' \in [Runner -> {"tickle"} \cup RunPC \cup IdlePC]
        /\ after' \in [Runner -> RunPC \cup IdlePC]
        /\ loc' = [loc EXCEPT ![r] = "task"]
    BY <1>1, <2>1, <2>4, Moved
  <2>6. loc[r] = "fetch"
    BY <2>1 DEF loc
  <2>7. /\ task' \in [Runner -> Task \cup {None}]
        /\ \A q \in Runner : task'[q] = IF q = r THEN queue[i].task ELSE task[q]
    BY <1>1, <2>2, <2>3 DEF TypeOK
  <2>8. task'[r] # None
    BY <2>3, <2>7, TaskAssumption
  <2>9. /\ CountInv' /\ LocalInv'
        /\ active' \in 0 .. Cardinality(Runner) /\ idle' \in 0 .. Cardinality(Runner)
    BY <1>1, <2>1, <2>4, <2>5, <2>6, <2>7, <2>8, ThreadStep
    DEF LocalInv, IdlePC, Handling, Dispatching
  <2>10. TypeOK'
    BY <1>1, <2>1, <2>3, <2>5, <2>7, <2>9 DEF TypeOK
  <2>11. QED
    BY <2>9, <2>10 DEF TypeInv
<1>3. CASE FetchNothing(r)
  <2>1. /\ UNCHANGED <<queue, active, idle, pending, stopping, timers, due, events>>
        /\ UNCHANGED <<ctx, ready, twice, pipe, task, cbs, batch, arg, idleDone, added, done>>
        /\ pc[r] = "fetch" /\ TickleIf(queue # <<>>, r, "none")
    BY <1>3 DEF FetchNothing, At, countVars, timerVars, epollVars, localVars
  <2>2. (queue # <<>>) \in BOOLEAN /\ "none" \in Place
    BY DEF Place, RunPC
  <2>3. /\ pc' \in [Runner -> {"tickle"} \cup RunPC \cup IdlePC]
        /\ after' \in [Runner -> RunPC \cup IdlePC]
        /\ loc' = [loc EXCEPT ![r] = "none"]
    BY <1>1, <2>1, <2>2, Moved
  <2>4. loc[r] = "fetch"
    BY <2>1 DEF loc
  <2>5. CountInv' /\ LocalInv'
    BY <1>1, <2>1, <2>2, <2>3, <2>4, ThreadStep
    DEF LocalInv, IdlePC, Handling, Dispatching
  <2>6. TypeOK'
    BY <1>1, <2>1, <2>3 DEF TypeOK
  <2>7. QED
    BY <2>5, <2>6 DEF TypeInv
<1>4. CASE Finish(r)
  <2>1. /\ UNCHANGED <<queue, idle, pending, stopping, timers, due, events, ctx, ready, twice>>
        /\ UNCHANGED <<pipe, cbs, batch, arg, idleDone, added>>
        /\ pc[r] = "task" /\ Goto(r, "fetch") /\ active' = active - 1
        /\ task' = [task EXCEPT ![r] = None] /\ done' = done \cup {task[r]}
    BY <1>4 DEF Finish, Unoccupy, At, timerVars, epollVars, localVars
  <2>2. "fetch" \in Place
    BY DEF Place, RunPC
  <2>3. /\ pc' \in [Runner -> {"tickle"} \cup RunPC \cup IdlePC]
        /\ after' \in [Runner -> RunPC \cup IdlePC]
        /\ loc' = [loc EXCEPT ![r] = "fetch"]
    BY <1>1, <2>1, <2>2, Moved
  <2>4. loc[r] = "task"
    BY <2>1 DEF loc
  <2>5. /\ task' \in [Runner -> Task \cup {None}]
        /\ \A q \in Runner : task'[q] = IF q = r THEN None ELSE task[q]
    BY <1>1, <2>1 DEF TypeOK
  <2>6. /\ CountInv' /\ LocalInv'
        /\ active' \in 0 .. Cardinality(Runner) /\ idle' \in 0 .. Cardinality(Runner)
    BY <1>1, <2>1, <2>2, <2>3, <2>4, <2>5, ThreadStep
    DEF LocalInv, IdlePC, Handling, Dispatching
  <2>7. done' \subseteq added
    <3>1. task[r] \in hands[r] /\ hands[r] \subseteq added
      BY <1>1, <2>4 DEF LocalInv, PlaceInv, PlacesOf, hands
    <3>2. QED
      BY <1>1, <2>1, <3>1 DEF TypeOK
  <2>8. TypeOK'
    BY <1>1, <2>1, <2>3, <2>5, <2>6, <2>7 DEF TypeOK
  <2>9. QED
    BY <2>6, <2>8 DEF TypeInv
<1>5. CASE GoIdle(r)
  <2>1. /\ UNCHANGED <<queue, active, pending, stopping, timers, due, events, ctx, ready, twice>>
        /\ UNCHANGED <<pipe, task, cbs, batch, arg, idleDone, added, done>>
        /\ pc[r] = "none" /\ Goto(r, "count") /\ idle' = idle + 1 /\ ~idleDone[r]
    BY <1>5 DEF GoIdle, At, timerVars, epollVars, localVars
  <2>2. "count" \in Place
    BY DEF Place, IdlePC
  <2>3. /\ pc' \in [Runner -> {"tickle"} \cup RunPC \cup IdlePC]
        /\ after' \in [Runner -> RunPC \cup IdlePC]
        /\ loc' = [loc EXCEPT ![r] = "count"]
    BY <1>1, <2>1, <2>2, Moved
  <2>4. loc[r] = "none"
    BY <2>1 DEF loc
  <2>5. /\ CountInv' /\ LocalInv'
        /\ active' \in 0 .. Cardinality(Runner) /\ idle' \in 0 .. Cardinality(Runner)
    BY <1>1, <2>1, <2>2, <2>3, <2>4, ThreadStep
    DEF LocalInv, IdlePC, Handling, Dispatching
  <2>6. TypeOK'
    BY <1>1, <2>1, <2>3, <2>5 DEF TypeOK
  <2>7. QED
    BY <2>5, <2>6 DEF TypeInv
<1>6. CASE IdleBack(r)
  <2>1. /\ UNCHANGED <<queue, active, pending, stopping, timers, due, events, ctx, ready, twice>>
        /\ UNCHANGED <<pipe, task, cbs, batch, arg, idleDone, added, done>>
        /\ pc[r] = "idleback" /\ Goto(r, "fetch") /\ idle' = idle - 1
    BY <1>6 DEF IdleBack, At, timerVars, epollVars, localVars
  <2>2. "fetch" \in Place
    BY DEF Place, RunPC
  <2>3. /\ pc' \in [Runner -> {"tickle"} \cup RunPC \cup IdlePC]
        /\ after' \in [Runner -> RunPC \cup IdlePC]
        /\ loc' = [loc EXCEPT ![r] = "fetch"]
    BY <1>1, <2>1, <2>2, Moved
  <2>4. loc[r] = "idleback"
    BY <2>1 DEF loc
  <2>5. /\ CountInv' /\ LocalInv'
        /\ active' \in 0 .. Cardinality(Runner) /\ idle' \in 0 .. Cardinality(Runner)
    BY <1>1, <2>1, <2>2, <2>3, <2>4, ThreadStep
    DEF LocalInv, IdlePC, Handling, Dispatching
  <2>6. TypeOK'
    BY <1>1, <2>1, <2>3, <2>5 DEF TypeOK
  <2>7. QED
    BY <2>5, <2>6 DEF TypeInv
<1>7. CASE Exit(r)
  <2>1. /\ UNCHANGED <<queue, active, idle, pending, stopping, timers, due, events>>
        /\ UNCHANGED <<ctx, ready, twice, pipe, task, cbs, batch, arg, idleDone, added, done>>
        /\ pc[r] = "none" /\ Goto(r, "exit")
    BY <1>7 DEF Exit, At, countVars, timerVars, epollVars, localVars
  <2>2. "exit" \in Place
    BY DEF Place, RunPC
  <2>3. /\ pc' \in [Runner -> {"tickle"} \cup RunPC \cup IdlePC]
        /\ after' \in [Runner -> RunPC \cup IdlePC]
        /\ loc' = [loc EXCEPT ![r] = "exit"]
    BY <1>1, <2>1, <2>2, Moved
  <2>4. loc[r] = "none"
    BY <2>1 DEF loc
  <2>5. CountInv' /\ LocalInv'
    BY <1>1, <2>1, <2>2, <2>3, <2>4, ThreadStep
    DEF LocalInv, IdlePC, Handling, Dispatching
  <2>6. TypeOK'
    BY <1>1, <2>1, <2>3 DEF TypeOK
  <2>7. QED
    BY <2>5, <2>6 DEF TypeInv
<1>8. QED
  BY <1>2, <1>3, <1>4, <1>5, <1>6, <1>7

\* Steps of idle() keep the types.
LEMMA IdleTypes ==
  ASSUME TypeInv, EventInv, NEW r \in Runner, IdleStep(r)
  PROVE  TypeInv'
<1>1. TypeOK /\ LocalInv
  BY DEF TypeInv
<1>2. CASE Stopping(r)
  <2>1. PICK cond \in BOOLEAN, from \in {"count", "sched", "timers"},
             to \in {"sched", "timers", "idleback"} : Read(r, from, cond, to)
    <3>1. (pending = 0) \in BOOLEAN /\ CanStop \in BOOLEAN /\ (timers = {}) \in BOOLEAN
      BY DEF CanStop
    <3>2. QED
      BY <1>2, <3>1 DEF Stopping
  <2> DEFINE where == IF cond THEN to ELSE "asleep"
  <2>2. /\ UNCHANGED <<queue, active, idle, pending, stopping, timers, due, events>>
        /\ UNCHANGED <<ctx, ready, twice, pipe, task, cbs, batch, arg, added, done>>
        /\ pc[r] \in {"count", "sched", "timers"} /\ Goto(r, where)
        /\ idleDone' = [idleDone EXCEPT ![r] = cond /\ to = "idleback"]
    BY <2>1 DEF Read, At, countVars, timerVars, epollVars, localVars
  <2>3. where \in {"sched", "timers", "idleback", "asleep"}
    OBVIOUS
  <2>4. where \in Place
    BY <2>3 DEF Place, IdlePC
  <2>5. cond /\ to = "idleback" => where = "idleback"
    OBVIOUS
  <2>6. /\ idleDone' \in [Runner -> BOOLEAN]
        /\ \A q \in Runner \ {r} : idleDone'[q] = idleDone[q]
    <3>1. (cond /\ to = "idleback") \in BOOLEAN /\ idleDone \in [Runner -> BOOLEAN]
      BY <1>1 DEF TypeOK
    <3> HIDE DEF where
    <3>2. QED
      BY <2>2, <3>1
  <2>7. idleDone'[r] => where = "idleback"
    <3>1. idleDone'[r] = (cond /\ to = "idleback")
      BY <1>1, <2>2 DEF TypeOK
    <3>2. QED
      BY <2>5, <3>1
  <2> HIDE DEF where
  <2>8. /\ pc' \in [Runner -> {"tickle"} \cup RunPC \cup IdlePC]
        /\ after' \in [Runner -> RunPC \cup IdlePC]
        /\ loc' = [loc EXCEPT ![r] = where]
    BY <1>1, <2>2, <2>4, Moved
  <2>9. loc[r] \in {"count", "sched", "timers"}
    BY <2>2 DEF loc
  <2>10. /\ task[r] = None /\ cbs[r] = {} /\ batch[r] = {} /\ arg[r] = None
         /\ loc[r] \in IdlePC /\ loc[r] # "task"
         /\ where \in IdlePC /\ where # "task" /\ where \notin Handling
    BY <1>1, <2>3, <2>9 DEF LocalInv, IdlePC, Handling, Dispatching
  <2>11. CountInv' /\ LocalInv'
    BY <2>2, <2>4, <2>6, <2>7, <2>8, <2>10, ThreadStep
  <2>12. TypeOK'
    BY <1>1, <2>2, <2>6, <2>8 DEF TypeOK
  <2>13. QED
    BY <2>11, <2>12 DEF TypeInv
<1>3. CASE Wake(r)
  <2>1. /\ UNCHANGED <<queue, active, idle, pending, stopping, timers, due, events>>
        /\ UNCHANGED <<ctx, twice, task, cbs, arg, idleDone, added, done>>
        /\ pc[r] = "asleep" /\ Goto(r, "expire") /\ pipe' = FALSE /\ ready' = {}
        /\ batch' = [batch EXCEPT ![r] = ready]
    BY <1>3 DEF Wake, Reported, At, countVars, timerVars
  <2>2. "expire" \in Place
    BY DEF Place, IdlePC
  <2>3. /\ pc' \in [Runner -> {"tickle"} \cup RunPC \cup IdlePC]
        /\ after' \in [Runner -> RunPC \cup IdlePC]
        /\ loc' = [loc EXCEPT ![r] = "expire"]
    BY <1>1, <2>1, <2>2, Moved
  <2>4. loc[r] = "asleep"
    BY <2>1 DEF loc
  <2>5. /\ batch' \in [Runner -> SUBSET Task]
        /\ \A q \in Runner \ {r} : batch'[q] = batch[q]
    <3>1. ready \subseteq Task /\ batch \in [Runner -> SUBSET Task]
      BY <1>1 DEF TypeOK
    <3>2. QED
      BY <2>1, <3>1
  <2>6. CountInv' /\ LocalInv'
    BY <1>1, <2>1, <2>2, <2>3, <2>4, <2>5, ThreadStep
    DEF LocalInv, IdlePC, Handling, Dispatching
  <2>7. TypeOK'
    BY <1>1, <2>1, <2>3, <2>5 DEF TypeOK
  <2>8. QED
    BY <2>6, <2>7 DEF TypeInv
<1>4. CASE Expire(r)
  <2>1. /\ UNCHANGED <<queue, active, idle, pending, stopping, events, ctx, ready, twice, pipe>>
        /\ UNCHANGED <<task, batch, arg, idleDone, added, done>>
        /\ pc[r] = "expire" /\ Goto(r, "add") /\ timers' = timers \ due /\ due' = {}
        /\ cbs' = [cbs EXCEPT ![r] = due]
    BY <1>4 DEF Expire, At, countVars, epollVars
  <2>2. "add" \in Place
    BY DEF Place, IdlePC
  <2>3. /\ pc' \in [Runner -> {"tickle"} \cup RunPC \cup IdlePC]
        /\ after' \in [Runner -> RunPC \cup IdlePC]
        /\ loc' = [loc EXCEPT ![r] = "add"]
    BY <1>1, <2>1, <2>2, Moved
  <2>4. loc[r] = "expire"
    BY <2>1 DEF loc
  <2>5. /\ cbs' \in [Runner -> SUBSET Task]
        /\ \A q \in Runner \ {r} : cbs'[q] = cbs[q]
    <3>1. due \subseteq Task /\ cbs \in [Runner -> SUBSET Task]
      BY <1>1 DEF TypeOK
    <3>2. QED
      BY <2>1, <3>1
  <2>6. CountInv' /\ LocalInv'
    BY <1>1, <2>1, <2>2, <2>3, <2>4, <2>5, ThreadStep
    DEF LocalInv, IdlePC, Handling, Dispatching
  <2>7. TypeOK'
    BY <1>1, <2>1, <2>3, <2>5 DEF TypeOK
  <2>8. QED
    BY <2>6, <2>7 DEF TypeInv
<1>5. CASE AddExpired(r)
  <2>1. /\ UNCHANGED <<active, idle, pending, stopping, timers, due, events, ctx, ready, twice>>
        /\ UNCHANGED <<pipe, task, batch, arg, idleDone, added, done>>
        /\ pc[r] = "add"
    BY <1>5 DEF AddExpired, At, countVars, timerVars, epollVars
  <2>2. loc[r] = "add" /\ "add" \in Place /\ "dispatch" \in Place
    BY <2>1 DEF loc, Place, IdlePC
  <2>3. ASSUME NEW t \in cbs[r], cbs' = [cbs EXCEPT ![r] = @ \ {t}],
               AddTask(r, t, AnyThread, "add")
        PROVE  TypeInv'
    <3>1. t \in Task /\ AnyThread \in Runner \cup {AnyThread}
      BY <1>1 DEF TypeOK
    <3>2. /\ queue' \in Seq([task : Task, thread : Runner \cup {AnyThread}])
          /\ pc' \in [Runner -> {"tickle"} \cup RunPC \cup IdlePC]
          /\ after' \in [Runner -> RunPC \cup IdlePC]
          /\ loc' = [loc EXCEPT ![r] = "add"]
      BY <1>1, <2>2, <2>3, <3>1, Added
    <3>3. /\ cbs' \in [Runner -> SUBSET Task]
          /\ \A q \in Runner \ {r} : cbs'[q] = cbs[q]
      <4>1. cbs[r] \ {t} \subseteq Task /\ cbs \in [Runner -> SUBSET Task]
        BY <1>1 DEF TypeOK
      <4>2. QED
        BY <2>3, <4>1
    <3>4. CountInv' /\ LocalInv'
      BY <1>1, <2>1, <2>2, <3>2, <3>3, ThreadStep
    DEF LocalInv, IdlePC, Handling, Dispatching
    <3>5. TypeOK'
      BY <1>1, <2>1, <3>2, <3>3 DEF TypeOK
    <3>6. QED
      BY <3>4, <3>5 DEF TypeInv
  <2>4. ASSUME cbs[r] = {}, Goto(r, "dispatch"), UNCHANGED <<queue, cbs>> PROVE TypeInv'
    <3>1. /\ pc' \in [Runner -> {"tickle"} \cup RunPC \cup IdlePC]
          /\ after' \in [Runner -> RunPC \cup IdlePC]
          /\ loc' = [loc EXCEPT ![r] = "dispatch"]
      BY <1>1, <2>2, <2>4, Moved
    <3>2. CountInv' /\ LocalInv'
      BY <1>1, <2>1, <2>2, <2>4, <3>1, ThreadStep
    DEF LocalInv, IdlePC, Handling, Dispatching
    <3>3. TypeOK'
      BY <1>1, <2>1, <2>4, <3>1 DEF TypeOK
    <3>4. QED
      BY <3>2, <3>3 DEF TypeInv
  <2>5. QED
    BY <1>5, <2>3, <2>4 DEF AddExpired
<1>6. CASE Look(r)
  <2>1. /\ UNCHANGED <<queue, active, idle, pending, stopping, timers, due, events, ctx>>
        /\ UNCHANGED <<ready, twice, pipe, task, cbs, idleDone, added, done>>
        /\ pc[r] = "dispatch"
    BY <1>6 DEF Look, At, countVars, timerVars, epollVars
  <2>2. loc[r] = "dispatch" /\ {"trigger", "dispatch", "idleback"} \subseteq Place
    BY <2>1 DEF loc, Place, IdlePC
  <2>3. task[r] = None /\ cbs[r] = {} /\ ~idleDone[r] /\ arg[r] = None
    BY <1>1, <2>2 DEF LocalInv, Handling
  <2>4. ASSUME NEW t \in batch[r], batch' = [batch EXCEPT ![r] = @ \ {t}]
        PROVE  /\ t \in Task
               /\ batch' \in [Runner -> SUBSET Task]
               /\ \A q \in Runner \ {r} : batch'[q] = batch[q]
    <3>1. batch[r] \ {t} \subseteq Task /\ batch \in [Runner -> SUBSET Task] /\ t \in Task
      BY <1>1 DEF TypeOK
    <3>2. QED
      BY <2>4, <3>1
  <2>5. ASSUME NEW t \in batch[r], batch' = [batch EXCEPT ![r] = @ \ {t}],
               arg' = [arg EXCEPT ![r] = t], Goto(r, "trigger")
        PROVE  TypeInv'
    <3>1. /\ pc' \in [Runner -> {"tickle"} \cup RunPC \cup IdlePC]
          /\ after' \in [Runner -> RunPC \cup IdlePC]
          /\ loc' = [loc EXCEPT ![r] = "trigger"]
      BY <1>1, <2>2, <2>5, Moved
    <3>2. /\ arg' \in [Runner -> Task \cup {None}]
          /\ \A q \in Runner \ {r} : arg'[q] = arg[q]
          /\ arg'[r] # None
      BY <1>1, <2>4, <2>5, TaskAssumption DEF TypeOK
    <3>3. CountInv' /\ LocalInv'
      BY <2>1, <2>2, <2>3, <2>4, <2>5, <3>1, <3>2, ThreadStep
      DEF IdlePC, Handling, Dispatching
    <3>4. TypeOK'
      BY <1>1, <2>1, <2>4, <2>5, <3>1, <3>2 DEF TypeOK
    <3>5. QED
      BY <3>3, <3>4 DEF TypeInv
  <2>6. ASSUME NEW t \in batch[r], batch' = [batch EXCEPT ![r] = @ \ {t}],
               UNCHANGED <<pc, after, arg>>
        PROVE  TypeInv'
    <3>1. loc' = [loc EXCEPT ![r] = "dispatch"]
      BY <1>1, <2>2, <2>6, LocType DEF loc
    <3>2. CountInv' /\ LocalInv'
      BY <2>1, <2>2, <2>3, <2>4, <2>6, <3>1, ThreadStep DEF IdlePC, Handling, Dispatching
    <3>3. TypeOK'
      BY <1>1, <2>1, <2>4, <2>6 DEF TypeOK
    <3>4. QED
      BY <3>2, <3>3 DEF TypeInv
  <2>7. ASSUME batch[r] = {}, Goto(r, "idleback"), UNCHANGED <<batch, arg>> PROVE TypeInv'
    <3>1. /\ pc' \in [Runner -> {"tickle"} \cup RunPC \cup IdlePC]
          /\ after' \in [Runner -> RunPC \cup IdlePC]
          /\ loc' = [loc EXCEPT ![r] = "idleback"]
      BY <1>1, <2>2, <2>7, Moved
    <3>2. CountInv' /\ LocalInv'
      BY <1>1, <2>1, <2>2, <2>3, <2>7, <3>1, ThreadStep DEF IdlePC, Handling
    <3>3. TypeOK'
      BY <1>1, <2>1, <2>7, <3>1 DEF TypeOK
    <3>4. QED
      BY <3>2, <3>3 DEF TypeInv
  <2>8. QED
    BY <1>6, <2>5, <2>6, <2>7 DEF Look, placeVars
<1>7. CASE Trigger(r)
  <2>1. /\ UNCHANGED <<active, idle, pending, stopping, timers, due, events, ctx, ready>>
        /\ UNCHANGED <<twice, pipe, task, cbs, batch, arg, idleDone, added, done>>
        /\ pc[r] = "trigger"
    BY <1>7 DEF Trigger, At, countVars, timerVars, epollVars, localVars
  <2>2. /\ loc[r] = "trigger" /\ {"clear", "failed"} \subseteq Place \cap Handling \cap IdlePC
        /\ Handling \subseteq Dispatching /\ "trigger" \in Handling \cap IdlePC
    BY <2>1 DEF loc, Place, IdlePC, Handling, Dispatching
  <2>3. /\ queue' \in Seq([task : Task, thread : Runner \cup {AnyThread}])
        /\ pc' \in [Runner -> {"tickle"} \cup RunPC \cup IdlePC]
        /\ after' \in [Runner -> RunPC \cup IdlePC]
        /\ \E where \in {"clear", "failed"} : loc' = [loc EXCEPT ![r] = where]
    <3>1. CASE arg[r] \in events \cap ctx
      <4>1. AddTask(r, arg[r], AnyThread, "clear") /\ arg[r] \in Task
        BY <1>1, <1>7, <3>1 DEF Trigger, TypeOK
      <4>2. QED
        BY <1>1, <2>2, <4>1, Added
    <3>2. CASE arg[r] \notin events \cap ctx
      <4>1. Goto(r, "failed") /\ UNCHANGED queue
        BY <1>7, <3>2 DEF Trigger
      <4>2. /\ pc' \in [Runner -> {"tickle"} \cup RunPC \cup IdlePC]
            /\ after' \in [Runner -> RunPC \cup IdlePC]
            /\ loc' = [loc EXCEPT ![r] = "failed"]
        BY <1>1, <2>2, <4>1, Moved
      <4>3. QED
        BY <1>1, <4>1, <4>2 DEF TypeOK
    <3>3. QED
      BY <3>1, <3>2
  <2>4. PICK where \in {"clear", "failed"} : loc' = [loc EXCEPT ![r] = where]
    BY <2>3
  <2>5. /\ where \in Place /\ where \in IdlePC /\ where \in Handling /\ where # "task"
        /\ where # "add" /\ where \in Dispatching
    BY <2>2, <2>4
  <2>6. task[r] = None /\ cbs[r] = {} /\ ~idleDone[r] /\ arg[r] # None
    BY <1>1, <2>2 DEF LocalInv
  <2>7. CountInv' /\ LocalInv'
    BY <2>1, <2>2, <2>4, <2>5, <2>6, ThreadStep
  <2>8. TypeOK'
    BY <1>1, <2>1, <2>3 DEF TypeOK
  <2>9. QED
    BY <2>7, <2>8 DEF TypeInv
<1>8. CASE Clear(r)
  <2>1. /\ UNCHANGED <<queue, active, idle, pending, stopping, timers, due, events, ready>>
        /\ UNCHANGED <<twice, pipe, task, cbs, batch, arg, idleDone, added, done>>
        /\ pc[r] = "clear" /\ Goto(r, "del") /\ ctx' = ctx \ {arg[r]}
    BY <1>8 DEF Clear, At, countVars, timerVars, localVars
  <2>2. "del" \in Place
    BY DEF Place, IdlePC
  <2>3. /\ pc' \in [Runner -> {"tickle"} \cup RunPC \cup IdlePC]
        /\ after' \in [Runner -> RunPC \cup IdlePC]
        /\ loc' = [loc EXCEPT ![r] = "del"]
    BY <1>1, <2>1, <2>2, Moved
  <2>4. loc[r] = "clear"
    BY <2>1 DEF loc
  <2>5. CountInv' /\ LocalInv'
    BY <1>1, <2>1, <2>2, <2>3, <2>4, ThreadStep DEF LocalInv, IdlePC, Handling, Dispatching
  <2>6. TypeOK'
    BY <1>1, <2>1, <2>3 DEF TypeOK
  <2>7. QED
    BY <2>5, <2>6 DEF TypeInv
<1>9. CASE Del(r)
  <2>1. /\ UNCHANGED <<queue, active, idle, stopping, timers, due, twice, pipe>>
        /\ UNCHANGED <<task, cbs, batch, arg, idleDone, added, done>>
        /\ pc[r] = "del" /\ Goto(r, "again")
        /\ \/ /\ events' = events \ {arg[r]} /\ ready' = ready \ {arg[r]}
              /\ ctx' = ctx \ {arg[r]} /\ pending' = (pending - 1) % Wrap
           \/ UNCHANGED <<events, ready, ctx, pending>>
    BY <1>9 DEF Del, Uncount, At, timerVars, localVars
  <2>2. "again" \in Place
    BY DEF Place, IdlePC
  <2>3. /\ pc' \in [Runner -> {"tickle"} \cup RunPC \cup IdlePC]
        /\ after' \in [Runner -> RunPC \cup IdlePC]
        /\ loc' = [loc EXCEPT ![r] = "again"]
    BY <1>1, <2>1, <2>2, Moved
  <2>4. loc[r] = "del"
    BY <2>1 DEF loc
  <2>5. CountInv' /\ LocalInv'
    BY <1>1, <2>1, <2>2, <2>3, <2>4, ThreadStep DEF LocalInv, IdlePC, Handling, Dispatching
  <2>6. pending' \in 0 .. Wrap - 1
    <3>1. pending - 1 \in Int /\ pending \in 0 .. Wrap - 1
      BY <1>1 DEF TypeOK
    <3>2. QED
      BY <2>1, <3>1, CountRange
  <2>7. /\ events' \subseteq added /\ ctx' \subseteq events' /\ ready' \subseteq events'
    BY <1>1, <2>1 DEF TypeOK
  <2>8. TypeOK'
    BY <1>1, <2>1, <2>3, <2>6, <2>7 DEF TypeOK
  <2>9. QED
    BY <2>5, <2>8 DEF TypeInv
<1>10. CASE Again(r)
  <2>1. /\ UNCHANGED <<queue, active, idle, stopping, timers, due, events, ctx, ready, twice>>
        /\ UNCHANGED <<pipe, task, cbs, batch, idleDone, added, done>>
        /\ pc[r] = "again" /\ Goto(r, "dispatch") /\ arg' = [arg EXCEPT ![r] = None]
        /\ pending' = (pending - 1) % Wrap
    BY <1>10 DEF Again, Uncount, At, timerVars, epollVars
  <2>2. "dispatch" \in Place
    BY DEF Place, IdlePC
  <2>3. /\ pc' \in [Runner -> {"tickle"} \cup RunPC \cup IdlePC]
        /\ after' \in [Runner -> RunPC \cup IdlePC]
        /\ loc' = [loc EXCEPT ![r] = "dispatch"]
    BY <1>1, <2>1, <2>2, Moved
  <2>4. loc[r] = "again"
    BY <2>1 DEF loc
  <2>5. /\ arg' \in [Runner -> Task \cup {None}] /\ arg'[r] = None
        /\ \A q \in Runner \ {r} : arg'[q] = arg[q]
    BY <1>1, <2>1 DEF TypeOK
  <2>6. CountInv' /\ LocalInv'
    BY <1>1, <2>1, <2>2, <2>3, <2>4, <2>5, ThreadStep
    DEF LocalInv, IdlePC, Handling, Dispatching
  <2>7. pending' \in 0 .. Wrap - 1
    <3>1. pending - 1 \in Int
      BY <1>1 DEF TypeOK
    <3>2. QED
      BY <2>1, <3>1, CountRange
  <2>8. TypeOK'
    BY <1>1, <2>1, <2>3, <2>5, <2>7 DEF TypeOK
  <2>9. QED
    BY <2>6, <2>8 DEF TypeInv
<1>11. QED
  BY <1>2, <1>3, <1>4, <1>5, <1>6, <1>7, <1>8, <1>9, <1>10 DEF IdleStep

\* Every step keeps the types, the counters and what the threads hold.
LEMMA TypeNext ==
  ASSUME TypeInv, EventInv, PlaceInv, [Next]_vars
  PROVE  TypeInv'
<1>1. CASE \E a \in Runner, t \in Task :
             CallAddTask(a, t) \/ CallAddTimer(a, t) \/ CallAddEvent(a, t)
  BY <1>1, CallTypes
<1>2. CASE \/ StopCall \/ UNCHANGED vars
           \/ \E t \in Task : Expires(t) \/ Arrive(t)
           \/ \E r \in Runner : Tickle(r)
  BY <1>2, OtherTypes
<1>3. CASE \E r \in Runner : \/ Fetch(r) \/ FetchNothing(r) \/ Finish(r) \/ GoIdle(r)
                             \/ IdleBack(r) \/ Exit(r)
  BY <1>3, RunTypes
<1>4. CASE \E r \in Runner : IdleStep(r)
  BY <1>4, IdleTypes
<1>5. QED
  BY <1>1, <1>2, <1>3, <1>4 DEF Next, Call, RunStep, Terminated

---------------------------------------------------------------------------
\* Events.

\* Nobody moves when the program calls, stops the manager, or time passes,
\* except the owner, which enters run().
LEMMA Staying ==
  ASSUME TypeOK,
         \/ \E a \in Runner : Call(a)
         \/ StopCall \/ UNCHANGED vars
         \/ \E t \in Task : Expires(t) \/ Arrive(t)
  PROVE  /\ \A q \in Runner : loc'[q] # loc[q] => loc[q] = "off" /\ loc'[q] = "fetch"
         /\ UNCHANGED <<cbs, batch, arg, idleDone, task, done>>
<1>1. ASSUME NEW a \in Runner, Call(a)
      PROVE  loc' = loc /\ UNCHANGED <<cbs, batch, arg, idleDone, task, done>>
  <2>1. PICK t \in Task : CallAddTask(a, t) \/ CallAddTimer(a, t) \/ CallAddEvent(a, t)
    BY <1>1 DEF Call
  <2>2. UNCHANGED <<cbs, batch, arg, idleDone, task, done>> /\ Calling(a)
    BY <2>1 DEF CallAddTask, CallAddTimer, CallAddEvent, localVars
  <2>3. pc[a] \in Place /\ [loc EXCEPT ![a] = pc[a]] = loc
    BY <2>2, CallPlace
  <2>4. CASE CallAddTask(a, t)
    <3>1. AddTask(a, t, Pin[t], pc[a]) /\ Pin[t] \in Runner \cup {AnyThread}
      BY <2>4, TaskAssumption DEF CallAddTask
    <3>2. QED
      BY <2>2, <2>3, <3>1, Added
  <2>5. CASE CallAddTimer(a, t)
    <3>1. \E first \in BOOLEAN : TickleIf(first, a, pc[a])
      BY <2>5 DEF CallAddTimer
    <3>2. QED
      BY <2>2, <2>3, <3>1, Moved
  <2>6. CASE CallAddEvent(a, t)
    BY <2>2, <2>6 DEF CallAddEvent, placeVars, loc
  <2>7. QED
    BY <2>1, <2>4, <2>5, <2>6
<1>2. CASE StopCall
  <2>1. pc[Owner] = "off" /\ Owner \in Runner /\ Goto(Owner, "fetch") /\ "fetch" \in Place
    BY <1>2 DEF StopCall, At, Runner, Place, RunPC
  <2>2. loc' = [loc EXCEPT ![Owner] = "fetch"] /\ loc[Owner] = "off"
    BY <2>1, Moved DEF loc
  <2>3. \A q \in Runner : loc'[q] = IF q = Owner THEN "fetch" ELSE loc[q]
    BY <2>2, LocType
  <2>4. UNCHANGED <<cbs, batch, arg, idleDone, task, done>>
    BY <1>2 DEF StopCall, localVars
  <2>5. QED
    BY <2>2, <2>3, <2>4
<1>3. CASE UNCHANGED vars
  BY <1>3 DEF vars, placeVars, localVars, loc
<1>4. ASSUME NEW t \in Task, Expires(t) \/ Arrive(t)
      PROVE  loc' = loc /\ UNCHANGED <<cbs, batch, arg, idleDone, task, done>>
  BY <1>4 DEF Expires, Arrive, placeVars, localVars, loc
<1>5. QED
  BY <1>1, <1>2, <1>3, <1>4

\* Where a step of a thread takes it, as far as the invariants ask.
LEMMA Going ==
  ASSUME TypeOK, NEW r \in Runner, RunStep(r)
  PROVE  /\ \A q \in Runner \ {r} : loc'[q] = loc[q]
         /\ loc'[r] \in Triggered => loc[r] \in Triggered \/ Trigger(r)
         /\ loc'[r] = "clear" => loc[r] = "clear" \/ Trigger(r)
         /\ loc[r] = "clear" => loc'[r] = "clear" \/ Clear(r)
         /\ loc'[r] = "timers" => loc[r] = "timers" \/ Read(r, "sched", CanStop, "timers")
<1>1. ASSUME NEW where \in Place, loc' = [loc EXCEPT ![r] = where]
      PROVE  \A q \in Runner : loc'[q] = IF q = r THEN where ELSE loc[q]
  BY <1>1, LocType
<1>2. ASSUME NEW where \in Place \ (Triggered \cup {"timers"}),
             Goto(r, where) \/ \E cond \in BOOLEAN : TickleIf(cond, r, where)
      PROVE  /\ \A q \in Runner \ {r} : loc'[q] = loc[q]
             /\ loc'[r] \notin Triggered /\ loc'[r] \notin {"clear", "timers"}
  <2>1. loc' = [loc EXCEPT ![r] = where]
    BY <1>2, Moved
  <2>2. QED
    BY <1>1, <2>1 DEF Triggered
<1>3. CASE Tickle(r)
  <2>1. pc[r] = "tickle" /\ pc' = [pc EXCEPT ![r] = after[r]] /\ after' = [after EXCEPT ![r] = "off"]
    BY <1>3 DEF Tickle, At
  <2>2. after[r] # "tickle"
    BY DEF TypeOK, RunPC, IdlePC
  <2>3. loc' = loc
    BY <2>1, <2>2 DEF loc, TypeOK
  <2>4. QED
    BY <2>3
<1>4. CASE Fetch(r) \/ FetchNothing(r)
  <2>1. \E cond \in BOOLEAN : TickleIf(cond, r, "task") \/ TickleIf(cond, r, "none")
    <3>1. (Len(queue) > 1) \in BOOLEAN /\ (queue # <<>>) \in BOOLEAN
      OBVIOUS
    <3>2. QED
      BY <1>4, <3>1 DEF Fetch, FetchNothing
  <2>2. {"task", "none"} \subseteq Place \ (Triggered \cup {"timers"})
    BY DEF Place, RunPC, Triggered
  <2>3. loc[r] # "clear"
    BY <1>4 DEF Fetch, FetchNothing, At, loc
  <2>4. QED
    BY <1>2, <2>1, <2>2, <2>3
<1>5. CASE Finish(r) \/ GoIdle(r) \/ IdleBack(r) \/ Exit(r) \/ Wake(r) \/ Expire(r) \/ Again(r)
  <2>1. \E where \in {"fetch", "count", "exit", "expire", "add", "dispatch"} : Goto(r, where)
    BY <1>5 DEF Finish, GoIdle, IdleBack, Exit, Wake, Expire, Again
  <2>2. {"fetch", "count", "exit", "expire", "add", "dispatch"} \subseteq
          Place \ (Triggered \cup {"timers"})
    BY DEF Place, RunPC, IdlePC, Triggered
  <2>3. loc[r] # "clear"
    BY <1>5 DEF Finish, GoIdle, IdleBack, Exit, Wake, Expire, Again, At, loc
  <2>4. QED
    BY <1>2, <2>1, <2>2, <2>3
<1>6. CASE AddExpired(r) \/ Look(r)
  <2>1. \/ Goto(r, "dispatch") \/ Goto(r, "idleback") \/ Goto(r, "trigger")
        \/ TickleIf(queue = <<>>, r, "add") \/ UNCHANGED <<pc, after>>
    BY <1>6 DEF AddExpired, Look, AddTask, placeVars
  <2>2. {"dispatch", "idleback", "trigger", "add"} \subseteq
          Place \ (Triggered \cup {"timers"})
    BY DEF Place, IdlePC, Triggered
  <2>3. (queue = <<>>) \in BOOLEAN
    OBVIOUS
  <2>4. loc[r] # "clear"
    BY <1>6 DEF AddExpired, Look, At, loc
  <2>5. CASE UNCHANGED <<pc, after>>
    BY <2>5 DEF loc
  <2>6. QED
    BY <1>2, <2>1, <2>2, <2>3, <2>4, <2>5
<1>7. CASE Trigger(r)
  <2>1. TickleIf(queue = <<>>, r, "clear") \/ Goto(r, "failed")
    BY <1>7 DEF Trigger, AddTask
  <2>2. {"clear", "failed"} \subseteq Place /\ (queue = <<>>) \in BOOLEAN
    BY DEF Place, IdlePC
  <2>3. \E where \in {"clear", "failed"} : loc' = [loc EXCEPT ![r] = where]
    BY <2>1, <2>2, Moved
  <2>4. PICK where \in {"clear", "failed"} : loc' = [loc EXCEPT ![r] = where]
    BY <2>3
  <2>5. loc[r] # "clear"
    BY <1>7 DEF Trigger, At, loc
  <2>6. where \in Place /\ where # "timers"
    BY <2>2, <2>4
  <2>7. \A q \in Runner : loc'[q] = IF q = r THEN where ELSE loc[q]
    BY <1>1, <2>4, <2>6
  <2>8. QED
    BY <1>7, <2>5, <2>6, <2>7
<1>8. CASE Clear(r) \/ Del(r)
  <2>1. \/ Clear(r) /\ Goto(r, "del") /\ loc[r] = "clear"
        \/ Goto(r, "again") /\ loc[r] = "del"
    BY <1>8 DEF Clear, Del, At, loc
  <2>2. {"del", "again"} \subseteq Place
    BY DEF Place, IdlePC
  <2>3. \/ Clear(r) /\ loc' = [loc EXCEPT ![r] = "del"] /\ loc[r] = "clear"
        \/ loc' = [loc EXCEPT ![r] = "again"] /\ loc[r] = "del"
    BY <2>1, <2>2, Moved
  <2>4. QED
    BY <1>1, <2>2, <2>3 DEF Triggered
<1>9. CASE Stopping(r)
  <2>1. \/ Goto(r, "asleep") \/ Goto(r, "sched") \/ Goto(r, "idleback")
        \/ Read(r, "sched", CanStop, "timers") /\ Goto(r, "timers")
    BY <1>9 DEF Stopping, Read
  <2>2. {"asleep", "sched", "idleback"} \subseteq Place \ (Triggered \cup {"timers"})
    BY DEF Place, IdlePC, Triggered
  <2>3. ASSUME Goto(r, "timers"), Read(r, "sched", CanStop, "timers")
        PROVE  /\ \A q \in Runner \ {r} : loc'[q] = loc[q]
               /\ loc'[r] = "timers"
    <3>1. "timers" \in Place
      BY DEF Place, IdlePC
    <3>2. loc' = [loc EXCEPT ![r] = "timers"]
      BY <2>3, <3>1, Moved
    <3>3. QED
      BY <1>1, <3>1, <3>2
  <2>4. loc[r] # "clear"
    BY <1>9 DEF Stopping, Read, At, loc
  <2>5. "timers" \notin Triggered
    BY DEF Triggered
  <2>6. QED
    BY <1>2, <2>1, <2>2, <2>3, <2>4, <2>5
<1>10. QED
  BY <1>3, <1>4, <1>5, <1>6, <1>7, <1>8, <1>9 DEF RunStep, IdleStep

\* The events whose callback is queued and not reset change with triggerEvent only.
LEMMA QueuedKept ==
  ASSUME UNCHANGED arg, \A q \in Runner : loc'[q] = "clear" <=> loc[q] = "clear"
  PROVE  Queued' = Queued
  BY DEF Queued

\* A step that reports and handles no event and takes none away.
LEMMA EventsKept ==
  ASSUME EventInv, UNCHANGED <<arg, batch, ready, twice>>, Queued' = Queued,
         added \subseteq added', timers' \cap (events' \cup done') = {},
         (ctx' \ Queued) \cap done' \subseteq twice
  PROVE  EventInv'
  BY DEF EventInv

\* Calls, steps of the environment and stop() keep the events in order.
LEMMA EventOthers ==
  ASSUME TypeInv, EventInv,
         \/ \E a \in Runner : Call(a)
         \/ StopCall \/ UNCHANGED vars
         \/ \E t \in Task : Expires(t) \/ Arrive(t)
  PROVE  EventInv' /\ Queued' = Queued
<1>1. /\ \A q \in Runner : loc'[q] # loc[q] => loc[q] = "off" /\ loc'[q] = "fetch"
      /\ UNCHANGED <<batch, arg, done>> /\ TypeOK
  BY Staying DEF TypeInv
<1>2. Queued' = Queued
  <2>1. \A q \in Runner : loc'[q] = "clear" <=> loc[q] = "clear"
    BY <1>1
  <2>2. QED
    BY <1>1, <2>1, QueuedKept
<1>3. ASSUME NEW a \in Runner, NEW t \in Task,
             CallAddTask(a, t) \/ CallAddTimer(a, t) \/ CallAddEvent(a, t)
      PROVE  EventInv'
  <2>1. /\ added' = added \cup {t} /\ t \notin added /\ UNCHANGED <<ready, twice>>
        /\ \/ UNCHANGED <<timers, events, ctx>>
           \/ timers' = timers \cup {t} /\ UNCHANGED <<events, ctx>>
           \/ events' = events \cup {t} /\ ctx' = ctx \cup {t} /\ UNCHANGED timers
    BY <1>3 DEF CallAddTask, CallAddTimer, CallAddEvent, HandOver, timerVars, epollVars
  <2>2. t \notin events \cup done \cup timers
    BY <1>1, <2>1 DEF TypeOK
  <2>3. timers' \cap (events' \cup done') = {} /\ (ctx' \ Queued) \cap done' \subseteq twice
    BY <1>1, <2>1, <2>2 DEF EventInv
  <2>4. QED
    BY <1>1, <1>2, <2>1, <2>3, EventsKept
<1>4. CASE StopCall \/ UNCHANGED vars \/ \E t \in Task : Expires(t)
  <2>1. UNCHANGED <<ready, twice, events, ctx, timers, added>>
    BY <1>4 DEF StopCall, Expires, vars, timerVars, epollVars
  <2>2. timers' \cap (events' \cup done') = {} /\ (ctx' \ Queued) \cap done' \subseteq twice
    BY <1>1, <2>1 DEF EventInv
  <2>3. QED
    BY <1>1, <1>2, <2>1, <2>2, EventsKept
<1>5. ASSUME NEW t \in Task, Arrive(t) PROVE EventInv'
  <2>1. /\ UNCHANGED <<events, ctx, timers, added>> /\ ready' = ready \cup {t}
        /\ twice \subseteq twice'
        /\ InHands(t) => t \in twice'
    BY <1>5 DEF Arrive, timerVars
  <2>2. \A q \in Runner : (arg[q] = t => t \in twice') /\ (t \in batch[q] => t \in twice')
    BY <2>1 DEF InHands
  <2>3. \A q \in Runner : batch'[q] \cap ready' \subseteq twice'
    BY <1>1, <2>1, <2>2 DEF EventInv
  <2>4. \A q \in Runner : arg'[q] \in ready' => arg'[q] \in twice'
    BY <1>1, <2>1, <2>2 DEF EventInv
  <2>5. /\ \A p, q \in Runner : p # q => batch'[p] \cap batch'[q] \subseteq twice'
        /\ \A p, q \in Runner : p # q /\ arg'[p] # None /\ arg'[p] = arg'[q] => arg'[p] \in twice'
        /\ \A p, q \in Runner : arg'[p] \in batch'[q] => arg'[p] \in twice'
        /\ \A q \in Runner : batch'[q] \subseteq added' /\ arg'[q] \in added' \cup {None}
    BY <1>1, <2>1 DEF EventInv
  <2>6. /\ timers' \cap (events' \cup done') = {}
        /\ (ctx' \ Queued') \cap done' \subseteq twice'
    BY <1>1, <1>2, <2>1 DEF EventInv
  <2>7. QED
    BY <2>3, <2>4, <2>5, <2>6 DEF EventInv
<1>6. QED
  BY <1>2, <1>3, <1>4, <1>5 DEF Call

\* Which callbacks wait to be reset, after a step of a thread.
LEMMA QueuedStep ==
  ASSUME TypeInv, EventInv, NEW r \in Runner, RunStep(r)
  PROVE  /\ ~Trigger(r) /\ ~Clear(r) => Queued' = Queued
         /\ Trigger(r) => \/ Queued' = Queued \cup {arg[r]} /\ loc'[r] = "clear"
                          \/ Queued' = Queued /\ loc'[r] # "clear"
         /\ Clear(r) => Queued' \subseteq Queued /\ Queued \subseteq Queued' \cup {arg[r]}
                        /\ arg[r] \in Queued
<1>1. TypeOK /\ LocalInv
  BY DEF TypeInv
<1>2. /\ \A q \in Runner \ {r} : loc'[q] = loc[q]
      /\ loc'[r] = "clear" => loc[r] = "clear" \/ Trigger(r)
      /\ loc[r] = "clear" => loc'[r] = "clear" \/ Clear(r)
  BY <1>1, Going
<1>3. CASE Trigger(r) \/ Clear(r)
  <2>1. UNCHANGED arg /\ (Trigger(r) => loc[r] # "clear") /\ (Clear(r) => loc[r] = "clear")
    BY <1>3 DEF Trigger, Clear, localVars, At, loc
  <2>2. QED
    BY <1>2, <1>3, <2>1 DEF Queued
<1>4. CASE ~Trigger(r) /\ ~Clear(r)
  <2>1. \A q \in Runner : loc'[q] = "clear" <=> loc[q] = "clear"
    BY <1>2, <1>4
  <2>2. CASE Look(r) \/ Again(r)
    <3>1. loc[r] # "clear" /\ \A q \in Runner \ {r} : arg'[q] = arg[q]
      BY <1>1, <2>2 DEF Look, Again, At, loc, TypeOK
    <3>2. \A q \in Runner : loc'[q] = "clear" => arg'[q] = arg[q]
      BY <2>1, <3>1
    <3>3. QED
      BY <1>4, <2>1, <3>2 DEF Queued
  <2>3. CASE UNCHANGED arg
    BY <1>4, <2>1, <2>3, QueuedKept
  <2>4. Look(r) \/ Again(r) \/ UNCHANGED arg
    BY <1>4
    DEF RunStep, IdleStep, Tickle, Fetch, FetchNothing, Finish, GoIdle, IdleBack, Exit,
        Stopping, Read, Wake, Expire, AddExpired, Del, localVars
  <2>5. QED
    BY <1>4, <2>2, <2>3, <2>4
<1>5. QED
  BY <1>3, <1>4

\* Steps of the threads keep the events in order.
LEMMA EventSteps ==
  ASSUME TypeInv, EventInv, PlaceInv, NEW r \in Runner, RunStep(r)
  PROVE  EventInv'
<1>1. TypeOK /\ LocalInv
  BY DEF TypeInv
<1>2. CASE \/ Tickle(r) \/ Fetch(r) \/ FetchNothing(r) \/ GoIdle(r) \/ IdleBack(r)
           \/ Exit(r) \/ Stopping(r) \/ AddExpired(r) \/ Expire(r)
  <2>1. UNCHANGED <<arg, batch, ready, twice, events, ctx, added, done>>
    BY <1>2 DEF Tickle, Fetch, FetchNothing, GoIdle, IdleBack, Exit, Stopping, Read,
                AddExpired, Expire, epollVars, localVars
  <2>2. timers' \subseteq timers /\ pc[r] \notin {"trigger", "clear"}
    BY <1>2 DEF Tickle, Fetch, FetchNothing, GoIdle, IdleBack, Exit, Stopping, Read,
                AddExpired, Expire, At, timerVars
  <2>3. Queued' = Queued
    BY <2>2, QueuedStep DEF Trigger, Clear, At
  <2>4. timers' \cap (events' \cup done') = {} /\ (ctx' \ Queued) \cap done' \subseteq twice
    BY <2>1, <2>2 DEF EventInv
  <2>5. QED
    BY <2>1, <2>3, <2>4, EventsKept
<1>3. CASE Finish(r)
  <2>1. /\ UNCHANGED <<arg, batch, ready, twice, events, ctx, added, timers>>
        /\ done' = done \cup {task[r]} /\ pc[r] = "task"
    BY <1>3 DEF Finish, At, timerVars, epollVars, localVars
  <2>2. Queued' = Queued
    BY <2>1, QueuedStep DEF Trigger, Clear, At
  <2>3. task[r] \in hands[r]
    <3>1. loc[r] = "task"
      BY <2>1 DEF loc
    <3>2. QED
      BY <1>1, <3>1 DEF LocalInv, hands
  <2>4. task[r] \in Kept => task[r] \in twice
    BY <2>3 DEF PlaceInv, PlacesOf
  <2>5. task[r] \notin timers
    BY <1>1, <2>4 DEF Kept, TypeOK
  <2>6. task[r] \in ctx \ Queued => task[r] \in twice
    BY <2>4 DEF Kept
  <2>7. timers' \cap (events' \cup done') = {} /\ (ctx' \ Queued) \cap done' \subseteq twice
    BY <2>1, <2>5, <2>6 DEF EventInv
  <2>8. QED
    BY <2>1, <2>2, <2>7, EventsKept
<1>4. CASE Wake(r)
  <2>1. /\ UNCHANGED <<arg, twice, events, ctx, added, timers, done>> /\ ready' = {}
        /\ pc[r] = "asleep" /\ batch' = [batch EXCEPT ![r] = ready]
    BY <1>4 DEF Wake, Reported, At, timerVars
  <2>2. Queued' = Queued
    BY <2>1, QueuedStep DEF Trigger, Clear, At
  <2>3. \A q \in Runner : batch'[q] = IF q = r THEN ready ELSE batch[q]
    BY <1>1, <2>1 DEF TypeOK
  <2>4. ready \subseteq added
    BY <1>1 DEF TypeOK
  <2>5. /\ \A q \in Runner : batch'[q] \subseteq added' /\ arg'[q] \in added' \cup {None}
        /\ \A p, q \in Runner : arg'[p] \in batch'[q] => arg'[p] \in twice'
    BY <2>1, <2>3, <2>4 DEF EventInv
  <2>6. \A p, q \in Runner : p # q => batch'[p] \cap batch'[q] \subseteq twice'
    BY <2>1, <2>3 DEF EventInv
  <2>7. QED
    BY <2>1, <2>2, <2>5, <2>6 DEF EventInv
<1>5. CASE Look(r)
  <2>1. UNCHANGED <<twice, events, ctx, ready, added, timers, done>> /\ pc[r] = "dispatch"
    BY <1>5 DEF Look, At, timerVars, epollVars
  <2>2. Queued' = Queued
    BY <2>1, QueuedStep DEF Trigger, Clear, At
  <2>3. ASSUME NEW t \in batch[r], batch' = [batch EXCEPT ![r] = @ \ {t}],
               arg' = [arg EXCEPT ![r] = t] \/ UNCHANGED arg
        PROVE  EventInv'
    <3>1. \A q \in Runner : batch'[q] \subseteq batch[q]
      BY <1>1, <2>3 DEF TypeOK
    <3>2. \A q \in Runner : arg'[q] = arg[q] \/ (q = r /\ arg'[q] = t)
      BY <1>1, <2>3 DEF TypeOK
    <3>3. /\ t \in added
          /\ \A q \in Runner : (arg[q] = t => t \in twice)
          /\ \A q \in Runner \ {r} : (t \in batch[q] => t \in twice)
          /\ t \in ready => t \in twice
      BY DEF EventInv
    <3>4. \A q \in Runner : t \in batch'[q] => t \in twice
      <4>1. t \notin batch'[r]
        BY <1>1, <2>3 DEF TypeOK
      <4>2. QED
        BY <3>1, <3>3, <4>1
    <3>5. \A p, q \in Runner : p # q /\ arg'[p] # None /\ arg'[p] = arg'[q] => arg'[p] \in twice'
      <4>1. SUFFICES ASSUME NEW p \in Runner, NEW q \in Runner, p # q, arg'[p] # None,
                            arg'[p] = arg'[q]
                     PROVE  arg'[p] \in twice
        BY <2>1
      <4>2. CASE arg'[p] = arg[p] /\ arg'[q] = arg[q]
        BY <4>1, <4>2 DEF EventInv
      <4>3. CASE arg'[p] = arg[p] /\ arg'[q] = t
        BY <3>3, <4>1, <4>3
      <4>4. CASE arg'[p] = t /\ arg'[q] = arg[q]
        BY <3>3, <4>1, <4>4
      <4>5. QED
        BY <3>2, <4>1, <4>2, <4>3, <4>4
    <3>6. \A p, q \in Runner : arg'[p] \in batch'[q] => arg'[p] \in twice'
      BY <2>1, <3>1, <3>2, <3>4 DEF EventInv
    <3>7. \A q \in Runner : arg'[q] \in ready' => arg'[q] \in twice'
      BY <2>1, <3>2, <3>3 DEF EventInv
    <3>8. /\ \A q \in Runner : batch'[q] \subseteq added' /\ arg'[q] \in added' \cup {None}
          /\ \A p, q \in Runner : p # q => batch'[p] \cap batch'[q] \subseteq twice'
          /\ \A q \in Runner : batch'[q] \cap ready' \subseteq twice'
      BY <2>1, <3>1, <3>2, <3>3 DEF EventInv
    <3>9. /\ timers' \cap (events' \cup done') = {}
          /\ (ctx' \ Queued') \cap done' \subseteq twice'
      BY <2>1, <2>2 DEF EventInv
    <3>10. QED
      BY <3>5, <3>6, <3>7, <3>8, <3>9 DEF EventInv
  <2>4. ASSUME UNCHANGED <<batch, arg>> PROVE EventInv'
    BY <2>1, <2>2, <2>4 DEF EventInv
  <2>5. QED
    BY <1>5, <2>3, <2>4 DEF Look
<1>6. CASE Trigger(r)
  <2>1. UNCHANGED <<arg, batch, ready, twice, events, ctx, added, timers, done>>
    BY <1>6 DEF Trigger, timerVars, epollVars, localVars
  <2>2. Queued \subseteq Queued'
    BY <1>6, QueuedStep
  <2>3. QED
    BY <2>1, <2>2 DEF EventInv
<1>7. CASE Clear(r)
  <2>1. /\ UNCHANGED <<arg, batch, ready, twice, events, added, timers, done>>
        /\ ctx' = ctx \ {arg[r]}
    BY <1>7 DEF Clear, timerVars, localVars
  <2>2. Queued \subseteq Queued' \cup {arg[r]}
    BY <1>7, QueuedStep
  <2>3. (ctx' \ Queued') \cap done' \subseteq twice'
    BY <2>1, <2>2 DEF EventInv
  <2>4. QED
    BY <2>1, <2>3 DEF EventInv
<1>8. CASE Del(r)
  <2>1. /\ UNCHANGED <<arg, batch, twice, added, timers, done>> /\ pc[r] = "del"
        /\ events' \subseteq events /\ ctx' \subseteq ctx /\ ready' \subseteq ready
    BY <1>8 DEF Del, At, timerVars, localVars
  <2>2. Queued' = Queued
    BY <2>1, QueuedStep DEF Trigger, Clear, At
  <2>3. /\ timers' \cap (events' \cup done') = {}
        /\ (ctx' \ Queued') \cap done' \subseteq twice'
    BY <2>1, <2>2 DEF EventInv
  <2>4. /\ \A q \in Runner : batch'[q] \cap ready' \subseteq twice'
        /\ \A q \in Runner : arg'[q] \in ready' => arg'[q] \in twice'
    BY <2>1 DEF EventInv
  <2>5. QED
    BY <2>1, <2>3, <2>4 DEF EventInv
<1>9. CASE Again(r)
  <2>1. /\ UNCHANGED <<twice, events, ctx, batch, ready, added, timers, done>>
        /\ pc[r] = "again" /\ arg' = [arg EXCEPT ![r] = None]
    BY <1>9 DEF Again, At, timerVars, epollVars
  <2>2. Queued' = Queued
    BY <2>1, QueuedStep DEF Trigger, Clear, At
  <2>3. \A q \in Runner : arg'[q] = IF q = r THEN None ELSE arg[q]
    BY <1>1, <2>1 DEF TypeOK
  <2>4. None \notin added /\ None \notin ready
    BY <1>1, TaskAssumption DEF TypeOK
  <2>5. /\ \A q \in Runner : arg'[q] \in added' \cup {None}
        /\ \A p, q \in Runner : p # q /\ arg'[p] # None /\ arg'[p] = arg'[q] => arg'[p] \in twice'
        /\ \A p, q \in Runner : arg'[p] \in batch'[q] => arg'[p] \in twice'
        /\ \A q \in Runner : arg'[q] \in ready' => arg'[q] \in twice'
    BY <2>1, <2>3, <2>4 DEF EventInv
  <2>6. QED
    BY <2>1, <2>2, <2>5 DEF EventInv
<1>10. QED
  BY <1>2, <1>3, <1>4, <1>5, <1>6, <1>7, <1>8, <1>9 DEF RunStep, IdleStep

---------------------------------------------------------------------------
\* Places.

\* A callback that has been queued stays queued, in hands or done.
LEMMA TriggeredKept ==
  ASSUME TriggeredInv,
         \A q \in Runner : loc'[q] \in Triggered => loc[q] \in Triggered /\ arg'[q] = arg[q],
         \A t : t \in waiting \cup done \/ (\E q \in Runner : t \in hands[q]) =>
                t \in waiting' \cup done' \/ \E q \in Runner : t \in hands'[q]
  PROVE  TriggeredInv'
  BY DEF TriggeredInv

\* A step that touches none of the places.
LEMMA PlacesKept ==
  ASSUME PlaceInv, UNCHANGED <<queue, task, cbs, added, done>>,
         twice \subseteq twice', Kept' = Kept,
         \A q \in Runner : loc'[q] \in Triggered => loc[q] \in Triggered /\ arg'[q] = arg[q]
  PROVE  PlaceInv'
<1>1. waiting' = waiting /\ hands' = hands
  BY DEF waiting, hands
<1>2. PlacesOf(queue', waiting', hands', Kept', added', twice')
  BY <1>1 DEF PlaceInv, PlacesOf, Single
<1>3. TriggeredInv'
  BY <1>1, TriggeredKept DEF PlaceInv
<1>4. QED
  BY <1>2, <1>3 DEF PlaceInv

\* Calls, steps of the environment and stop() leave each callback at its place.
LEMMA PlaceOthers ==
  ASSUME TypeInv, EventInv, PlaceInv,
         \/ \E a \in Runner : Call(a)
         \/ StopCall \/ UNCHANGED vars
         \/ \E t \in Task : Expires(t) \/ Arrive(t)
  PROVE  PlaceInv'
<1>1. TypeOK
  BY DEF TypeInv
<1>2. /\ Queued' = Queued
      /\ \A q \in Runner : loc'[q] \in Triggered => loc[q] \in Triggered /\ arg'[q] = arg[q]
  <2>1. /\ \A q \in Runner : loc'[q] # loc[q] => loc[q] = "off" /\ loc'[q] = "fetch"
        /\ UNCHANGED arg
    BY <1>1, Staying
  <2>2. "fetch" \notin Triggered
    BY DEF Triggered
  <2>3. QED
    BY <2>1, <2>2, EventOthers
<1>3. ASSUME NEW a \in Runner, NEW t \in Task, CallAddTask(a, t) PROVE PlaceInv'
  <2>1. /\ UNCHANGED <<timers, ctx, twice, arg, task, cbs, done>>
        /\ added' = added \cup {t} /\ t \notin added /\ Calling(a)
        /\ AddTask(a, t, Pin[t], pc[a]) /\ Pin[t] \in Runner \cup {AnyThread}
    BY <1>3, TaskAssumption DEF CallAddTask, HandOver, timerVars, epollVars, localVars
  <2>2. hands' = hands /\ Kept' = Kept
    BY <1>2, <2>1 DEF hands, Kept
  <2>3. t \notin waiting /\ t \notin Kept /\ \A r \in Runner : t \notin hands[r]
    <3>1. Kept \subseteq added
      BY <1>1 DEF Kept, TypeOK
    <3>2. QED
      BY <2>1, <3>1 DEF PlaceInv, PlacesOf
  <2>4. pc[a] \in Place
    BY <1>1, <2>1, CallPlace
  <2>5. waiting' = waiting \cup {t} /\ Single(queue', twice)
    BY <1>1, <2>1, <2>3, <2>4, Added DEF PlaceInv, PlacesOf
  <2>6. PlacesOf(queue', waiting', hands', Kept', added', twice')
    BY <2>1, <2>2, <2>3, <2>5 DEF PlaceInv, PlacesOf
  <2>7. TriggeredInv'
    BY <1>2, <2>1, <2>2, <2>5, TriggeredKept DEF PlaceInv
  <2>8. QED
    BY <2>6, <2>7 DEF PlaceInv
<1>4. ASSUME NEW a \in Runner, NEW t \in Task, CallAddTimer(a, t) \/ CallAddEvent(a, t)
      PROVE  PlaceInv'
  <2>1. /\ UNCHANGED <<queue, twice, arg, task, cbs, done>>
        /\ added' = added \cup {t} /\ t \notin added
        /\ \/ timers' = timers \cup {t} /\ ctx' = ctx
           \/ timers' = timers /\ ctx' = ctx \cup {t}
    BY <1>4 DEF CallAddTimer, CallAddEvent, HandOver, timerVars, epollVars, localVars
  <2>2. hands' = hands /\ waiting' = waiting
    BY <2>1 DEF hands, waiting
  <2>3. t # None /\ t \notin Queued
    BY <2>1, TaskAssumption DEF EventInv, Queued
  <2>4. Kept' = Kept \cup {t}
    BY <1>2, <2>1, <2>3 DEF Kept
  <2>5. PlacesOf(queue', waiting', hands', Kept', added', twice')
    BY <2>1, <2>2, <2>4 DEF PlaceInv, PlacesOf
  <2>6. TriggeredInv'
    BY <1>2, <2>1, <2>2, TriggeredKept DEF PlaceInv
  <2>7. QED
    BY <2>5, <2>6 DEF PlaceInv
<1>5. CASE StopCall \/ UNCHANGED vars \/ \E t \in Task : Expires(t) \/ Arrive(t)
  <2>1. /\ UNCHANGED <<queue, timers, ctx, task, cbs, added, done>> /\ twice \subseteq twice'
    BY <1>5
    DEF StopCall, Expires, Arrive, vars, timerVars, epollVars, localVars
  <2>2. Kept' = Kept
    BY <1>2, <2>1 DEF Kept
  <2>3. QED
    BY <1>2, <2>1, <2>2, PlacesKept
<1>6. QED
  BY <1>3, <1>4, <1>5 DEF Call

\* Steps of the threads leave each callback at its place.
LEMMA PlaceSteps ==
  ASSUME TypeInv, EventInv, PlaceInv, NEW r \in Runner, RunStep(r)
  PROVE  PlaceInv'
<1>1. TypeOK /\ LocalInv
  BY DEF TypeInv
<1>2. ASSUME ~Trigger(r)
      PROVE  \A q \in Runner : loc'[q] \in Triggered => loc[q] \in Triggered /\ arg'[q] = arg[q]
  <2>1. /\ \A q \in Runner \ {r} : loc'[q] = loc[q]
        /\ loc'[r] \in Triggered => loc[r] \in Triggered
    BY <1>1, <1>2, Going
  <2>2. CASE Look(r) \/ Again(r)
    <3>1. \A q \in Runner \ {r} : arg'[q] = arg[q]
      BY <1>1, <2>2 DEF Look, Again, TypeOK
    <3>2. loc'[r] \notin Triggered
      <4>1. CASE Look(r)
        <5>1. loc[r] = "dispatch"
          BY <4>1 DEF Look, At, loc
        <5>2. QED
          BY <2>1, <5>1 DEF Triggered
      <4>2. CASE Again(r)
        <5>1. Goto(r, "dispatch") /\ "dispatch" \in Place
          BY <4>2 DEF Again, Place, IdlePC
        <5>2. loc' = [loc EXCEPT ![r] = "dispatch"]
          BY <1>1, <5>1, Moved
        <5>3. loc'[r] = "dispatch"
          BY <1>1, <5>2, LocType
        <5>4. QED
          BY <5>3 DEF Triggered
      <4>3. QED
        BY <2>2, <4>1, <4>2
    <3>3. QED
      BY <2>1, <3>1, <3>2
  <2>3. CASE UNCHANGED arg
    BY <2>1, <2>3
  <2>4. Look(r) \/ Again(r) \/ UNCHANGED arg
    BY <1>2
    DEF RunStep, IdleStep, Tickle, Fetch, FetchNothing, Finish, GoIdle, IdleBack, Exit,
        Stopping, Read, Wake, Expire, AddExpired, Clear, Del, localVars
  <2>5. QED
    BY <2>2, <2>3, <2>4
<1>3. CASE \/ Tickle(r) \/ FetchNothing(r) \/ GoIdle(r) \/ IdleBack(r)
           \/ Exit(r) \/ Stopping(r) \/ Wake(r) \/ Look(r) \/ Again(r)
  <2>1. /\ UNCHANGED <<queue, timers, ctx, twice, task, cbs, added, done>>
        /\ pc[r] \notin {"trigger", "clear"}
    BY <1>3
    DEF Tickle, FetchNothing, GoIdle, IdleBack, Exit, Stopping, Read, Wake, Look, Again,
        At, timerVars, epollVars, localVars
  <2>2. ~Trigger(r) /\ ~Clear(r)
    BY <2>1 DEF Trigger, Clear, At
  <2>3. Kept' = Kept
    BY <2>1, <2>2, QueuedStep DEF Kept
  <2>4. QED
    BY <1>2, <2>1, <2>2, <2>3, PlacesKept
<1>4. CASE Fetch(r)
  <2>1. UNCHANGED <<timers, ctx, twice, arg, cbs, added, done>> /\ pc[r] = "fetch"
    BY <1>4 DEF Fetch, At, timerVars, epollVars, localVars
  <2>2. PICK i \in 1 .. Len(queue) :
          task' = [task EXCEPT ![r] = queue[i].task] /\ queue' = Erase(queue, i)
    BY <1>4 DEF Fetch
  <2>3. PICK x \in Task : queue[i].task = x
    BY <1>1, <2>2, Erased
  <2>4. /\ waiting' \subseteq waiting /\ waiting \subseteq waiting' \cup {x} /\ x \in waiting
        /\ Single(queue', twice) /\ (x \in waiting' => x \in twice)
    BY <1>1, <2>2, <2>3, Erased DEF PlaceInv, PlacesOf
  <2>5. task[r] = None
    <3>1. loc[r] = "fetch"
      BY <2>1 DEF loc
    <3>2. QED
      BY <1>1, <3>1 DEF LocalInv
  <2>6. \A q \in Runner : task'[q] = IF q = r THEN x ELSE task[q]
    BY <1>1, <2>2, <2>3 DEF TypeOK
  <2>7. \A q \in Runner : hands'[q] = IF q = r THEN hands[r] \cup {x} ELSE hands[q]
    BY <2>1, <2>5, <2>6, TaskAssumption DEF hands
  <2>8. ~Trigger(r) /\ ~Clear(r)
    BY <2>1 DEF Trigger, Clear, At
  <2>9. Kept' = Kept
    BY <2>1, <2>8, QueuedStep DEF Kept
  <2>10. PlacesOf(queue', waiting', hands', Kept', added', twice')
    BY <2>1, <2>4, <2>7, <2>9 DEF PlaceInv, PlacesOf
  <2>11. TriggeredInv'
    BY <1>2, <2>1, <2>4, <2>7, <2>8, TriggeredKept DEF PlaceInv
  <2>12. QED
    BY <2>10, <2>11 DEF PlaceInv
<1>5. CASE Finish(r)
  <2>1. /\ UNCHANGED <<queue, timers, ctx, twice, arg, cbs, added>> /\ pc[r] = "task"
        /\ task' = [task EXCEPT ![r] = None] /\ done' = done \cup {task[r]}
    BY <1>5 DEF Finish, At, timerVars, epollVars, localVars
  <2>2. task[r] # None /\ cbs[r] = {}
    <3>1. loc[r] = "task"
      BY <2>1 DEF loc
    <3>2. QED
      BY <1>1, <3>1 DEF LocalInv
  <2>3. \A q \in Runner : task'[q] = IF q = r THEN None ELSE task[q]
    BY <1>1, <2>1 DEF TypeOK
  <2>4. \A q \in Runner : hands'[q] = IF q = r THEN {} ELSE hands[q]
    BY <2>1, <2>2, <2>3 DEF hands
  <2>5. hands[r] = {task[r]}
    BY <2>2 DEF hands
  <2>6. ~Trigger(r) /\ ~Clear(r)
    BY <2>1 DEF Trigger, Clear, At
  <2>7. Kept' = Kept \cup {task[r]} /\ waiting' = waiting
    BY <2>1, <2>6, QueuedStep DEF Kept, waiting
  <2>8. PlacesOf(queue', waiting', hands', Kept', added', twice')
    BY <2>1, <2>4, <2>5, <2>7 DEF PlaceInv, PlacesOf
  <2>9. TriggeredInv'
    BY <1>2, <2>1, <2>4, <2>5, <2>6, <2>7, TriggeredKept DEF PlaceInv
  <2>10. QED
    BY <2>8, <2>9 DEF PlaceInv
<1>6. CASE Expire(r)
  <2>1. /\ UNCHANGED <<queue, task, arg, ctx, twice, added, done>> /\ pc[r] = "expire"
        /\ timers' = timers \ due /\ cbs' = [cbs EXCEPT ![r] = due]
    BY <1>6 DEF Expire, At, epollVars
  <2>2. task[r] = None /\ cbs[r] = {}
    <3>1. loc[r] = "expire"
      BY <2>1 DEF loc
    <3>2. QED
      BY <1>1, <3>1 DEF LocalInv
  <2>3. \A q \in Runner : cbs'[q] = IF q = r THEN due ELSE cbs[q]
    BY <1>1, <2>1 DEF TypeOK
  <2>4. /\ \A q \in Runner : hands'[q] = IF q = r THEN due ELSE hands[q]
        /\ hands[r] = {}
    BY <2>1, <2>2, <2>3 DEF hands
  <2>5. due \subseteq timers /\ timers \cap (ctx \cup done) = {} /\ due \subseteq added
    BY <1>1 DEF TypeOK, EventInv
  <2>6. ~Trigger(r) /\ ~Clear(r)
    BY <2>1 DEF Trigger, Clear, At
  <2>7. Kept' = Kept \ due /\ due \subseteq Kept /\ waiting' = waiting
    BY <2>1, <2>5, <2>6, QueuedStep DEF Kept, waiting
  <2>8. PlacesOf(queue', waiting', hands', Kept', added', twice')
    BY <2>1, <2>4, <2>5, <2>7 DEF PlaceInv, PlacesOf
  <2>9. TriggeredInv'
    BY <1>2, <2>1, <2>4, <2>6, <2>7, TriggeredKept DEF PlaceInv
  <2>10. QED
    BY <2>8, <2>9 DEF PlaceInv
<1>7. CASE AddExpired(r)
  <2>1. /\ UNCHANGED <<timers, ctx, twice, arg, task, added, done>> /\ pc[r] = "add"
    BY <1>7 DEF AddExpired, At, timerVars, epollVars
  <2>2. loc[r] = "add" /\ task[r] = None
    <3>1. loc[r] = "add"
      BY <2>1 DEF loc
    <3>2. QED
      BY <1>1, <3>1 DEF LocalInv
  <2>3. ~Trigger(r) /\ ~Clear(r)
    BY <2>1 DEF Trigger, Clear, At
  <2>4. Kept' = Kept
    BY <2>1, <2>3, QueuedStep DEF Kept
  <2>5. ASSUME NEW t \in cbs[r], cbs' = [cbs EXCEPT ![r] = @ \ {t}],
               AddTask(r, t, AnyThread, "add")
        PROVE  PlaceInv'
    <3>1. t \in Task /\ AnyThread \in Runner \cup {AnyThread} /\ "add" \in Place
      BY <1>1 DEF TypeOK, Place, IdlePC
    <3>2. \A q \in Runner : cbs'[q] = IF q = r THEN cbs[r] \ {t} ELSE cbs[q]
      BY <1>1, <2>5 DEF TypeOK
    <3>3. /\ \A q \in Runner : hands'[q] = IF q = r THEN hands[r] \ {t} ELSE hands[q]
          /\ t \in hands[r]
      BY <2>1, <2>2, <3>2 DEF hands
    <3>4. /\ (t \in waiting => t \in twice) /\ (t \in Kept => t \in twice) /\ t \in added
          /\ Single(queue, twice)
      BY <3>3 DEF PlaceInv, PlacesOf
    <3>5. waiting' = waiting \cup {t} /\ Single(queue', twice)
      BY <1>1, <2>5, <3>1, <3>4, Added
    <3>6. PlacesOf(queue', waiting', hands', Kept', added', twice')
      BY <2>1, <2>4, <3>3, <3>4, <3>5 DEF PlaceInv, PlacesOf
    <3>7. TriggeredInv'
      BY <1>2, <2>1, <2>3, <3>3, <3>5, TriggeredKept DEF PlaceInv
    <3>8. QED
      BY <3>6, <3>7 DEF PlaceInv
  <2>6. ASSUME UNCHANGED <<queue, cbs>> PROVE PlaceInv'
    BY <1>2, <2>1, <2>3, <2>4, <2>6, PlacesKept
  <2>7. QED
    BY <1>7, <2>5, <2>6 DEF AddExpired
<1>8. CASE Trigger(r)
  <2>1. UNCHANGED <<timers, ctx, twice, arg, task, cbs, added, done>> /\ pc[r] = "trigger"
    BY <1>8 DEF Trigger, At, timerVars, epollVars, localVars
  <2>2. loc[r] = "trigger" /\ hands' = hands
    BY <2>1 DEF loc, hands
  <2>3. /\ \A q \in Runner \ {r} : loc'[q] = loc[q]
        /\ \/ Queued' = Queued \cup {arg[r]} /\ loc'[r] = "clear"
           \/ Queued' = Queued /\ loc'[r] # "clear"
    BY <1>1, <1>8, Going, QueuedStep
  <2>4. CASE arg[r] \in events \cap ctx
    <3> DEFINE t == arg[r]
    <3>1. /\ AddTask(r, t, AnyThread, "clear") /\ t \in Task /\ t # None /\ t \in added
          /\ t \in ctx /\ t \notin timers /\ "clear" \in Place
          /\ AnyThread \in Runner \cup {AnyThread}
      BY <1>1, <1>8, <2>4, TaskAssumption DEF Trigger, TypeOK, EventInv, Place, IdlePC
    <3>2. loc' = [loc EXCEPT ![r] = "clear"]
      BY <1>1, <3>1, Added
    <3>3. loc'[r] = "clear"
      BY <1>1, <3>2, LocType
    <3>4. Queued' = Queued \cup {t}
      BY <2>3, <3>3
    <3>5. t \in Queued => t \in twice
      <4>1. ASSUME NEW q \in Runner, loc[q] = "clear", arg[q] = t PROVE t \in twice
        BY <2>2, <3>1, <4>1 DEF EventInv
      <4>2. QED
        BY <4>1 DEF Queued
    <3> HIDE DEF t
    <3>6. Kept' \subseteq Kept /\ Kept \subseteq Kept' \cup {t}
      BY <2>1, <3>4 DEF Kept
    <3>7. t \in Kept' => t \in twice
      <4>1. t \in done => t \in twice
        BY <3>1, <3>5 DEF EventInv
      <4>2. QED
        BY <2>1, <3>1, <3>4, <4>1 DEF Kept
    <3>8. /\ t \in waiting => t \in twice
          /\ \A q \in Runner : t \in hands[q] => t \in twice
      <4>1. t \in Kept \/ t \in twice
        BY <3>1, <3>5 DEF Kept
      <4>2. QED
        BY <4>1 DEF PlaceInv, PlacesOf
    <3>9. waiting' = waiting \cup {t} /\ Single(queue', twice)
      BY <1>1, <3>1, <3>8, Added DEF PlaceInv, PlacesOf
    <3>10. PlacesOf(queue', waiting', hands', Kept', added', twice')
      BY <2>1, <2>2, <3>1, <3>6, <3>7, <3>8, <3>9 DEF PlaceInv, PlacesOf
    <3>11. TriggeredInv'
      <4>1. arg'[r] = t
        BY <2>1 DEF t
      <4>2. \A q \in Runner \ {r} : arg'[q] = arg[q] /\ loc'[q] = loc[q]
        BY <2>1, <2>3
      <4>3. QED
        BY <2>1, <2>2, <3>9, <4>1, <4>2 DEF PlaceInv, TriggeredInv
    <3>12. QED
      BY <3>10, <3>11 DEF PlaceInv
  <2>5. CASE arg[r] \notin events \cap ctx
    <3>1. Goto(r, "failed") /\ UNCHANGED queue /\ "failed" \in Place
      BY <1>8, <2>5 DEF Trigger, Place, IdlePC
    <3>2. loc' = [loc EXCEPT ![r] = "failed"]
      BY <1>1, <3>1, Moved
    <3>3. loc'[r] = "failed"
      BY <1>1, <3>2, LocType
    <3>4. Kept' = Kept
      BY <2>1, <2>3, <3>3 DEF Kept
    <3>5. \A q \in Runner : loc'[q] \in Triggered => loc[q] \in Triggered /\ arg'[q] = arg[q]
      BY <2>1, <2>3, <3>3 DEF Triggered
    <3>6. QED
      BY <2>1, <3>1, <3>4, <3>5, PlacesKept
  <2>6. QED
    BY <2>4, <2>5
<1>9. CASE Clear(r)
  <2>1. /\ UNCHANGED <<queue, timers, twice, task, cbs, added, done>>
        /\ ctx' = ctx \ {arg[r]} /\ pc[r] = "clear"
    BY <1>9 DEF Clear, At, timerVars, localVars
  <2>2. ctx' \ Queued' = ctx \ Queued
    BY <1>9, <2>1, QueuedStep
  <2>3. Kept' = Kept
    BY <2>1, <2>2 DEF Kept
  <2>4. ~Trigger(r)
    BY <2>1 DEF Trigger, At
  <2>5. QED
    BY <1>2, <2>1, <2>3, <2>4, PlacesKept
<1>10. CASE Del(r)
  <2>1. /\ UNCHANGED <<queue, timers, twice, task, cbs, added, done>> /\ pc[r] = "del"
        /\ ctx' \subseteq ctx /\ ctx \subseteq ctx' \cup {arg[r]}
    BY <1>10 DEF Del, At, timerVars, localVars
  <2>2. waiting' = waiting /\ hands' = hands
    BY <2>1 DEF waiting, hands
  <2>3. ~Trigger(r) /\ ~Clear(r) /\ loc[r] = "del"
    BY <2>1 DEF Trigger, Clear, At, loc
  <2>4. Kept' \subseteq Kept /\ Kept \subseteq Kept' \cup {arg[r]}
    BY <2>1, <2>3, QueuedStep DEF Kept
  <2>5. arg[r] \in waiting \cup done \/ \E q \in Runner : arg[r] \in hands[q]
    BY <2>3 DEF PlaceInv, TriggeredInv, Triggered
  <2>6. done \subseteq Kept'
    BY <2>1 DEF Kept
  <2>7. PlacesOf(queue', waiting', hands', Kept', added', twice')
    BY <2>1, <2>2, <2>4, <2>5, <2>6 DEF PlaceInv, PlacesOf, Single
  <2>8. TriggeredInv'
    BY <1>2, <2>1, <2>2, <2>3, TriggeredKept DEF PlaceInv
  <2>9. QED
    BY <2>7, <2>8 DEF PlaceInv
<1>11. QED
  BY <1>3, <1>4, <1>5, <1>6, <1>7, <1>8, <1>9, <1>10 DEF RunStep, IdleStep

---------------------------------------------------------------------------
\* Stopping.

\* When every thread has looked, none runs a task or is still about to stop.
LEMMA NoneCalls ==
  ASSUME LocalInv, QuietInv, AllLooked, NEW a \in Runner
  PROVE  /\ loc[a] \in {"timers", "idleback", "fetch", "none", "exit"}
         /\ queue = <<>> /\ Holders = {} /\ ~Calling(a)
<1>1. queue = <<>> /\ Holders = {}
  BY DEF QuietInv
<1>2. task[a] = None
  BY <1>1 DEF Holders
<1>3. loc[a] \in {"timers", "idleback", "fetch", "none", "exit"}
  BY <1>2 DEF AllLooked, LocalInv
<1>4. ~Calling(a)
  BY <1>3 DEF Calling, At, loc
<1>5. QED
  BY <1>1, <1>3, <1>4

\* A step that leads to no new look keeps what is known when it touches neither
\* the queue nor a task, and adds no timer.
LEMMA QuietKept ==
  ASSUME QuietInv, UNCHANGED <<queue, task>>, timers' \subseteq timers,
         AllLooked' => AllLooked, AllEnded' => AllEnded
  PROVE  QuietInv'
<1>1. Holders' = Holders
  BY DEF Holders
<1>2. AllLooked' => queue' = <<>> /\ Holders' = {}
  BY <1>1 DEF QuietInv
<1>3. AllEnded' => timers' = {}
  BY DEF QuietInv
<1>4. QED
  BY <1>2, <1>3 DEF QuietInv

\* Every step keeps what the threads have found out when all have looked.
LEMMA QuietNext ==
  ASSUME TypeInv, QuietInv, [Next]_vars
  PROVE  QuietInv'
<1>1. TypeOK /\ LocalInv /\ CountInv
  BY DEF TypeInv
<1>2. ASSUME \/ \E a \in Runner : Call(a)
             \/ StopCall \/ UNCHANGED vars
             \/ \E t \in Task : Expires(t) \/ Arrive(t)
      PROVE  QuietInv'
  <2>1. /\ \A q \in Runner : loc'[q] # loc[q] => loc[q] = "off" /\ loc'[q] = "fetch"
        /\ UNCHANGED <<task, idleDone>>
    BY <1>1, <1>2, Staying
  <2>2. (AllLooked' => AllLooked) /\ (AllEnded' => AllEnded)
    BY <2>1 DEF AllLooked, AllEnded
  <2>3. CASE \E a \in Runner : Call(a)
    <3>1. PICK a \in Runner : Calling(a)
      BY <2>3 DEF Call, CallAddTask, CallAddTimer, CallAddEvent
    <3>2. ~AllLooked
      BY <1>1, <3>1, NoneCalls
    <3>3. AllEnded => AllLooked
      BY DEF AllEnded, AllLooked
    <3>4. ~AllLooked' /\ ~AllEnded'
      BY <2>2, <3>2, <3>3
    <3>5. QED
      BY <3>4 DEF QuietInv
  <2>4. CASE StopCall \/ UNCHANGED vars \/ \E t \in Task : Expires(t) \/ Arrive(t)
    <3>1. UNCHANGED <<queue, timers>>
      BY <2>4 DEF StopCall, Expires, Arrive, vars, timerVars
    <3>2. QED
      BY <2>1, <2>2, <3>1, QuietKept
  <2>5. QED
    BY <1>2, <2>3, <2>4
<1>3. ASSUME NEW r \in Runner, Stopping(r) PROVE QuietInv'
  <2>1. UNCHANGED <<queue, timers, task, active>>
    BY <1>3 DEF Stopping, Read, countVars, timerVars
  <2>2. RunStep(r)
    BY <1>3 DEF RunStep, IdleStep
  <2>3. \A q \in Runner \ {r} : loc'[q] = loc[q]
    BY <1>1, <2>2, Going
  <2>4. CASE Read(r, "count", pending = 0, "sched")
    <3>1. idleDone' = [idleDone EXCEPT ![r] = FALSE]
      <4>1. ((pending = 0) /\ "sched" = "idleback") = FALSE
        OBVIOUS
      <4>2. QED
        BY <2>4, <4>1 DEF Read
    <3>2. ~idleDone'[r]
      BY <1>1, <3>1 DEF TypeOK
    <3>3. loc'[r] # "timers"
      <4>1. pc' = [pc EXCEPT ![r] = IF pending = 0 THEN "sched" ELSE "asleep"]
        BY <2>4 DEF Read, Goto
      <4>2. pc'[r] \in {"sched", "asleep"}
        BY <1>1, <4>1 DEF TypeOK
      <4>3. QED
        BY <4>2 DEF loc
    <3>4. QED
      BY <3>2, <3>3 DEF QuietInv, AllLooked, AllEnded
  <2>5. CASE Read(r, "sched", CanStop, "timers")
    <3>1. idleDone' = [idleDone EXCEPT ![r] = FALSE]
      <4>1. (CanStop /\ "timers" = "idleback") = FALSE
        OBVIOUS
      <4>2. QED
        BY <2>5, <4>1 DEF Read
    <3>2. ~idleDone'[r]
      BY <1>1, <3>1 DEF TypeOK
    <3>3. AllLooked' => CanStop
      <4>1. SUFFICES ASSUME ~CanStop PROVE loc'[r] # "timers"
        BY <3>2 DEF AllLooked
      <4>2. pc' = [pc EXCEPT ![r] = "asleep"]
        BY <2>5, <4>1 DEF Read, Goto
      <4>3. pc'[r] = "asleep"
        BY <1>1, <4>2 DEF TypeOK
      <4>4. QED
        BY <4>3 DEF loc
    <3>4. CanStop => queue = <<>> /\ Holders = {}
      <4>1. IsFiniteSet(Holders)
        <5>1. IsFiniteSet(Worker) /\ IsFiniteSet({Owner})
          BY RunnerAssumption, FS_Singleton
        <5>2. IsFiniteSet(Runner) /\ Holders \subseteq Runner
          BY <5>1, FS_Union DEF Runner, Holders
        <5>3. QED
          BY <5>2, FS_Subset
      <4>2. active = 0 => Holders = {}
        BY <1>1, <4>1, FS_EmptySet DEF CountInv
      <4>3. QED
        BY <4>2 DEF CanStop
    <3>5. Holders' = Holders
      BY <2>1 DEF Holders
    <3>6. AllLooked' => queue' = <<>> /\ Holders' = {}
      BY <2>1, <3>3, <3>4, <3>5
    <3>7. ~AllEnded'
      BY <3>2 DEF AllEnded
    <3>8. QED
      BY <3>6, <3>7 DEF QuietInv
  <2>6. CASE Read(r, "timers", timers = {}, "idleback")
    <3>1. loc[r] = "timers"
      BY <2>6 DEF Read, At, loc
    <3>2. /\ \A q \in Runner \ {r} : idleDone'[q] = idleDone[q]
          /\ idleDone'[r] => timers = {}
      <4>1. (timers = {} /\ "idleback" = "idleback") <=> timers = {}
        OBVIOUS
      <4>2. idleDone' = [idleDone EXCEPT ![r] = (timers = {} /\ "idleback" = "idleback")]
        BY <2>6 DEF Read
      <4>3. QED
        BY <1>1, <4>1, <4>2 DEF TypeOK
    <3>3. AllLooked' => AllLooked
      BY <2>3, <3>1, <3>2 DEF AllLooked
    <3>4. Holders' = Holders
      BY <2>1 DEF Holders
    <3>5. AllLooked' => queue' = <<>> /\ Holders' = {}
      BY <2>1, <3>3, <3>4 DEF QuietInv
    <3>6. AllEnded' => timers' = {}
      BY <2>1, <3>2 DEF AllEnded
    <3>7. QED
      BY <3>5, <3>6 DEF QuietInv
  <2>7. QED
    BY <1>3, <2>4, <2>5, <2>6 DEF Stopping
<1>4. ASSUME NEW r \in Runner, RunStep(r), ~Stopping(r) PROVE QuietInv'
  <2>1. ~Read(r, "sched", CanStop, "timers")
    BY <1>4 DEF Stopping
  <2>2. \A q \in Runner : loc'[q] = "timers" => loc[q] = "timers"
    BY <1>1, <1>4, <2>1, Going
  <2>3. UNCHANGED idleDone
    BY <1>4 DEF RunStep, IdleStep, Tickle, Fetch, FetchNothing, Finish, GoIdle, IdleBack,
                Exit, Wake, Expire, AddExpired, Look, Trigger, Clear, Del, Again
  <2>4. (AllLooked' => AllLooked) /\ (AllEnded' => AllEnded)
    BY <2>2, <2>3 DEF AllLooked, AllEnded
  <2>5. AllEnded => AllLooked
    BY DEF AllEnded, AllLooked
  <2>6. CASE ~AllLooked
    <3>1. ~AllLooked' /\ ~AllEnded'
      BY <2>4, <2>5, <2>6
    <3>2. QED
      BY <3>1 DEF QuietInv
  <2>7. CASE AllLooked
    <3>1. /\ loc[r] \in {"timers", "idleback", "fetch", "none", "exit"}
          /\ queue = <<>>
      BY <1>1, <2>7, NoneCalls
    <3>2. pc[r] \notin {"task", "expire", "add", "dispatch", "trigger"}
      BY <3>1 DEF loc
    <3>3. ~Fetch(r)
      <4>1. Len(queue) = 0
        BY <3>1
      <4>2. QED
        BY <4>1 DEF Fetch
    <3>4. UNCHANGED <<queue, task, timers>>
      BY <1>4, <3>2, <3>3
      DEF RunStep, IdleStep, Tickle, FetchNothing, Finish, GoIdle, IdleBack, Exit,
          Wake, Expire, AddExpired, Look, Trigger, Clear, Del, Again, At, timerVars
    <3>5. QED
      BY <2>4, <3>4, QuietKept
  <2>8. QED
    BY <2>6, <2>7
<1>5. QED
  BY <1>2, <1>3, <1>4 DEF Next, Terminated

---------------------------------------------------------------------------
\* The theorems.

LoopInv == TypeInv /\ EventInv /\ PlaceInv /\ QuietInv

\* The loop starts right.
LEMMA LoopInit == Init => LoopInv
<1> SUFFICES ASSUME Init PROVE LoopInv
  OBVIOUS
<1>1. /\ queue = <<>> /\ active = 0 /\ idle = 0 /\ pending = 0 /\ stopping = FALSE
      /\ timers = {} /\ due = {} /\ events = {} /\ ctx = {} /\ ready = {} /\ twice = {}
      /\ pipe = FALSE /\ added = {} /\ done = {}
      /\ pc = [r \in Runner |-> IF r = Owner THEN "off" ELSE "fetch"]
      /\ after = [r \in Runner |-> "off"] /\ task = [r \in Runner |-> None]
      /\ cbs = [r \in Runner |-> {}] /\ batch = [r \in Runner |-> {}]
      /\ arg = [r \in Runner |-> None] /\ idleDone = [r \in Runner |-> FALSE]
  BY DEF Init
<1>2. \A r \in Runner : loc[r] \in {"off", "fetch"}
  BY <1>1 DEF loc
<1>3. Holders = {} /\ Idlers = {} /\ waiting = {} /\ Kept = {} /\ Len(queue) = 0
      /\ \A r \in Runner : hands[r] = {}
  BY <1>1, <1>2 DEF Holders, Idlers, IdlePC, waiting, Kept, hands
<1>4. Cardinality({}) = 0
  BY FS_EmptySet
<1>5. 0 \in 0 .. Cardinality(Runner) /\ 0 \in 0 .. Wrap - 1
  <2>1. {} \in SUBSET Runner /\ Owner \in Runner
    BY DEF Runner
  <2>2. 0 \in 0 .. Cardinality(Runner)
    BY <1>4, <2>1, CountChange
  <2>3. Wrap \in Nat /\ Wrap > 0
    BY TaskAssumption
  <2>4. QED
    BY <2>2, <2>3
<1>6. CountInv /\ LocalInv
  BY <1>1, <1>2, <1>3, <1>4 DEF CountInv, LocalInv, Handling, Dispatching
<1>7. TypeOK
  <2>1. pc \in [Runner -> {"tickle"} \cup RunPC \cup IdlePC]
        /\ after \in [Runner -> RunPC \cup IdlePC]
    BY <1>1 DEF RunPC
  <2>2. queue \in Seq([task : Task, thread : Runner \cup {AnyThread}])
    BY <1>1
  <2>3. QED
    BY <1>1, <1>5, <2>1, <2>2 DEF TypeOK
<1>8. EventInv
  BY <1>1 DEF EventInv
<1>9. PlaceInv
  BY <1>1, <1>2, <1>3 DEF PlaceInv, PlacesOf, Single, TriggeredInv, Triggered
<1>10. QuietInv
  BY <1>1, <1>3 DEF QuietInv
<1>11. QED
  BY <1>6, <1>7, <1>8, <1>9, <1>10 DEF LoopInv, TypeInv

\* Every step keeps the invariant.
LEMMA LoopNext == LoopInv /\ [Next]_vars => LoopInv'
<1> SUFFICES ASSUME LoopInv, [Next]_vars PROVE LoopInv'
  OBVIOUS
<1>1. TypeInv /\ EventInv /\ PlaceInv /\ QuietInv
  BY DEF LoopInv
<1>2. TypeInv' /\ QuietInv'
  BY <1>1, TypeNext, QuietNext
<1>3. CASE \/ \E a \in Runner : Call(a)
           \/ StopCall \/ UNCHANGED vars
           \/ \E t \in Task : Expires(t) \/ Arrive(t)
  BY <1>1, <1>2, <1>3, EventOthers, PlaceOthers DEF LoopInv
<1>4. CASE \E r \in Runner : RunStep(r)
  BY <1>1, <1>2, <1>4, EventSteps, PlaceSteps DEF LoopInv
<1>5. QED
  BY <1>3, <1>4 DEF Next, Terminated

\* The invariant holds in every reachable state.
LEMMA LoopAlways == Spec => []LoopInv
BY LoopInit, LoopNext, PTL DEF Spec

\* _activeThreadCount and _idleThreadCount stay between zero and the number of
\* threads, m_pendingEventCount in the range of size_t, and what a thread holds
\* has been handed over.
THEOREM TypesKept == Spec => []TypeOK
<1>1. LoopInv => TypeOK
  BY DEF LoopInv, TypeInv
<1>2. QED
  BY <1>1, LoopAlways, PTL

\* A callback is never lost, whatever threads dispatch its event at once: it is kept
\* with its timer or event, in the hands of a thread, in the queue, or done.  Unless
\* its descriptor became ready again before an idle thread was done with it, it is at
\* one of these places only.
THEOREM CallbackKept == Spec => []OnePlace
<1>1. ASSUME TypeInv, PlaceInv PROVE OnePlace
  <2>1. SUFFICES ASSUME NEW t \in added
                 PROVE Places(t) >= 1 /\ (t \notin twice => Places(t) = 1)
    BY DEF OnePlace
  <2> DEFINE I == {i \in 1 .. Len(queue) : queue[i].task = t}
             R == {r \in Runner : task[r] = t \/ t \in cbs[r]}
             k == IF t \in Kept THEN 1 ELSE 0
  <2>2. t \in Task /\ t # None
    BY <1>1, TaskAssumption DEF TypeInv, TypeOK
  <2>3. R = {r \in Runner : t \in hands[r]}
    BY <2>2 DEF hands
  <2>4. t \in waiting \/ (\E r \in Runner : t \in hands[r]) \/ t \in Kept
    BY <1>1 DEF PlaceInv, PlacesOf
  <2>5. Places(t) = Cardinality(I) + Cardinality(R) + k
    BY DEF Places
  <2>6. (t \in waiting => I # {}) /\ ((\E r \in Runner : t \in hands[r]) => R # {})
    BY <2>3 DEF waiting
  <2>7. IsFiniteSet(I) /\ IsFiniteSet(R)
    <3>1. IsFiniteSet(Worker) /\ IsFiniteSet({Owner})
      BY RunnerAssumption, FS_Singleton
    <3>2. IsFiniteSet(Runner) /\ R \subseteq Runner
      BY <3>1, FS_Union DEF Runner
    <3>3. Len(queue) \in Nat
      BY <1>1 DEF TypeInv, TypeOK
    <3>4. 1 \in Int /\ Len(queue) \in Int
      BY <3>3
    <3>5. IsFiniteSet(1 .. Len(queue)) /\ I \subseteq 1 .. Len(queue)
      BY <3>4, FS_Interval
    <3>6. QED
      BY <3>2, <3>5, FS_Subset
  <2>8. /\ Cardinality(I) \in Nat /\ Cardinality(R) \in Nat
        /\ (I # {} => Cardinality(I) # 0) /\ (R # {} => Cardinality(R) # 0)
        /\ (I = {} => Cardinality(I) = 0) /\ (R = {} => Cardinality(R) = 0)
    BY <2>7, FS_CardinalityType, FS_EmptySet
  <2>9. ASSUME t \notin twice
        PROVE  \/ R = {} /\ t \notin Kept /\ \E i : I = {i}
               \/ I = {} /\ t \notin Kept /\ \E r : R = {r}
               \/ I = {} /\ R = {} /\ t \in Kept
    <3>1. ASSUME t \in waiting PROVE R = {} /\ t \notin Kept /\ \E i : I = {i}
      <4>1. PICK i \in 1 .. Len(queue) : queue[i].task = t
        BY <3>1 DEF waiting
      <4>2. I = {i}
        BY <1>1, <2>9, <4>1 DEF PlaceInv, PlacesOf, Single
      <4>3. R = {} /\ t \notin Kept
        BY <1>1, <2>3, <2>9, <3>1 DEF PlaceInv, PlacesOf
      <4>4. QED
        BY <4>2, <4>3
    <3>2. ASSUME NEW r \in Runner, t \in hands[r]
          PROVE  I = {} /\ t \notin Kept /\ \E q : R = {q}
      <4>1. R = {r}
        BY <1>1, <2>3, <2>9, <3>2 DEF PlaceInv, PlacesOf
      <4>2. t \notin waiting /\ t \notin Kept
        BY <1>1, <2>9, <3>2 DEF PlaceInv, PlacesOf
      <4>3. I = {}
        BY <4>2 DEF waiting
      <4>4. QED
        BY <4>1, <4>2, <4>3
    <3>3. ASSUME t \in Kept PROVE I = {} /\ R = {}
      <4>1. R = {} /\ t \notin waiting
        BY <1>1, <2>3, <2>9, <3>3 DEF PlaceInv, PlacesOf
      <4>2. I = {}
        BY <4>1 DEF waiting
      <4>3. QED
        BY <4>1, <4>2
    <3>4. QED
      BY <2>4, <3>1, <3>2, <3>3
  <2>10. ((\E i : I = {i}) => Cardinality(I) = 1) /\ ((\E q : R = {q}) => Cardinality(R) = 1)
    BY FS_Singleton
  <2> HIDE DEF I, R
  <2>11. Places(t) >= 1
    BY <2>4, <2>5, <2>6, <2>8
  <2>12. ASSUME t \notin twice PROVE Places(t) = 1
    <3>1. \/ Cardinality(I) = 1 /\ Cardinality(R) = 0 /\ t \notin Kept
          \/ Cardinality(I) = 0 /\ Cardinality(R) = 1 /\ t \notin Kept
          \/ Cardinality(I) = 0 /\ Cardinality(R) = 0 /\ t \in Kept
      BY <2>8, <2>9, <2>10, <2>12, Zenon
    <3>2. QED
      BY <2>5, <3>1
  <2>13. QED
    BY <2>11, <2>12
<1>2. LoopInv => OnePlace
  BY <1>1 DEF LoopInv
<1>3. QED
  BY <1>2, LoopAlways, PTL

\* When the idle fiber of every thread has ended, whatever has not run waits for
\* a registered event: no callback is left in the queue, with a timer or in the
\* hands of a thread, in whichever order the threads left.
THEOREM NothingLeftBehind == Spec => []LeaveNothing
<1>1. ASSUME TypeInv, PlaceInv, QuietInv, AllEnded, NEW t \in added \ done
      PROVE  t \in events
  <2>1. AllLooked
    BY <1>1 DEF AllEnded, AllLooked
  <2>2. queue = <<>> /\ Holders = {} /\ timers = {}
    BY <1>1, <2>1 DEF QuietInv
  <2>3. t \notin waiting
    BY <2>2 DEF waiting
  <2>4. \A r \in Runner : task[r] = None
    BY <2>2 DEF Holders
  <2>5. \A r \in Runner : cbs[r] = {}
    BY <1>1 DEF AllEnded, TypeInv, LocalInv
  <2>6. \A r \in Runner : t \notin hands[r]
    BY <2>4, <2>5 DEF hands
  <2>7. t \in Kept
    BY <1>1, <2>3, <2>6 DEF PlaceInv, PlacesOf
  <2>8. QED
    BY <1>1, <2>2, <2>7 DEF Kept, TypeInv, TypeOK
<1>2. LoopInv => LeaveNothing
  BY <1>1 DEF LoopInv, LeaveNothing, AllEnded
<1>3. QED
  BY <1>2, LoopAlways, PTL
=============================================================================
