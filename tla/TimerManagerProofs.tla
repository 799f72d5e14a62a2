------------------------- MODULE TimerManagerProofs -------------------------
(***************************************************************************)
(* Theorems about TimerManager for any number of threads and timers and    *)
(* any clock: a timer is in the set exactly while its callback is set,     *)
(* a one-shot timer is queued once or cancelled, none is listed early on a *)
(* machine that has been up for an hour, and no wake-up that a sleeping    *)
(* runner needs is swallowed.                                              *)
(***************************************************************************)
EXTENDS TimerManager, FiniteSetTheorems, WellFoundedInduction, TLAPS

\* The runners that are counted in _idleThreadCount.
Idlers == {r \in Runner : pc[r] \in IdlePC}

\* An expiry is a period after a moment that is not in the future.
PeriodInv == \A t \in Timer : ms[t] <= next[t] /\ next[t] <= now + ms[t]

\* Clock readings are never in the future.
ClockInv == previous <= now /\ \A r \in Runner : seen[r] <= now

TypeInv == TypeOK /\ idle = Cardinality(Idlers) /\ PeriodInv /\ ClockInv

\* The set holds the timers with a callback, but for those that a thread has
\* constructed and not yet inserted, one per thread.
QueueInv ==
  /\ \A t \in Timer : t \in timers <=> cb[t] /\ Known(t)
  /\ \A a \in Thread : pc[a] = "insert" <=> fresh[a] # NoTimer
  /\ \A a \in Thread : fresh[a] # NoTimer => fresh[a] \in made /\ cb[fresh[a]]
  /\ \A a, b \in Thread : a # b /\ fresh[a] # NoTimer => fresh[a] # fresh[b]
  /\ \A t \in Timer \ made : ~cb[t]

\* A one-shot timer without a callback is in the hands of one runner, queued or
\* cancelled; a runner holds callbacks only until it has queued them.
OneShot == Timer \ Recurring

FateInv ==
  /\ cancelled \cup handed \subseteq made \ Recurring
  /\ cancelled \cap handed = {}
  /\ \A r \in Runner : /\ pc[r] # "back" => cbs[r] = {}
                       /\ cbs[r] \subseteq made
                       /\ cbs[r] \cap (cancelled \cup handed) = {}
  /\ \A t \in OneShot : \A r, q \in Runner : t \in cbs[r] \cap cbs[q] => r = q
  /\ \A t \in OneShot \cap made :
       cb[t] <=> t \notin cancelled \cup handed /\ \A r \in Runner : t \notin cbs[r]

\* Somebody is up who will look at the timers or wake a runner that does.
Alert ==
  \/ \E r \in Runner : pc[r] # "asleep"
  \/ \E a \in Thread : pc[a] = "notify"
  \/ pipe

\* A runner has woken, or wakes in time for the first timer.
Watched ==
  \E r \in Runner : deadline[r] <= next[First(next, timers)] \/ deadline[r] <= now

\* m_tickled is set only while a wake-up is on its way or a runner is up; else
\* a sleeping runner's timeout covers the first timer.
WakeInv ==
  Runner # {} => /\ tickled => Alert
                 /\ timers # {} => Alert \/ Watched

---------------------------------------------------------------------------
\* Helper operators of the model.

\* A set of numbers has a least one.
LEMMA LeastNat ==
  ASSUME NEW S \in SUBSET Nat, S # {}
  PROVE  \E m \in S : \A n \in S : m <= n
<1> DEFINE less == OpToRel(<, Nat)
<1>1. \A n, m \in Nat : n < m => <<n, m>> \in less
  BY DEF OpToRel
<1>2. IsWellFoundedOn(less, Nat)
  BY NatLessThanWellFounded
<1> HIDE DEF less
<1>3. PICK m \in S : \A n \in S : ~(<<n, m>> \in less)
  BY <1>2, WFMin
<1>4. ASSUME NEW n \in S PROVE m <= n
  <2>1. n \in Nat /\ m \in Nat
    OBVIOUS
  <2>2. ~(n < m)
    BY <1>1, <1>3, <2>1
  <2>3. QED
    BY <2>1, <2>2
<1>5. QED
  BY <1>4

\* A set of timers has a first one, and none of the set is due before it.
LEMMA FirstLeast ==
  ASSUME NEW f \in [Timer -> Nat], NEW S \in SUBSET Timer, S # {}
  PROVE  /\ First(f, S) \in S
         /\ \A t \in S : f[First(f, S)] <= f[t]
<1>1. {f[t] : t \in S} \in SUBSET Nat /\ {f[t] : t \in S} # {}
  OBVIOUS
<1>2. PICK m \in {f[t] : t \in S} : \A n \in {f[t] : t \in S} : m <= n
  BY <1>1, LeastNat
<1>3. \A t \in S : m <= f[t]
  BY <1>2
<1> DEFINE E == {t \in S : f[t] = m}
<1>4. E \in SUBSET Nat /\ E # {}
  BY <1>2, TimerAssumption
<1>5. PICK u \in E : \A t \in E : u <= t
  BY <1>4, LeastNat
<1>6. \A t \in S \ {u} : Before(f, u, t)
  <2>1. SUFFICES ASSUME NEW t \in S \ {u} PROVE Before(f, u, t)
    OBVIOUS
  <2>2. f[u] = m /\ m \in Nat /\ f[t] \in Nat /\ m <= f[t]
    BY <1>3, <1>5
  <2>3. CASE f[t] = m
    <3>1. u \in Nat /\ t \in Nat /\ u <= t /\ u # t
      BY <1>4, <1>5, <2>3
    <3>2. u < t
      BY <3>1
    <3>3. QED
      BY <2>2, <2>3, <3>2 DEF Before
  <2>4. CASE f[t] # m
    <3>1. f[u] < f[t]
      BY <2>2, <2>4
    <3>2. QED
      BY <3>1 DEF Before
  <2>5. QED
    BY <2>3, <2>4
<1>7. First(f, S) \in S /\ \A t \in S \ {First(f, S)} : Before(f, First(f, S), t)
  BY <1>5, <1>6 DEF First
<1>8. \A t \in S : f[t] \in Nat
  OBVIOUS
<1>9. \A t \in S \ {First(f, S)} : f[First(f, S)] <= f[t]
  BY <1>7, <1>8 DEF Before
<1>10. QED
  BY <1>7, <1>8, <1>9

\* When no timer of a smaller or later set is due before the old one was, the
\* first of the new set is not due before the first of the old.
LEMMA FirstLater ==
  ASSUME NEW f \in [Timer -> Nat], NEW S \in SUBSET Timer,
         NEW g \in [Timer -> Nat], NEW T \in SUBSET Timer, T # {},
         NEW t \in S, f[t] <= g[First(g, T)]
  PROVE  f[First(f, S)] <= g[First(g, T)]
<1>1. First(f, S) \in S /\ f[First(f, S)] <= f[t]
  BY FirstLeast
<1>2. First(g, T) \in T
  BY FirstLeast
<1>3. f[First(f, S)] \in Nat /\ f[t] \in Nat /\ g[First(g, T)] \in Nat
  BY <1>1, <1>2
<1>4. QED
  BY <1>1, <1>3

\* The clock and the difference getNextTimer returns are numbers.
LEMMA TimeoutNat == ASSUME TypeOK PROVE Timeout \in Nat /\ now \in Nat
<1>1. now \in Nat /\ MaxWait \in Nat
  BY TimerAssumption DEF TypeOK
<1>2. CASE timers = {}
  BY <1>1, <1>2 DEF Timeout
<1>3. CASE timers # {}
  <2>1. First(next, timers) \in timers
    BY <1>3, FirstLeast DEF TypeOK
  <2>2. next[First(next, timers)] \in Nat
    BY <2>1 DEF TypeOK
  <2>3. QED
    BY <1>1, <1>3, <2>2 DEF Timeout
<1>4. QED
  BY <1>1, <1>2, <1>3

\* A step that moves one thread.
LEMMA MoveThread ==
  ASSUME TypeOK, NEW a \in Thread, NEW where \in CallPC \cup IdlePC, Goto(a, where)
  PROVE  /\ pc' \in [Thread -> CallPC \cup IdlePC]
         /\ \A b \in Thread : pc'[b] = IF b = a THEN where ELSE pc[b]
  BY DEF TypeOK, Goto

\* add_timer(timer, lock) by a thread that is not idle.
LEMMA InsertStep ==
  ASSUME TypeOK, NEW a \in Thread, NEW t \in Timer, Insert(a, t)
  PROVE  /\ timers' = timers \cup {t}
         /\ tickled' \in BOOLEAN
         /\ tickled => tickled'
         /\ pc' \in [Thread -> CallPC \cup IdlePC]
         /\ \A b \in Thread \ {a} : pc'[b] = pc[b]
         /\ pc'[a] \in {"free", "notify"}
         /\ pc'[a] = "notify" <=> First(next', timers') = t /\ ~tickled
         /\ tickled' => tickled \/ pc'[a] = "notify"
<1> DEFINE tickle == First(next', timers') = t /\ ~tickled
<1>1. timers' = timers \cup {t} /\ tickled' = (tickled \/ tickle)
      /\ Goto(a, IF tickle THEN "notify" ELSE "free")
  BY DEF Insert
<1>2. tickled \in BOOLEAN /\ tickle \in BOOLEAN
  BY DEF TypeOK
<1> HIDE DEF tickle
<1>3. tickled' \in BOOLEAN
  BY <1>1, <1>2
<1>4. tickled' <=> tickled \/ tickle
  BY <1>1, <1>2
<1>5. (IF tickle THEN "notify" ELSE "free") \in CallPC \cup IdlePC
  BY DEF CallPC
<1>6. /\ pc' \in [Thread -> CallPC \cup IdlePC]
      /\ \A b \in Thread :
           pc'[b] = IF b = a THEN (IF tickle THEN "notify" ELSE "free") ELSE pc[b]
  BY <1>1, <1>5, MoveThread
<1>7. pc'[a] \in {"free", "notify"} /\ (pc'[a] = "notify" <=> tickle)
  BY <1>6
<1>8. tickle <=> First(next', timers') = t /\ ~tickled
  BY DEF tickle
<1>9. QED
  BY <1>1, <1>3, <1>4, <1>6, <1>7, <1>8

---------------------------------------------------------------------------
\* Types.

\* A set of runners grows and shrinks by one and has at most all of them.
LEMMA CountStep ==
  ASSUME NEW S \in SUBSET Runner, NEW r \in Runner
  PROVE  /\ Cardinality(S) \in Nat /\ Cardinality(Runner) \in Nat
         /\ Cardinality(S) <= Cardinality(Runner)
         /\ r \notin S => Cardinality(S \cup {r}) = Cardinality(S) + 1
         /\ r \in S => Cardinality(S \ {r}) = Cardinality(S) - 1
<1>1. IsFiniteSet(Runner) /\ IsFiniteSet(S)
  BY TimerAssumption, FS_Subset
<1>2. Cardinality(S) \in Nat /\ Cardinality(Runner) \in Nat
  BY <1>1, FS_CardinalityType
<1>3. Cardinality(S) <= Cardinality(Runner)
  BY <1>1, FS_Subset
<1>4. r \notin S => Cardinality(S \cup {r}) = Cardinality(S) + 1
  BY <1>1, FS_AddElement
<1>5. r \in S => Cardinality(S \ {r}) = Cardinality(S) - 1
  BY <1>1, FS_RemoveElement
<1>6. QED
  BY <1>2, <1>3, <1>4, <1>5

\* The count of the idle runners after a step, by what it does to them.
LEMMA IdleCount ==
  ASSUME TypeInv, NEW r \in Runner,
         \/ Idlers' = Idlers /\ idle' = idle
         \/ Idlers' = Idlers \cup {r} /\ r \notin Idlers /\ idle' = idle + 1
         \/ Idlers' = Idlers \ {r} /\ r \in Idlers /\ idle' = idle - 1
  PROVE  idle' = Cardinality(Idlers') /\ idle' \in 0 .. Cardinality(Runner)
<1>1. Idlers \in SUBSET Runner /\ Idlers' \in SUBSET Runner
  BY DEF Idlers
<1>2. idle = Cardinality(Idlers)
  BY DEF TypeInv
<1>3. /\ Cardinality(Idlers) \in Nat /\ Cardinality(Runner) \in Nat
      /\ r \notin Idlers => Cardinality(Idlers \cup {r}) = Cardinality(Idlers) + 1
      /\ r \in Idlers => Cardinality(Idlers \ {r}) = Cardinality(Idlers) - 1
  BY <1>1, CountStep
<1>4. Cardinality(Idlers') \in Nat /\ Cardinality(Idlers') <= Cardinality(Runner)
  BY <1>1, CountStep
<1>5. idle' = Cardinality(Idlers')
  BY <1>2, <1>3
<1>6. QED
  BY <1>3, <1>4, <1>5

\* A step of a thread that was not and is not idle leaves the idle ones alone.
LEMMA IdlersKept ==
  ASSUME TypeOK, \A r \in Runner : pc'[r] \in IdlePC <=> pc[r] \in IdlePC,
         idle = Cardinality(Idlers), idle' = idle
  PROVE  idle' = Cardinality(Idlers') /\ idle' \in 0 .. Cardinality(Runner)
<1>1. Idlers' = Idlers
  BY DEF Idlers
<1>2. QED
  BY <1>1 DEF TypeOK

\* Initially no thread is in a call and nothing is counted.
LEMMA TypeInit == Init => TypeInv
<1> SUFFICES ASSUME Init PROVE TypeInv
  OBVIOUS
<1>1. Start \in Nat /\ Horizon \in Nat /\ Start \in Start .. Horizon
  BY TimerAssumption
<1>2. Idlers = {}
  BY DEF Init, Idlers, IdlePC, Thread
<1>3. idle = Cardinality(Idlers) /\ idle \in 0 .. Cardinality(Runner)
  <2>1. Cardinality(Runner) \in Nat
    BY TimerAssumption, FS_CardinalityType
  <2>2. QED
    BY <1>2, <2>1, FS_EmptySet DEF Init
<1>4. /\ now = Start /\ previous = Start /\ timers = {} /\ made = {}
      /\ next = [t \in Timer |-> 0] /\ ms = [t \in Timer |-> 0]
      /\ cb = [t \in Timer |-> FALSE] /\ tickled = FALSE /\ pipe = FALSE
      /\ seen = [r \in Runner |-> Start] /\ cancelled = {} /\ handed = {}
  BY DEF Init
<1>5. /\ pc \in [Thread -> CallPC \cup IdlePC]
      /\ fresh \in [Thread -> Timer \cup {NoTimer}]
      /\ deadline \in [Runner -> Nat] /\ cbs \in [Runner -> SUBSET Timer]
  BY DEF Init, CallPC
<1>6. TypeOK
  BY <1>1, <1>3, <1>4, <1>5 DEF TypeOK
<1>7. PeriodInv /\ ClockInv
  BY <1>1, <1>4 DEF PeriodInv, ClockInv
<1>8. QED
  BY <1>3, <1>6, <1>7 DEF TypeInv

\* The history names timers.
LEMMA HistoryTypes ==
  ASSUME TypeOK, [Next]_vars
  PROVE  cancelled' \subseteq Timer /\ handed' \subseteq Timer
<1>1. CASE UNCHANGED history
  BY <1>1 DEF history, TypeOK
<1>2. ASSUME NEW a \in Thread, NEW t \in Timer, Cancel(a, t)
      PROVE  cancelled' \subseteq Timer /\ handed' \subseteq Timer
  BY <1>2 DEF Cancel, TypeOK
<1>3. ASSUME NEW r \in Runner, AddExpired(r)
      PROVE  cancelled' \subseteq Timer /\ handed' \subseteq Timer
  BY <1>3 DEF AddExpired, TypeOK
<1>4. QED
  BY <1>1, <1>2, <1>3
  DEF Next, vars, Tick, Call, AddTimer, Reset, Refresh, InsertTimer, Notify,
      LoopStep, GoIdle, NextTimer, Wake, ReadClock, Expire, Back

\* A call of the program keeps the types; a new expiry lies ahead.
LEMMA CallTypes ==
  ASSUME TypeInv, QueueInv, NEW a \in Thread, Call(a) \/ InsertTimer(a) \/ Notify(a)
  PROVE  TypeInv'
<1> USE DEF TypeInv
<1>9. cancelled' \subseteq Timer /\ handed' \subseteq Timer
  BY HistoryTypes DEF Next
<1> USE <1>9
<1>1. /\ now \in Nat /\ now \in Start .. Horizon
      /\ \A t \in Timer : ms[t] \in Nat /\ next[t] \in Nat
      /\ ms \in [Timer -> Nat] /\ next \in [Timer -> Nat]
  BY TimerAssumption DEF TypeOK
<1>2. ASSUME NEW t \in Timer, NEW d \in Period, AddTimer(a, t, d) PROVE TypeInv'
  <2>1. d \in Nat /\ t \in Timer \cup {NoTimer} /\ now + d \in Nat
    BY <1>1, TimerAssumption
  <2>2. /\ UNCHANGED <<now, timers, tickled, previous>>
        /\ UNCHANGED <<deadline, seen, cbs, idle, pipe>>
        /\ made' = made \cup {t} /\ ms' = [ms EXCEPT ![t] = d]
        /\ next' = [next EXCEPT ![t] = now + d]
        /\ cb' = [cb EXCEPT ![t] = TRUE]
        /\ fresh' = [fresh EXCEPT ![a] = t]
        /\ pc[a] = "free" /\ Goto(a, "insert")
    BY <1>2 DEF AddTimer, At, flagVars, loopVars
  <2>3. /\ pc' \in [Thread -> CallPC \cup IdlePC]
        /\ \A b \in Thread : pc'[b] = IF b = a THEN "insert" ELSE pc[b]
    BY <2>2, MoveThread DEF CallPC
  <2>4. idle' = Cardinality(Idlers') /\ idle' \in 0 .. Cardinality(Runner)
    BY <2>2, <2>3, IdlersKept DEF IdlePC, Thread
  <2>5. /\ timers' \subseteq made' /\ made' \subseteq Timer
        /\ next' \in [Timer -> Nat] /\ ms' \in [Timer -> Nat]
        /\ cb' \in [Timer -> BOOLEAN] /\ fresh' \in [Thread -> Timer \cup {NoTimer}]
    BY <2>1, <2>2 DEF TypeOK
  <2>6. TypeOK'
    BY <2>2, <2>3, <2>4, <2>5 DEF TypeOK
  <2>7. PeriodInv'
    <3>1. SUFFICES ASSUME NEW u \in Timer
                   PROVE  ms'[u] <= next'[u] /\ next'[u] <= now' + ms'[u]
      BY DEF PeriodInv
    <3>2. CASE u = t
      BY <1>1, <2>1, <2>2, <3>2
    <3>3. CASE u # t
      BY <1>1, <2>2, <3>3 DEF PeriodInv
    <3>4. QED
      BY <3>2, <3>3
  <2>8. QED
    BY <2>2, <2>4, <2>6, <2>7 DEF ClockInv
<1>3. ASSUME NEW t \in Timer, NEW d \in Period, NEW from_now \in BOOLEAN,
             Reset(a, t, d, from_now)
      PROVE  TypeInv'
  <2> DEFINE start == IF from_now THEN now ELSE next[t] - ms[t]
  <2>1. /\ UNCHANGED <<now, cb, made, previous, fresh>>
        /\ UNCHANGED <<deadline, seen, cbs, idle, pipe>>
        /\ next' = [next EXCEPT ![t] = start + d]
        /\ ms' = [ms EXCEPT ![t] = d]
        /\ t \in timers /\ pc[a] = "free" /\ Insert(a, t)
    BY <1>3 DEF Reset, At, loopVars
  <2>2. start \in Nat /\ start <= now /\ d \in Nat
    BY <1>1, TimerAssumption DEF PeriodInv
  <2>3. start + d \in Nat /\ d <= start + d /\ start + d <= now + d
    BY <1>1, <2>2
  <2> HIDE DEF start
  <2>4. /\ timers' = timers \cup {t} /\ tickled' \in BOOLEAN
        /\ pc' \in [Thread -> CallPC \cup IdlePC]
        /\ \A b \in Thread \ {a} : pc'[b] = pc[b]
        /\ pc'[a] \in {"free", "notify"}
    BY <2>1, InsertStep
  <2>5. idle' = Cardinality(Idlers') /\ idle' \in 0 .. Cardinality(Runner)
    BY <2>1, <2>4, IdlersKept DEF IdlePC, Thread
  <2>6. /\ timers' \subseteq made' /\ made' \subseteq Timer
        /\ next' \in [Timer -> Nat] /\ ms' \in [Timer -> Nat]
    BY <2>1, <2>2, <2>3, <2>4 DEF TypeOK
  <2>7. TypeOK'
    BY <2>1, <2>4, <2>5, <2>6 DEF TypeOK
  <2>8. PeriodInv'
    <3>1. SUFFICES ASSUME NEW u \in Timer
                   PROVE  ms'[u] <= next'[u] /\ next'[u] <= now' + ms'[u]
      BY DEF PeriodInv
    <3>2. CASE u = t
      BY <1>1, <2>1, <2>3, <3>2
    <3>3. CASE u # t
      BY <1>1, <2>1, <3>3 DEF PeriodInv
    <3>4. QED
      BY <3>2, <3>3
  <2>9. QED
    BY <2>1, <2>5, <2>7, <2>8 DEF ClockInv
<1>4. ASSUME NEW t \in Timer, Cancel(a, t) PROVE TypeInv'
  <2>1. /\ UNCHANGED <<now, next, ms, made, tickled, previous, pc, fresh>>
        /\ UNCHANGED <<deadline, seen, cbs, idle, pipe>>
        /\ cb' = [cb EXCEPT ![t] = FALSE] /\ timers' = timers \ {t}
    BY <1>4 DEF Cancel, flagVars, loopVars
  <2>2. TypeOK'
    BY <2>1 DEF TypeOK
  <2>3. QED
    BY <2>1, <2>2 DEF Idlers, PeriodInv, ClockInv
<1>5. ASSUME NEW t \in Timer, Refresh(a, t) PROVE TypeInv'
  <2>1. /\ UNCHANGED <<now, timers, ms, cb, made, tickled, previous, pc, fresh>>
        /\ UNCHANGED <<deadline, seen, cbs, idle, pipe>>
        /\ next' = [next EXCEPT ![t] = now + ms[t]]
    BY <1>5 DEF Refresh, flagVars, loopVars
  <2>2. TypeOK'
    BY <1>1, <2>1 DEF TypeOK
  <2>3. \A u \in Timer : next'[u] = IF u = t THEN now + ms[t] ELSE next[u]
    BY <1>1, <2>1
  <2>4. PeriodInv'
    BY <1>1, <2>1, <2>3 DEF PeriodInv
  <2>5. QED
    BY <2>1, <2>2, <2>4 DEF Idlers, ClockInv
<1>6. CASE InsertTimer(a)
  <2>1. /\ UNCHANGED <<now, next, ms, cb, made, previous>>
        /\ UNCHANGED <<deadline, seen, cbs, idle, pipe>>
        /\ fresh' = [fresh EXCEPT ![a] = NoTimer]
        /\ pc[a] = "insert" /\ Insert(a, fresh[a])
    BY <1>6 DEF InsertTimer, At, loopVars
  <2>2. fresh[a] \in made /\ fresh[a] \in Timer
    BY <2>1 DEF QueueInv, TypeOK
  <2>3. /\ timers' = timers \cup {fresh[a]} /\ tickled' \in BOOLEAN
        /\ pc' \in [Thread -> CallPC \cup IdlePC]
        /\ \A b \in Thread \ {a} : pc'[b] = pc[b]
        /\ pc'[a] \in {"free", "notify"}
    BY <2>1, <2>2, InsertStep
  <2>4. idle' = Cardinality(Idlers') /\ idle' \in 0 .. Cardinality(Runner)
    BY <2>1, <2>3, IdlersKept DEF IdlePC, Thread
  <2>5. TypeOK'
    BY <2>1, <2>2, <2>3, <2>4 DEF TypeOK
  <2>6. QED
    BY <2>1, <2>4, <2>5 DEF PeriodInv, ClockInv
<1>7. CASE Notify(a)
  <2>1. /\ UNCHANGED <<now, timers, next, ms, cb, made, tickled, previous, fresh>>
        /\ UNCHANGED <<deadline, seen, cbs, idle>>
        /\ pipe' = (pipe \/ idle > 0) /\ pc[a] = "notify" /\ Goto(a, "free")
    BY <1>7 DEF Notify, At, timerVars, flagVars, loopVars
  <2>2. pipe' \in BOOLEAN
    BY <2>1
  <2>3. /\ pc' \in [Thread -> CallPC \cup IdlePC]
        /\ \A b \in Thread : pc'[b] = IF b = a THEN "free" ELSE pc[b]
    BY <2>1, MoveThread DEF CallPC
  <2>4. idle' = Cardinality(Idlers') /\ idle' \in 0 .. Cardinality(Runner)
    BY <2>1, <2>3, IdlersKept DEF IdlePC, Thread
  <2>5. TypeOK'
    BY <2>1, <2>2, <2>3, <2>4 DEF TypeOK
  <2>6. QED
    BY <2>1, <2>4, <2>5 DEF PeriodInv, ClockInv
<1>8. QED
  BY <1>2, <1>3, <1>4, <1>5, <1>6, <1>7 DEF Call

\* The idle loop of a runner keeps the types: ++ and -- of _idleThreadCount
\* pair up, and a recurring timer goes back in a period ahead.
LEMMA LoopTypes ==
  ASSUME TypeInv, NEW r \in Runner, LoopStep(r)
  PROVE  TypeInv'
<1> USE DEF TypeInv
<1>1. /\ now \in Nat /\ now \in Start .. Horizon /\ r \in Thread
      /\ \A t \in Timer : ms[t] \in Nat /\ next[t] \in Nat
      /\ ms \in [Timer -> Nat] /\ next \in [Timer -> Nat]
  BY TimerAssumption DEF TypeOK, Thread
<1>12. cancelled' \subseteq Timer /\ handed' \subseteq Timer
  BY HistoryTypes DEF Next
<1> USE <1>12
<1>2. ASSUME NEW where \in CallPC \cup IdlePC, Goto(r, where)
      PROVE  /\ pc' \in [Thread -> CallPC \cup IdlePC]
             /\ where \in IdlePC => Idlers' = Idlers \cup {r}
             /\ where \notin IdlePC => Idlers' = Idlers \ {r}
  BY <1>1, <1>2, MoveThread DEF Idlers, Thread
<1>3. r \in Idlers <=> pc[r] \in IdlePC
  BY DEF Idlers
<1>4. CASE GoIdle(r)
  <2>1. /\ UNCHANGED <<now, timers, next, ms, cb, made, tickled, previous>>
        /\ UNCHANGED <<fresh, deadline, seen, cbs, pipe>>
        /\ pc[r] = "free" /\ idle' = idle + 1 /\ Goto(r, "idle")
    BY <1>4 DEF GoIdle, EnterIdle, At, timerVars, flagVars
  <2>2. pc' \in [Thread -> CallPC \cup IdlePC] /\ Idlers' = Idlers \cup {r}
    BY <1>2, <2>1 DEF IdlePC
  <2>3. idle' = Cardinality(Idlers') /\ idle' \in 0 .. Cardinality(Runner)
    BY <1>3, <2>1, <2>2, IdleCount DEF IdlePC
  <2>4. TypeOK'
    BY <2>1, <2>2, <2>3 DEF TypeOK
  <2>5. QED
    BY <2>1, <2>3, <2>4 DEF PeriodInv, ClockInv
<1>5. CASE NextTimer(r)
  <2>1. /\ UNCHANGED <<now, timers, next, ms, cb, made, previous>>
        /\ UNCHANGED <<fresh, seen, cbs, idle, pipe>>
        /\ tickled' = FALSE /\ deadline' = [deadline EXCEPT ![r] = now + Timeout]
        /\ pc[r] = "idle" /\ Goto(r, "asleep")
    BY <1>5 DEF NextTimer, Untickle, At, timerVars
  <2>2. now + Timeout \in Nat
    BY TimeoutNat
  <2>3. pc' \in [Thread -> CallPC \cup IdlePC] /\ Idlers' = Idlers
    BY <1>2, <1>3, <2>1 DEF IdlePC
  <2>4. deadline' \in [Runner -> Nat]
    BY <2>1, <2>2 DEF TypeOK
  <2>5. TypeOK'
    BY <2>1, <2>3, <2>4 DEF TypeOK
  <2>6. QED
    BY <2>1, <2>3, <2>5 DEF PeriodInv, ClockInv
<1>6. CASE Wake(r)
  <2>1. /\ UNCHANGED <<now, timers, next, ms, cb, made, tickled, previous>>
        /\ UNCHANGED <<fresh, seen, cbs, idle>>
        /\ pipe' = FALSE /\ deadline' = [deadline EXCEPT ![r] = 0]
        /\ pc[r] = "asleep" /\ Goto(r, "woken")
    BY <1>6 DEF Wake, At, timerVars, flagVars
  <2>2. pc' \in [Thread -> CallPC \cup IdlePC] /\ Idlers' = Idlers
    BY <1>2, <1>3, <2>1 DEF IdlePC
  <2>3. TypeOK'
    BY <2>1, <2>2 DEF TypeOK
  <2>4. QED
    BY <2>1, <2>2, <2>3 DEF PeriodInv, ClockInv
<1>7. CASE ReadClock(r)
  <2>1. /\ UNCHANGED <<now, timers, next, ms, cb, made, tickled, previous>>
        /\ UNCHANGED <<fresh, deadline, cbs, idle, pipe>>
        /\ seen' = [seen EXCEPT ![r] = now]
        /\ pc[r] = "woken" /\ Goto(r, "expire")
    BY <1>7 DEF ReadClock, At, timerVars, flagVars
  <2>2. pc' \in [Thread -> CallPC \cup IdlePC] /\ Idlers' = Idlers
    BY <1>2, <1>3, <2>1 DEF IdlePC
  <2>3. seen' \in [Runner -> Start .. Horizon]
        /\ \A q \in Runner : seen'[q] = IF q = r THEN now ELSE seen[q]
    BY <1>1, <2>1 DEF TypeOK
  <2>4. TypeOK'
    BY <2>1, <2>2, <2>3 DEF TypeOK
  <2>5. ClockInv'
    BY <1>1, <2>1, <2>3 DEF ClockInv
  <2>6. QED
    BY <2>1, <2>2, <2>4, <2>5 DEF PeriodInv
<1>8. CASE Expire(r)
  <2>1. PICK S \in SUBSET timers :
          /\ timers' = timers \ (S \ Recurring)
          /\ next' = [t \in Timer |->
                        IF t \in S \cap Recurring THEN now + ms[t] ELSE next[t]]
          /\ cb' = [t \in Timer |-> cb[t] /\ (t \notin S \/ t \in Recurring)]
          /\ cbs' = [cbs EXCEPT ![r] = S]
    BY <1>8 DEF Expire, Expired, Spend
  <2>2. /\ UNCHANGED <<now, ms, made, tickled, fresh, deadline, idle, pipe>>
        /\ previous' = IF timers = {} THEN previous ELSE seen[r]
        /\ seen' = [seen EXCEPT ![r] = Start]
        /\ pc[r] = "expire" /\ Goto(r, "back")
    BY <1>8 DEF Expire, At
  <2>3. pc' \in [Thread -> CallPC \cup IdlePC] /\ Idlers' = Idlers
    BY <1>2, <1>3, <2>2 DEF IdlePC
  <2>4. Start \in Start .. Horizon /\ Start <= now /\ Start \in Nat
    BY <1>1, TimerAssumption
  <2>5. seen' \in [Runner -> Start .. Horizon] /\ previous' \in Start .. Horizon
    BY <2>2, <2>4 DEF TypeOK
  <2>6. /\ timers' \subseteq made' /\ cb' \in [Timer -> BOOLEAN]
        /\ next' \in [Timer -> Nat] /\ cbs' \in [Runner -> SUBSET Timer]
    BY <1>1, <2>1, <2>2 DEF TypeOK
  <2>7. TypeOK'
    BY <2>2, <2>3, <2>5, <2>6 DEF TypeOK
  <2>8. PeriodInv'
    BY <1>1, <2>1, <2>2 DEF PeriodInv
  <2>9. ClockInv'
    BY <2>2, <2>4 DEF ClockInv, TypeOK
  <2>10. QED
    BY <2>2, <2>3, <2>7, <2>8, <2>9
<1>9. CASE Back(r)
  <2>1. /\ UNCHANGED <<now, timers, next, ms, cb, made, tickled, previous>>
        /\ UNCHANGED <<fresh, deadline, seen, cbs, pipe, cancelled, handed>>
        /\ pc[r] = "back" /\ idle' = idle - 1 /\ Goto(r, "free")
    BY <1>9 DEF Back, At, timerVars, flagVars, history
  <2>2. pc' \in [Thread -> CallPC \cup IdlePC] /\ Idlers' = Idlers \ {r}
    BY <1>2, <2>1 DEF CallPC, IdlePC
  <2>3. idle' = Cardinality(Idlers') /\ idle' \in 0 .. Cardinality(Runner)
    BY <1>3, <2>1, <2>2, IdleCount DEF IdlePC
  <2>4. TypeOK'
    BY <2>1, <2>2, <2>3 DEF TypeOK
  <2>5. QED
    BY <2>1, <2>3, <2>4 DEF PeriodInv, ClockInv
<1>10. CASE AddExpired(r)
  <2>1. PICK t \in cbs[r] : /\ cbs' = [cbs EXCEPT ![r] = @ \ {t}]
                            /\ handed' = handed \cup ({t} \ Recurring)
    BY <1>10 DEF AddExpired
  <2>2. /\ UNCHANGED <<now, timers, next, ms, cb, made, tickled, previous>>
        /\ UNCHANGED <<pc, fresh, deadline, seen, idle, cancelled>>
        /\ pipe' \in {pipe, TRUE}
    BY <1>10 DEF AddExpired, timerVars, flagVars
  <2>3. /\ cbs' \in [Runner -> SUBSET Timer] /\ handed' \subseteq Timer
        /\ pipe' \in BOOLEAN /\ Idlers' = Idlers
    BY <2>1, <2>2 DEF TypeOK, Idlers
  <2>4. TypeOK'
    BY <2>2, <2>3 DEF TypeOK
  <2>5. QED
    BY <2>2, <2>3, <2>4 DEF PeriodInv, ClockInv
<1>11. QED
  BY <1>4, <1>5, <1>6, <1>7, <1>8, <1>9, <1>10 DEF LoopStep

\* Every step keeps the types.
LEMMA TypeNext ==
  ASSUME TypeInv, QueueInv, [Next]_vars
  PROVE  TypeInv'
<1>1. CASE UNCHANGED vars
  BY <1>1 DEF vars, timerVars, flagVars, loopVars, history, TypeInv, TypeOK,
              Idlers, PeriodInv, ClockInv
<1>2. CASE Tick
  <2>1. /\ UNCHANGED <<timers, next, ms, cb, made, tickled, previous, pc, fresh>>
        /\ UNCHANGED <<deadline, seen, cbs, idle, pipe, cancelled, handed>>
        /\ now < Horizon /\ now' = now + 1
    BY <1>2 DEF Tick, timerVars, flagVars, loopVars, history
  <2>2. now \in Nat /\ now' \in Start .. Horizon /\ now' \in Nat
    BY <2>1, TimerAssumption DEF TypeInv, TypeOK
  <2>3. TypeOK'
    BY <2>1, <2>2 DEF TypeInv, TypeOK
  <2>4. PeriodInv'
    BY <2>1, <2>2 DEF TypeInv, TypeOK, PeriodInv
  <2>5. ClockInv'
    <3>1. previous \in Int /\ \A r \in Runner : seen[r] \in Int
      BY DEF TypeInv, TypeOK
    <3>2. QED
      BY <2>1, <2>2, <3>1 DEF TypeInv, ClockInv
  <2>6. QED
    BY <2>1, <2>3, <2>4, <2>5 DEF TypeInv, Idlers
<1>3. QED
  BY <1>1, <1>2, CallTypes, LoopTypes DEF Next

---------------------------------------------------------------------------
\* A timer is in the set exactly while it has a callback.

\* A step that changes neither timers nor who is constructing one.
LEMMA QueueQuiet ==
  ASSUME QueueInv, UNCHANGED <<timers, cb, made, fresh>>,
         \A a \in Thread : pc'[a] = "insert" <=> pc[a] = "insert"
  PROVE  QueueInv'
  BY DEF QueueInv, Known

\* A call of the program keeps the set and the callbacks together.
LEMMA CallQueue ==
  ASSUME TypeInv, QueueInv, NEW a \in Thread, Call(a) \/ InsertTimer(a) \/ Notify(a)
  PROVE  QueueInv'
<1>1. TypeOK /\ NoTimer \notin Timer
  BY TimerAssumption DEF TypeInv, NoTimer
<1>2. ASSUME NEW t \in Timer, NEW d \in Period, AddTimer(a, t, d) PROVE QueueInv'
  <2>1. /\ UNCHANGED timers /\ t \notin made /\ pc[a] = "free"
        /\ made' = made \cup {t}
        /\ \A u \in Timer : cb'[u] = IF u = t THEN TRUE ELSE cb[u]
        /\ \A b \in Thread : fresh'[b] = IF b = a THEN t ELSE fresh[b]
        /\ \A b \in Thread : pc'[b] = IF b = a THEN "insert" ELSE pc[b]
    BY <1>1, <1>2 DEF AddTimer, At, Goto, TypeOK
  <2>2. fresh[a] = NoTimer /\ t \notin timers /\ t # NoTimer
    BY <1>1, <2>1 DEF QueueInv, Known
  <2>3. \A u \in Timer : Known(u)' <=> Known(u) /\ u # t
    BY <1>1, <2>1, <2>2 DEF Known
  <2>4. \A u \in Timer : u \in timers' <=> cb'[u] /\ Known(u)'
    BY <2>1, <2>2, <2>3 DEF QueueInv
  <2>5. \A b \in Thread : pc'[b] = "insert" <=> fresh'[b] # NoTimer
    BY <2>1, <2>2 DEF QueueInv
  <2>6. \A b \in Thread :
          fresh'[b] # NoTimer => fresh'[b] \in made' /\ cb'[fresh'[b]]
    BY <1>1, <2>1 DEF QueueInv, TypeOK
  <2>7. \A b \in Thread : fresh[b] # t
    BY <2>1, <2>2 DEF QueueInv
  <2>8. \A b, c \in Thread : b # c /\ fresh'[b] # NoTimer => fresh'[b] # fresh'[c]
    BY <2>1, <2>7 DEF QueueInv
  <2>9. \A u \in Timer \ made' : ~cb'[u]
    BY <2>1 DEF QueueInv
  <2>10. QED
    BY <2>4, <2>5, <2>6, <2>8, <2>9 DEF QueueInv
<1>3. ASSUME NEW t \in Timer, NEW d \in Period, NEW from_now \in BOOLEAN,
             Reset(a, t, d, from_now)
      PROVE  QueueInv'
  <2>1. UNCHANGED <<cb, made, fresh>> /\ t \in timers /\ pc[a] = "free" /\ Insert(a, t)
    BY <1>3 DEF Reset, At
  <2>2. /\ timers' = timers \cup {t}
        /\ \A b \in Thread \ {a} : pc'[b] = pc[b]
        /\ pc'[a] \in {"free", "notify"}
    BY <1>1, <2>1, InsertStep
  <2>3. timers' = timers
    BY <2>1, <2>2
  <2>4. QED
    BY <2>1, <2>2, <2>3, QueueQuiet
<1>4. ASSUME NEW t \in Timer, Cancel(a, t) PROVE QueueInv'
  <2>1. /\ UNCHANGED <<made, fresh, pc>> /\ Known(t)
        /\ \A u \in Timer : cb'[u] = IF u = t THEN FALSE ELSE cb[u]
        /\ timers' = timers \ {t}
    BY <1>1, <1>4 DEF Cancel, TypeOK
  <2>2. \A b \in Thread : fresh[b] # t
    BY <2>1 DEF Known
  <2>3. \A u \in Timer : u \in timers' <=> cb'[u] /\ Known(u)'
    BY <2>1 DEF QueueInv, Known
  <2>4. \A b \in Thread :
          fresh'[b] # NoTimer => fresh'[b] \in made' /\ cb'[fresh'[b]]
    BY <1>1, <2>1, <2>2 DEF QueueInv, TypeOK
  <2>5. \A u \in Timer \ made' : ~cb'[u]
    BY <2>1 DEF QueueInv
  <2>6. QED
    BY <2>1, <2>3, <2>4, <2>5 DEF QueueInv
<1>5. ASSUME NEW t \in Timer, Refresh(a, t) PROVE QueueInv'
  BY <1>5, QueueQuiet DEF Refresh
<1>6. CASE InsertTimer(a)
  <2> DEFINE t == fresh[a]
  <2>1. /\ UNCHANGED <<cb, made>> /\ pc[a] = "insert" /\ Insert(a, fresh[a])
        /\ \A b \in Thread : fresh'[b] = IF b = a THEN NoTimer ELSE fresh[b]
    BY <1>1, <1>6 DEF InsertTimer, At, TypeOK
  <2>2. PICK u \in Timer : u = fresh[a]
    BY <1>1, <2>1 DEF QueueInv, TypeOK
  <2>3. u \in made /\ cb[u] /\ u # NoTimer
        /\ \A b \in Thread \ {a} : fresh[b] # u
    BY <2>1, <2>2 DEF QueueInv
  <2>4. /\ timers' = timers \cup {u}
        /\ \A b \in Thread \ {a} : pc'[b] = pc[b]
        /\ pc'[a] \in {"free", "notify"}
    BY <1>1, <2>1, <2>2, InsertStep
  <2>5. \A v \in Timer : Known(v)' <=> Known(v) \/ v = u
    BY <1>1, <2>1, <2>2, <2>3 DEF Known
  <2>6. \A v \in Timer : v \in timers' <=> cb'[v] /\ Known(v)'
    BY <2>1, <2>3, <2>4, <2>5 DEF QueueInv
  <2>7. \A b \in Thread : pc'[b] = "insert" <=> fresh'[b] # NoTimer
    BY <2>1, <2>4 DEF QueueInv
  <2>8. QED
    BY <2>1, <2>6, <2>7 DEF QueueInv
<1>7. CASE Notify(a)
  <2>1. UNCHANGED <<timers, cb, made, fresh>> /\ pc[a] = "notify" /\ Goto(a, "free")
    BY <1>7 DEF Notify, At, timerVars
  <2>2. \A b \in Thread : pc'[b] = IF b = a THEN "free" ELSE pc[b]
    BY <1>1, <2>1, MoveThread DEF CallPC
  <2>3. QED
    BY <2>1, <2>2, QueueQuiet
<1>8. QED
  BY <1>2, <1>3, <1>4, <1>5, <1>6, <1>7 DEF Call

\* The timers that listExpiredCb takes out are in the set, and only the
\* recurring ones go back and keep their callbacks.
LEMMA ExpireTakes ==
  ASSUME TypeInv, QueueInv, NEW r \in Runner, Expire(r)
  PROVE  \E S \in SUBSET timers :
           /\ timers' = timers \ (S \ Recurring)
           /\ \A t \in Timer : cb'[t] <=> cb[t] /\ (t \notin S \/ t \in Recurring)
           /\ cbs' = [cbs EXCEPT ![r] = S]
<1>1. PICK S \in SUBSET timers :
        /\ timers' = timers \ (S \ Recurring)
        /\ cb' = [t \in Timer |-> cb[t] /\ (t \notin S \/ t \in Recurring)]
        /\ cbs' = [cbs EXCEPT ![r] = S]
  BY DEF Expire, Expired, Spend
<1>2. \A t \in Timer : cb'[t] <=> cb[t] /\ (t \notin S \/ t \in Recurring)
  BY <1>1
<1>3. QED
  BY <1>1, <1>2

\* The idle loop keeps the set and the callbacks together.
LEMMA LoopQueue ==
  ASSUME TypeInv, QueueInv, NEW r \in Runner, LoopStep(r)
  PROVE  QueueInv'
<1>1. TypeOK /\ r \in Thread
  BY DEF TypeInv, Thread
<1>2. ASSUME NEW where \in IdlePC \cup {"free"}, Goto(r, where), pc[r] # "insert"
      PROVE  \A a \in Thread : pc'[a] = "insert" <=> pc[a] = "insert"
  BY <1>1, <1>2, MoveThread DEF CallPC, IdlePC
<1>3. CASE GoIdle(r)
  BY <1>2, <1>3, QueueQuiet DEF GoIdle, At, IdlePC, timerVars
<1>4. CASE NextTimer(r)
  BY <1>2, <1>4, QueueQuiet DEF NextTimer, At, IdlePC, timerVars
<1>5. CASE Wake(r)
  BY <1>2, <1>5, QueueQuiet DEF Wake, At, IdlePC, timerVars
<1>6. CASE ReadClock(r)
  BY <1>2, <1>6, QueueQuiet DEF ReadClock, At, IdlePC, timerVars
<1>7. CASE Expire(r)
  <2>1. PICK S \in SUBSET timers :
          /\ timers' = timers \ (S \ Recurring)
          /\ \A t \in Timer : cb'[t] <=> cb[t] /\ (t \notin S \/ t \in Recurring)
    BY <1>7, ExpireTakes
  <2>2. UNCHANGED <<made, fresh>> /\ pc[r] = "expire" /\ Goto(r, "back")
    BY <1>7 DEF Expire, At
  <2>3. \A a \in Thread : pc'[a] = "insert" <=> pc[a] = "insert"
    BY <1>2, <2>2 DEF IdlePC
  <2>4. \A t \in Timer : Known(t)' <=> Known(t)
    BY <2>2 DEF Known
  <2>5. \A t \in Timer : t \in timers' <=> cb'[t] /\ Known(t)'
    BY <2>1, <2>4 DEF QueueInv
  <2>6. \A a \in Thread : fresh[a] # NoTimer => fresh[a] \in Timer \ S
    BY <1>1, <2>1 DEF QueueInv, Known, TypeOK
  <2>7. \A a \in Thread : fresh[a] # NoTimer => fresh[a] \in made /\ cb'[fresh[a]]
    BY <2>1, <2>6 DEF QueueInv
  <2>8. \A t \in Timer \ made : ~cb'[t]
    BY <2>1 DEF QueueInv
  <2>9. QED
    BY <2>2, <2>3, <2>5, <2>7, <2>8 DEF QueueInv
<1>8. CASE Back(r)
  BY <1>2, <1>8, QueueQuiet DEF Back, At, IdlePC, timerVars
<1>9. CASE AddExpired(r)
  BY <1>9, QueueQuiet DEF AddExpired, timerVars
<1>10. QED
  BY <1>3, <1>4, <1>5, <1>6, <1>7, <1>8, <1>9 DEF LoopStep

\* Every step keeps the set and the callbacks together.
LEMMA QueueNext ==
  ASSUME TypeInv, QueueInv, [Next]_vars
  PROVE  QueueInv'
<1>1. CASE UNCHANGED vars
  BY <1>1, QueueQuiet DEF vars, timerVars
<1>2. CASE Tick
  BY <1>2, QueueQuiet DEF Tick, timerVars
<1>3. QED
  BY <1>1, <1>2, CallQueue, LoopQueue DEF Next

\* Initially no timer exists.
LEMMA QueueInit == Init => QueueInv
<1> SUFFICES ASSUME Init PROVE QueueInv
  OBVIOUS
<1>1. /\ timers = {} /\ \A t \in Timer : ~cb[t]
      /\ \A a \in Thread : fresh[a] = NoTimer /\ pc[a] = "free"
  BY DEF Init
<1>2. QED
  BY <1>1 DEF QueueInv

\* The inductive invariant of the timers.
LEMMA TimersHold == Spec => [](TypeInv /\ QueueInv)
<1>1. Init => TypeInv /\ QueueInv
  BY TypeInit, QueueInit
<1>2. TypeInv /\ QueueInv /\ [Next]_vars => (TypeInv /\ QueueInv)'
  BY TypeNext, QueueNext
<1>3. QED
  BY <1>1, <1>2, PTL DEF Spec

\* Every variable keeps its type: timer expiries stay natural numbers through
\* reset(), and _idleThreadCount between 0 and the number of runners.
THEOREM TypesKept == Spec => []TypeOK
<1>1. TypeInv => TypeOK
  BY DEF TypeInv
<1>2. QED
  BY <1>1, TimersHold, PTL

\* cancel() and refresh() find in the set every timer whose callback is set,
\* whatever other threads add, cancel, reset or expire meanwhile.
THEOREM LiveTimersQueued == Spec => []LiveIffQueued
<1>1. QueueInv => LiveIffQueued
  BY DEF QueueInv, LiveIffQueued
<1>2. QED
  BY <1>1, TimersHold, PTL

\* Only listExpiredCb hands callbacks to a runner.
LEMMA FiredByExpire ==
  ASSUME TypeOK, [Next]_vars, NEW r \in Runner, NEW t \in cbs'[r] \ cbs[r]
  PROVE  Expire(r)
<1>1. cbs' # cbs
  OBVIOUS
<1>2. ASSUME NEW q \in Runner, AddExpired(q) PROVE FALSE
  <2>1. PICK u : cbs' = [cbs EXCEPT ![q] = @ \ {u}]
    BY <1>2 DEF AddExpired
  <2>2. cbs'[r] \subseteq cbs[r]
    BY <2>1 DEF TypeOK
  <2>3. QED
    BY <2>2
<1>3. PICK q \in Runner : Expire(q)
  BY <1>1, <1>2
  DEF Next, Call, LoopStep, Tick, AddTimer, Reset, Cancel, Refresh, InsertTimer,
      Notify, GoIdle, NextTimer, Wake, ReadClock, Back, vars, loopVars
<1>4. PICK S : cbs' = [cbs EXCEPT ![q] = S]
  BY <1>3 DEF Expire
<1>5. q = r
  BY <1>4 DEF TypeOK
<1>6. QED
  BY <1>3, <1>5

---------------------------------------------------------------------------
\* A one-shot timer is queued once or cancelled.

\* A step that leaves the callbacks where they are.
LEMMA FateQuiet ==
  ASSUME FateInv, UNCHANGED <<cb, made, cbs, cancelled, handed>>,
         \A r \in Runner : pc'[r] # "back" => pc[r] # "back" \/ cbs[r] = {}
  PROVE  FateInv'
  BY DEF FateInv

\* A new timer, or one that is cancelled, is in nobody's hands.
LEMMA CallFate ==
  ASSUME TypeInv, QueueInv, FateInv, NEW a \in Thread,
         Call(a) \/ InsertTimer(a) \/ Notify(a)
  PROVE  FateInv'
<1>1. TypeOK
  BY DEF TypeInv
<1>2. ASSUME pc[a] # "back", \A b \in Thread : pc'[b] = pc[b] \/ b = a
      PROVE  \A r \in Runner : pc'[r] # "back" => pc[r] # "back" \/ cbs[r] = {}
  BY <1>2 DEF Thread
<1>3. ASSUME NEW t \in Timer, NEW d \in Period, AddTimer(a, t, d) PROVE FateInv'
  <2>1. /\ t \notin made /\ made' = made \cup {t} /\ pc[a] = "free"
        /\ \A u \in Timer : cb'[u] = IF u = t THEN TRUE ELSE cb[u]
        /\ \A b \in Thread : pc'[b] = pc[b] \/ b = a
        /\ UNCHANGED <<cbs, cancelled, handed>>
    BY <1>1, <1>3 DEF AddTimer, At, Goto, loopVars, history, TypeOK
  <2>2. t \notin cancelled \cup handed /\ \A r \in Runner : t \notin cbs[r]
    BY <2>1 DEF FateInv
  <2>3. \A r \in Runner : pc'[r] # "back" => pc[r] # "back" \/ cbs[r] = {}
    BY <1>2, <2>1
  <2>4. ASSUME NEW u \in OneShot, u \in made'
        PROVE  cb'[u] <=> u \notin cancelled \cup handed
                          /\ \A r \in Runner : u \notin cbs[r]
    <3>1. CASE u = t
      BY <2>1, <2>2, <3>1
    <3>2. CASE u # t
      <4>1. u \in made /\ u \in Timer
        BY <2>1, <2>4, <3>2 DEF OneShot
      <4>2. cb'[u] = cb[u]
        BY <2>1, <3>2, <4>1
      <4>3. QED
        BY <2>4, <4>1, <4>2 DEF FateInv
    <3>3. QED
      BY <3>1, <3>2
  <2>5. QED
    BY <2>1, <2>3, <2>4 DEF FateInv
<1>4. ASSUME NEW t \in Timer, Cancel(a, t) PROVE FateInv'
  <2>1. /\ t \in made /\ cb[t] /\ cancelled' = cancelled \cup ({t} \ Recurring)
        /\ \A u \in Timer : cb'[u] = IF u = t THEN FALSE ELSE cb[u]
        /\ UNCHANGED <<pc, cbs, made, handed>>
    BY <1>1, <1>4 DEF Cancel, Known, loopVars, TypeOK
  <2>2. t \in OneShot => t \notin handed /\ \A r \in Runner : t \notin cbs[r]
    BY <2>1 DEF FateInv
  <2>3. \A r \in Runner : cbs[r] \cap (cancelled' \cup handed) = {}
    BY <2>1, <2>2 DEF FateInv, OneShot
  <2>4. \A u \in OneShot \cap made :
          cb'[u] <=> u \notin cancelled' \cup handed /\ \A r \in Runner : u \notin cbs[r]
    BY <2>1 DEF FateInv, OneShot
  <2>5. cancelled' \cup handed \subseteq made \ Recurring /\ cancelled' \cap handed = {}
    BY <2>1, <2>2 DEF FateInv, OneShot
  <2>6. QED
    BY <2>1, <2>3, <2>4, <2>5 DEF FateInv
<1>5. ASSUME NEW t \in Timer, NEW d \in Period, NEW from_now \in BOOLEAN,
             Reset(a, t, d, from_now)
      PROVE  FateInv'
  <2>1. /\ UNCHANGED <<cb, made, cbs, cancelled, handed>>
        /\ t \in timers /\ pc[a] = "free" /\ Insert(a, t)
    BY <1>5 DEF Reset, At, loopVars, history
  <2>2. \A b \in Thread \ {a} : pc'[b] = pc[b]
    BY <1>1, <2>1, InsertStep
  <2>3. QED
    BY <1>2, <2>1, <2>2, FateQuiet
<1>6. ASSUME NEW t \in Timer, Refresh(a, t) PROVE FateInv'
  BY <1>6, FateQuiet DEF Refresh, loopVars, history
<1>7. CASE InsertTimer(a)
  <2>1. /\ UNCHANGED <<cb, made, cbs, cancelled, handed>>
        /\ pc[a] = "insert" /\ Insert(a, fresh[a])
    BY <1>7 DEF InsertTimer, At, loopVars, history
  <2>2. fresh[a] \in Timer
    BY <1>1, <2>1 DEF QueueInv, TypeOK
  <2>3. \A b \in Thread \ {a} : pc'[b] = pc[b]
    BY <1>1, <2>1, <2>2, InsertStep
  <2>4. QED
    BY <1>2, <2>1, <2>3, FateQuiet
<1>8. CASE Notify(a)
  <2>1. /\ UNCHANGED <<cb, made, cbs, cancelled, handed>>
        /\ pc[a] = "notify" /\ Goto(a, "free")
    BY <1>8 DEF Notify, At, timerVars, loopVars, history
  <2>2. \A b \in Thread : pc'[b] = pc[b] \/ b = a
    BY <1>1, <2>1 DEF Goto, TypeOK
  <2>3. QED
    BY <1>2, <2>1, <2>2, FateQuiet
<1>9. QED
  BY <1>3, <1>4, <1>5, <1>6, <1>7, <1>8 DEF Call

\* listExpiredCb takes only timers that still have their callbacks into its
\* hands, and what is queued leaves them.
LEMMA LoopFate ==
  ASSUME TypeInv, QueueInv, FateInv, NEW r \in Runner, LoopStep(r)
  PROVE  FateInv'
<1>1. TypeOK /\ r \in Thread
  BY DEF TypeInv, Thread
<1>2. ASSUME NEW where, Goto(r, where)
      PROVE  \A q \in Runner : pc'[q] = IF q = r THEN where ELSE pc[q]
  BY <1>1, <1>2 DEF Goto, TypeOK, Thread
<1>3. CASE GoIdle(r) \/ NextTimer(r) \/ Wake(r) \/ ReadClock(r)
  <2>1. /\ UNCHANGED <<cb, made, cbs, cancelled, handed>>
        /\ pc[r] # "back" /\ \E where : Goto(r, where)
    BY <1>3 DEF GoIdle, NextTimer, Wake, ReadClock, At, timerVars, history
  <2>2. \A q \in Runner : pc'[q] = pc[q] \/ q = r
    BY <1>2, <2>1
  <2>3. QED
    BY <2>1, <2>2, FateQuiet
<1>4. CASE Back(r)
  <2>1. /\ UNCHANGED <<cb, made, cbs, cancelled, handed>>
        /\ cbs[r] = {} /\ Goto(r, "free")
    BY <1>4 DEF Back, timerVars, history
  <2>2. \A q \in Runner : pc'[q] = pc[q] \/ q = r
    BY <1>2, <2>1
  <2>3. QED
    BY <2>1, <2>2, FateQuiet
<1>5. CASE Expire(r)
  <2>1. PICK S \in SUBSET timers :
          /\ \A t \in Timer : cb'[t] <=> cb[t] /\ (t \notin S \/ t \in Recurring)
          /\ cbs' = [cbs EXCEPT ![r] = S]
    BY <1>5, ExpireTakes
  <2>2. /\ UNCHANGED <<made, cancelled, handed>> /\ pc[r] = "expire"
        /\ \A q \in Runner : pc'[q] = IF q = r THEN "back" ELSE pc[q]
    BY <1>2, <1>5 DEF Expire, At, history
  <2>3. /\ \A q \in Runner : cbs'[q] = IF q = r THEN S ELSE cbs[q]
        /\ cbs[r] = {} /\ S \subseteq made
    BY <1>1, <2>1, <2>2 DEF FateInv, TypeOK
  <2>4. \A t \in S : t \in Timer /\ cb[t]
    BY <1>1, <2>1 DEF QueueInv, TypeOK
  <2>5. \A t \in S \cap OneShot :
          t \notin cancelled \cup handed /\ \A q \in Runner : t \notin cbs[q]
    BY <2>3, <2>4 DEF FateInv
  <2>6. S \cap (cancelled \cup handed) = {}
    BY <2>4, <2>5 DEF FateInv, OneShot
  <2>7. \A t \in OneShot : \A p, q \in Runner : t \in cbs'[p] \cap cbs'[q] => p = q
    BY <2>3, <2>5 DEF FateInv
  <2>8. ASSUME NEW t \in OneShot \cap made
        PROVE  cb'[t] <=> /\ t \notin cancelled \cup handed
                          /\ \A q \in Runner : t \notin cbs'[q]
    <3>1. /\ t \in Timer /\ t \notin Recurring
          /\ cb[t] <=> t \notin cancelled \cup handed /\ \A q \in Runner : t \notin cbs[q]
      BY DEF FateInv, OneShot
    <3>2. cb'[t] <=> cb[t] /\ t \notin S
      BY <2>1, <3>1
    <3>3. (\A q \in Runner : t \notin cbs'[q])
            <=> t \notin S /\ \A q \in Runner : t \notin cbs[q]
      BY <2>3
    <3>4. QED
      BY <3>1, <3>2, <3>3
  <2>9. QED
    BY <2>2, <2>3, <2>6, <2>7, <2>8 DEF FateInv
<1>6. CASE AddExpired(r)
  <2>1. PICK t \in cbs[r] : /\ cbs' = [cbs EXCEPT ![r] = @ \ {t}]
                            /\ handed' = handed \cup ({t} \ Recurring)
    BY <1>6 DEF AddExpired
  <2>2. UNCHANGED <<cb, made, pc, cancelled>> /\ pc[r] = "back"
    BY <1>6 DEF AddExpired, At, timerVars
  <2>3. \A q \in Runner : cbs'[q] = IF q = r THEN cbs[r] \ {t} ELSE cbs[q]
    BY <1>1, <2>1 DEF TypeOK
  <2>4. t \in Timer /\ t \in made /\ t \notin cancelled \cup handed
    BY <1>1, <2>1 DEF FateInv, TypeOK
  <2>5. t \in OneShot => \A q \in Runner \ {r} : t \notin cbs[q]
    BY <2>1 DEF FateInv
  <2>6. /\ cancelled \cup handed' \subseteq made \ Recurring
        /\ cancelled \cap handed' = {}
    BY <2>1, <2>4 DEF FateInv
  <2>7. \A q \in Runner : cbs'[q] \cap (cancelled \cup handed') = {}
    BY <2>1, <2>3, <2>4, <2>5 DEF FateInv, OneShot
  <2>8. \A u \in OneShot : \A p, q \in Runner : u \in cbs'[p] \cap cbs'[q] => p = q
    BY <2>3 DEF FateInv
  <2>9. ASSUME NEW u \in OneShot \cap made
        PROVE  cb[u] <=> /\ u \notin cancelled \cup handed'
                         /\ \A q \in Runner : u \notin cbs'[q]
    <3>1. cb[u] <=> u \notin cancelled \cup handed /\ \A q \in Runner : u \notin cbs[q]
      BY DEF FateInv
    <3>2. CASE u = t
      BY <2>1, <3>1, <3>2 DEF OneShot
    <3>3. CASE u # t
      BY <2>1, <2>3, <3>1, <3>3
    <3>4. QED
      BY <3>2, <3>3
  <2>10. QED
    BY <2>2, <2>3, <2>6, <2>7, <2>8, <2>9 DEF FateInv
<1>7. QED
  BY <1>3, <1>4, <1>5, <1>6 DEF LoopStep

\* A one-shot timer has one fate: whoever lists, queues or cancels it, it is
\* queued at most once, and never after cancel() returned true.
THEOREM OneShotOnce == Spec => []OneFate
<1>1. Init => FateInv
  BY DEF Init, FateInv, OneShot, Thread
<1>2. TypeInv /\ QueueInv /\ FateInv /\ [Next]_vars => FateInv'
  <2>1. ASSUME FateInv, UNCHANGED vars PROVE FateInv'
    BY <2>1, FateQuiet DEF vars, timerVars, loopVars, history
  <2>2. ASSUME FateInv, Tick PROVE FateInv'
    BY <2>2, FateQuiet DEF Tick, timerVars, loopVars, history
  <2>3. QED
    BY <2>1, <2>2, CallFate, LoopFate DEF Next
<1>3. TypeInv /\ QueueInv /\ FateInv => OneFate
  <2>1. SUFFICES ASSUME TypeInv, QueueInv, FateInv, NEW t \in made \ Recurring
                 PROVE  /\ \E one \in DOMAIN FateOf(t) :
                              \A f \in DOMAIN FateOf(t) : FateOf(t)[f] <=> f = one
                        /\ \A r, q \in Runner : t \in cbs[r] \cap cbs[q] => r = q
    BY DEF OneFate
  <2>2. t \in OneShot /\ t \in Timer
    BY <2>1 DEF TypeInv, TypeOK, OneShot
  <2> DEFINE new == \E a \in Thread : fresh[a] = t
             held == \E r \in Runner : t \in cbs[r]
  <2>3. /\ t \in timers <=> cb[t] /\ ~new
        /\ new => cb[t]
        /\ cb[t] <=> t \notin cancelled /\ t \notin handed /\ ~held
    <3>1. t # NoTimer
      BY <2>2, TimerAssumption DEF NoTimer
    <3>2. t \in timers <=> cb[t] /\ ~new
      BY <2>1, <2>2 DEF QueueInv, Known
    <3>3. new => cb[t]
      BY <2>1, <3>1 DEF QueueInv
    <3>4. cb[t] <=> t \notin cancelled /\ t \notin handed /\ ~held
      BY <2>1, <2>2 DEF FateInv
    <3>5. QED
      BY <3>2, <3>3, <3>4
  <2>4. /\ ~(held /\ t \in cancelled) /\ ~(held /\ t \in handed)
        /\ ~(t \in cancelled /\ t \in handed)
    BY <2>1 DEF FateInv
  <2>5. /\ DOMAIN FateOf(t) = {"new", "waiting", "held", "handed", "cancelled"}
        /\ FateOf(t)["new"] = new /\ FateOf(t)["waiting"] = (t \in timers)
        /\ FateOf(t)["held"] = held /\ FateOf(t)["handed"] = (t \in handed)
        /\ FateOf(t)["cancelled"] = (t \in cancelled)
    BY DEF FateOf
  <2>6. \E one \in DOMAIN FateOf(t) :
          \A f \in DOMAIN FateOf(t) : FateOf(t)[f] <=> f = one
    <3> HIDE DEF new, held
    <3>1. CASE new
      BY <2>3, <2>4, <2>5, <3>1
    <3>2. CASE t \in timers
      BY <2>3, <2>4, <2>5, <3>2
    <3>3. CASE held
      BY <2>3, <2>4, <2>5, <3>3
    <3>4. CASE t \in handed
      BY <2>3, <2>4, <2>5, <3>4
    <3>5. CASE t \in cancelled
      <4>1. ~new /\ t \notin timers /\ ~held /\ t \notin handed
        BY <2>3, <2>4, <3>5
      <4>2. /\ ~FateOf(t)["new"] /\ ~FateOf(t)["waiting"] /\ ~FateOf(t)["held"]
            /\ ~FateOf(t)["handed"] /\ FateOf(t)["cancelled"]
        BY <2>5, <3>5, <4>1
      <4>3. \A f \in DOMAIN FateOf(t) : FateOf(t)[f] <=> f = "cancelled"
        BY <2>5, <4>2
      <4>4. QED
        BY <2>5, <4>3
    <3>6. new \/ t \in timers \/ held \/ t \in handed \/ t \in cancelled
      BY <2>3, Zenon
    <3>7. QED
      BY <3>1, <3>2, <3>3, <3>4, <3>5, <3>6
  <2>7. QED
    BY <2>1, <2>2, <2>6 DEF FateInv
<1>4. QED
  BY <1>1, <1>2, <1>3, TimersHold, PTL DEF Spec

---------------------------------------------------------------------------
\* No timer fires early.

\* No thread is held up for more than an hour between the clock reading of
\* listExpiredCb and its lock.
Prompt == \A r \in Runner : pc[r] = "expire" => now <= seen[r] + Hour

\* On a machine that has been up for an hour no reading looks like a rollover
\* of the clock.
LEMMA NoRollover ==
  ASSUME TypeInv, Prompt, Hour <= Start, NEW r \in Runner, pc[r] = "expire"
  PROVE  ~Rollover(seen[r])
<1>1. /\ now \in Nat /\ previous \in Nat /\ seen[r] \in Nat
      /\ Hour \in Nat /\ Start \in Nat /\ Wrap \in Nat /\ Wrap > 0
      /\ Start <= previous /\ previous <= now /\ now < Wrap
  BY TimerAssumption DEF TypeInv, TypeOK, ClockInv
<1>2. previous - Hour \in 0 .. Wrap - 1
  BY <1>1
<1>3. Minus(previous, Hour) = previous - Hour
  <2>1. \A x \in 0 .. Wrap - 1 : x % Wrap = x
    BY <1>1
  <2>2. QED
    BY <1>2, <2>1 DEF Minus
<1>4. now <= seen[r] + Hour
  BY DEF Prompt
<1>5. QED
  BY <1>1, <1>3, <1>4 DEF Rollover

\* m_next is the exact time of execution: on a machine that has been up for an
\* hour, with no thread delayed for longer than that inside listExpiredCb, no
\* timer fires before it, however the readings of several threads interleave.
THEOREM NoneEarly ==
  ASSUME Hour <= Start
  PROVE  Spec /\ []Prompt => NeverEarly
<1>1. TypeInv /\ Prompt /\ [Next]_vars
        => [\A r \in Runner : \A t \in cbs'[r] \ cbs[r] : next[t] <= now]_vars
  <2>1. SUFFICES ASSUME TypeInv, Prompt, [Next]_vars,
                        NEW r \in Runner, NEW t \in cbs'[r] \ cbs[r]
                 PROVE  next[t] <= now
    OBVIOUS
  <2>2. TypeOK
    BY <2>1 DEF TypeInv
  <2>3. Expire(r) /\ pc[r] = "expire"
    BY <2>1, <2>2, FiredByExpire DEF Expire, At
  <2>4. PICK cut : cbs' = [cbs EXCEPT ![r] = Expired(r, cut)]
    BY <2>3 DEF Expire
  <2>5. Expired(r, cut) = {u \in timers : Due(u, seen[r], cut)}
    BY <2>1, <2>3, NoRollover DEF Expired
  <2>6. t \in timers /\ Due(t, seen[r], cut)
    BY <2>1, <2>2, <2>4, <2>5 DEF TypeOK
  <2>7. /\ next[t] \in Int /\ seen[r] \in Int /\ now \in Int
        /\ seen[r] <= now
    <3>1. t \in Timer
      BY <2>2, <2>6 DEF TypeOK
    <3>2. Start \in Nat /\ Horizon \in Nat
      BY TimerAssumption
    <3>3. next[t] \in Int /\ seen[r] \in Int /\ now \in Int
      BY <2>2, <3>1, <3>2 DEF TypeOK
    <3>4. QED
      BY <2>1, <3>3 DEF TypeInv, ClockInv
  <2>8. QED
    BY <2>6, <2>7 DEF Due
<1>2. QED
  BY <1>1, TimersHold, PTL DEF Spec, NeverEarly

---------------------------------------------------------------------------
\* No wake-up is swallowed.

\* A thread that neither sleeps nor has a tickle to send leaves the alert on.
LEMMA AlertKept ==
  ASSUME Alert, pipe' = pipe, NEW a \in Thread, pc[a] # "notify", pc'[a] # "asleep",
         \A b \in Thread \ {a} : pc'[b] = pc[b]
  PROVE  Alert'
<1>1. \A r \in Runner : r \in Thread
  BY DEF Thread
<1>2. CASE \E r \in Runner : pc[r] # "asleep"
  BY <1>1, <1>2 DEF Alert
<1>3. CASE \E b \in Thread : pc[b] = "notify"
  BY <1>3 DEF Alert
<1>4. CASE pipe
  BY <1>4 DEF Alert
<1>5. QED
  BY <1>2, <1>3, <1>4 DEF Alert

\* A timeout that covers the first timer goes on doing so when no timer that
\* is first afterwards is new or due earlier than before.
LEMMA WatchedKept ==
  ASSUME TypeOK, TypeOK', Watched, UNCHANGED <<now, deadline>>, timers' # {},
         \A t \in timers' :
           t = First(next', timers') => t \in timers /\ next[t] <= next'[t]
  PROVE  Watched'
<1>1. /\ next \in [Timer -> Nat] /\ next' \in [Timer -> Nat]
      /\ timers \in SUBSET Timer /\ timers' \in SUBSET Timer
      /\ deadline \in [Runner -> Nat]
  BY DEF TypeOK
<1>2. First(next', timers') \in timers'
  BY <1>1, FirstLeast
<1>3. First(next', timers') \in timers
      /\ next[First(next', timers')] <= next'[First(next', timers')]
  BY <1>2
<1>4. next[First(next, timers)] <= next'[First(next', timers')]
  BY <1>1, <1>3, FirstLater
<1>5. First(next, timers) \in timers
  BY <1>1, <1>3, FirstLeast
<1>6. next[First(next, timers)] \in Nat /\ next'[First(next', timers')] \in Nat
  BY <1>1, <1>2, <1>5
<1>7. PICK r \in Runner : deadline[r] <= next[First(next, timers)] \/ deadline[r] <= now
  BY DEF Watched
<1>8. deadline[r] \in Nat
  BY <1>1
<1>9. deadline'[r] <= next'[First(next', timers')] \/ deadline'[r] <= now'
  BY <1>4, <1>6, <1>7, <1>8
<1>10. QED
  BY <1>9 DEF Watched

\* add_timer(timer, lock) sends a tickle when its timer becomes the first and
\* none is on its way.
LEMMA InsertWakes ==
  ASSUME TypeOK, TypeOK', WakeInv, NEW a \in Thread, NEW t \in Timer, Insert(a, t),
         pc[a] \notin {"asleep", "notify"}, UNCHANGED <<now, deadline, pipe>>,
         \A u \in Timer \ {t} : next'[u] = next[u]
  PROVE  WakeInv'
<1>1. /\ timers' = timers \cup {t}
      /\ \A b \in Thread \ {a} : pc'[b] = pc[b]
      /\ pc'[a] \in {"free", "notify"}
      /\ pc'[a] = "notify" <=> First(next', timers') = t /\ ~tickled
      /\ tickled' => tickled \/ pc'[a] = "notify"
  BY InsertStep
<1>2. Alert => Alert'
  BY <1>1, AlertKept
<1>3. CASE pc'[a] = "notify"
  BY <1>3 DEF WakeInv, Alert
<1>4. CASE Runner # {} /\ tickled
  BY <1>2, <1>4 DEF WakeInv
<1>5. CASE Runner # {} /\ pc'[a] # "notify" /\ ~tickled
  <2>1. First(next', timers') # t /\ ~tickled'
    BY <1>1, <1>5
  <2>2. First(next', timers') \in timers'
    BY <1>1, FirstLeast DEF TypeOK
  <2>3. timers # {}
    BY <1>1, <2>1, <2>2
  <2>4. Alert \/ Watched
    BY <1>5, <2>3 DEF WakeInv
  <2>5. \A u \in timers' : u # t => u \in timers /\ next[u] <= next'[u]
    <3>1. \A u \in timers' : u \in Timer /\ next[u] \in Nat
      BY DEF TypeOK
    <3>2. QED
      BY <1>1, <3>1
  <2>6. Watched => Watched'
    BY <1>1, <2>1, <2>5, WatchedKept
  <2>7. QED
    BY <1>2, <2>1, <2>4, <2>6 DEF WakeInv
<1>6. QED
  BY <1>3, <1>4, <1>5 DEF WakeInv

\* IOManager::tickle writes when a thread idles; when none does, one is up.
LEMMA NotifyWakes ==
  ASSUME TypeInv, NEW a \in Thread, Notify(a), Runner # {}
  PROVE  Alert'
<1>1. /\ pipe' = (pipe \/ idle > 0) /\ Goto(a, "free") /\ pc[a] = "notify"
  BY DEF Notify, At
<1>2. \A b \in Thread : pc'[b] = IF b = a THEN "free" ELSE pc[b]
  BY <1>1, MoveThread DEF CallPC, TypeInv
<1>3. CASE \E r \in Runner : pc[r] # "asleep"
  BY <1>2, <1>3 DEF Alert, Thread
<1>4. CASE \A r \in Runner : pc[r] = "asleep"
  <2>1. Idlers = Runner
    BY <1>4 DEF Idlers, IdlePC
  <2>2. IsFiniteSet(Runner) /\ idle = Cardinality(Runner)
    BY <2>1, TimerAssumption DEF TypeInv
  <2>3. idle \in Nat /\ idle # 0
    BY <2>2, FS_CardinalityType, FS_EmptySet
  <2>4. idle > 0
    BY <2>3
  <2>5. pipe'
    BY <1>1, <2>4
  <2>6. QED
    BY <2>5 DEF Alert
<1>5. QED
  BY <1>3, <1>4

\* A runner that goes to sleep wakes in time for the first timer.
LEMMA SleepWatches ==
  ASSUME TypeOK, NEW r \in Runner, NextTimer(r), timers # {}
  PROVE  Watched'
<1>1. /\ UNCHANGED <<now, timers, next>>
      /\ deadline' = [deadline EXCEPT ![r] = now + Timeout]
  BY DEF NextTimer, timerVars
<1>2. deadline'[r] = now + Timeout
  BY <1>1 DEF TypeOK
<1>3. First(next, timers) \in timers /\ next[First(next, timers)] \in Nat
  BY FirstLeast DEF TypeOK
<1>4. now \in Nat /\ MaxWait \in Nat
  BY TimeoutNat, TimerAssumption
<1>5. now + Timeout <= next[First(next, timers)] \/ now + Timeout <= now
  <2> DEFINE first == next[First(next, timers)]
             left  == IF now >= first THEN 0 ELSE first - now
  <2>1. Timeout = IF left > MaxWait THEN MaxWait ELSE left
    BY DEF Timeout
  <2>2. first \in Nat
    BY <1>3
  <2> HIDE DEF first
  <2>3. CASE now >= first
    BY <1>4, <2>1, <2>2, <2>3
  <2>4. CASE ~(now >= first)
    <3>1. Timeout = IF first - now > MaxWait THEN MaxWait ELSE first - now
      BY <2>1, <2>4
    <3>2. Timeout <= first - now /\ Timeout \in Nat
      BY <1>4, <2>2, <2>4, <3>1
    <3>3. now + Timeout <= first
      BY <1>4, <2>2, <3>2
    <3>4. QED
      BY <3>3 DEF first
  <2>5. QED
    BY <2>3, <2>4 DEF first
<1>6. QED
  BY <1>1, <1>2, <1>5 DEF Watched

\* Every step keeps a wake-up on its way or a timeout that covers the first
\* timer.
LEMMA WakeNext ==
  ASSUME TypeInv, TypeInv', QueueInv, WakeInv, [Next]_vars
  PROVE  WakeInv'
<1>1. TypeOK /\ TypeOK'
  BY DEF TypeInv
<1>2. CASE UNCHANGED vars
  BY <1>2 DEF vars, timerVars, flagVars, loopVars, WakeInv, Alert, Watched
<1>3. CASE Tick
  <2>1. /\ UNCHANGED <<timers, next, tickled, pc, deadline, pipe>>
        /\ now' = now + 1
    BY <1>3 DEF Tick, timerVars, flagVars, loopVars
  <2>2. now \in Nat /\ \A r \in Runner : deadline[r] \in Nat
    BY <1>1, TimeoutNat DEF TypeOK
  <2>3. \A r \in Runner : deadline[r] <= now => deadline'[r] <= now'
    BY <2>1, <2>2
  <2>4. Watched => Watched'
    BY <2>1, <2>3 DEF Watched
  <2>5. Alert => Alert'
    BY <2>1 DEF Alert
  <2>6. QED
    BY <2>1, <2>4, <2>5 DEF WakeInv
<1>4. ASSUME NEW a \in Thread, NEW t \in Timer, NEW d \in Period, AddTimer(a, t, d)
      PROVE  WakeInv'
  <2>1. /\ UNCHANGED <<now, timers, tickled, deadline, pipe>>
        /\ t \notin made /\ pc[a] = "free" /\ Goto(a, "insert")
        /\ next' = [next EXCEPT ![t] = now + d]
    BY <1>4 DEF AddTimer, At, flagVars, loopVars
  <2>2. \A b \in Thread : pc'[b] = IF b = a THEN "insert" ELSE pc[b]
    BY <1>1, <2>1, MoveThread DEF CallPC
  <2>3. Alert => Alert'
    BY <2>1, <2>2, AlertKept
  <2>4. \A u \in timers : u \in Timer /\ u # t
    BY <1>1, <2>1 DEF TypeOK
  <2>5. \A u \in timers : next'[u] = next[u] /\ next[u] \in Nat
    BY <1>1, <2>1, <2>4 DEF TypeOK
  <2>6. \A u \in timers' : u \in timers /\ next[u] <= next'[u]
    BY <2>1, <2>5
  <2>7. Watched /\ timers' # {} => Watched'
    BY <1>1, <2>1, <2>6, WatchedKept
  <2>8. QED
    BY <2>1, <2>3, <2>7 DEF WakeInv
<1>5. ASSUME NEW a \in Thread, NEW t \in Timer, NEW d \in Period,
             NEW from_now \in BOOLEAN, Reset(a, t, d, from_now)
      PROVE  WakeInv'
  <2>1. /\ UNCHANGED <<now, deadline, pipe>> /\ pc[a] = "free" /\ Insert(a, t)
    BY <1>5 DEF Reset, At, loopVars
  <2>2. \A u \in Timer \ {t} : next'[u] = next[u]
    BY <1>1, <1>5 DEF Reset, TypeOK
  <2>3. QED
    BY <1>1, <2>1, <2>2, InsertWakes
<1>6. ASSUME NEW a \in Thread, InsertTimer(a) PROVE WakeInv'
  <2>1. /\ UNCHANGED <<now, next, deadline, pipe>>
        /\ pc[a] = "insert" /\ Insert(a, fresh[a])
    BY <1>6 DEF InsertTimer, At, loopVars
  <2>2. fresh[a] \in Timer
    BY <1>1, <2>1 DEF QueueInv, TypeOK
  <2>3. QED
    BY <1>1, <2>1, <2>2, InsertWakes
<1>7. ASSUME NEW a \in Thread, NEW t \in Timer, Cancel(a, t) PROVE WakeInv'
  <2>1. /\ UNCHANGED <<now, next, tickled, pc, deadline, pipe>>
        /\ timers' = timers \ {t}
    BY <1>7 DEF Cancel, flagVars, loopVars
  <2>2. \A u \in timers' : u \in timers /\ next[u] <= next'[u]
    <3>1. \A u \in timers : next[u] \in Nat
      BY <1>1 DEF TypeOK
    <3>2. QED
      BY <2>1, <3>1
  <2>3. Watched /\ timers' # {} => Watched'
    BY <1>1, <2>1, <2>2, WatchedKept
  <2>4. Alert => Alert'
    BY <2>1 DEF Alert
  <2>5. timers' # {} => timers # {}
    BY <2>1
  <2>6. QED
    BY <2>1, <2>3, <2>4, <2>5 DEF WakeInv
<1>8. ASSUME NEW a \in Thread, NEW t \in Timer, Refresh(a, t) PROVE WakeInv'
  <2>1. /\ UNCHANGED <<now, timers, tickled, pc, deadline, pipe>>
        /\ next' = [next EXCEPT ![t] = now + ms[t]]
    BY <1>8 DEF Refresh, flagVars, loopVars
  <2>2. \A u \in Timer : next[u] \in Nat /\ next[u] <= now + ms[u]
    BY <1>1 DEF TypeInv, TypeOK, PeriodInv
  <2>3. \A u \in Timer : next'[u] = IF u = t THEN now + ms[t] ELSE next[u]
    BY <1>1, <2>1 DEF TypeOK
  <2>4. \A u \in Timer : next[u] <= next'[u]
    BY <2>2, <2>3
  <2>5. \A u \in timers' : u \in timers /\ next[u] <= next'[u]
    BY <1>1, <2>1, <2>4 DEF TypeOK
  <2>6. Watched /\ timers' # {} => Watched'
    BY <1>1, <2>1, <2>5, WatchedKept
  <2>7. Alert => Alert'
    BY <2>1 DEF Alert
  <2>8. QED
    BY <2>1, <2>6, <2>7 DEF WakeInv
<1>9. ASSUME NEW a \in Thread, Notify(a) PROVE WakeInv'
  BY <1>9, NotifyWakes DEF WakeInv
<1>10. ASSUME NEW r \in Runner, NextTimer(r) PROVE WakeInv'
  <2>1. tickled' = FALSE /\ timers' = timers
    BY <1>10 DEF NextTimer, Untickle, timerVars
  <2>2. QED
    BY <1>1, <1>10, <2>1, SleepWatches DEF WakeInv
<1>11. ASSUME NEW r \in Runner, NEW where \in CallPC \cup IdlePC, Goto(r, where),
              where # "asleep"
       PROVE  WakeInv'
  <2>1. pc'[r] # "asleep"
    BY <1>1, <1>11, MoveThread DEF Thread
  <2>2. QED
    BY <2>1 DEF WakeInv, Alert
<1>12. ASSUME NEW r \in Runner,
              GoIdle(r) \/ Wake(r) \/ ReadClock(r) \/ Expire(r) \/ Back(r)
       PROVE  WakeInv'
  BY <1>11, <1>12 DEF GoIdle, Wake, ReadClock, Expire, Back, CallPC, IdlePC
<1>13. ASSUME NEW r \in Runner, AddExpired(r) PROVE WakeInv'
  <2>1. pc' = pc /\ pc[r] # "asleep"
    BY <1>13 DEF AddExpired, At
  <2>2. QED
    BY <2>1 DEF WakeInv, Alert
<1>14. QED
  BY <1>2, <1>3, <1>4, <1>5, <1>6, <1>7, <1>8, <1>9, <1>10, <1>12, <1>13
  DEF Next, Call, LoopStep

\* Initially there is no timer and no tickle.
LEMMA WakeInit == Init => WakeInv
  BY DEF Init, WakeInv

\* When every runner sleeps and no wake-up is on its way, one of them wakes in
\* time for the first timer: m_tickled never swallows a wake-up that is needed.
THEOREM WakesInTime == Spec => []InTime
<1>1. Init => TypeInv /\ QueueInv /\ WakeInv
  BY TypeInit, QueueInit, WakeInit
<1>2. TypeInv /\ QueueInv /\ WakeInv /\ [Next]_vars
        => (TypeInv /\ QueueInv /\ WakeInv)'
  BY TypeNext, QueueNext, WakeNext
<1>3. WakeInv => InTime
  BY DEF WakeInv, InTime, Alert, Watched
<1>4. QED
  BY <1>1, <1>2, <1>3, PTL DEF Spec
=============================================================================
