---------------------------- MODULE TimerManager ----------------------------
(***************************************************************************)
(* The timers of src/timer.cc with the threads that serve them: the loop   *)
(* of IOManager::idle asks getNextTimer how long it may sleep, sleeps in   *)
(* epoll_wait, and collects expired timers with listExpiredCb; any thread  *)
(* adds, cancels, refreshes and resets timers meanwhile, and wakes a       *)
(* sleeper through the pipe when a timer becomes the first.                *)
(*                                                                         *)
(* Time is counted in abstract milliseconds.  A critical section of        *)
(* TimerManager::m_mutex is one step; the clock is read outside of it      *)
(* where the code does so.  Readiness of other descriptors and the end of  *)
(* the loop belong to other modules.                                       *)
(***************************************************************************)
EXTENDS Integers, FiniteSets

CONSTANTS
  Runner,      \* threads of the scheduler
  Client,      \* other threads that use timers
  Timer,       \* timers, as numbers: the order of their addresses
  Period,      \* the ms arguments the program passes
  Recurring,   \* the timers made with recurring = true
  Start,       \* the clock when the manager is constructed
  Horizon,     \* BOUND: the clock stops here
  LastDue,     \* BOUND: programs ask for no expiry after this
  MaxWait,     \* MAX_TIMEOUT, also the wait without timers (6000 capped)
  Hour,        \* 60 * 60 * 1000
  Wrap         \* 2^64, the range of uint64_t

ASSUME TimerAssumption ==
  /\ Timer \subseteq Nat \ {0} /\ IsFiniteSet(Timer) /\ Recurring \subseteq Timer
  /\ Period \subseteq Nat
  /\ {Start, Horizon, LastDue, MaxWait, Hour, Wrap} \subseteq Nat
  /\ Start <= Horizon /\ Hour < Wrap /\ Horizon < Wrap
  /\ IsFiniteSet(Runner) /\ Runner \cap Client = {}

VARIABLES
  now,         \* CLOCK_MONOTONIC_RAW in ms
  timers,      \* m_timers, ordered by Before
  next,        \* m_next of each timer
  ms,          \* m_ms
  cb,          \* m_cb is set
  made,        \* the timers constructed so far
  tickled,     \* m_tickled
  previous,    \* m_previousTime
  pc,          \* where each thread is
  fresh,       \* the timer a thread has constructed and not yet inserted
  deadline,    \* when the epoll_wait of a runner times out, 0 outside it
  seen,        \* now_ms of listExpiredCb, Start outside it
  cbs,         \* the callbacks the last listExpiredCb of a runner returned
  idle,        \* _idleThreadCount
  pipe,        \* a byte written to m_tickleFds is yet to wake a thread
  cancelled,   \* history: the one-shot timers whose cancel() returned true
  handed       \* history: the one-shot timers whose callback was queued

timerVars == <<timers, next, ms, cb, made>>
flagVars  == <<tickled, previous>>
loopVars  == <<deadline, seen, cbs, idle>>
history   == <<cancelled, handed>>
vars == <<now, timerVars, flagVars, pc, fresh, loopVars, pipe, history>>

Thread == Runner \cup Client
NoTimer == 0
CallPC == {"free", "insert", "notify"}
IdlePC == {"idle", "asleep", "woken", "expire", "back"}

TypeOK ==
  /\ now \in Start .. Horizon
  /\ timers \subseteq made /\ made \subseteq Timer
  /\ next \in [Timer -> Nat] /\ ms \in [Timer -> Nat]
  /\ cb \in [Timer -> BOOLEAN]
  /\ tickled \in BOOLEAN
  /\ previous \in Start .. Horizon
  /\ pc \in [Thread -> CallPC \cup IdlePC]
  /\ fresh \in [Thread -> Timer \cup {NoTimer}]
  /\ deadline \in [Runner -> Nat]
  /\ seen \in [Runner -> Start .. Horizon]
  /\ cbs \in [Runner -> SUBSET Timer]
  /\ idle \in 0 .. Cardinality(Runner)
  /\ pipe \in BOOLEAN
  /\ cancelled \subseteq Timer /\ handed \subseteq Timer

Init ==
  /\ now = Start
  /\ timers = {} /\ made = {}
  /\ next = [t \in Timer |-> 0] /\ ms = [t \in Timer |-> 0]
  /\ cb = [t \in Timer |-> FALSE]
  /\ tickled = FALSE
  /\ previous = Start
  /\ pc = [a \in Thread |-> "free"]
  /\ fresh = [a \in Thread |-> NoTimer]
  /\ deadline = [r \in Runner |-> 0]
  /\ seen = [r \in Runner |-> Start]
  /\ cbs = [r \in Runner |-> {}]
  /\ idle = 0
  /\ pipe = FALSE
  /\ cancelled = {} /\ handed = {}

Tick ==
  /\ now < Horizon
  /\ now' = now + 1
  /\ UNCHANGED <<timerVars, flagVars, pc, fresh, loopVars, pipe, history>>

---------------------------------------------------------------------------
At(a, where) == pc[a] = where
Goto(a, where) == pc' = [pc EXCEPT ![a] = where]

\* Timer::Comparator for the values f of m_next.
Before(f, t, u) == f[t] < f[u] \/ (f[t] = f[u] /\ t < u)
First(f, S) == CHOOSE t \in S : \A u \in S \ {t} : Before(f, t, u)

\* uint64_t subtraction.
Minus(a, b) == (a - b) % Wrap

\* detectClockRollover.
Rollover(ms_now) ==
  ms_now < previous /\ ms_now < Minus(previous, Hour)

\* Mutant of Insert: the timer is left out of the set.
InsertNot(a, t) ==
  /\ UNCHANGED <<timers, tickled>>
  /\ Goto(a, "free")

\* add_timer(timer, lock): insert, and when the timer is now the first and
\* no tickle is on its way, go on to send one.
Insert(a, t) ==
  /\ timers' = timers \cup {t}
  /\ LET tickle == First(next', timers') = t /\ ~tickled IN
       /\ tickled' = (tickled \/ tickle)
       /\ Goto(a, IF tickle THEN "notify" ELSE "free")

\* Mutant of Spend: a fired one-shot timer keeps its callback.
SpendNothing(S) == UNCHANGED cb

\* A fired one-shot timer loses its callback.
Spend(S) ==
  cb' = [t \in Timer |-> cb[t] /\ (t \notin S \/ t \in Recurring)]

\* Mutant of Due: due a millisecond early.
DueSoon(t, ms_now, cut) == next[t] < ms_now + 1 \/ (next[t] = ms_now + 1 /\ t < cut)

\* The timers before upper_bound(now_timer), where cut is the address that
\* now_timer happens to get.
Due(t, ms_now, cut) == next[t] < ms_now \/ (next[t] = ms_now /\ t < cut)

\* Mutant of Untickle: the flag stays set.
UntickleNot == UNCHANGED tickled

\* m_tickled = false in getNextTimer.
Untickle == tickled' = FALSE

\* What getNextTimer returns, capped as epoll_wait is given it.
Timeout ==
  LET first == next[First(next, timers)]
      left  == IF now >= first THEN 0 ELSE first - now
  IN  IF timers = {} \/ left > MaxWait THEN MaxWait ELSE left

---------------------------------------------------------------------------
\* Calls of the program, from a client or from a task on a runner.

\* TimerManager::add_timer: the constructor reads the clock before the lock.
AddTimer(a, t, d) ==
  /\ At(a, "free") /\ t \notin made
  /\ now + d <= LastDue
  /\ made' = made \cup {t}
  /\ ms' = [ms EXCEPT ![t] = d]
  /\ next' = [next EXCEPT ![t] = now + d]
  /\ cb' = [cb EXCEPT ![t] = TRUE]
  /\ fresh' = [fresh EXCEPT ![a] = t]
  /\ Goto(a, "insert")
  /\ UNCHANGED <<now, timers, flagVars, loopVars, pipe, history>>

InsertTimer(a) ==
  /\ At(a, "insert")
  /\ UNCHANGED next
  /\ Insert(a, fresh[a])
  /\ fresh' = [fresh EXCEPT ![a] = NoTimer]
  /\ UNCHANGED <<now, ms, cb, made, previous, loopVars, pipe, history>>

\* OnTimerInsertedAtFront: IOManager::tickle() writes only if a thread idles.
Notify(a) ==
  /\ At(a, "notify")
  /\ pipe' = (pipe \/ idle > 0)
  /\ Goto(a, "free")
  /\ UNCHANGED <<now, timerVars, flagVars, fresh, loopVars, history>>

\* A timer whose pointer add_timer has returned.
Known(t) == t \in made /\ \A a \in Thread : fresh[a] # t

\* Timer::cancel, when it returns true.
Cancel(a, t) ==
  /\ At(a, "free") /\ Known(t) /\ cb[t]
  /\ cb' = [cb EXCEPT ![t] = FALSE]
  /\ timers' = timers \ {t}
  /\ cancelled' = cancelled \cup ({t} \ Recurring)
  /\ UNCHANGED <<now, next, ms, made, flagVars, pc, fresh, loopVars, pipe,
                 handed>>

\* Timer::refresh, when it returns true.
Refresh(a, t) ==
  /\ At(a, "free") /\ Known(t) /\ cb[t] /\ t \in timers
  /\ now + ms[t] <= LastDue
  /\ next' = [next EXCEPT ![t] = now + ms[t]]
  /\ UNCHANGED <<now, timers, ms, cb, made, flagVars, pc, fresh, loopVars,
                 pipe, history>>

\* Timer::reset, when it does anything.  The test for an unchanged period reads
\* m_ms before the lock, so another thread can have made the two equal since.
Reset(a, t, d, from_now) ==
  /\ At(a, "free") /\ Known(t)
  /\ d # ms[t] \/ from_now \/ Thread # {a}
  /\ cb[t] /\ t \in timers
  /\ LET start == IF from_now THEN now ELSE next[t] - ms[t] IN
       /\ start + d <= LastDue
       /\ next' = [next EXCEPT ![t] = start + d]
  /\ ms' = [ms EXCEPT ![t] = d]
  /\ Insert(a, t)
  /\ UNCHANGED <<now, cb, made, previous, fresh, loopVars, pipe, history>>

Call(a) ==
  \/ \E t \in Timer, d \in Period :
       \/ AddTimer(a, t, d)
       \/ \E from_now \in BOOLEAN : Reset(a, t, d, from_now)
  \/ \E t \in Timer : Cancel(a, t) \/ Refresh(a, t)

---------------------------------------------------------------------------
\* A runner: the idle part of Scheduler::run and the loop of IOManager::idle.

\* Mutant of EnterIdle: the runner is not counted.
EnterIdleUncounted == UNCHANGED idle

EnterIdle == idle' = idle + 1

GoIdle(r) ==
  /\ At(r, "free")
  /\ EnterIdle
  /\ Goto(r, "idle")
  /\ UNCHANGED <<now, timerVars, flagVars, fresh, deadline, seen, cbs, pipe,
                 history>>

\* getNextTimer, then epoll_wait.
NextTimer(r) ==
  /\ At(r, "idle")
  /\ Untickle
  /\ deadline' = [deadline EXCEPT ![r] = now + Timeout]
  /\ Goto(r, "asleep")
  /\ UNCHANGED <<now, timerVars, previous, fresh, seen, cbs, idle, pipe,
                 history>>

\* epoll_wait returns: with the pipe's event, which only one thread gets
\* (EPOLLET), or because the time is up.
Wake(r) ==
  /\ At(r, "asleep")
  /\ pipe \/ now >= deadline[r]
  /\ pipe' = FALSE
  /\ deadline' = [deadline EXCEPT ![r] = 0]
  /\ Goto(r, "woken")
  /\ UNCHANGED <<now, timerVars, flagVars, fresh, seen, cbs, idle, history>>

\* listExpiredCb reads the clock before it takes the lock.
ReadClock(r) ==
  /\ At(r, "woken")
  /\ seen' = [seen EXCEPT ![r] = now]
  /\ Goto(r, "expire")
  /\ UNCHANGED <<now, timerVars, flagVars, fresh, deadline, cbs, idle, pipe,
                 history>>

\* The timers listExpiredCb takes out: all after a rollover, else the due.
Expired(r, cut) ==
  IF Rollover(seen[r]) THEN timers ELSE {t \in timers : Due(t, seen[r], cut)}

\* The locked part of listExpiredCb; recurring timers go back in.
Expire(r) ==
  /\ At(r, "expire")
  /\ previous' = IF timers = {} THEN previous ELSE seen[r]
  /\ \E cut \in Timer \cup {Cardinality(Timer) + 1} :
       LET S == Expired(r, cut) IN
         /\ timers' = timers \ (S \ Recurring)
         /\ next' = [t \in Timer |->
                       IF t \in S \cap Recurring THEN now + ms[t] ELSE next[t]]
         /\ Spend(S)
         /\ cbs' = [cbs EXCEPT ![r] = S]
  /\ seen' = [seen EXCEPT ![r] = Start]
  /\ Goto(r, "back")
  /\ UNCHANGED <<now, ms, made, tickled, fresh, deadline, idle, pipe, history>>

\* add_task for one of the callbacks, in whatever order; it calls tickle() if
\* the queue, which is not modelled here, was empty.
AddExpired(r) ==
  /\ At(r, "back")
  /\ \E t \in cbs[r] :
       /\ cbs' = [cbs EXCEPT ![r] = @ \ {t}]
       /\ handed' = handed \cup ({t} \ Recurring)
  /\ pipe' \in {pipe, TRUE}
  /\ UNCHANGED <<now, timerVars, flagVars, pc, fresh, deadline, seen, idle,
                 cancelled>>

\* All callbacks are queued, and the idle fiber yields to run().
Back(r) ==
  /\ At(r, "back") /\ cbs[r] = {}
  /\ idle' = idle - 1
  /\ Goto(r, "free")
  /\ UNCHANGED <<now, timerVars, flagVars, fresh, deadline, seen, cbs, pipe,
                 history>>

LoopStep(r) ==
  \/ GoIdle(r) \/ NextTimer(r) \/ Wake(r) \/ ReadClock(r) \/ Expire(r)
  \/ AddExpired(r) \/ Back(r)

Next ==
  \/ Tick
  \/ \E a \in Thread : Call(a) \/ InsertTimer(a) \/ Notify(a)
  \/ \E r \in Runner : LoopStep(r)

Spec == Init /\ [][Next]_vars

\* Time passes, calls that were started end, runners keep going idle.
Fairness ==
  /\ WF_vars(Tick)
  /\ \A a \in Thread : WF_vars(InsertTimer(a) \/ Notify(a))
  /\ \A r \in Runner : WF_vars(LoopStep(r))

FairSpec == Spec /\ Fairness

---------------------------------------------------------------------------
\* Properties.

\* A timer has its callback exactly while it is in the set, so cancel() and
\* refresh() always find what they erase; only the thread that is still
\* inside add_timer has one that is not in the set yet.
LiveIffQueued == \A t \in Timer : Known(t) => (cb[t] <=> t \in timers)

\* m_next is "the exact time of execution": no timer fires before it, however
\* the clock readings of several threads interleave.
NeverEarly ==
  [][\A r \in Runner : \A t \in cbs'[r] \ cbs[r] : next[t] <= now]_vars

\* A one-shot timer has one fate, whoever lists, hands over or cancels it at
\* the same time: it is on its way into the set, in the set, in the hands of one
\* runner that has yet to queue its callback, queued, or cancelled.  So it is
\* queued at most once, and not at all after cancel() returned true.  (A
\* recurring timer may be: the copies that runners took before are queued.)
FateOf(t) ==
  [new       |-> \E a \in Thread : fresh[a] = t,
   waiting   |-> t \in timers,
   held      |-> \E r \in Runner : t \in cbs[r],
   handed    |-> t \in handed,
   cancelled |-> t \in cancelled]

OneFate ==
  \A t \in made \ Recurring :
    /\ \E one \in DOMAIN FateOf(t) :
         \A f \in DOMAIN FateOf(t) : FateOf(t)[f] <=> f = one
    /\ \A r, q \in Runner : t \in cbs[r] \cap cbs[q] => r = q

\* When every runner sleeps and no wake-up is on its way, one of them wakes in
\* time for the first timer: m_tickled never swallows a wake-up that is needed.
InTime ==
  (/\ Runner # {} /\ timers # {} /\ ~pipe
   /\ \A r \in Runner : pc[r] = "asleep"
   /\ \A a \in Thread : pc[a] # "notify")
  => \E r \in Runner :
       deadline[r] <= next[First(next, timers)] \/ deadline[r] <= now

\* Every one-shot timer ends: its callback is queued or it is cancelled.
EventuallyFires ==
  \A t \in Timer \ Recurring : cb[t] ~> (t \in handed \/ t \in cancelled)
=============================================================================
