------------------------------ MODULE FdEvents ------------------------------
(***************************************************************************)
(* The events of one file descriptor in src/iomanager.cc: its FdContext,   *)
(* its registration with epoll, m_pendingEventCount, and the threads that  *)
(* add, delete and cancel events and dispatch what epoll_wait reports.     *)
(*                                                                         *)
(* FdContext::m_mutex is taken and released in steps of their own, because *)
(* one path releases it twice; the body of a critical section is one step, *)
(* as is each access made without the lock.  The table m_fdContexts is     *)
(* taken to hold the descriptor already (contextResize is not modelled).   *)
(***************************************************************************)
EXTENDS Integers, FiniteSets

CONSTANTS
  Runner,      \* threads that run tasks and, idle, dispatch events
  Client,      \* other threads whose t_scheduler is this manager (its creator)
  Setups,      \* the processes looked at: the threads that take part and,
               \* as BOUNDs, the number of their calls of addEvent, which of
               \* the other calls they make, and what the peer causes
  Wrap         \* 2^64, the range of size_t

Thread == Runner \cup Client
Event  == {"READ", "WRITE"}
Report == Event \cup {"HUP"}     \* HUP stands for EPOLLERR and EPOLLHUP

\* delEvent, cancelEvent and cancelAll, by where they wait for the lock.
OtherCall == {"dellock", "cancellock", "alllock"}
NoThread == "no thread"

ASSUME EventAssumption ==
  /\ Runner \cap Client = {} /\ NoThread \notin Thread
  /\ \A s \in Setups :
       /\ s.threads \subseteq Thread /\ IsFiniteSet(s.threads) /\ s.adds \in Nat
       /\ s.calls \subseteq OtherCall /\ s.reports \subseteq Report
  /\ Wrap \in Nat \ {0}

VARIABLES
  setup,       \* the process
  events,      \* m_events
  ctx,         \* the EventContext of each event holds a scheduler and callback
  runs,        \* how often the callback registered last has been queued
  pending,     \* m_pendingEventCount
  registered,  \* the descriptor is in the epoll set
  interest,    \* with these events
  edge,        \* and EPOLLET
  cond,        \* what the descriptor is ready for
  edges,       \* readiness that epoll has not reported yet
  holder,      \* the thread that holds m_mutex
  pc,          \* where each thread is
  arg,         \* the event it works on
  op,          \* the epoll operation addEvent has chosen
  todo,        \* event.events, then real_events, of idle()
  adds,        \* calls of addEvent so far
  failure      \* "none", or what ended the process

eventVars == <<events, ctx, runs, pending>>
epollVars == <<registered, interest, edge>>
fdVars    == <<cond, edges>>
vars == <<setup, eventVars, epollVars, fdVars, holder, pc, arg, op, todo, adds,
          failure>>

\* Places where a thread waits for m_mutex, and places where it relies on it.
WaitPC == {"addlock", "dellock", "cancellock", "alllock", "looklock"}
HoldPC == {"add", "del", "cancel", "all", "look"}

TypeOK ==
  /\ setup \in Setups
  /\ events \subseteq Event
  /\ ctx \in [Event -> BOOLEAN] /\ runs \in [Event -> Nat]
  /\ pending \in 0 .. Wrap - 1
  /\ registered \in BOOLEAN /\ edge \in BOOLEAN /\ interest \subseteq Event
  /\ cond \subseteq Report /\ edges \subseteq cond
  /\ holder \in Thread \cup {NoThread}
  /\ pc \in [Thread -> {"free", "trigger", "clear", "count", "leave"}
                         \cup WaitPC \cup HoldPC]
  /\ arg \in [Thread -> Event]
  /\ op \in [Thread -> {"ADD", "MOD"}]
  /\ todo \in [Thread -> SUBSET Report]
  /\ adds \in 0 .. setup.adds
  /\ failure \in {"none", "assert", "crash"}

Init ==
  /\ setup \in Setups
  /\ events = {} /\ pending = 0
  /\ ctx = [e \in Event |-> FALSE] /\ runs = [e \in Event |-> 0]
  /\ registered = FALSE /\ interest = {} /\ edge = FALSE
  /\ cond = {} /\ edges = {}
  /\ holder = NoThread
  /\ pc = [a \in Thread |-> "free"]
  /\ arg = [a \in Thread |-> "READ"]
  /\ op = [a \in Thread |-> "ADD"]
  /\ todo = [a \in Thread |-> {}]
  /\ adds = 0
  /\ failure = "none"

---------------------------------------------------------------------------
At(a, where) == failure = "none" /\ pc[a] = where
Free(a) == At(a, "free") /\ a \in setup.threads
Goto(a, where) == pc' = [pc EXCEPT ![a] = where]
QcAssert(ok) == failure' = IF ok THEN failure ELSE "assert"

\* ScopedLockImpl: the constructor waits for the mutex; unlock() and the
\* destructor give it back whoever holds it.
Acquire(a) == holder = NoThread /\ holder' = a
Release == holder' = NoThread

CountUp == pending' = (pending + 1) % Wrap

\* Mutant of CountDown: the count is a signed number.
CountDownSigned(n) == pending' = pending - n

\* --m_pendingEventCount, n times: size_t wraps.
CountDown(n) == pending' = (pending - n) % Wrap

\* epoll_ctl with the operation o and the events es; ADD and MOD look at the
\* descriptor anew, so readiness is reported again.
EpollAccepts(o) == IF o = "ADD" THEN ~registered ELSE registered
EpollSet(es, et) ==
  /\ registered' = (es # {})
  /\ interest' = es
  /\ edge' = (et /\ es # {})
  /\ edges' = cond

\* Mutant of Drop: the context of the event is kept.
DropKept(e) ==
  /\ events' = events \ {e}
  /\ UNCHANGED ctx

\* Mutant of Drop: the event stays registered.
DropNothing(e) == UNCHANGED <<events, ctx>>

\* The event leaves m_events and its EventContext is reset.
Drop(e) ==
  /\ events' = events \ {e}
  /\ ctx' = [ctx EXCEPT ![e] = FALSE]


\* delEvent and cancelEvent register what is left without EPOLLET.
Left(e) == EpollSet(events \ {e}, FALSE)

\* triggerEvent: add_task for each event of es; a null scheduler crashes.  An
\* epoll_ctl call that follows under the same lock must be accepted.
Trigger(es, accepted) ==
  /\ failure' = CASE ~(es \subseteq events) -> "assert"
                  [] es \subseteq events /\ (\E e \in es : ~ctx[e]) -> "crash"
                  [] OTHER -> IF accepted THEN failure ELSE "assert"
  /\ runs' = [e \in Event |-> IF e \in es THEN runs[e] + 1 ELSE runs[e]]

---------------------------------------------------------------------------
\* The descriptor.

Arrive(e) ==
  /\ failure = "none" /\ e \in setup.reports \ edges
  /\ cond' = cond \cup {e} /\ edges' = edges \cup {e}
  /\ UNCHANGED <<setup, eventVars, epollVars, holder, pc, arg, op, todo, adds,
                 failure>>

\* A callback, or the peer, uses the readiness up; a hang-up stays.
Consume(e) ==
  /\ failure = "none" /\ e \in cond \ {"HUP"}
  /\ cond' = cond \ {e} /\ edges' = edges \ {e}
  /\ UNCHANGED <<setup, eventVars, epollVars, holder, pc, arg, op, todo, adds,
                 failure>>

---------------------------------------------------------------------------
\* Calls of the program, from a task or another thread.

\* Mutant of ChooseOp: the operation is always ADD.
ChooseAdd == "ADD"

\* op of addEvent, from m_events.
ChooseOp == IF events = {} THEN "ADD" ELSE "MOD"

\* addEvent chooses the epoll operation before it takes the lock.
CallAdd(a, e) ==
  /\ Free(a) /\ adds < setup.adds
  /\ adds' = adds + 1
  /\ op' = [op EXCEPT ![a] = ChooseOp]
  /\ arg' = [arg EXCEPT ![a] = e]
  /\ Goto(a, "addlock")
  /\ UNCHANGED <<setup, eventVars, epollVars, fdVars, holder, todo, failure>>

\* delEvent, cancelEvent and cancelAll start with the lock.
CallOther(a, e, where) ==
  /\ Free(a)
  /\ arg' = [arg EXCEPT ![a] = e]
  /\ Goto(a, where)
  /\ UNCHANGED <<setup, eventVars, epollVars, fdVars, holder, op, todo, adds,
                 failure>>

Lock(a, from, to) ==
  /\ At(a, from)
  /\ Acquire(a)
  /\ Goto(a, to)
  /\ UNCHANGED <<setup, eventVars, epollVars, fdVars, arg, op, todo, adds, failure>>

\* The event is there already: addEvent throws.
AddAgain(a) ==
  /\ At(a, "add") /\ arg[a] \in events
  /\ Release /\ Goto(a, "free")
  /\ UNCHANGED <<setup, eventVars, epollVars, fdVars, arg, op, todo, adds, failure>>

AddEvent(a) ==
  /\ At(a, "add") /\ arg[a] \notin events
  /\ LET e == arg[a] IN
       /\ QcAssert(~ctx[e] /\ EpollAccepts(op[a]))
       /\ events' = events \cup {e}
       /\ ctx' = [ctx EXCEPT ![e] = TRUE]
       /\ runs' = [runs EXCEPT ![e] = 0]
       /\ EpollSet(events \cup {e}, TRUE)
  /\ CountUp
  /\ Release /\ Goto(a, "free")
  /\ UNCHANGED <<setup, cond, arg, op, todo, adds>>

\* delEvent goes back to its caller: to the program, or to idle().
Return(a) == Goto(a, IF todo[a] = {} THEN "free" ELSE "count")

DelNothing(a) ==
  /\ At(a, "del") /\ arg[a] \notin events
  /\ Release /\ Return(a)
  /\ UNCHANGED <<setup, eventVars, epollVars, fdVars, arg, op, todo, adds, failure>>

DelEvent(a) ==
  /\ At(a, "del") /\ arg[a] \in events
  /\ Left(arg[a])
  /\ QcAssert(registered)
  /\ CountDown(1)
  /\ Drop(arg[a])
  /\ Release /\ Return(a)
  /\ UNCHANGED <<setup, runs, cond, arg, op, todo, adds>>

CancelNothing(a) ==
  /\ \/ At(a, "cancel") /\ arg[a] \notin events
     \/ At(a, "all") /\ events = {}
  /\ Release /\ Goto(a, "free")
  /\ UNCHANGED <<setup, eventVars, epollVars, fdVars, arg, op, todo, adds, failure>>

CancelEvent(a) ==
  /\ At(a, "cancel") /\ arg[a] \in events
  /\ Trigger({arg[a]}, registered)
  /\ Left(arg[a])
  /\ CountDown(1)
  /\ Drop(arg[a])
  /\ Release /\ Goto(a, "free")
  /\ UNCHANGED <<setup, cond, arg, op, todo, adds>>

CancelAll(a) ==
  /\ At(a, "all") /\ events # {}
  /\ Trigger(events, registered)
  /\ EpollSet({}, FALSE)
  /\ CountDown(Cardinality(events))
  /\ events' = {}
  /\ ctx' = [e \in Event |-> ctx[e] /\ e \notin events]
  /\ Release /\ Goto(a, "free")
  /\ UNCHANGED <<setup, cond, arg, op, todo, adds>>

---------------------------------------------------------------------------
\* IOManager::idle for one report of epoll_wait.

\* epoll_wait hands the descriptor to one thread; an edge is reported once.
Deliver(r) ==
  /\ Free(r) /\ registered
  /\ LET report == (interest \cup {"HUP"}) \cap (IF edge THEN edges ELSE cond) IN
       /\ report # {}
       /\ todo' = [todo EXCEPT ![r] = report]
       /\ edges' = edges \ report
  /\ Goto(r, "looklock")
  /\ UNCHANGED <<setup, eventVars, epollVars, cond, holder, arg, op, adds, failure>>

\* real_events: on EPOLLHUP and EPOLLERR everything registered.
Real(r) ==
  (todo[r] \cap Event) \cup (IF "HUP" \in todo[r] THEN events ELSE {})

\* Nothing registered has happened: the lock's destructor gives it back.
LookNothing(r) ==
  /\ At(r, "look") /\ events \cap Real(r) = {}
  /\ todo' = [todo EXCEPT ![r] = {}]
  /\ Release /\ Goto(r, "free")
  /\ UNCHANGED <<setup, eventVars, epollVars, fdVars, arg, op, adds, failure>>

\* READ is handled before WRITE.
FirstOf(es) == IF "READ" \in es THEN "READ" ELSE "WRITE"

\* Otherwise lock.unlock(), and the events are handled without the lock.
Look(r) ==
  /\ At(r, "look") /\ events \cap Real(r) # {}
  /\ todo' = [todo EXCEPT ![r] = Real(r)]
  /\ arg' = [arg EXCEPT ![r] = FirstOf(Real(r))]
  /\ Release /\ Goto(r, "trigger")
  /\ UNCHANGED <<setup, eventVars, epollVars, fdVars, op, adds, failure>>

\* triggerEvent without the lock: first the task is queued ...
TriggerUnlocked(r) ==
  /\ At(r, "trigger")
  /\ Trigger({arg[r]}, TRUE)
  /\ Goto(r, "clear")
  /\ UNCHANGED <<setup, events, ctx, pending, epollVars, fdVars, holder, arg, op,
                 todo, adds>>

\* ... then the context is reset; delEvent follows.
ClearContext(r) ==
  /\ At(r, "clear")
  /\ ctx' = [ctx EXCEPT ![arg[r]] = FALSE]
  /\ Goto(r, "dellock")
  /\ UNCHANGED <<setup, events, runs, pending, epollVars, fdVars, holder, arg, op,
                 todo, adds, failure>>

\* --m_pendingEventCount once more, and on to the other event.
CountAgain(r) ==
  /\ At(r, "count")
  /\ CountDown(1)
  /\ LET rest == todo[r] \ {arg[r]} IN
       /\ todo' = [todo EXCEPT ![r] = rest]
       /\ arg' = [arg EXCEPT ![r] = IF rest = {} THEN @ ELSE FirstOf(rest)]
       /\ Goto(r, IF rest = {} THEN "leave" ELSE "trigger")
  /\ UNCHANGED <<setup, events, ctx, runs, epollVars, fdVars, holder, op, adds,
                 failure>>

\* The end of the scope: the lock's destructor gives the mutex back again.
Leave(r) ==
  /\ At(r, "leave")
  /\ Release /\ Goto(r, "free")
  /\ UNCHANGED <<setup, eventVars, epollVars, fdVars, arg, op, todo, adds, failure>>

---------------------------------------------------------------------------
Call(a) ==
  \E e \in Event :
    \/ CallAdd(a, e)
    \/ \E where \in setup.calls : CallOther(a, e, where)

CallStep(a) ==
  \/ Lock(a, "addlock", "add") \/ Lock(a, "dellock", "del")
  \/ Lock(a, "cancellock", "cancel") \/ Lock(a, "alllock", "all")
  \/ AddAgain(a) \/ AddEvent(a) \/ DelNothing(a) \/ DelEvent(a)
  \/ CancelNothing(a) \/ CancelEvent(a) \/ CancelAll(a)

DispatchStep(r) ==
  \/ Lock(r, "looklock", "look")
  \/ LookNothing(r) \/ Look(r) \/ TriggerUnlocked(r) \/ ClearContext(r)
  \/ CountAgain(r) \/ Leave(r)

Next ==
  \/ \E e \in Report : Arrive(e) \/ Consume(e)
  \/ \E a \in Thread : Call(a) \/ CallStep(a)
  \/ \E r \in Runner : Deliver(r) \/ DispatchStep(r)
  \/ failure # "none" /\ UNCHANGED vars

Spec == Init /\ [][Next]_vars

\* Threads go on with what they have begun, and get the mutex if it is free again
\* and again; a runner goes back to epoll_wait again and again, and epoll_wait
\* then reports what there is.
Fairness ==
  /\ \A a \in Thread : SF_vars(CallStep(a))
  /\ \A r \in Runner : SF_vars(DispatchStep(r)) /\ SF_vars(Deliver(r))

FairSpec == Spec /\ Fairness

---------------------------------------------------------------------------
\* Properties.

Quiet == \A a \in Thread : pc[a] = "free"

\* When no thread is at work an event has a callback exactly when it is in
\* m_events: neither a leftover that makes the next addEvent abort, nor an
\* event that would be triggered without a callback.
ContextMatches ==
  failure = "none" /\ Quiet => \A e \in Event : ctx[e] <=> e \in events

\* With a second thread both of the properties below fail: idle() acts on the
\* events after it gave the lock back.
Alone == Cardinality(setup.threads) = 1

\* "Triggered once, deleted once": a registered callback is queued at most once.
AtMostOnce == Alone => \A e \in Event : runs[e] <= 1

\* No assertion of addEvent, delEvent, cancelEvent or triggerEvent fails and no
\* event is triggered through a null scheduler.
NoFailure == Alone => failure = "none"

\* m_mutex protects the FdContext: two threads never rely on it at a time.
Exclusion ==
  \A a, b \in Thread : pc[a] \in HoldPC /\ pc[b] \in HoldPC => a = b

=============================================================================
