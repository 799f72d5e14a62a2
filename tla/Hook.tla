-------------------------------- MODULE Hook --------------------------------
(***************************************************************************)
(* The hooked system calls of src/hook.cc: fibers that call socket,        *)
(* accept, the read and write families (do_io), close, fcntl, ioctl,       *)
(* setsockopt and the sleeps in the thread of an IOManager that has one    *)
(* (threads = 1, the default), where Scheduler::run has switched the hook  *)
(* on.                                                                     *)
(*                                                                         *)
(* Nothing else runs between two switches of fibers there, so the rounds   *)
(* of idle, addEvent, cancelEvent, cancelAll and the switch from one fiber *)
(* to another are one step each, as are FdManager::get and del.  With more *)
(* threads they are not: the events of one descriptor are then handled as  *)
(* in module FdEvents, its table as in FdManager and FdTable, and fibers   *)
(* are switched as in Scheduler.                                           *)
(*                                                                         *)
(* A descriptor is a socket made by the hooked socket() or accept(), so it *)
(* has an FdCtx.  A timeout is finite or not, and any armed timer may have *)
(* expired when idle asks.  A system call finds its descriptor ready or    *)
(* not, and epoll_wait reports any of the events it watches.               *)
(* addConditionTimer is not in the source: it is taken for add_timer with  *)
(* a callback that does nothing once its weak_ptr has expired.             *)
(***************************************************************************)
EXTENDS Integers, Sequences, FiniteSets, SequencesExt

CONSTANTS
  Setups,    \* the processes looked at: the descriptor numbers, what the
             \* program passes to ioctl(FIONBIO), and (BOUND) the calls that
             \* the tasks make
  Task,      \* fibers of the program
  None       \* no task, no descriptor

Fd    == UNION {s.fds : s \in Setups}
Event == {"READ", "WRITE"}

ASSUME HookAssumption ==
  /\ \A s \in Setups : s.calls \in Nat /\ s.ioctl \subseteq BOOLEAN
  /\ IsFiniteSet(Task) /\ IsFiniteSet(Fd) /\ None \notin Task \cup Fd

VARIABLES
  setup,      \* the process
  queue,      \* Scheduler::_queue
  job,        \* what the thread runs: a queue entry, "pick" or "epoll"
  pc,         \* where each task is
  call,       \* the call it makes: number, operation, fd, event, timeout_so
  cancelled,  \* tinfo->cnacelled of that call
  timedOut,   \* the last call ended with ETIMEDOUT
  armed,      \* timers in the TimerManager
  lapsed,     \* the timer of the task's last call has expired
  waiter,     \* the fiber in each EventContext
  watched,    \* descriptors in the epoll set
  ctx,        \* FdManager::m_datas
  open,       \* descriptors the kernel has
  nonblock,   \* O_NONBLOCK in the kernel
  known,      \* descriptors the program may use
  asked,      \* the blocking mode it asked for last
  failure     \* "none", or what ended the process

timerVars  == <<armed, lapsed>>
eventVars  == <<waiter, watched>>
kernelVars == <<open, nonblock>>
userVars   == <<known, asked>>
taskVars   == <<pc, call, cancelled, timedOut>>
vars == <<setup, queue, job, taskVars, timerVars, eventVars, ctx, kernelVars,
          userVars, failure>>

NoCall == [n |-> 0, op |-> "none", fd |-> None, ev |-> "READ", to |-> FALSE]
Entry(kind, t, c) ==
  [kind |-> kind, task |-> t, n |-> c.n, fd |-> c.fd, ev |-> c.ev]
Fiber(t) == Entry("fiber", t, NoCall)
Pick  == Entry("pick", None, NoCall)
Epoll == Entry("epoll", None, NoCall)

\* m_datas[fd]; m_sysNonblock is always true in the FdCtx of a socket.
FdCtx == [user : BOOLEAN, timeout : [Event -> BOOLEAN]]
NewCtx == [user |-> FALSE, timeout |-> [e \in Event |-> FALSE]]
NoCtx == [user |-> FALSE, timeout |-> <<>>]

\* Places of a call of do_io, while its timer_info exists.
IoPC == {"plain", "blocked", "try", "arm", "add", "yield", "wait", "woken"}

\* The tasks, which do not differ, are queued; some sockets are open already.
Init ==
  /\ setup \in Setups
  /\ queue = [i \in 1 .. Cardinality(Task) |-> Fiber(SetToSeq(Task)[i])]
  /\ job = Pick
  /\ pc = [t \in Task |-> "new"]
  /\ call = [t \in Task |-> NoCall]
  /\ cancelled = [t \in Task |-> FALSE]
  /\ timedOut = [t \in Task |-> FALSE]
  /\ armed = {} /\ lapsed = [t \in Task |-> FALSE]
  /\ waiter = [p \in Fd \X Event |-> None] /\ watched = {}
  /\ \E s \in SUBSET setup.fds, b \in BOOLEAN :
       /\ open = s /\ known = s
       /\ ctx = [f \in Fd |-> IF f \notin s THEN NoCtx
                              ELSE [NewCtx EXCEPT !.timeout = [e \in Event |-> b]]]
       /\ nonblock = [f \in Fd |-> f \in s]
  /\ asked = [f \in Fd |-> FALSE]
  /\ failure = "none"

---------------------------------------------------------------------------
At(t, where) == failure = "none" /\ pc[t] = where
Goto(t, where) == pc' = [pc EXCEPT ![t] = where]
Doing(kind) == failure = "none" /\ job.kind = kind
Work(j) == job' = j

\* The entries of cbs are queued, then the fibers of the events of p, which are
\* removed.
Trigger(cbs, p) ==
  /\ queue' = queue \o cbs \o [i \in DOMAIN p |-> Fiber(waiter[p[i]])]
  /\ waiter' = [q \in Fd \X Event |-> IF q \in Range(p) THEN None ELSE waiter[q]]
  /\ watched' = {f \in watched : \E e \in Event : waiter'[<<f, e>>] # None}

---------------------------------------------------------------------------
\* Scheduler::run and IOManager::idle.

\* The next entry; a fiber in the queue must be READY.
Take ==
  /\ Doing("pick") /\ queue # <<>>
  /\ LET j == Head(queue)
         suspended == j.kind = "fiber" => pc[j.task] \in {"new", "wait"}
     IN /\ Work(j)
        /\ failure' = IF suspended THEN failure ELSE "assert"
        /\ pc' = IF j.kind = "fiber" /\ suspended
                 THEN [pc EXCEPT ![j.task] = IF @ = "new" THEN "program" ELSE "woken"]
                 ELSE pc
  /\ queue' = Tail(queue)
  /\ UNCHANGED <<setup, call, cancelled, timedOut, timerVars, eventVars, ctx,
                 kernelVars, userVars>>

GoIdle ==
  /\ Doing("pick") /\ queue = <<>>
  /\ Work(Epoll)
  /\ UNCHANGED <<setup, queue, taskVars, timerVars, eventVars, ctx, kernelVars,
                 userVars, failure>>

Watched == {p \in Fd \X Event : waiter[p] # None /\ p[1] \in watched}

\* Mutant of Expired: the timers that have expired stay in the heap.
ExpiredKept(x) ==
  /\ UNCHANGED armed
  /\ lapsed' = [t \in Task |-> lapsed[t] \/ \E y \in x : y.task = t /\ y.n = call[t].n]

\* listExpiredCb takes the timers of x out of the heap.
Expired(x) ==
  /\ armed' = armed \ x
  /\ lapsed' = [t \in Task |-> lapsed[t] \/ \E y \in x : y.task = t /\ y.n = call[t].n]

\* One round of idle: the callbacks of the timers of x, which have expired, are
\* queued, and after them the fibers of the events es that epoll_wait reported,
\* READ before WRITE of the same descriptor.
IdlePass(x, es) ==
  /\ Doing("epoll")
  /\ \E cbs \in SetToSeqs(x), p \in SetToSeqs(es) :
       /\ \A i, j \in DOMAIN p : i < j /\ p[i][1] = p[j][1] => p[i][2] = "READ"
       /\ Trigger(cbs, p)
  /\ Expired(x)
  /\ Work(Pick)
  /\ UNCHANGED <<setup, taskVars, ctx, kernelVars, userVars, failure>>

---------------------------------------------------------------------------
\* The callbacks of timers, run as tasks.

\* winfo.lock() and the test of the flag.
Alive(x) ==
  pc[x.task] \in IoPC /\ call[x.task].n = x.n /\ ~cancelled[x.task]

\* First half of do_io's timer callback: the call is marked as timed out.
Timeout ==
  /\ Doing("timeout")
  /\ LET x == job IN
       IF Alive(x)
       THEN /\ cancelled' = [cancelled EXCEPT ![x.task] = TRUE]
            /\ Work([x EXCEPT !.kind = "cancel"])
       ELSE Work(Pick) /\ UNCHANGED cancelled
  /\ UNCHANGED <<setup, queue, pc, call, timedOut, timerVars, eventVars, ctx,
                 kernelVars, userVars, failure>>

\* Mutant of CancelEvent: the event is deleted, not triggered.
CancelQuietly ==
  /\ Doing("cancel")
  /\ LET p == <<job.fd, job.ev>> IN
       /\ waiter' = [waiter EXCEPT ![p] = None]
       /\ watched' = {f \in watched : \E e \in Event : waiter'[<<f, e>>] # None}
  /\ Work(Pick)
  /\ UNCHANGED <<setup, queue, taskVars, timerVars, ctx, kernelVars, userVars, failure>>

\* Mutant of CancelEvent: m_events is not tested first.
CancelUnchecked ==
  /\ Doing("cancel")
  /\ LET p == <<job.fd, job.ev>> IN
       /\ Trigger(<<>>, <<p>>)
       /\ failure' = IF p[1] \in watched THEN failure ELSE "assert"
  /\ Work(Pick)
  /\ UNCHANGED <<setup, taskVars, timerVars, ctx, kernelVars, userVars>>

\* Second half: cancelEvent wakes whoever waits for the event now.
CancelEvent ==
  /\ Doing("cancel")
  /\ LET p == <<job.fd, job.ev>> IN
       IF waiter[p] = None
       THEN UNCHANGED <<queue, eventVars, failure>>
       ELSE /\ Trigger(<<>>, <<p>>)
            /\ failure' = IF p[1] \in watched THEN failure ELSE "assert"
  /\ Work(Pick)
  /\ UNCHANGED <<setup, taskVars, timerVars, ctx, kernelVars, userVars>>

\* The timer of a sleep adds the fiber to the queue.
Wake ==
  /\ Doing("wake")
  /\ queue' = Append(queue, Fiber(job.task))
  /\ Work(Pick)
  /\ UNCHANGED <<setup, taskVars, timerVars, eventVars, ctx, kernelVars, userVars,
                 failure>>

---------------------------------------------------------------------------
\* What a task may do next: make a call, or end.

NextCall(t, op, f, e, to) ==
  [n |-> call[t].n + 1, op |-> op, fd |-> f, ev |-> e, to |-> to]

\* The calls made so far: the first, second, ... of each task.
Calls == {c \in Task \X (1 .. setup.calls) : c[2] <= call[c[1]].n}

\* Mutant of Begin: the fiber keeps one timer_info for all its calls.
BeginKeepsInfo(t, c, where) ==
  /\ At(t, "program") /\ Cardinality(Calls) < setup.calls
  /\ call' = [call EXCEPT ![t] = c]
  /\ timedOut' = [timedOut EXCEPT ![t] = FALSE]
  /\ lapsed' = [lapsed EXCEPT ![t] = FALSE]
  /\ UNCHANGED cancelled
  /\ Goto(t, where)

\* A call begins, with a timer_info of its own.
Begin(t, c, where) ==
  /\ At(t, "program") /\ Cardinality(Calls) < setup.calls
  /\ call' = [call EXCEPT ![t] = c]
  /\ cancelled' = [cancelled EXCEPT ![t] = FALSE]
  /\ timedOut' = [timedOut EXCEPT ![t] = FALSE]
  /\ lapsed' = [lapsed EXCEPT ![t] = FALSE]
  /\ Goto(t, where)

\* read, readv, recv, recvfrom, recvmsg and accept wait for READ, write and
\* its family for WRITE.
Ops(e) == IF e = "READ" THEN {"io", "accept"} ELSE {"io"}

\* do_io up to the first system call: without a context, or with one that the
\* program made non-blocking, the call goes straight to the kernel.
CallIo(t, f, e) ==
  /\ f \in known
  /\ \E op \in Ops(e) :
       IF ctx[f] = NoCtx \/ ctx[f].user
       THEN Begin(t, NextCall(t, op, f, e, FALSE), "plain")
       ELSE Begin(t, NextCall(t, op, f, e, ctx[f].timeout[e]), "try")
  /\ UNCHANGED <<setup, queue, job, armed, eventVars, ctx, kernelVars, userVars,
                 failure>>

\* socket(): the kernel's part ...
CallSocket(t, f) ==
  /\ f \in setup.fds \ open
  /\ Begin(t, NextCall(t, "socket", f, "READ", FALSE), "create")
  /\ open' = open \cup {f}
  /\ nonblock' = [nonblock EXCEPT ![f] = FALSE]
  /\ asked' = [asked EXCEPT ![f] = FALSE]
  /\ UNCHANGED <<setup, queue, job, armed, eventVars, ctx, known, failure>>

\* Mutant of CancelAll: nobody is woken.
CancelNone(f) == UNCHANGED <<queue, eventVars, failure>>

\* cancelAll: READ is triggered before WRITE, and the descriptor leaves epoll.
CancelAll(f) ==
  LET waits(e) == IF waiter[<<f, e>>] # None THEN <<<<f, e>>>> ELSE <<>>
      here == waits("READ") \o waits("WRITE")
  IN IF here = <<>>
     THEN UNCHANGED <<queue, eventVars, failure>>
     ELSE /\ Trigger(<<>>, here)
          /\ failure' = IF f \in watched THEN failure ELSE "assert"

\* close(): get the context and cancel every event; del and close_f follow.
CallClose(t, f) ==
  /\ f \in known
  /\ Begin(t, NextCall(t, "close", f, "READ", FALSE),
           IF ctx[f] = NoCtx THEN "closef" ELSE "del")
  /\ IF ctx[f] = NoCtx THEN UNCHANGED <<queue, eventVars, failure>> ELSE CancelAll(f)
  /\ known' = known \ {f}
  /\ UNCHANGED <<setup, job, armed, ctx, kernelVars, asked>>

\* fcntl(F_SETFL): the program's wish is noted and the kernel's flag kept.
CallSetFl(t, f, b) ==
  /\ f \in known
  /\ Begin(t, NextCall(t, "none", None, "READ", FALSE), "program")
  /\ asked' = [asked EXCEPT ![f] = b]
  /\ IF ctx[f] = NoCtx
     THEN nonblock' = [nonblock EXCEPT ![f] = b] /\ UNCHANGED ctx
     ELSE /\ ctx' = [ctx EXCEPT ![f].user = b]
          /\ nonblock' = [nonblock EXCEPT ![f] = TRUE]
  /\ UNCHANGED <<setup, queue, job, armed, eventVars, open, known, failure>>

\* Mutant of SeenFlag: F_GETFL shows the flag of the kernel.
SeenKernel(f) == nonblock[f]

\* O_NONBLOCK as fcntl(F_GETFL) shows it.
SeenFlag(f) == IF ctx[f] = NoCtx THEN nonblock[f] ELSE ctx[f].user

\* ioctl(FIONBIO): the wish is noted, and the kernel gets it all the same.
CallIoctl(t, f, b) ==
  /\ f \in known
  /\ Begin(t, NextCall(t, "none", None, "READ", FALSE), "program")
  /\ asked' = [asked EXCEPT ![f] = b]
  /\ ctx' = IF ctx[f] = NoCtx THEN ctx ELSE [ctx EXCEPT ![f].user = b]
  /\ nonblock' = [nonblock EXCEPT ![f] = b]
  /\ UNCHANGED <<setup, queue, job, armed, eventVars, open, known, failure>>

\* setsockopt(SO_RCVTIMEO or SO_SNDTIMEO).
CallTimeout(t, f, e) ==
  /\ f \in known
  /\ Begin(t, NextCall(t, "none", None, "READ", FALSE), "program")
  /\ ctx' = IF ctx[f] = NoCtx THEN ctx ELSE [ctx EXCEPT ![f].timeout[e] = TRUE]
  /\ UNCHANGED <<setup, queue, job, armed, eventVars, kernelVars, userVars,
                 failure>>

\* sleep, usleep and nanosleep: a timer that adds the fiber, then yield.
CallSleep(t) ==
  LET c == NextCall(t, "sleep", None, "READ", TRUE) IN
  /\ Begin(t, c, "yield")
  /\ armed' = armed \cup {Entry("wake", t, c)}
  /\ UNCHANGED <<setup, queue, job, eventVars, ctx, kernelVars, userVars,
                 failure>>

Finish(t) ==
  /\ At(t, "program")
  /\ Goto(t, "done") /\ Work(Pick)
  /\ UNCHANGED <<setup, queue, call, cancelled, timedOut, timerVars, eventVars, ctx,
                 kernelVars, userVars, failure>>

---------------------------------------------------------------------------
\* do_io.

\* The call is over.
Return(t, errno) ==
  /\ call' = [call EXCEPT ![t] = [NoCall EXCEPT !.n = call[t].n]]
  /\ timedOut' = [timedOut EXCEPT ![t] = (errno = "ETIMEDOUT")]
  /\ UNCHANGED cancelled
  /\ Goto(t, "program")

\* The system call succeeds; accept returns a new descriptor, if there is one
\* left.
Served(t) ==
  IF call[t].op = "accept" /\ open # setup.fds
  THEN \E g \in setup.fds \ open :
         /\ open' = open \cup {g}
         /\ nonblock' = [nonblock EXCEPT ![g] = FALSE]
         /\ asked' = [asked EXCEPT ![g] = FALSE]
         /\ call' = [call EXCEPT ![t].fd = g]
         /\ Goto(t, "create") /\ UNCHANGED <<cancelled, timedOut>>
  ELSE Return(t, "none") /\ UNCHANGED <<open, nonblock, asked>>

\* Where the system call leads when the descriptor is not ready: it fails with
\* EBADF, blocks the thread, or fails with EAGAIN, which the program gets from
\* a plain call while do_io goes on.
NotReady(t) ==
  LET c == call[t] IN
  CASE c.fd \notin open -> "program"
    [] c.fd \in open /\ ~nonblock[c.fd] -> "blocked"
    [] OTHER -> IF pc[t] = "plain" THEN "program" ELSE IF c.to THEN "arm" ELSE "add"

\* The system call on the descriptor; EINTR only repeats it.
SystemCall(t) ==
  /\ At(t, "plain") \/ At(t, "try")
  /\ \/ call[t].fd \in open /\ Served(t)
     \/ /\ IF NotReady(t) = "program"
           THEN Return(t, "none")
           ELSE Goto(t, NotReady(t)) /\ UNCHANGED <<call, cancelled, timedOut>>
        /\ UNCHANGED <<open, nonblock, asked>>
  /\ UNCHANGED <<setup, queue, job, timerVars, eventVars, ctx, known, failure>>

\* A thread that blocks in the kernel goes on when the descriptor is ready.
Unblock(t) ==
  /\ At(t, "blocked")
  /\ Served(t)
  /\ UNCHANGED <<setup, queue, job, timerVars, eventVars, ctx, known, failure>>

\* addConditionTimer.
Arm(t) ==
  /\ At(t, "arm")
  /\ armed' = armed \cup {Entry("timeout", t, call[t])}
  /\ Goto(t, "add")
  /\ UNCHANGED <<setup, queue, job, call, cancelled, timedOut, lapsed, eventVars,
                 ctx, kernelVars, userVars, failure>>

\* addEvent without a callback: the fiber waits for the event.  The same event
\* twice throws; an epoll_ctl that fails ends in its assertion.
AddEvent(t) ==
  /\ At(t, "add")
  /\ LET f == call[t].fd
         p == <<f, call[t].ev>>
         adds == \A e \in Event : waiter[<<f, e>>] = None
         accepted == f \in open /\ (adds <=> f \notin watched)
     IN IF waiter[p] # None
        THEN failure' = "throw" /\ UNCHANGED eventVars
        ELSE /\ waiter' = [waiter EXCEPT ![p] = t]
             /\ watched' = IF accepted THEN watched \cup {f} ELSE watched
             /\ failure' = IF accepted THEN failure ELSE "assert"
  /\ Goto(t, "yield")
  /\ UNCHANGED <<setup, queue, job, call, cancelled, timedOut, timerVars, ctx,
                 kernelVars, userVars>>

Yield(t) ==
  /\ At(t, "yield")
  /\ Goto(t, "wait") /\ Work(Pick)
  /\ UNCHANGED <<setup, queue, call, cancelled, timedOut, timerVars, eventVars, ctx,
                 kernelVars, userVars, failure>>

\* Mutant of CancelTimer: the timer of a call that was answered is left armed.
CancelNoTimer(t) == UNCHANGED armed

\* timer->cancel(): out of the heap, if it is still there.
CancelTimer(t) == armed' = {x \in armed : x.task # t}

\* Resumed: a sleep returns; do_io reports the timeout or starts again at
\* retry, without looking at the context of the descriptor anew.
Resume(t) ==
  /\ At(t, "woken")
  /\ CancelTimer(t)
  /\ CASE call[t].op = "sleep" -> Return(t, "none")
       [] call[t].op # "sleep" /\ cancelled[t] -> Return(t, "ETIMEDOUT")
       [] OTHER -> Goto(t, "try") /\ UNCHANGED <<call, cancelled, timedOut>>
  /\ UNCHANGED <<setup, queue, job, lapsed, eventVars, ctx, kernelVars, userVars,
                 failure>>

---------------------------------------------------------------------------
\* The ends of socket(), accept() and close().

\* get(fd, true): a new context puts the descriptor in non-blocking mode.
Create(t) ==
  /\ At(t, "create")
  /\ LET f == call[t].fd IN
       /\ IF ctx[f] = NoCtx
          THEN /\ ctx' = [ctx EXCEPT ![f] = NewCtx]
               /\ nonblock' = [nonblock EXCEPT ![f] = TRUE]
          ELSE UNCHANGED <<ctx, nonblock>>
       /\ known' = known \cup {f}
  /\ Return(t, "none")
  /\ UNCHANGED <<setup, queue, job, timerVars, eventVars, open, asked, failure>>

\* Mutant of Del: the context stays in the table.
DelNothing(t) ==
  /\ At(t, "del")
  /\ Goto(t, "closef")
  /\ UNCHANGED <<setup, queue, job, call, cancelled, timedOut, timerVars, eventVars, ctx,
                 kernelVars, userVars, failure>>

Del(t) ==
  /\ At(t, "del")
  /\ ctx' = [ctx EXCEPT ![call[t].fd] = NoCtx]
  /\ Goto(t, "closef")
  /\ UNCHANGED <<setup, queue, job, call, cancelled, timedOut, timerVars, eventVars,
                 kernelVars, userVars, failure>>

\* close_f: the kernel forgets the descriptor, and so does epoll.
CloseF(t) ==
  /\ At(t, "closef")
  /\ open' = open \ {call[t].fd}
  /\ watched' = watched \ {call[t].fd}
  /\ Return(t, "none")
  /\ UNCHANGED <<setup, queue, job, timerVars, waiter, ctx, nonblock, userVars, failure>>

---------------------------------------------------------------------------
Program(t) ==
  \/ \E f \in Fd :
       \/ CallSocket(t, f) \/ CallClose(t, f)
       \/ \E e \in Event : CallIo(t, f, e) \/ CallTimeout(t, f, e)
       \/ \E b \in BOOLEAN : CallSetFl(t, f, b)
       \/ \E b \in setup.ioctl : CallIoctl(t, f, b)
  \/ CallSleep(t) \/ Finish(t)

CallStep(t) ==
  \/ SystemCall(t) \/ Arm(t) \/ AddEvent(t) \/ Yield(t) \/ Resume(t)
  \/ Create(t) \/ Del(t) \/ CloseF(t)

Callback == Timeout \/ CancelEvent \/ Wake

IdleRound == \E x \in SUBSET armed, es \in SUBSET Watched : IdlePass(x, es)

Next ==
  \/ Take \/ GoIdle \/ IdleRound \/ Callback
  \/ \E t \in Task : Program(t) \/ CallStep(t) \/ Unblock(t)
  \/ failure # "none" /\ UNCHANGED vars

Spec == Init /\ [][Next]_vars

\* A round of idle that finds the timer of t expired.
Elapse(t) ==
  \E x \in SUBSET armed, es \in SUBSET Watched :
    (\E y \in x : y.task = t) /\ IdlePass(x, es)

\* The thread goes round its loop, tasks go on with their calls and end some day,
\* and time passes: a timer does not stay unexpired for ever.
Fairness ==
  /\ WF_vars(Take \/ GoIdle \/ IdleRound \/ Callback)
  /\ \A t \in Task : WF_vars(Program(t)) /\ WF_vars(CallStep(t)) /\ SF_vars(Elapse(t))

FairSpec == Spec /\ Fairness

---------------------------------------------------------------------------
\* Properties.

Entries(kinds, tasks) ==
  [kind : kinds, task : tasks, n : 0 .. setup.calls, fd : Fd \cup {None}, ev : Event]

\* Every variable has its type.
TypeOK ==
  /\ setup \in Setups
  /\ queue \in Seq(Entries({"fiber", "timeout", "wake"}, Task))
  /\ job \in Entries({"fiber", "timeout", "cancel", "wake"}, Task) \cup {Pick, Epoll}
  /\ pc \in [Task -> IoPC \cup {"new", "program", "create", "del", "closef", "done"}]
  /\ \A t \in Task : call[t].n \in 0 .. setup.calls
  /\ cancelled \in [Task -> BOOLEAN] /\ timedOut \in [Task -> BOOLEAN]
  /\ armed \subseteq Entries({"timeout", "wake"}, Task)
  /\ lapsed \in [Task -> BOOLEAN]
  /\ waiter \in [Fd \X Event -> Task \cup {None}] /\ watched \subseteq open
  /\ \A f \in Fd : ctx[f] = NoCtx \/ ctx[f] \in FdCtx
  /\ open \subseteq Fd /\ known \subseteq open
  /\ nonblock \in [Fd -> BOOLEAN] /\ asked \in [Fd -> BOOLEAN]
  /\ failure \in {"none", "throw", "assert"}

\* What will put a task into the queue, or has done so.
Wakes(t) ==
  Cardinality({p \in Fd \X Event : waiter[p] = t})
    + Cardinality({x \in armed : x.kind = "wake" /\ x.task = t})
    + (IF job.kind = "wake" /\ job.task = t THEN 1 ELSE 0)
    + Cardinality({i \in 1 .. Len(queue) :
                     queue[i].kind \in {"wake", "fiber"} /\ queue[i].task = t})

\* A fiber that waits has exactly one thing that will resume it, whichever of
\* the event, the timeout and a close comes first, and one that runs has none:
\* no wake-up is lost and none is delivered twice.
OneWake ==
  failure = "none" =>
    \A t \in Task : Wakes(t) = IF pc[t] \in {"new", "yield", "wait"} THEN 1 ELSE 0

\* A call reports ETIMEDOUT only when its own timer has expired, never on
\* account of the timer of an earlier call of the fiber.
OwnTimeout == \A t \in Task : timedOut[t] => lapsed[t]

\* A call that has returned leaves no timer behind, for which
\* IOManager::stopping would have to wait.
NoStrayTimer ==
  \A x \in armed :
    pc[x.task] \in {"add", "yield", "wait", "woken"} /\ call[x.task].n = x.n

\* The program sees the blocking mode it asked for, and a descriptor number
\* that is used again does not inherit the mode of its predecessor.
FlagsAsAsked == \A f \in known : SeenFlag(f) = asked[f]

\* The thread never blocks in a system call, unless the program has used
\* ioctl(FIONBIO) to ask for it: a socket that has a context is in non-blocking
\* mode whatever became of its number before.
NeverBlocks ==
  FALSE \notin setup.ioctl => \A t \in Task : pc[t] # "blocked"

\* A fiber never waits for an event of a descriptor that epoll does not watch
\* any more: close wakes those that wait.
WaitsAreWatched ==
  \A p \in Fd \X Event : waiter[p] # None => p[1] \in watched

\* A wait that has a timeout ends, as does a sleep, unless the kernel keeps the
\* thread (see NeverBlocks).
TimedWaitEnds ==
  \A t \in Task :
    (pc[t] = "wait" /\ call[t].to) ~>
      (pc[t] # "wait" \/ failure # "none" \/ \E u \in Task : pc[u] = "blocked")
=============================================================================
