---------------------------- MODULE HookProofs ----------------------------
(***************************************************************************)
(* Theorems about Hook for any descriptors, tasks and number of calls: no  *)
(* wake-up is lost or doubled, a timeout is that of its own call, no timer *)
(* outlives its call, a descriptor shows the mode that was asked for, no   *)
(* call blocks the thread and no fiber waits for a descriptor that epoll   *)
(* has forgotten.                                                          *)
(***************************************************************************)
EXTENDS Hook, FiniteSetTheorems, SequenceTheorems, TLAPS

Place == IoPC \cup {"new", "program", "create", "del", "closef", "done"}

\* Places of a call that works on a descriptor.
Started == {"plain", "blocked", "try", "arm", "add", "create", "del", "closef"}

Asked == [n : Nat, op : {"none", "io", "accept", "socket", "close", "sleep"},
          fd : Fd \cup {None}, ev : Event, to : BOOLEAN]

\* Queue entries, timers and what a thread runs.
Work4(kinds) ==
  {x \in [kind : kinds, task : Task, n : Nat, fd : Fd \cup {None}, ev : Event] :
     x.kind \in {"timeout", "cancel"} => x.fd \in Fd}
Queued == Work4({"fiber", "timeout", "wake"})
Timers == Work4({"timeout", "wake"})
Jobs   == Work4({"fiber", "timeout", "cancel", "wake"}) \cup {Pick, Epoll}

\* A call at work on a descriptor has one.
Targets ==
  \A t \in Task :
    pc[t] \in Started \/ (pc[t] \in {"yield", "wait", "woken"} /\ call[t].op # "sleep")
      => call[t].fd \in Fd

\* Types, but for the bound on the number of calls.
TypeInv ==
  /\ setup \in Setups
  /\ queue \in Seq(Queued)
  /\ job \in Jobs
  /\ pc \in [Task -> Place]
  /\ call \in [Task -> Asked]
  /\ cancelled \in [Task -> BOOLEAN] /\ timedOut \in [Task -> BOOLEAN]
  /\ lapsed \in [Task -> BOOLEAN]
  /\ armed \subseteq Timers /\ IsFiniteSet(armed)
  /\ waiter \in [Fd \X Event -> Task \cup {None}] /\ watched \subseteq Fd
  /\ ctx \in [Fd -> FdCtx \cup {NoCtx}]
  /\ open \subseteq Fd /\ known \subseteq Fd
  /\ nonblock \in [Fd -> BOOLEAN] /\ asked \in [Fd -> BOOLEAN]
  /\ failure \in {"none", "throw", "assert"}
  /\ Targets

---------------------------------------------------------------------------
\* Operators of the model.

\* What Begin does, task by task.
LEMMA Begun ==
  ASSUME TypeInv, NEW t \in Task, NEW c \in Asked, NEW where \in Place, Begin(t, c, where)
  PROVE  /\ failure = "none" /\ pc[t] = "program"
         /\ call' \in [Task -> Asked] /\ pc' \in [Task -> Place]
         /\ cancelled' \in [Task -> BOOLEAN] /\ timedOut' \in [Task -> BOOLEAN]
         /\ lapsed' \in [Task -> BOOLEAN]
         /\ pc'[t] = where /\ call'[t] = c
         /\ ~cancelled'[t] /\ ~timedOut'[t] /\ ~lapsed'[t]
         /\ \A u \in Task \ {t} :
              /\ pc'[u] = pc[u] /\ call'[u] = call[u] /\ cancelled'[u] = cancelled[u]
              /\ timedOut'[u] = timedOut[u] /\ lapsed'[u] = lapsed[u]
  BY DEF TypeInv, Begin, At, Goto

\* What Return does, task by task.
LEMMA Returned ==
  ASSUME TypeInv, NEW t \in Task, NEW errno, Return(t, errno)
  PROVE  /\ call' \in [Task -> Asked] /\ pc' \in [Task -> Place]
         /\ cancelled' \in [Task -> BOOLEAN] /\ timedOut' \in [Task -> BOOLEAN]
         /\ pc'[t] = "program" /\ call'[t].n = call[t].n /\ cancelled' = cancelled
         /\ timedOut'[t] <=> errno = "ETIMEDOUT"
         /\ \A u \in Task \ {t} :
              /\ pc'[u] = pc[u] /\ call'[u] = call[u] /\ cancelled'[u] = cancelled[u]
              /\ timedOut'[u] = timedOut[u]
<1>1. [NoCall EXCEPT !.n = call[t].n] \in Asked /\ [NoCall EXCEPT !.n = call[t].n].n = call[t].n
  BY DEF TypeInv, NoCall, Asked, Event
<1>2. (errno = "ETIMEDOUT") \in BOOLEAN
  OBVIOUS
<1>3. QED
  BY <1>1, <1>2 DEF TypeInv, Return, Goto, Place

\* A task goes on.
LEMMA Moved ==
  ASSUME TypeInv, NEW t \in Task, NEW where \in Place, Goto(t, where)
  PROVE  /\ pc' \in [Task -> Place] /\ pc'[t] = where
         /\ \A u \in Task \ {t} : pc'[u] = pc[u]
  BY DEF TypeInv, Goto

\* A timer or queue entry for a call.
LEMMA EntryType ==
  ASSUME NEW t \in Task, NEW c \in Asked, NEW kind \in {"fiber", "timeout", "wake"},
         kind = "timeout" => c.fd \in Fd
  PROVE  /\ Entry(kind, t, c) \in Queued
         /\ kind # "fiber" => Entry(kind, t, c) \in Timers
         /\ Entry(kind, t, c).kind = kind /\ Entry(kind, t, c).task = t
         /\ Entry(kind, t, c).n = c.n
  BY DEF Entry, Queued, Timers, Work4, Asked

\* The fiber of a task as a queue entry.
LEMMA FiberType ==
  ASSUME NEW t \in Task
  PROVE  Fiber(t) \in Queued /\ Fiber(t).kind = "fiber" /\ Fiber(t).task = t
<1>1. NoCall \in Asked
  BY DEF NoCall, Asked, Event
<1>2. QED
  BY <1>1, EntryType DEF Fiber

\* The first entry and the rest.
LEMMA Taken ==
  ASSUME TypeInv, queue # <<>>
  PROVE  /\ Head(queue) \in Queued /\ Tail(queue) \in Seq(Queued)
         /\ Len(Tail(queue)) = Len(queue) - 1 /\ Len(queue) \in Nat \ {0}
         /\ Head(queue) = queue[1]
         /\ \A i \in 1 .. Len(Tail(queue)) :
              i + 1 \in 1 .. Len(queue) /\ Tail(queue)[i] = queue[i + 1]
         /\ \A i \in 2 .. Len(queue) :
              i - 1 \in 1 .. Len(Tail(queue)) /\ Tail(queue)[i - 1] = queue[i]
<1>1. queue \in Seq(Queued)
  BY DEF TypeInv
<1>2. Len(queue) \in Nat \ {0}
  BY <1>1
<1>3. Head(queue) \in Queued /\ Tail(queue) \in Seq(Queued) /\ Head(queue) = queue[1]
      /\ Len(Tail(queue)) = Len(queue) - 1
  BY <1>1
<1>4. \A i \in 1 .. Len(Tail(queue)) :
        i + 1 \in 1 .. Len(queue) /\ Tail(queue)[i] = queue[i + 1]
  BY <1>1, <1>2, <1>3
<1>5. \A i \in 2 .. Len(queue) :
        i - 1 \in 1 .. Len(Tail(queue)) /\ Tail(queue)[i - 1] = queue[i]
  BY <1>1, <1>2, <1>3, <1>4
<1>6. QED
  BY <1>2, <1>3, <1>4, <1>5

\* The thread takes up other work.
LEMMA Worked ==
  ASSUME NEW j \in Jobs, Work(j)
  PROVE  job' \in Jobs /\ job' = j
  BY DEF Work

\* Two sequences one after the other.
LEMMA Joined ==
  ASSUME NEW S, NEW s \in Seq(S), NEW u \in Seq(S)
  PROVE  /\ s \o u \in Seq(S) /\ Len(s \o u) = Len(s) + Len(u)
         /\ \A i \in 1 .. Len(s) : (s \o u)[i] = s[i]
         /\ \A i \in 1 .. Len(u) : (s \o u)[Len(s) + i] = u[i]
<1>1. /\ s \o u \in Seq(S) /\ Len(s \o u) = Len(s) + Len(u)
      /\ \A i \in 1 .. Len(s) + Len(u) :
           (s \o u)[i] = IF i <= Len(s) THEN s[i] ELSE u[i - Len(s)]
  BY ConcatProperties
<1>2. Len(s) \in Nat /\ Len(u) \in Nat
  OBVIOUS
<1>3. ASSUME NEW i \in 1 .. Len(s) PROVE (s \o u)[i] = s[i]
  BY <1>1, <1>2
<1>4. ASSUME NEW i \in 1 .. Len(u) PROVE (s \o u)[Len(s) + i] = u[i]
  <2>1. /\ Len(s) + i \in 1 .. Len(s) + Len(u) /\ ~(Len(s) + i <= Len(s))
        /\ (Len(s) + i) - Len(s) = i
    BY <1>2
  <2>2. QED
    BY <1>1, <2>1
<1>5. QED
  BY <1>1, <1>3, <1>4

\* Two sequences of one element.
LEMMA Pair ==
  ASSUME NEW S, NEW a \in S, NEW b \in S
  PROVE  /\ <<a>> \o <<b>> \in Seq(S) /\ Len(<<a>> \o <<b>>) = 2
         /\ (<<a>> \o <<b>>)[1] = a /\ (<<a>> \o <<b>>)[2] = b
<1>1. <<a>> \in Seq(S) /\ Len(<<a>>) = 1 /\ <<a>>[1] = a
  OBVIOUS
<1>2. <<b>> \in Seq(S) /\ Len(<<b>>) = 1 /\ <<b>>[1] = b
  OBVIOUS
<1> DEFINE s == <<a>>
           u == <<b>>
<1>3. s \in Seq(S) /\ Len(s) = 1 /\ s[1] = a /\ u \in Seq(S) /\ Len(u) = 1 /\ u[1] = b
  BY <1>1, <1>2
<1> HIDE DEF s, u
<1>4. /\ s \o u \in Seq(S) /\ Len(s \o u) = Len(s) + Len(u)
      /\ \A i \in 1 .. Len(s) : (s \o u)[i] = s[i]
      /\ \A i \in 1 .. Len(u) : (s \o u)[Len(s) + i] = u[i]
  BY <1>3, Joined
<1>5. s \o u \in Seq(S) /\ Len(s \o u) = 2 /\ (s \o u)[1] = a /\ (s \o u)[2] = b
  <2>1. 1 \in 1 .. Len(s) /\ 1 \in 1 .. Len(u) /\ Len(s) + 1 = 2
    BY <1>3
  <2>2. QED
    BY <1>3, <1>4, <2>1
<1>6. QED
  BY <1>5 DEF s, u

\* Triggering: the callbacks and the fibers that waited for the events of p are
\* appended in that order, and nobody waits for these events any more.
Triggers(cbs, p) ==
  /\ queue' \in Seq(Queued)
  /\ waiter' \in [Fd \X Event -> Task \cup {None}] /\ watched' \subseteq watched
  /\ \A q \in Fd \X Event :
       waiter'[q] = IF \E i \in 1 .. Len(p) : p[i] = q THEN None ELSE waiter[q]
  /\ \A f \in Fd : f \in watched' <=> f \in watched /\ \E e \in Event : waiter'[<<f, e>>] # None
  /\ Len(queue') = Len(queue) + Len(cbs) + Len(p)
  /\ \A i \in 1 .. Len(queue) : queue'[i] = queue[i]
  /\ \A i \in 1 .. Len(cbs) : queue'[Len(queue) + i] = cbs[i]
  /\ \A i \in 1 .. Len(p) : queue'[Len(queue) + Len(cbs) + i] = Fiber(waiter[p[i]])

\* Trigger does what Triggers says.
LEMMA Triggered ==
  ASSUME TypeInv, NEW cbs \in Seq(Queued), NEW p \in Seq(Fd \X Event),
         \A i \in 1 .. Len(p) : waiter[p[i]] # None, Trigger(cbs, p)
  PROVE  Triggers(cbs, p)
<1> DEFINE fibers == [i \in DOMAIN p |-> Fiber(waiter[p[i]])]
<1>1. queue \in Seq(Queued) /\ waiter \in [Fd \X Event -> Task \cup {None}]
  BY DEF TypeInv
<1>2. DOMAIN p = 1 .. Len(p) /\ Len(p) \in Nat /\ Len(cbs) \in Nat /\ Len(queue) \in Nat
  BY <1>1
<1>3. \A i \in 1 .. Len(p) : p[i] \in Fd \X Event /\ waiter[p[i]] \in Task
  <2>1. \A i \in 1 .. Len(p) : p[i] \in Fd \X Event
    OBVIOUS
  <2>2. QED
    BY <1>1, <2>1
<1>4. \A i \in 1 .. Len(p) : Fiber(waiter[p[i]]) \in Queued
  BY <1>3, FiberType
<1>5. /\ fibers \in Seq(Queued) /\ Len(fibers) = Len(p)
      /\ \A i \in 1 .. Len(p) : fibers[i] = Fiber(waiter[p[i]])
  <2>1. fibers \in [1 .. Len(p) -> Queued]
    BY <1>2, <1>4
  <2>2. QED
    BY <1>2, <2>1
<1> HIDE DEF fibers
<1>6. queue' = (queue \o cbs) \o fibers
  BY DEF Trigger, fibers
<1>7. /\ queue' \in Seq(Queued) /\ Len(queue') = Len(queue) + Len(cbs) + Len(p)
      /\ \A i \in 1 .. Len(queue) : queue'[i] = queue[i]
      /\ \A i \in 1 .. Len(cbs) : queue'[Len(queue) + i] = cbs[i]
      /\ \A i \in 1 .. Len(p) :
           queue'[Len(queue) + Len(cbs) + i] = Fiber(waiter[p[i]])
  <2> DEFINE front == queue \o cbs
  <2>1. /\ front \in Seq(Queued) /\ Len(front) = Len(queue) + Len(cbs)
        /\ \A i \in 1 .. Len(queue) : front[i] = queue[i]
        /\ \A i \in 1 .. Len(cbs) : front[Len(queue) + i] = cbs[i]
    BY <1>1, <1>2
  <2> HIDE DEF front
  <2>2. queue' = front \o fibers
    BY <1>6 DEF front
  <2>3. /\ queue' \in Seq(Queued) /\ Len(queue') = Len(front) + Len(p)
        /\ \A i \in 1 .. Len(front) : queue'[i] = front[i]
        /\ \A i \in 1 .. Len(p) : queue'[Len(front) + i] = fibers[i]
    <3>1. front \in Seq(Queued) /\ fibers \in Seq(Queued)
      BY <1>5, <2>1
    <3>2. /\ front \o fibers \in Seq(Queued)
          /\ Len(front \o fibers) = Len(front) + Len(fibers)
          /\ \A i \in 1 .. Len(front) : (front \o fibers)[i] = front[i]
          /\ \A i \in 1 .. Len(fibers) : (front \o fibers)[Len(front) + i] = fibers[i]
      <4>1. \A a, b \in Seq(Queued) :
              /\ a \o b \in Seq(Queued) /\ Len(a \o b) = Len(a) + Len(b)
              /\ \A i \in 1 .. Len(a) : (a \o b)[i] = a[i]
              /\ \A i \in 1 .. Len(b) : (a \o b)[Len(a) + i] = b[i]
        BY Joined
      <4>2. QED
        BY <3>1, <4>1, Zenon
    <3>3. QED
      BY <1>5, <2>2, <3>2
  <2>4. /\ \A i \in 1 .. Len(queue) : i \in 1 .. Len(front)
        /\ \A i \in 1 .. Len(cbs) : Len(queue) + i \in 1 .. Len(front)
    BY <1>2, <2>1
  <2>5. QED
    BY <1>5, <2>1, <2>3, <2>4
<1>8. \A q \in Fd \X Event : q \in Range(p) <=> \E i \in 1 .. Len(p) : p[i] = q
  BY <1>2 DEF Range
<1>9. /\ waiter' \in [Fd \X Event -> Task \cup {None}]
      /\ \A q \in Fd \X Event :
           waiter'[q] = IF \E i \in 1 .. Len(p) : p[i] = q THEN None ELSE waiter[q]
  BY <1>1, <1>8 DEF Trigger
<1>10. /\ watched' \subseteq watched
       /\ \A f \in Fd : f \in watched' <=> f \in watched /\ \E e \in Event : waiter'[<<f, e>>] # None
  BY DEF Trigger
<1>11. QED
  BY <1>7, <1>9, <1>10 DEF Triggers

\* The order in which a finite set is gone through.
LEMMA Ordered ==
  ASSUME NEW S, IsFiniteSet(S), NEW s \in SetToSeqs(S)
  PROVE  /\ s \in Seq(S) /\ Len(s) = Cardinality(S)
         /\ \A i, j \in 1 .. Len(s) : s[i] = s[j] => i = j
         /\ \A x \in S : \E i \in 1 .. Len(s) : s[i] = x
<1> DEFINE n == Cardinality(S)
<1>1. n \in Nat
  BY FS_CardinalityType
<1>2. s \in [1 .. n -> S] /\ \A i, j \in 1 .. n : i # j => s[i] # s[j]
  BY DEF SetToSeqs
<1>3. s \in Seq(S) /\ Len(s) = n
  BY <1>1, <1>2
<1>4. ASSUME NEW x \in S, \A i \in 1 .. n : s[i] # x PROVE FALSE
  <2>1. s \in [1 .. n -> S \ {x}]
    BY <1>2, <1>4
  <2>2. IsFiniteSet(S \ {x}) /\ Cardinality(S \ {x}) = n - 1
    BY FS_RemoveElement
  <2>3. IsFiniteSet(1 .. n) /\ Cardinality(1 .. n) = n
    BY <1>1, FS_Interval
  <2>4. Cardinality(S \ {x}) < Cardinality(1 .. n)
    BY <1>1, <2>2, <2>3
  <2>5. \E i, j \in 1 .. n : i # j /\ s[i] = s[j]
    <3> DEFINE D == 1 .. n
               T == S \ {x}
    <3>1. IsFiniteSet(D) /\ IsFiniteSet(T) /\ Cardinality(T) < Cardinality(D) /\ s \in [D -> T]
      BY <2>1, <2>2, <2>3, <2>4
    <3> HIDE DEF D, T
    <3>2. \E i, j \in D : i # j /\ s[i] = s[j]
      BY <3>1, FS_PigeonHole
    <3>3. QED
      BY <3>2 DEF D
  <2>6. QED
    BY <1>2, <2>5
<1>5. QED
  BY <1>2, <1>3, <1>4

\* The tasks in the order of the first queue.
LEMMA FirstOrder ==
  LET s == SetToSeq(Task) IN
    /\ s \in [1 .. Cardinality(Task) -> Task] /\ Cardinality(Task) \in Nat
    /\ \A i, j \in 1 .. Cardinality(Task) : s[i] = s[j] => i = j
    /\ \A t \in Task : \E i \in 1 .. Cardinality(Task) : s[i] = t
<1> DEFINE n == Cardinality(Task)
           s == SetToSeq(Task)
<1>1. n \in Nat /\ ExistsBijection(1 .. n, Task)
  BY HookAssumption, FS_CardinalityType
<1>2. \E f \in [1 .. n -> Task] : IsInjective(f)
  BY <1>1 DEF ExistsBijection, Bijection, Injection
<1>3. s \in [1 .. n -> Task] /\ IsInjective(s)
  BY <1>2 DEF SetToSeq
<1>4. \A i, j \in 1 .. n : s[i] = s[j] => i = j
  BY <1>3 DEF IsInjective
<1>5. s \in SetToSeqs(Task)
  BY <1>3, <1>4 DEF SetToSeqs
<1>6. Len(s) = n
  BY <1>1, <1>3
<1>7. \A t \in Task : \E i \in 1 .. n : s[i] = t
  BY <1>5, <1>6, HookAssumption, Ordered
<1>8. QED
  BY <1>1, <1>3, <1>4, <1>7

\* The events of a descriptor for which somebody waits, READ before WRITE.
Waits(f, e) == IF waiter[<<f, e>>] # None THEN <<<<f, e>>>> ELSE <<>>
Here(f) == Waits(f, "READ") \o Waits(f, "WRITE")

\* What is in Here(f), each event once.
LEMMA HereIs ==
  ASSUME TypeInv, NEW f \in Fd
  PROVE  /\ Here(f) \in Seq(Fd \X Event)
         /\ \A i \in 1 .. Len(Here(f)) :
              Here(f)[i] \in {f} \X Event /\ waiter[Here(f)[i]] # None
         /\ \A i, j \in 1 .. Len(Here(f)) : Here(f)[i] = Here(f)[j] => i = j
         /\ \A e \in Event :
              waiter[<<f, e>>] # None => \E i \in 1 .. Len(Here(f)) : Here(f)[i] = <<f, e>>
<1>1. "READ" \in Event /\ "WRITE" \in Event /\ \A e \in Event : e = "READ" \/ e = "WRITE"
  BY DEF Event
<1>2. CASE waiter[<<f, "READ">>] # None /\ waiter[<<f, "WRITE">>] # None
  <2> DEFINE a == <<f, "READ">>
             b == <<f, "WRITE">>
  <2>1. Here(f) = <<a>> \o <<b>>
    BY <1>2 DEF Here, Waits
  <2>2. a \in {f} \X Event /\ b \in {f} \X Event /\ a # b /\ {f} \X Event \subseteq Fd \X Event
    BY <1>1
  <2>3. waiter[a] # None /\ waiter[b] # None /\ \A e \in Event : <<f, e>> = a \/ <<f, e>> = b
    BY <1>1, <1>2
  <2> HIDE DEF a, b
  <2>4. a \in Fd \X Event /\ b \in Fd \X Event
    BY <2>2
  <2>5. Here(f) \in Seq(Fd \X Event) /\ Len(Here(f)) = 2 /\ Here(f)[1] = a /\ Here(f)[2] = b
    BY <2>1, <2>4, Pair
  <2>6. \A i \in 1 .. Len(Here(f)) : i = 1 \/ i = 2
    BY <2>5
  <2>7. 1 \in 1 .. Len(Here(f)) /\ 2 \in 1 .. Len(Here(f))
    BY <2>5
  <2>8. QED
    BY <2>2, <2>3, <2>5, <2>6, <2>7
<1>3. CASE waiter[<<f, "READ">>] # None /\ waiter[<<f, "WRITE">>] = None
  <2>1. Here(f) = <<<<f, "READ">>>>
    BY <1>3 DEF Here, Waits
  <2>2. QED
    BY <1>1, <1>3, <2>1
<1>4. CASE waiter[<<f, "READ">>] = None /\ waiter[<<f, "WRITE">>] # None
  <2>1. Here(f) = <<<<f, "WRITE">>>>
    BY <1>4 DEF Here, Waits
  <2>2. QED
    BY <1>1, <1>4, <2>1
<1>5. CASE waiter[<<f, "READ">>] = None /\ waiter[<<f, "WRITE">>] = None
  <2>1. Here(f) = <<>>
    BY <1>5 DEF Here, Waits
  <2>2. QED
    BY <1>1, <1>5, <2>1
<1>6. QED
  BY <1>2, <1>3, <1>4, <1>5

---------------------------------------------------------------------------
\* Types are kept.

\* The process is one of those looked at.
LEMMA SetupParts ==
  ASSUME setup \in Setups
  PROVE  setup.fds \subseteq Fd /\ setup.ioctl \subseteq BOOLEAN
  BY HookAssumption DEF Fd

\* The first state has its types.
LEMMA TypeStart == Init => TypeInv
<1> SUFFICES ASSUME Init PROVE TypeInv
  OBVIOUS
<1>1. /\ setup \in Setups /\ job = Pick /\ pc = [t \in Task |-> "new"]
      /\ call = [t \in Task |-> NoCall] /\ cancelled = [t \in Task |-> FALSE]
      /\ timedOut = [t \in Task |-> FALSE] /\ armed = {} /\ lapsed = [t \in Task |-> FALSE]
      /\ waiter = [p \in Fd \X Event |-> None] /\ watched = {}
      /\ asked = [f \in Fd |-> FALSE] /\ failure = "none"
  BY DEF Init
<1>2. queue \in Seq(Queued)
  <2>1. queue = [i \in 1 .. Cardinality(Task) |-> Fiber(SetToSeq(Task)[i])]
    BY DEF Init
  <2>2. \A i \in 1 .. Cardinality(Task) : Fiber(SetToSeq(Task)[i]) \in Queued
    BY FirstOrder, FiberType
  <2>3. queue \in [1 .. Cardinality(Task) -> Queued] /\ Cardinality(Task) \in Nat
    BY <2>1, <2>2, FirstOrder
  <2>4. QED
    BY <2>3
<1>3. open \subseteq Fd /\ known \subseteq Fd /\ nonblock \in [Fd -> BOOLEAN]
      /\ ctx \in [Fd -> FdCtx \cup {NoCtx}]
  <2>1. PICK s \in SUBSET setup.fds, b \in BOOLEAN :
          /\ open = s /\ known = s
          /\ ctx = [f \in Fd |-> IF f \notin s THEN NoCtx
                                 ELSE [NewCtx EXCEPT !.timeout = [e \in Event |-> b]]]
          /\ nonblock = [f \in Fd |-> f \in s]
    BY DEF Init
  <2>2. open \subseteq Fd /\ known \subseteq Fd
    BY <1>1, <2>1, SetupParts
  <2>3. [NewCtx EXCEPT !.timeout = [e \in Event |-> b]] \in FdCtx
    BY DEF NewCtx, FdCtx
  <2>4. ctx \in [Fd -> FdCtx \cup {NoCtx}]
    BY <2>1, <2>3
  <2>5. nonblock \in [Fd -> BOOLEAN]
    <3>1. \A f \in Fd : (f \in s) \in BOOLEAN
      OBVIOUS
    <3>2. QED
      BY <2>1, <3>1
  <2>6. QED
    BY <2>2, <2>4, <2>5
<1>4. NoCall \in Asked
  BY DEF NoCall, Asked, Event
<1>5. Targets
  BY <1>1 DEF Targets, Started
<1>6. IsFiniteSet(armed)
  BY <1>1, FS_EmptySet
<1>7. job \in Jobs /\ pc \in [Task -> Place]
  BY <1>1 DEF Jobs, Place
<1>8. call \in [Task -> Asked] /\ cancelled \in [Task -> BOOLEAN]
      /\ timedOut \in [Task -> BOOLEAN] /\ lapsed \in [Task -> BOOLEAN]
  BY <1>1, <1>4
<1>9. waiter \in [Fd \X Event -> Task \cup {None}] /\ asked \in [Fd -> BOOLEAN]
  BY <1>1
<1>10. QED
  BY <1>1, <1>2, <1>3, <1>5, <1>6, <1>7, <1>8, <1>9 DEF TypeInv

\* A fiber that is resumed.
LEMMA Resumable ==
  ASSUME TypeInv, NEW j \in Queued, j.kind = "fiber"
  PROVE  j.task \in Task
  BY DEF Queued, Work4

\* What Take does.
LEMMA TakeParts ==
  ASSUME TypeInv, Take
  PROVE  /\ failure = "none" /\ job.kind = "pick" /\ queue # <<>>
         /\ job' = Head(queue) /\ queue' = Tail(queue)
         /\ Head(queue).kind = "fiber" /\ pc[Head(queue).task] \in {"new", "wait"} =>
              /\ failure' = failure
              /\ pc' = [pc EXCEPT ![Head(queue).task] = IF @ = "new" THEN "program" ELSE "woken"]
         /\ Head(queue).kind # "fiber" => failure' = failure /\ pc' = pc
         /\ Head(queue).kind = "fiber" /\ pc[Head(queue).task] \notin {"new", "wait"} =>
              failure' = "assert" /\ pc' = pc
         /\ UNCHANGED <<setup, call, cancelled, timedOut, timerVars, eventVars, ctx,
                        kernelVars, userVars>>
  BY DEF Take, Doing, Work

\* Taking an entry keeps the types.
LEMMA TypeTake ==
  ASSUME TypeInv, Take
  PROVE  TypeInv'
<1> DEFINE j == Head(queue)
<1>1. j \in Queued /\ queue' \in Seq(Queued)
  BY Taken, TakeParts
<1>2. UNCHANGED <<setup, call, cancelled, timedOut, armed, lapsed, waiter, watched, ctx,
                  open, nonblock, known, asked>>
  BY TakeParts DEF timerVars, eventVars, kernelVars, userVars
<1>3. job' \in Jobs
  <2>1. j \in Jobs
    BY <1>1 DEF Queued, Jobs, Work4
  <2>2. QED
    BY <2>1, TakeParts DEF TypeInv
<1>4. failure' \in {"none", "throw", "assert"}
  BY TakeParts DEF TypeInv
<1>5. pc' \in [Task -> Place] /\ Targets'
  <2>1. CASE j.kind = "fiber" /\ pc[j.task] \in {"new", "wait"}
    <3>1. j.task \in Task
      BY <1>1, <2>1, Resumable
    <3>2. PICK r \in Task : r = j.task
      BY <3>1
    <3>3. pc' = [pc EXCEPT ![r] = IF @ = "new" THEN "program" ELSE "woken"]
          /\ pc[r] \in {"new", "wait"}
      BY <2>1, <3>2, TakeParts
    <3>4. /\ pc' \in [Task -> Place]
          /\ pc'[r] = IF pc[r] = "new" THEN "program" ELSE "woken"
          /\ \A u \in Task \ {r} : pc'[u] = pc[u]
      BY <3>3 DEF TypeInv, Place, IoPC
    <3>5. Targets'
      BY <1>2, <3>3, <3>4 DEF TypeInv, Targets, Started
    <3>6. QED
      BY <3>4, <3>5
  <2>2. CASE pc' = pc
    BY <1>2, <2>2 DEF TypeInv, Targets
  <2>3. QED
    BY <2>1, <2>2, TakeParts
<1>6. QED
  BY <1>1, <1>2, <1>3, <1>4, <1>5 DEF TypeInv

\* The events that idle may find are finitely many.
LEMMA EventsFinite ==
  /\ IsFiniteSet(Fd \X Event)
  /\ IsFiniteSet(Watched) /\ \A es \in SUBSET Watched : IsFiniteSet(es)
<1>1. IsFiniteSet(Event)
  <2>1. IsFiniteSet({"READ"})
    BY FS_Singleton
  <2>2. Event = {"READ"} \cup {"WRITE"}
    BY DEF Event
  <2>3. QED
    BY <2>1, <2>2, FS_AddElement
<1>2. IsFiniteSet(Fd \X Event)
  BY <1>1, HookAssumption, FS_Product
<1>3. Watched \in SUBSET (Fd \X Event)
  BY DEF Watched
<1>4. QED
  BY <1>2, <1>3, FS_Subset

\* The order in which idle goes through the timers and the events.
IdleOrder(x, es, cbs, p) ==
  /\ cbs \in Seq(x) /\ Trigger(cbs, p)
  /\ \A i \in 1 .. Len(p) : p[i] \in es /\ waiter[p[i]] # None
  /\ \A i, j \in 1 .. Len(cbs) : cbs[i] = cbs[j] => i = j
  /\ \A y \in x : \E i \in 1 .. Len(cbs) : cbs[i] = y
  /\ \A i, j \in 1 .. Len(p) : p[i] = p[j] => i = j

\* A round of idle has such an order and triggers in it.
LEMMA IdleParts ==
  ASSUME TypeInv, NEW x \in SUBSET armed, NEW es \in SUBSET Watched,
         IdlePass(x, es)
  PROVE  \E cbs \in Seq(Queued), p \in Seq(Fd \X Event) :
           IdleOrder(x, es, cbs, p) /\ Triggers(cbs, p)
<1>1. PICK cbs \in SetToSeqs(x), p \in SetToSeqs(es) : Trigger(cbs, p)
  BY DEF IdlePass
<1>2. IsFiniteSet(x) /\ IsFiniteSet(es)
  BY EventsFinite, FS_Subset DEF TypeInv
<1>3. /\ cbs \in Seq(x) /\ \A i, j \in 1 .. Len(cbs) : cbs[i] = cbs[j] => i = j
      /\ \A y \in x : \E i \in 1 .. Len(cbs) : cbs[i] = y
  BY <1>2, Ordered
<1>4. p \in Seq(es) /\ \A i, j \in 1 .. Len(p) : p[i] = p[j] => i = j
  BY <1>2, Ordered
<1>5. x \subseteq Queued
  BY DEF TypeInv, Timers, Queued, Work4
<1>6. cbs \in Seq(Queued)
  BY <1>3, <1>5
<1>7. p \in Seq(Fd \X Event) /\ \A i \in 1 .. Len(p) : p[i] \in es /\ waiter[p[i]] # None
  <2>1. \A q \in es : q \in Fd \X Event /\ waiter[q] # None
    BY DEF Watched
  <2>2. QED
    BY <1>4, <2>1
<1>8. IdleOrder(x, es, cbs, p)
  BY <1>1, <1>3, <1>4, <1>7 DEF IdleOrder
<1>9. Triggers(cbs, p)
  BY <1>1, <1>6, <1>7, Triggered
<1>10. QED
  BY <1>6, <1>7, <1>8, <1>9

\* Which timers are left and which calls they were for.
LEMMA ExpiredParts ==
  ASSUME TypeInv, NEW x \in SUBSET armed, Expired(x)
  PROVE  /\ armed' = armed \ x /\ armed' \subseteq Timers /\ IsFiniteSet(armed')
         /\ lapsed' \in [Task -> BOOLEAN]
         /\ \A t \in Task :
              lapsed'[t] <=> lapsed[t] \/ \E y \in x : y.task = t /\ y.n = call[t].n
<1>1. armed' = armed \ x /\ armed' \subseteq armed
  BY DEF Expired
<1>2. IsFiniteSet(armed')
  BY <1>1, FS_Subset DEF TypeInv
<1>3. lapsed' = [t \in Task |-> lapsed[t] \/ \E y \in x : y.task = t /\ y.n = call[t].n]
  BY DEF Expired
<1>4. \A t \in Task : (lapsed[t] \/ \E y \in x : y.task = t /\ y.n = call[t].n) \in BOOLEAN
  OBVIOUS
<1>5. QED
  BY <1>1, <1>2, <1>3, <1>4 DEF TypeInv

\* A round of idle keeps the types.
LEMMA TypeIdlePass ==
  ASSUME TypeInv, NEW x \in SUBSET armed, NEW es \in SUBSET Watched,
         IdlePass(x, es)
  PROVE  TypeInv'
<1>1. UNCHANGED <<setup, pc, call, cancelled, timedOut, ctx, open, nonblock, known, asked,
                  failure>>
  BY DEF IdlePass, taskVars, kernelVars, userVars
<1>2. /\ queue' \in Seq(Queued) /\ waiter' \in [Fd \X Event -> Task \cup {None}]
      /\ watched' \subseteq watched
  <2>1. PICK cbs \in Seq(Queued), p \in Seq(Fd \X Event) : Triggers(cbs, p)
    BY IdleParts
  <2>2. QED
    BY <2>1 DEF Triggers
<1>3. armed' \subseteq Timers /\ IsFiniteSet(armed') /\ lapsed' \in [Task -> BOOLEAN]
  BY ExpiredParts DEF IdlePass
<1>4. job' \in Jobs
  BY Worked DEF IdlePass, Jobs
<1>5. Targets'
  BY <1>1 DEF TypeInv, Targets
<1>6. QED
  BY <1>1, <1>2, <1>3, <1>4, <1>5 DEF TypeInv

\* A callback that goes on is that of a task, and its event has a descriptor.
LEMMA JobType ==
  ASSUME TypeInv
  PROVE  /\ job.kind \in {"fiber", "timeout", "cancel", "wake", "pick", "epoll"}
         /\ job.kind = "pick" <=> job = Pick
         /\ job.kind = "epoll" <=> job = Epoll
         /\ job.kind \in {"fiber", "timeout", "cancel", "wake"} =>
              job.task \in Task /\ job.n \in Nat
         /\ job.kind \in {"timeout", "cancel"} =>
              job.fd \in Fd /\ job.ev \in Event
  BY DEF TypeInv, Jobs, Work4, Pick, Epoll, Entry

\* The first half of a timeout keeps the types.
LEMMA TypeTimeout ==
  ASSUME TypeInv, Timeout
  PROVE  TypeInv'
<1>1. UNCHANGED <<setup, queue, pc, call, timedOut, armed, lapsed, waiter, watched, ctx,
                  open, nonblock, known, asked, failure>>
  BY DEF Timeout, timerVars, eventVars, kernelVars, userVars
<1>2. job.kind = "timeout" /\ job \in Work4({"timeout"}) /\ job.task \in Task
  BY DEF Timeout, Doing, TypeInv, Jobs, Work4, Pick, Epoll, Entry
<1>3. [job EXCEPT !.kind = "cancel"] \in Jobs /\ Pick \in Jobs
  BY <1>2 DEF Jobs, Work4
<1>4. job' \in Jobs /\ cancelled' \in [Task -> BOOLEAN]
  BY <1>2, <1>3 DEF TypeInv, Timeout, Work
<1>5. Targets'
  BY <1>1 DEF TypeInv, Targets
<1>6. QED
  BY <1>1, <1>4, <1>5 DEF TypeInv

\* The event of a cancelEvent.
LEMMA CancelParts ==
  ASSUME TypeInv, CancelEvent
  PROVE  /\ <<job.fd, job.ev>> \in Fd \X Event
         /\ waiter[<<job.fd, job.ev>>] # None =>
              /\ Trigger(<<>>, <<<<job.fd, job.ev>>>>)
              /\ failure' = IF job.fd \in watched THEN failure ELSE "assert"
         /\ waiter[<<job.fd, job.ev>>] = None =>
              UNCHANGED <<queue, waiter, watched, failure>>
         /\ job' = Pick
         /\ UNCHANGED <<setup, pc, call, cancelled, timedOut, armed, lapsed, ctx, open,
                        nonblock, known, asked>>
<1>1. <<job.fd, job.ev>> \in Fd \X Event
  BY JobType DEF CancelEvent, Doing
<1>2. QED
  BY <1>1 DEF CancelEvent, eventVars, Work, taskVars, timerVars, kernelVars, userVars

\* Triggering one event.
LEMMA OneTriggered ==
  ASSUME TypeInv, NEW q \in Fd \X Event, waiter[q] # None, Trigger(<<>>, <<q>>)
  PROVE  /\ queue' \in Seq(Queued)
         /\ waiter' \in [Fd \X Event -> Task \cup {None}] /\ watched' \subseteq watched
         /\ waiter[q] \in Task
         /\ \A r \in Fd \X Event : waiter'[r] = IF r = q THEN None ELSE waiter[r]
         /\ \A f \in Fd : f \in watched' <=> f \in watched /\ \E e \in Event : waiter'[<<f, e>>] # None
         /\ Len(queue') = Len(queue) + 1
         /\ \A i \in 1 .. Len(queue) : queue'[i] = queue[i]
         /\ queue'[Len(queue) + 1] = Fiber(waiter[q])
<1> DEFINE p == <<q>>
           none == <<>>
<1>1. p \in Seq(Fd \X Event) /\ Len(p) = 1 /\ p[1] = q
  OBVIOUS
<1>2. none \in Seq(Queued) /\ Len(none) = 0
  OBVIOUS
<1>3. Trigger(none, p) /\ \A i \in 1 .. Len(p) : waiter[p[i]] # None
  BY <1>1
<1> HIDE DEF p, none
<1>4. Triggers(none, p)
  BY <1>1, <1>2, <1>3, Triggered
<1>5. \A r \in Fd \X Event : (\E i \in 1 .. Len(p) : p[i] = r) <=> r = q
  BY <1>1
<1>6. Len(queue) \in Nat /\ waiter[q] \in Task
  BY DEF TypeInv
<1>7. Len(queue') = Len(queue) + 1 /\ queue'[Len(queue) + 1] = Fiber(waiter[q])
  <2>1. 1 \in 1 .. Len(p) /\ Len(queue) + Len(none) + 1 = Len(queue) + 1
    BY <1>1, <1>2, <1>6
  <2>2. QED
    BY <1>1, <1>2, <1>4, <1>6, <2>1 DEF Triggers
<1>8. /\ queue' \in Seq(Queued)
      /\ waiter' \in [Fd \X Event -> Task \cup {None}] /\ watched' \subseteq watched
      /\ \A f \in Fd : f \in watched' <=> f \in watched /\ \E e \in Event : waiter'[<<f, e>>] # None
      /\ \A i \in 1 .. Len(queue) : queue'[i] = queue[i]
  BY <1>4 DEF Triggers
<1>9. \A r \in Fd \X Event : waiter'[r] = IF r = q THEN None ELSE waiter[r]
  BY <1>4, <1>5 DEF Triggers
<1>10. QED
  BY <1>6, <1>7, <1>8, <1>9

\* The second half keeps them.
LEMMA TypeCancelEvent ==
  ASSUME TypeInv, CancelEvent
  PROVE  TypeInv'
<1>1. /\ queue' \in Seq(Queued) /\ waiter' \in [Fd \X Event -> Task \cup {None}]
      /\ watched' \subseteq watched
  BY CancelParts, OneTriggered DEF TypeInv
<1>2. failure' \in {"none", "throw", "assert"} /\ job' \in Jobs
  BY CancelParts DEF TypeInv, Jobs
<1>3. UNCHANGED <<setup, pc, call, cancelled, timedOut, armed, lapsed, ctx, open, nonblock,
                  known, asked>>
  BY CancelParts
<1>4. Targets'
  BY <1>3 DEF TypeInv, Targets
<1>5. QED
  BY <1>1, <1>2, <1>3, <1>4 DEF TypeInv

\* One entry more.
LEMMA Added ==
  ASSUME TypeInv, NEW x \in Queued, queue' = Append(queue, x)
  PROVE  /\ queue' \in Seq(Queued) /\ Len(queue') = Len(queue) + 1 /\ Len(queue) \in Nat
         /\ \A i \in 1 .. Len(queue) : queue'[i] = queue[i]
         /\ queue'[Len(queue) + 1] = x
<1>1. queue \in Seq(Queued)
  BY DEF TypeInv
<1>2. QED
  BY <1>1

\* The callback of a sleep keeps the types.
LEMMA TypeWake ==
  ASSUME TypeInv, Wake
  PROVE  TypeInv'
<1>1. UNCHANGED <<setup, pc, call, cancelled, timedOut, armed, lapsed, waiter, watched, ctx,
                  open, nonblock, known, asked, failure>>
  BY DEF Wake, taskVars, timerVars, eventVars, kernelVars, userVars
<1>2. job.task \in Task
  BY JobType DEF Wake, Doing
<1>3. queue' \in Seq(Queued) /\ job' \in Jobs
  BY <1>2, FiberType, Added, Worked DEF Wake, Jobs
<1>4. Targets'
  BY <1>1 DEF TypeInv, Targets
<1>5. QED
  BY <1>1, <1>3, <1>4 DEF TypeInv

\* The part of the types that is about tasks; a call that begins keeps it.
TasksTyped ==
  /\ call \in [Task -> Asked] /\ pc \in [Task -> Place]
  /\ cancelled \in [Task -> BOOLEAN] /\ timedOut \in [Task -> BOOLEAN]
  /\ lapsed \in [Task -> BOOLEAN] /\ Targets

\* The places at which a call starts.
StartsAt(c, where) ==
  \/ where \in {"plain", "try", "create", "del", "closef"} /\ c.fd \in Fd
  \/ where = "yield" /\ c.op = "sleep"
  \/ where = "program"

\* A call that begins keeps the types of the tasks.
LEMMA TypeBegin ==
  ASSUME TypeInv, NEW t \in Task, NEW c \in Asked, NEW where \in Place, Begin(t, c, where),
         StartsAt(c, where)
  PROVE  TasksTyped'
<1>1. /\ call' \in [Task -> Asked] /\ pc' \in [Task -> Place]
      /\ cancelled' \in [Task -> BOOLEAN] /\ timedOut' \in [Task -> BOOLEAN]
      /\ lapsed' \in [Task -> BOOLEAN] /\ pc'[t] = where /\ call'[t] = c
      /\ \A u \in Task \ {t} : pc'[u] = pc[u] /\ call'[u] = call[u]
  BY Begun
<1>2. Targets'
  BY <1>1 DEF TypeInv, Targets, Started, StartsAt
<1>3. QED
  BY <1>1, <1>2 DEF TasksTyped

\* What read, write and accept begin with.
IoBegins(t, f, e, c, where) ==
  /\ Begin(t, c, where) /\ c.n = call[t].n + 1 /\ c.fd = f /\ c.ev = e /\ c.op # "sleep"
  /\ where = "try" => ctx[f] # NoCtx

\* do_io begins one of its calls, plain or not.
LEMMA IoStarts ==
  ASSUME TypeInv, NEW t \in Task, NEW f \in Fd, NEW e \in Event, CallIo(t, f, e)
  PROVE  \E c \in Asked, where \in {"plain", "try"} : IoBegins(t, f, e, c, where)
<1>1. PICK op \in Ops(e) :
        IF ctx[f] = NoCtx \/ ctx[f].user
        THEN Begin(t, NextCall(t, op, f, e, FALSE), "plain")
        ELSE Begin(t, NextCall(t, op, f, e, ctx[f].timeout[e]), "try")
  BY DEF CallIo
<1>2. op \in {"io", "accept"}
  BY DEF Ops
<1>3. CASE ctx[f] = NoCtx \/ ctx[f].user
  <2> DEFINE c == NextCall(t, op, f, e, FALSE)
  <2>1. c \in Asked /\ c.fd = f /\ c.ev = e /\ c.n = call[t].n + 1 /\ c.op # "sleep"
    BY <1>2 DEF NextCall, TypeInv, Asked
  <2>2. Begin(t, c, "plain")
    BY <1>1, <1>3
  <2> HIDE DEF c
  <2>3. QED
    BY <2>1, <2>2 DEF IoBegins
<1>4. CASE ~(ctx[f] = NoCtx \/ ctx[f].user)
  <2>1. ctx[f].timeout[e] \in BOOLEAN
    BY <1>4 DEF TypeInv, FdCtx
  <2> DEFINE c == NextCall(t, op, f, e, ctx[f].timeout[e])
  <2>2. c \in Asked /\ c.fd = f /\ c.ev = e /\ c.n = call[t].n + 1 /\ c.op # "sleep"
    BY <1>2, <2>1 DEF NextCall, TypeInv, Asked
  <2>3. Begin(t, c, "try")
    BY <1>1, <1>4
  <2> HIDE DEF c
  <2>4. QED
    BY <1>4, <2>2, <2>3 DEF IoBegins
<1>5. QED
  BY <1>3, <1>4

\* What cancelAll does: the fibers that wait for f are queued.
CancelsAll(f) ==
  /\ queue' \in Seq(Queued)
  /\ waiter' \in [Fd \X Event -> Task \cup {None}] /\ watched' \subseteq watched
  /\ \A q \in Fd \X Event : waiter'[q] = IF q[1] = f THEN None ELSE waiter[q]
  /\ \A g \in watched : (\E e \in Event : waiter'[<<g, e>>] # None) => g \in watched'
  /\ \A g \in watched' : waiter' = waiter \/ \E e \in Event : waiter'[<<g, e>>] # None
  /\ Len(queue') = Len(queue) + Len(Here(f))
  /\ \A i \in 1 .. Len(queue) : queue'[i] = queue[i]
  /\ \A i \in 1 .. Len(Here(f)) : queue'[Len(queue) + i] = Fiber(waiter[Here(f)[i]])
  /\ failure' \in {failure, "assert"}

\* CancelAll does what CancelsAll says.
LEMMA CancelledAll ==
  ASSUME TypeInv, NEW f \in Fd, CancelAll(f)
  PROVE  CancelsAll(f)
<1>1. CASE Here(f) = <<>>
  <2>1. UNCHANGED <<queue, waiter, watched, failure>>
    BY <1>1 DEF CancelAll, Here, Waits, eventVars
  <2>2. \A e \in Event : waiter[<<f, e>>] = None
    <3>1. Len(Here(f)) = 0
      BY <1>1
    <3>2. QED
      BY <3>1, HereIs
  <2>3. \A q \in Fd \X Event : q[1] = f => waiter[q] = None
    BY <2>2
  <2>4. Len(queue) \in Nat /\ Len(Here(f)) = 0
    BY <1>1 DEF TypeInv
  <2>5. QED
    BY <2>1, <2>3, <2>4 DEF TypeInv, CancelsAll
<1>2. CASE Here(f) # <<>>
  <2> DEFINE p == Here(f)
             none == <<>>
  <2>1. Trigger(none, p) /\ failure' = IF f \in watched THEN failure ELSE "assert"
    BY <1>2 DEF CancelAll, Here, Waits
  <2>2. p \in Seq(Fd \X Event) /\ \A i \in 1 .. Len(p) : waiter[p[i]] # None
    BY HereIs
  <2>3. none \in Seq(Queued) /\ Len(none) = 0 /\ Len(queue) \in Nat /\ Len(p) \in Nat
    BY <2>2 DEF TypeInv
  <2> HIDE DEF p, none
  <2>4. Triggers(none, p)
    BY <2>1, <2>2, <2>3, Triggered
  <2>5. \A q \in Fd \X Event :
          waiter[q] # None => ((\E i \in 1 .. Len(p) : p[i] = q) <=> q[1] = f)
    <3>1. \A i \in 1 .. Len(p) : p[i] \in {f} \X Event
      BY HereIs DEF p
    <3>2. \A e \in Event : waiter[<<f, e>>] # None => \E i \in 1 .. Len(p) : p[i] = <<f, e>>
      BY HereIs DEF p
    <3>3. QED
      BY <3>1, <3>2
  <2>6. \A q \in Fd \X Event : waiter'[q] = IF q[1] = f THEN None ELSE waiter[q]
    BY <2>4, <2>5 DEF Triggers
  <2>7. /\ Len(queue') = Len(queue) + Len(p)
        /\ \A i \in 1 .. Len(p) : queue'[Len(queue) + i] = Fiber(waiter[p[i]])
    BY <2>3, <2>4 DEF Triggers
  <2>8. /\ queue' \in Seq(Queued)
        /\ waiter' \in [Fd \X Event -> Task \cup {None}] /\ watched' \subseteq watched
        /\ \A g \in watched : (\E e \in Event : waiter'[<<g, e>>] # None) => g \in watched'
        /\ \A g \in watched' : \E e \in Event : waiter'[<<g, e>>] # None
        /\ \A i \in 1 .. Len(queue) : queue'[i] = queue[i]
    BY <2>4 DEF Triggers, TypeInv
  <2>9. QED
    BY <2>1, <2>6, <2>7, <2>8 DEF CancelsAll, p
<1>3. QED
  BY <1>1, <1>2

\* The calls of the program keep the types.
LEMMA TypeProgram ==
  ASSUME TypeInv, NEW t \in Task, Program(t)
  PROVE  TypeInv'
<1>1. ASSUME NEW f \in Fd, CallSocket(t, f) PROVE TypeInv'
  <2> DEFINE c == NextCall(t, "socket", f, "READ", FALSE)
  <2>1. c \in Asked /\ c.fd = f
    BY DEF NextCall, TypeInv, Asked, Event
  <2>2. Begin(t, c, "create") /\ "create" \in Place
    BY <1>1 DEF CallSocket, Place
  <2> HIDE DEF c
  <2>3. TasksTyped'
    <3>1. StartsAt(c, "create")
      BY <2>1, <2>2 DEF StartsAt
    <3>2. QED
      BY <2>1, <2>2, <3>1, TypeBegin
  <2>4. QED
    BY <1>1, <2>3 DEF TasksTyped, TypeInv, CallSocket, eventVars
<1>2. ASSUME NEW f \in Fd, CallClose(t, f) PROVE TypeInv'
  <2> DEFINE c == NextCall(t, "close", f, "READ", FALSE)
  <2>1. c \in Asked /\ c.fd = f
    BY DEF NextCall, TypeInv, Asked, Event
  <2>2. PICK where \in {"del", "closef"} : Begin(t, c, where) /\ where \in Place
    BY <1>2 DEF CallClose, Place
  <2> HIDE DEF c
  <2>3. TasksTyped'
    <3>1. StartsAt(c, where)
      BY <2>1, <2>2 DEF StartsAt
    <3>2. QED
      BY <2>1, <2>2, <3>1, TypeBegin
  <2>4. /\ queue' \in Seq(Queued) /\ failure' \in {"none", "throw", "assert"}
        /\ waiter' \in [Fd \X Event -> Task \cup {None}] /\ watched' \subseteq watched
    <3>1. CASE ctx[f] = NoCtx
      BY <1>2, <3>1 DEF TasksTyped, TypeInv, CallClose, eventVars
    <3>2. CASE ctx[f] # NoCtx
      <4>1. CancelsAll(f)
        BY <1>2, <3>2, CancelledAll DEF CallClose
      <4>2. QED
        BY <4>1 DEF CancelsAll, TypeInv
    <3>3. QED
      BY <3>1, <3>2
  <2>5. QED
    BY <1>2, <2>3, <2>4 DEF TasksTyped, TypeInv, CallClose, kernelVars
<1>3. ASSUME NEW f \in Fd, NEW e \in Event, CallIo(t, f, e) PROVE TypeInv'
  <2>1. PICK c \in Asked, where \in {"plain", "try"} : IoBegins(t, f, e, c, where)
    BY <1>3, IoStarts
  <2>2. Begin(t, c, where) /\ c.fd = f /\ where \in Place
    BY <2>1 DEF IoBegins, Place, IoPC
  <2>3. TasksTyped'
    <3>1. StartsAt(c, where)
      BY <2>2 DEF StartsAt
    <3>2. QED
      BY <2>2, <3>1, TypeBegin
  <2>4. QED
    BY <1>3, <2>3 DEF TasksTyped, TypeInv, CallIo, eventVars, kernelVars, userVars
<1>4. NextCall(t, "none", None, "READ", FALSE) \in Asked
  BY DEF NextCall, TypeInv, Asked, Event
<1>5. Begin(t, NextCall(t, "none", None, "READ", FALSE), "program") => TasksTyped'
  <2> DEFINE c == NextCall(t, "none", None, "READ", FALSE)
  <2>1. c \in Asked /\ "program" \in Place
    BY <1>4 DEF Place
  <2> HIDE DEF c
  <2>2. Begin(t, c, "program") => TasksTyped'
    <3>1. StartsAt(c, "program")
      BY DEF StartsAt
    <3>2. QED
      BY <2>1, <3>1, TypeBegin
  <2>3. QED
    BY <2>2 DEF c
<1>6. ASSUME NEW f \in Fd, NEW e \in Event, CallTimeout(t, f, e) PROVE TypeInv'
  <2>1. ctx' \in [Fd -> FdCtx \cup {NoCtx}]
    <3>1. ctx[f] # NoCtx => [ctx[f] EXCEPT !.timeout[e] = TRUE] \in FdCtx
      BY DEF TypeInv, FdCtx
    <3>2. QED
      BY <1>6, <3>1 DEF TasksTyped, TypeInv, CallTimeout
  <2>2. QED
    BY <1>5, <1>6, <2>1 DEF TasksTyped, TypeInv, CallTimeout, eventVars, kernelVars, userVars
<1>7. ASSUME NEW f \in Fd, NEW b \in BOOLEAN PROVE ctx[f] # NoCtx => [ctx[f] EXCEPT !.user = b] \in FdCtx
  BY DEF TypeInv, FdCtx
<1>8. ASSUME NEW f \in Fd, NEW b \in BOOLEAN, CallSetFl(t, f, b) PROVE TypeInv'
  <2>1. /\ ctx' \in [Fd -> FdCtx \cup {NoCtx}] /\ nonblock' \in [Fd -> BOOLEAN]
        /\ asked' \in [Fd -> BOOLEAN]
    BY <1>7, <1>8 DEF TasksTyped, TypeInv, CallSetFl
  <2>2. QED
    BY <1>5, <1>8, <2>1 DEF TasksTyped, TypeInv, CallSetFl, eventVars
<1>9. ASSUME NEW f \in Fd, NEW b \in BOOLEAN, CallIoctl(t, f, b) PROVE TypeInv'
  <2>1. /\ ctx' \in [Fd -> FdCtx \cup {NoCtx}] /\ nonblock' \in [Fd -> BOOLEAN]
        /\ asked' \in [Fd -> BOOLEAN]
    BY <1>7, <1>9 DEF TasksTyped, TypeInv, CallIoctl
  <2>2. QED
    BY <1>5, <1>9, <2>1 DEF TasksTyped, TypeInv, CallIoctl, eventVars
<1>10. ASSUME CallSleep(t) PROVE TypeInv'
  <2> DEFINE c == NextCall(t, "sleep", None, "READ", TRUE)
  <2>1. c \in Asked /\ c.op = "sleep"
    BY DEF NextCall, TypeInv, Asked, Event
  <2>2. /\ Begin(t, c, "yield") /\ "yield" \in Place
        /\ armed' = armed \cup {Entry("wake", t, c)}
    BY <1>10 DEF CallSleep, Place, IoPC
  <2> HIDE DEF c
  <2>3. TasksTyped'
    <3>1. StartsAt(c, "yield")
      BY <2>1, <2>2 DEF StartsAt
    <3>2. QED
      BY <2>1, <2>2, <3>1, TypeBegin
  <2>4. armed' \subseteq Timers /\ IsFiniteSet(armed')
    <3>1. Entry("wake", t, c) \in Timers
      BY <2>1, EntryType
    <3>2. QED
      BY <2>2, <3>1, FS_AddElement DEF TypeInv
  <2>5. QED
    BY <1>10, <2>3, <2>4 DEF TasksTyped, TypeInv, CallSleep, eventVars, kernelVars, userVars
<1>11. ASSUME Finish(t) PROVE TypeInv'
  <2>1. UNCHANGED <<setup, queue, call, cancelled, timedOut, armed, lapsed, waiter, watched,
                    ctx, open, nonblock, known, asked, failure>>
    BY <1>11 DEF Finish, timerVars, eventVars, kernelVars, userVars
  <2>2. job' \in Jobs
    BY <1>11 DEF Finish, Work, Jobs
  <2>3. pc' \in [Task -> Place] /\ pc'[t] = "done" /\ \A u \in Task \ {t} : pc'[u] = pc[u]
    BY <1>11, Moved DEF Finish, Place
  <2>4. Targets'
    BY <2>1, <2>3 DEF TypeInv, Targets, Started
  <2>5. QED
    BY <2>1, <2>2, <2>3, <2>4 DEF TypeInv
<1>12. QED
  <2>1. \A b \in setup.ioctl : b \in BOOLEAN
    BY SetupParts DEF TypeInv
  <2>2. QED
    BY <1>1, <1>2, <1>3, <1>6, <1>8, <1>9, <1>10, <1>11, <2>1 DEF Program

\* A descriptor that accept returns.
Accepts(t, g) ==
  /\ g \in setup.fds \ open /\ call[t].op = "accept"
  /\ open' = open \cup {g}
  /\ nonblock' = [nonblock EXCEPT ![g] = FALSE]
  /\ asked' = [asked EXCEPT ![g] = FALSE]
  /\ call' = [call EXCEPT ![t].fd = g]
  /\ pc' = [pc EXCEPT ![t] = "create"]
  /\ UNCHANGED <<cancelled, timedOut>>

\* A system call that returns, one that accepts a descriptor, and one that
\* leads on.
Answered(t) == Return(t, "none") /\ UNCHANGED <<open, nonblock, asked>>
LeadsOn(t, where) ==
  /\ Goto(t, where) /\ UNCHANGED <<call, cancelled, timedOut, open, nonblock, asked>>
  /\ call[t].fd \in open
  /\ where = "blocked" => ~nonblock[call[t].fd]
  /\ where \in {"arm", "add"} => pc[t] = "try"

\* The two ways in which a system call succeeds.
LEMMA ServedParts ==
  ASSUME TypeInv, NEW t \in Task, Served(t)
  PROVE  Answered(t) \/ \E g \in Fd : Accepts(t, g)
<1>1. \A g \in setup.fds \ open : g \in Fd
  BY SetupParts DEF TypeInv
<1>2. CASE call[t].op = "accept" /\ open # setup.fds
  BY <1>1, <1>2 DEF Served, Accepts, Goto
<1>3. CASE ~(call[t].op = "accept" /\ open # setup.fds)
  BY <1>3 DEF Served, Answered
<1>4. QED
  BY <1>2, <1>3

\* The ways in which a system call ends.
LEMMA SystemCallParts ==
  ASSUME TypeInv, NEW t \in Task, SystemCall(t)
  PROVE  /\ failure = "none" /\ pc[t] \in {"plain", "try"}
         /\ \/ Answered(t)
            \/ \E g \in Fd : Accepts(t, g)
            \/ \E where \in {"blocked", "arm", "add"} : LeadsOn(t, where)
         /\ UNCHANGED <<setup, queue, job, armed, lapsed, waiter, watched, ctx, known, failure>>
<1>1. failure = "none" /\ pc[t] \in {"plain", "try"}
      /\ UNCHANGED <<setup, queue, job, armed, lapsed, waiter, watched, ctx, known, failure>>
  BY DEF SystemCall, At, timerVars, eventVars
<1>2. CASE call[t].fd \in open /\ Served(t)
  BY <1>1, <1>2, ServedParts
<1>3. CASE /\ IF NotReady(t) = "program"
              THEN Return(t, "none")
              ELSE Goto(t, NotReady(t)) /\ UNCHANGED <<call, cancelled, timedOut>>
           /\ UNCHANGED <<open, nonblock, asked>>
  <2>1. CASE NotReady(t) = "program"
    BY <1>1, <1>3, <2>1 DEF Answered
  <2>2. CASE NotReady(t) # "program"
    <3>1. call[t].fd \in open
      BY <2>2 DEF NotReady
    <3>2. CASE ~nonblock[call[t].fd]
      <4>1. NotReady(t) = "blocked"
        BY <3>1, <3>2 DEF NotReady
      <4>2. LeadsOn(t, "blocked")
        BY <1>3, <2>2, <3>1, <3>2, <4>1 DEF LeadsOn
      <4>3. QED
        BY <1>1, <4>2
    <3>3. CASE nonblock[call[t].fd]
      <4>1. NotReady(t) = IF pc[t] = "plain" THEN "program"
                          ELSE IF call[t].to THEN "arm" ELSE "add"
        BY <3>1, <3>3 DEF NotReady
      <4>2. pc[t] = "try" /\ NotReady(t) \in {"arm", "add"}
        BY <1>1, <2>2, <4>1
      <4>3. LeadsOn(t, NotReady(t))
        BY <1>3, <2>2, <3>1, <4>2 DEF LeadsOn
      <4>4. QED
        BY <1>1, <4>2, <4>3
    <3>4. QED
      BY <3>2, <3>3
  <2>3. QED
    BY <2>1, <2>2
<1>4. QED
  BY <1>2, <1>3 DEF SystemCall

\* The three ways in which a resumed fiber goes on.
SleepOver(t) == call[t].op = "sleep" /\ Return(t, "none")
TimedOut(t) == call[t].op # "sleep" /\ cancelled[t] /\ Return(t, "ETIMEDOUT")
Retries(t) ==
  /\ call[t].op # "sleep" /\ ~cancelled[t]
  /\ Goto(t, "try") /\ UNCHANGED <<call, cancelled, timedOut>>

\* What Resume does.
LEMMA ResumeParts ==
  ASSUME TypeInv, NEW t \in Task, Resume(t)
  PROVE  /\ failure = "none" /\ pc[t] = "woken"
         /\ armed' = {x \in armed : x.task # t} /\ IsFiniteSet(armed')
         /\ SleepOver(t) \/ TimedOut(t) \/ Retries(t)
         /\ UNCHANGED <<setup, queue, job, lapsed, waiter, watched, ctx, open, nonblock, known,
                        asked, failure>>
<1>1. failure = "none" /\ pc[t] = "woken" /\ armed' = {x \in armed : x.task # t}
      /\ UNCHANGED <<setup, queue, job, lapsed, waiter, watched, ctx, open, nonblock, known,
                     asked, failure>>
  BY DEF Resume, At, CancelTimer, eventVars, kernelVars, userVars
<1>2. IsFiniteSet(armed')
  <2>1. armed' \subseteq armed
    BY <1>1
  <2>2. QED
    BY <2>1, FS_Subset DEF TypeInv
<1>3. SleepOver(t) \/ TimedOut(t) \/ Retries(t)
  <2>1. CASE call[t].op = "sleep"
    BY <2>1 DEF Resume, SleepOver
  <2>2. CASE call[t].op # "sleep" /\ cancelled[t]
    BY <2>2 DEF Resume, TimedOut
  <2>3. CASE call[t].op # "sleep" /\ ~cancelled[t]
    BY <2>3 DEF Resume, Retries
  <2>4. QED
    BY <2>1, <2>2, <2>3
<1>4. QED
  BY <1>1, <1>2, <1>3

\* The types of the tasks when one of them goes on.
LEMMA TypeReturn ==
  ASSUME TypeInv, NEW t \in Task, NEW errno, Return(t, errno), UNCHANGED lapsed
  PROVE  TasksTyped'
<1>1. /\ call' \in [Task -> Asked] /\ pc' \in [Task -> Place]
      /\ cancelled' \in [Task -> BOOLEAN] /\ timedOut' \in [Task -> BOOLEAN]
      /\ pc'[t] = "program"
      /\ \A u \in Task \ {t} : pc'[u] = pc[u] /\ call'[u] = call[u]
  BY Returned
<1>2. Targets'
  BY <1>1 DEF TypeInv, Targets, Started
<1>3. QED
  BY <1>1, <1>2 DEF TasksTyped, TypeInv

\* A step within a call keeps the types of the tasks.
LEMMA TypeGoto ==
  ASSUME TypeInv, NEW t \in Task, NEW where \in Place, Goto(t, where),
         pc[t] \in Started \cup {"yield", "wait", "woken"}, pc[t] \in Started \/ where \notin Started,
         UNCHANGED <<call, cancelled, timedOut, lapsed>>
  PROVE  TasksTyped'
<1>1. pc' \in [Task -> Place] /\ pc'[t] = where /\ \A u \in Task \ {t} : pc'[u] = pc[u]
  BY Moved
<1>2. Targets'
  BY <1>1 DEF TypeInv, Targets, Started
<1>3. QED
  BY <1>1, <1>2 DEF TasksTyped, TypeInv

\* So does an accept that returns a descriptor.
LEMMA TypeAccept ==
  ASSUME TypeInv, NEW t \in Task, NEW g \in Fd, Accepts(t, g), UNCHANGED lapsed
  PROVE  /\ TasksTyped'
         /\ open' \subseteq Fd /\ nonblock' \in [Fd -> BOOLEAN] /\ asked' \in [Fd -> BOOLEAN]
<1>1. open' \subseteq Fd /\ nonblock' \in [Fd -> BOOLEAN] /\ asked' \in [Fd -> BOOLEAN]
  BY DEF Accepts, TypeInv
<1>2. [call[t] EXCEPT !.fd = g] \in Asked
  <2>1. call[t] \in Asked
    BY DEF TypeInv
  <2>2. QED
    BY <2>1 DEF Asked
<1>3. call' \in [Task -> Asked] /\ call'[t].fd = g /\ \A u \in Task \ {t} : call'[u] = call[u]
  BY <1>2 DEF Accepts, TypeInv
<1>4. pc' \in [Task -> Place] /\ \A u \in Task \ {t} : pc'[u] = pc[u]
  BY DEF Accepts, TypeInv, Place
<1>5. Targets'
  BY <1>3, <1>4 DEF TypeInv, Targets
<1>6. QED
  BY <1>1, <1>3, <1>4, <1>5 DEF TasksTyped, TypeInv, Accepts

\* A system call keeps the types.
LEMMA TypeSystemCall ==
  ASSUME TypeInv, NEW t \in Task, SystemCall(t)
  PROVE  TypeInv'
<1>1. UNCHANGED <<setup, queue, job, armed, lapsed, waiter, watched, ctx, known, failure>>
      /\ pc[t] \in {"plain", "try"}
  BY SystemCallParts
<1>2. CASE Answered(t)
  <2>1. TasksTyped'
    BY <1>1, <1>2, TypeReturn DEF Answered
  <2>2. QED
    BY <1>1, <1>2, <2>1 DEF TypeInv, TasksTyped, Answered
<1>3. ASSUME NEW g \in Fd, Accepts(t, g) PROVE TypeInv'
  BY <1>1, <1>3, TypeAccept DEF TypeInv, TasksTyped
<1>4. ASSUME NEW where \in {"blocked", "arm", "add"}, LeadsOn(t, where) PROVE TypeInv'
  <2>1. where \in Place /\ pc[t] \in Started
    BY <1>1 DEF Place, IoPC, Started
  <2>2. TasksTyped'
    BY <1>1, <1>4, <2>1, TypeGoto DEF LeadsOn
  <2>3. QED
    BY <1>1, <1>4, <2>2 DEF TypeInv, TasksTyped, LeadsOn
<1>5. QED
  BY <1>2, <1>3, <1>4, SystemCallParts

\* So does one that was blocked.
LEMMA TypeUnblock ==
  ASSUME TypeInv, NEW t \in Task, Unblock(t)
  PROVE  TypeInv'
<1>1. UNCHANGED <<setup, queue, job, armed, lapsed, waiter, watched, ctx, known, failure>>
  BY DEF Unblock, timerVars, eventVars
<1>2. CASE Answered(t)
  <2>1. TasksTyped'
    BY <1>1, <1>2, TypeReturn DEF Answered
  <2>2. QED
    BY <1>1, <1>2, <2>1 DEF TypeInv, TasksTyped, Answered
<1>3. ASSUME NEW g \in Fd, Accepts(t, g) PROVE TypeInv'
  BY <1>1, <1>3, TypeAccept DEF TypeInv, TasksTyped
<1>4. QED
  BY <1>2, <1>3, ServedParts DEF Unblock

\* The steps of a call keep the types.
LEMMA TypeCallStep ==
  ASSUME TypeInv, NEW t \in Task, CallStep(t)
  PROVE  TypeInv'
<1>1. ASSUME Arm(t) PROVE TypeInv'
  <2>1. /\ pc[t] = "arm" /\ armed' = armed \cup {Entry("timeout", t, call[t])}
        /\ Goto(t, "add")
        /\ UNCHANGED <<setup, queue, job, call, cancelled, timedOut, lapsed, waiter, watched,
                       ctx, open, nonblock, known, asked, failure>>
    BY <1>1 DEF Arm, At, eventVars, kernelVars, userVars
  <2>2. TasksTyped'
    BY <2>1, TypeGoto DEF Place, IoPC, Started
  <2>3. call[t] \in Asked /\ call[t].fd \in Fd
    BY <2>1 DEF TypeInv, Targets, Started
  <2>4. Entry("timeout", t, call[t]) \in Timers
    BY <2>3, EntryType
  <2>5. armed' \subseteq Timers /\ IsFiniteSet(armed')
    BY <2>1, <2>4, FS_AddElement DEF TypeInv
  <2>6. QED
    BY <2>1, <2>2, <2>5 DEF TypeInv, TasksTyped
<1>2. ASSUME AddEvent(t) PROVE TypeInv'
  <2>1. /\ pc[t] = "add" /\ Goto(t, "yield")
        /\ UNCHANGED <<setup, queue, job, call, cancelled, timedOut, armed, lapsed,
                       ctx, open, nonblock, known, asked>>
    BY <1>2 DEF AddEvent, At, timerVars, kernelVars, userVars
  <2>2. call[t].fd \in Fd /\ call[t].ev \in Event
    BY <2>1 DEF TypeInv, Targets, Started, Asked
  <2>3. TasksTyped'
    BY <2>1, TypeGoto DEF Place, IoPC, Started
  <2>4. /\ waiter' \in [Fd \X Event -> Task \cup {None}] /\ watched' \subseteq Fd
        /\ failure' \in {"none", "throw", "assert"}
    BY <1>2, <2>2 DEF AddEvent, TypeInv, eventVars
  <2>5. QED
    BY <2>1, <2>3, <2>4 DEF TypeInv, TasksTyped
<1>3. ASSUME Yield(t) PROVE TypeInv'
  <2>1. /\ pc[t] = "yield" /\ Goto(t, "wait") /\ Work(Pick)
        /\ UNCHANGED <<setup, queue, call, cancelled, timedOut, armed, lapsed, waiter, watched,
                       ctx, open, nonblock, known, asked, failure>>
    BY <1>3 DEF Yield, At, timerVars, eventVars, kernelVars, userVars
  <2>2. pc' \in [Task -> Place] /\ pc'[t] = "wait" /\ \A u \in Task \ {t} : pc'[u] = pc[u]
    BY <2>1, Moved DEF Place, IoPC
  <2>3. Targets'
    BY <2>1, <2>2 DEF TypeInv, Targets, Started
  <2>4. job' \in Jobs
    BY <2>1 DEF Work, Jobs
  <2>5. QED
    BY <2>1, <2>2, <2>3, <2>4 DEF TypeInv
<1>4. ASSUME Resume(t) PROVE TypeInv'
  <2>1. /\ pc[t] = "woken" /\ IsFiniteSet(armed') /\ armed' = {x \in armed : x.task # t}
        /\ SleepOver(t) \/ TimedOut(t) \/ Retries(t)
        /\ UNCHANGED <<setup, queue, job, lapsed, waiter, watched, ctx, open, nonblock, known,
                       asked, failure>>
    BY <1>4, ResumeParts
  <2>2. TasksTyped'
    <3>1. CASE SleepOver(t) \/ TimedOut(t)
      BY <2>1, <3>1, TypeReturn DEF SleepOver, TimedOut
    <3>2. CASE Retries(t)
      <4>1. pc' \in [Task -> Place] /\ pc'[t] = "try" /\ \A u \in Task \ {t} : pc'[u] = pc[u]
        BY <3>2, Moved DEF Retries, Place, IoPC
      <4>2. call' = call /\ cancelled' = cancelled /\ timedOut' = timedOut
            /\ call[t].fd \in Fd
        BY <2>1, <3>2 DEF Retries, TypeInv, Targets
      <4>3. Targets'
        BY <2>1, <4>1, <4>2 DEF TypeInv, Targets
      <4>4. QED
        BY <2>1, <4>1, <4>2, <4>3 DEF TypeInv, TasksTyped
    <3>3. QED
      BY <2>1, <3>1, <3>2
  <2>3. armed' \subseteq Timers
    BY <2>1 DEF TypeInv
  <2>4. QED
    BY <2>1, <2>2, <2>3 DEF TypeInv, TasksTyped
<1>5. ASSUME Create(t) PROVE TypeInv'
  <2>1. /\ pc[t] = "create" /\ Return(t, "none") /\ known' = known \cup {call[t].fd}
        /\ UNCHANGED <<setup, queue, job, armed, lapsed, waiter, watched, open, asked, failure>>
    BY <1>5 DEF Create, At, timerVars, eventVars
  <2>2. call[t].fd \in Fd /\ NewCtx \in FdCtx
    BY <2>1 DEF TypeInv, Targets, Started, NewCtx, FdCtx
  <2>3. TasksTyped'
    BY <2>1, TypeReturn
  <2>4. ctx' \in [Fd -> FdCtx \cup {NoCtx}] /\ nonblock' \in [Fd -> BOOLEAN]
    BY <1>5, <2>2 DEF Create, TypeInv
  <2>5. QED
    BY <2>1, <2>2, <2>3, <2>4 DEF TypeInv, TasksTyped
<1>6. ASSUME Del(t) PROVE TypeInv'
  <2>1. /\ pc[t] = "del" /\ Goto(t, "closef") /\ ctx' = [ctx EXCEPT ![call[t].fd] = NoCtx]
        /\ UNCHANGED <<setup, queue, job, call, cancelled, timedOut, armed, lapsed, waiter,
                       watched, open, nonblock, known, asked, failure>>
    BY <1>6 DEF Del, At, timerVars, eventVars, kernelVars, userVars
  <2>2. TasksTyped'
    BY <2>1, TypeGoto DEF Place, Started
  <2>3. ctx' \in [Fd -> FdCtx \cup {NoCtx}]
    BY <2>1 DEF TypeInv
  <2>4. QED
    BY <2>1, <2>2, <2>3 DEF TypeInv, TasksTyped
<1>7. ASSUME CloseF(t) PROVE TypeInv'
  <2>1. /\ pc[t] = "closef" /\ Return(t, "none")
        /\ open' \subseteq open /\ watched' \subseteq watched
        /\ UNCHANGED <<setup, queue, job, armed, lapsed, waiter, ctx, nonblock, known, asked,
                       failure>>
    BY <1>7 DEF CloseF, At, timerVars, userVars
  <2>2. TasksTyped'
    BY <2>1, TypeReturn
  <2>3. QED
    BY <2>1, <2>2 DEF TypeInv, TasksTyped
<1>8. QED
  BY <1>1, <1>2, <1>3, <1>4, <1>5, <1>6, <1>7, TypeSystemCall DEF CallStep

\* Every step keeps the types.
LEMMA TypeStep == TypeInv /\ [Next]_vars => TypeInv'
<1> SUFFICES ASSUME TypeInv, [Next]_vars PROVE TypeInv'
  OBVIOUS
<1>1. ASSUME UNCHANGED vars PROVE TypeInv'
  BY <1>1 DEF vars, taskVars, timerVars, eventVars, kernelVars, userVars, TypeInv, Targets
<1>2. ASSUME GoIdle PROVE TypeInv'
  <2>1. UNCHANGED <<setup, queue, pc, call, cancelled, timedOut, armed, lapsed, waiter, watched,
                    ctx, open, nonblock, known, asked, failure>>
    BY <1>2 DEF GoIdle, taskVars, timerVars, eventVars, kernelVars, userVars
  <2>2. job' \in Jobs
    BY <1>2, Worked DEF GoIdle, Jobs
  <2>3. Targets'
    BY <2>1 DEF TypeInv, Targets
  <2>4. QED
    BY <2>1, <2>2, <2>3 DEF TypeInv
<1>3. ASSUME Callback PROVE TypeInv'
  BY <1>3, TypeTimeout, TypeCancelEvent, TypeWake DEF Callback
<1>4. ASSUME IdleRound PROVE TypeInv'
  BY <1>4, TypeIdlePass DEF IdleRound
<1>5. QED
  BY <1>1, <1>2, <1>3, <1>4, TypeTake, TypeProgram, TypeCallStep, TypeUnblock DEF Next

\* Every reachable state has its types.
LEMMA TypeAlways == Spec => []TypeInv
  BY TypeStart, TypeStep, PTL DEF Spec

---------------------------------------------------------------------------
\* Timers belong to calls under way.

\* There are no timers at first.
LEMMA StrayStart == Init => NoStrayTimer
  BY DEF Init, NoStrayTimer

\* The timers of the tasks that a step leaves alone.
LEMMA StrayOthers ==
  ASSUME TypeInv, NoStrayTimer, NEW t \in Task, armed' \subseteq armed,
         \A u \in Task \ {t} : pc'[u] = pc[u] /\ call'[u] = call[u],
         \/ pc[t] \notin {"add", "yield", "wait", "woken"}
         \/ pc'[t] \in {"add", "yield", "wait", "woken"} /\ call'[t].n = call[t].n
         \/ \A x \in armed' : x.task # t
  PROVE  NoStrayTimer'
<1> SUFFICES ASSUME NEW x \in armed'
             PROVE  pc'[x.task] \in {"add", "yield", "wait", "woken"} /\ call'[x.task].n = x.n
  BY DEF NoStrayTimer
<1>1. x \in armed /\ x.task \in Task
  BY DEF TypeInv, Timers, Work4
<1>2. pc[x.task] \in {"add", "yield", "wait", "woken"} /\ call[x.task].n = x.n
  BY <1>1 DEF NoStrayTimer
<1>3. QED
  BY <1>1, <1>2

\* Steps that arm no timer and leave the tasks alone.
LEMMA StraySame ==
  ASSUME TypeInv, NoStrayTimer, armed' \subseteq armed, UNCHANGED <<pc, call>>
  PROVE  NoStrayTimer'
  BY DEF NoStrayTimer

\* A task that is resumed stays within its call.
LEMMA StrayTake ==
  ASSUME TypeInv, NoStrayTimer, Take
  PROVE  NoStrayTimer'
<1>1. call' = call /\ armed' = armed
  BY TakeParts DEF timerVars
<1>2. CASE pc' = pc
  BY <1>1, <1>2, StraySame
<1>3. CASE Head(queue).kind = "fiber" /\ pc[Head(queue).task] \in {"new", "wait"}
  <2>1. PICK r \in Task : r = Head(queue).task
    BY <1>3, Taken, TakeParts, Resumable
  <2>2. pc' = [pc EXCEPT ![r] = IF @ = "new" THEN "program" ELSE "woken"] /\ pc[r] \in {"new", "wait"}
    BY <1>3, <2>1, TakeParts
  <2>3. pc'[r] = (IF pc[r] = "new" THEN "program" ELSE "woken")
        /\ \A u \in Task \ {r} : pc'[u] = pc[u]
    BY <2>2 DEF TypeInv
  <2>4. \/ pc[r] \notin {"add", "yield", "wait", "woken"}
        \/ pc'[r] \in {"add", "yield", "wait", "woken"} /\ call'[r].n = call[r].n
    BY <1>1, <2>2, <2>3
  <2>5. QED
    BY <1>1, <2>3, <2>4, StrayOthers
<1>4. QED
  BY <1>2, <1>3, TakeParts

\* A call that begins finds no timer of its task.
LEMMA StrayBegin ==
  ASSUME TypeInv, NoStrayTimer, NEW t \in Task, NEW c \in Asked, NEW where \in Place,
         Begin(t, c, where), armed' = armed
  PROVE  NoStrayTimer'
<1>1. /\ pc[t] = "program"
      /\ \A u \in Task \ {t} : pc'[u] = pc[u] /\ call'[u] = call[u]
  BY Begun
<1>2. pc[t] \notin {"add", "yield", "wait", "woken"} /\ armed' \subseteq armed
  BY <1>1
<1>3. QED
  BY <1>1, <1>2, StrayOthers

\* The beginning of each call of the program.
LEMMA Begins ==
  ASSUME TypeInv, NEW t \in Task, Program(t), ~CallSleep(t), ~Finish(t)
  PROVE  \E c \in Asked, where \in Place :
           /\ Begin(t, c, where) /\ c.n = call[t].n + 1
           /\ armed' = armed /\ job' = job /\ setup' = setup
           /\ where \in {"plain", "try", "create", "del", "closef", "program"}
<1>1. ASSUME NEW f \in Fd, CallSocket(t, f)
      PROVE  \E c \in Asked : /\ Begin(t, c, "create") /\ c.n = call[t].n + 1
                              /\ armed' = armed /\ job' = job /\ setup' = setup
  <2> DEFINE c == NextCall(t, "socket", f, "READ", FALSE)
  <2>1. c \in Asked /\ c.n = call[t].n + 1
    BY DEF NextCall, TypeInv, Asked, Event
  <2>2. Begin(t, c, "create") /\ armed' = armed /\ job' = job /\ setup' = setup
    BY <1>1 DEF CallSocket
  <2> HIDE DEF c
  <2>3. QED
    BY <2>1, <2>2
<1>2. ASSUME NEW f \in Fd, CallClose(t, f)
      PROVE  \E c \in Asked, where \in {"del", "closef"} :
               /\ Begin(t, c, where) /\ c.n = call[t].n + 1
               /\ armed' = armed /\ job' = job /\ setup' = setup
  <2> DEFINE c == NextCall(t, "close", f, "READ", FALSE)
  <2>1. c \in Asked /\ c.n = call[t].n + 1
    BY DEF NextCall, TypeInv, Asked, Event
  <2>2. \E where \in {"del", "closef"} : Begin(t, c, where)
    BY <1>2 DEF CallClose
  <2>3. armed' = armed /\ job' = job /\ setup' = setup
    BY <1>2 DEF CallClose
  <2> HIDE DEF c
  <2>4. QED
    BY <2>1, <2>2, <2>3
<1>3. ASSUME NEW f \in Fd, NEW e \in Event, CallIo(t, f, e)
      PROVE  \E c \in Asked, where \in {"plain", "try"} :
               /\ Begin(t, c, where) /\ c.n = call[t].n + 1
               /\ armed' = armed /\ job' = job /\ setup' = setup
  <2>1. PICK c \in Asked, where \in {"plain", "try"} : IoBegins(t, f, e, c, where)
    BY <1>3, IoStarts
  <2>2. armed' = armed /\ job' = job /\ setup' = setup
    BY <1>3 DEF CallIo
  <2>3. QED
    BY <2>1, <2>2 DEF IoBegins
<1>4. ASSUME \/ \E f \in Fd, e \in Event : CallTimeout(t, f, e)
             \/ \E f \in Fd, b \in BOOLEAN : CallSetFl(t, f, b)
             \/ \E f \in Fd, b \in BOOLEAN : CallIoctl(t, f, b)
      PROVE  \E c \in Asked : /\ Begin(t, c, "program") /\ c.n = call[t].n + 1
                              /\ armed' = armed /\ job' = job /\ setup' = setup
  <2> DEFINE c == NextCall(t, "none", None, "READ", FALSE)
  <2>1. c \in Asked /\ c.n = call[t].n + 1
    BY DEF NextCall, TypeInv, Asked, Event
  <2>2. Begin(t, c, "program") /\ armed' = armed /\ job' = job /\ setup' = setup
    BY <1>4 DEF CallTimeout, CallSetFl, CallIoctl
  <2> HIDE DEF c
  <2>3. QED
    BY <2>1, <2>2
<1>5. {"plain", "try", "create", "del", "closef", "program"} \subseteq Place
  BY DEF Place, IoPC
<1>6. \A b \in setup.ioctl : b \in BOOLEAN
  BY SetupParts DEF TypeInv
<1>7. CASE \E f \in Fd : CallSocket(t, f)
  BY <1>1, <1>5, <1>7
<1>8. CASE \E f \in Fd : CallClose(t, f)
  BY <1>2, <1>5, <1>8
<1>9. CASE \E f \in Fd, e \in Event : CallIo(t, f, e)
  BY <1>3, <1>5, <1>9
<1>10. CASE \/ \E f \in Fd, e \in Event : CallTimeout(t, f, e)
            \/ \E f \in Fd, b \in BOOLEAN : CallSetFl(t, f, b)
            \/ \E f \in Fd, b \in BOOLEAN : CallIoctl(t, f, b)
  BY <1>4, <1>5, <1>10
<1>11. QED
  BY <1>6, <1>7, <1>8, <1>9, <1>10 DEF Program

\* The timer of a sleep is that of the call that begins.
LEMMA StraySleep ==
  ASSUME TypeInv, NoStrayTimer, NEW t \in Task, CallSleep(t)
  PROVE  NoStrayTimer'
<1> DEFINE c == NextCall(t, "sleep", None, "READ", TRUE)
<1>1. c \in Asked /\ "yield" \in Place
  BY DEF NextCall, TypeInv, Asked, Event, Place, IoPC
<1>2. Begin(t, c, "yield") /\ armed' = armed \cup {Entry("wake", t, c)}
  BY DEF CallSleep
<1> HIDE DEF c
<1>3. /\ pc[t] = "program" /\ pc'[t] = "yield" /\ call'[t] = c
      /\ \A u \in Task \ {t} : pc'[u] = pc[u] /\ call'[u] = call[u]
  BY <1>1, <1>2, Begun
<1>4. Entry("wake", t, c).task = t /\ Entry("wake", t, c).n = c.n
  BY <1>1, EntryType
<1>5. SUFFICES ASSUME NEW x \in armed'
               PROVE  pc'[x.task] \in {"add", "yield", "wait", "woken"} /\ call'[x.task].n = x.n
  BY DEF NoStrayTimer
<1>6. CASE x \in armed
  <2>1. x.task \in Task /\ pc[x.task] \in {"add", "yield", "wait", "woken"} /\ call[x.task].n = x.n
    BY <1>6 DEF NoStrayTimer, TypeInv, Timers, Work4
  <2>2. QED
    BY <1>3, <2>1
<1>7. CASE x = Entry("wake", t, c)
  BY <1>3, <1>4, <1>7
<1>8. QED
  BY <1>2, <1>6, <1>7

\* A task that begins another call or ends has no timer left.
LEMMA StrayProgram ==
  ASSUME TypeInv, NoStrayTimer, NEW t \in Task, Program(t)
  PROVE  NoStrayTimer'
<1>1. CASE CallSleep(t)
  BY <1>1, StraySleep
<1>2. CASE Finish(t)
  <2>1. pc[t] = "program" /\ call' = call /\ armed' = armed
        /\ \A u \in Task \ {t} : pc'[u] = pc[u]
    BY <1>2, Moved DEF Finish, At, timerVars, Place
  <2>2. pc[t] \notin {"add", "yield", "wait", "woken"} /\ armed' \subseteq armed
    BY <2>1
  <2>3. QED
    BY <2>1, <2>2, StrayOthers
<1>3. CASE ~CallSleep(t) /\ ~Finish(t)
  BY <1>3, Begins, StrayBegin
<1>4. QED
  BY <1>1, <1>2, <1>3

\* What a step of a call changes of its task.
LEMMA SystemCallMoves ==
  ASSUME TypeInv, NEW t \in Task, SystemCall(t) \/ Unblock(t)
  PROVE  /\ pc[t] \in {"plain", "try", "blocked"} /\ call'[t].n = call[t].n
         /\ pc'[t] \in {"program", "create", "blocked", "arm", "add"}
         /\ cancelled'[t] = FALSE \/ cancelled'[t] = cancelled[t]
         /\ timedOut'[t] = FALSE \/ timedOut'[t] = timedOut[t]
         /\ \A u \in Task \ {t} :
              /\ pc'[u] = pc[u] /\ call'[u] = call[u] /\ cancelled'[u] = cancelled[u]
              /\ timedOut'[u] = timedOut[u]
         /\ UNCHANGED <<setup, queue, job, armed, lapsed, waiter, watched, ctx, known, failure>>
<1>1. /\ pc[t] \in {"plain", "try", "blocked"}
      /\ UNCHANGED <<setup, queue, job, armed, lapsed, waiter, watched, ctx, known, failure>>
  <2>1. CASE SystemCall(t)
    BY <2>1, SystemCallParts
  <2>2. CASE Unblock(t)
    BY <2>2 DEF Unblock, At, timerVars, eventVars
  <2>3. QED
    BY <2>1, <2>2
<1>2. \/ Answered(t)
      \/ \E g \in Fd : Accepts(t, g)
      \/ \E where \in {"blocked", "arm", "add"} : LeadsOn(t, where)
  BY SystemCallParts, ServedParts DEF Unblock
<1>3. CASE Answered(t)
  BY <1>1, <1>3, Returned DEF Answered
<1>4. ASSUME NEW g \in Fd, Accepts(t, g)
      PROVE  /\ call'[t].n = call[t].n /\ pc'[t] = "create"
             /\ cancelled' = cancelled /\ timedOut' = timedOut
             /\ \A u \in Task \ {t} : pc'[u] = pc[u] /\ call'[u] = call[u]
  BY <1>4 DEF Accepts, TypeInv, Asked
<1>5. ASSUME NEW where \in {"blocked", "arm", "add"}, LeadsOn(t, where)
      PROVE  /\ call' = call /\ pc'[t] = where /\ cancelled' = cancelled /\ timedOut' = timedOut
             /\ \A u \in Task \ {t} : pc'[u] = pc[u]
  BY <1>5 DEF LeadsOn, Goto, TypeInv
<1>6. QED
  BY <1>1, <1>2, <1>3, <1>4, <1>5

\* A call comes back to the program without its timer.
LEMMA StrayCallStep ==
  ASSUME TypeInv, NoStrayTimer, NEW t \in Task, CallStep(t) \/ Unblock(t)
  PROVE  NoStrayTimer'
<1>1. ASSUME Arm(t) PROVE NoStrayTimer'
  <2>1. /\ armed' = armed \cup {Entry("timeout", t, call[t])} /\ call' = call
        /\ pc'[t] = "add" /\ pc[t] = "arm" /\ \A u \in Task \ {t} : pc'[u] = pc[u]
    BY <1>1, Moved DEF Arm, At, Place, IoPC
  <2>2. Entry("timeout", t, call[t]).task = t /\ Entry("timeout", t, call[t]).n = call[t].n
    BY DEF Entry
  <2>3. SUFFICES ASSUME NEW x \in armed'
                 PROVE  pc'[x.task] \in {"add", "yield", "wait", "woken"} /\ call'[x.task].n = x.n
    BY DEF NoStrayTimer
  <2>4. CASE x \in armed
    <3>1. x.task \in Task /\ pc[x.task] \in {"add", "yield", "wait", "woken"} /\ call[x.task].n = x.n
      BY <2>4 DEF NoStrayTimer, TypeInv, Timers, Work4
    <3>2. QED
      BY <2>1, <3>1
  <2>5. CASE x = Entry("timeout", t, call[t])
    BY <2>1, <2>2, <2>5
  <2>6. QED
    BY <2>1, <2>4, <2>5
<1>2. ASSUME AddEvent(t) \/ Yield(t) PROVE NoStrayTimer'
  <2>1. /\ armed' = armed /\ call' = call /\ pc'[t] \in {"yield", "wait"}
        /\ \A u \in Task \ {t} : pc'[u] = pc[u]
    BY <1>2, Moved DEF AddEvent, Yield, timerVars, Place, IoPC
  <2>2. QED
    BY <2>1, StrayOthers
<1>3. ASSUME Resume(t) PROVE NoStrayTimer'
  <2>1. armed' = {x \in armed : x.task # t} /\ (SleepOver(t) \/ TimedOut(t) \/ Retries(t))
    BY <1>3, ResumeParts
  <2>2. \A u \in Task \ {t} : pc'[u] = pc[u] /\ call'[u] = call[u]
    <3>1. CASE SleepOver(t) \/ TimedOut(t)
      BY <3>1, Returned DEF SleepOver, TimedOut
    <3>2. CASE Retries(t)
      BY <3>2, Moved DEF Retries, Place, IoPC
    <3>3. QED
      BY <2>1, <3>1, <3>2
  <2>3. armed' \subseteq armed /\ \A x \in armed' : x.task # t
    BY <2>1
  <2>4. QED
    BY <2>2, <2>3, StrayOthers
<1>4. ASSUME SystemCall(t) \/ Unblock(t) PROVE NoStrayTimer'
  <2>1. /\ pc[t] \notin {"add", "yield", "wait", "woken"} /\ armed' \subseteq armed
        /\ \A u \in Task \ {t} : pc'[u] = pc[u] /\ call'[u] = call[u]
    BY <1>4, SystemCallMoves
  <2>2. QED
    BY <2>1, StrayOthers
<1>5. ASSUME Create(t) \/ CloseF(t) PROVE NoStrayTimer'
  <2>1. pc[t] \in {"create", "closef"} /\ armed' = armed /\ Return(t, "none")
    BY <1>5 DEF Create, CloseF, At, timerVars
  <2>2. \A u \in Task \ {t} : pc'[u] = pc[u] /\ call'[u] = call[u]
    BY <2>1, Returned
  <2>3. pc[t] \notin {"add", "yield", "wait", "woken"} /\ armed' \subseteq armed
    BY <2>1
  <2>4. QED
    BY <2>2, <2>3, StrayOthers
<1>6. ASSUME Del(t) PROVE NoStrayTimer'
  <2>1. pc[t] = "del" /\ armed' = armed /\ call' = call /\ \A u \in Task \ {t} : pc'[u] = pc[u]
    BY <1>6, Moved DEF Del, At, timerVars, Place
  <2>2. pc[t] \notin {"add", "yield", "wait", "woken"} /\ armed' \subseteq armed
    BY <2>1
  <2>3. QED
    BY <2>1, <2>2, StrayOthers
<1>7. QED
  BY <1>1, <1>2, <1>3, <1>4, <1>5, <1>6 DEF CallStep

\* No step leaves a timer behind.
LEMMA StrayStep == TypeInv /\ NoStrayTimer /\ [Next]_vars => NoStrayTimer'
<1> SUFFICES ASSUME TypeInv, NoStrayTimer, [Next]_vars PROVE NoStrayTimer'
  OBVIOUS
<1>1. ASSUME UNCHANGED vars PROVE NoStrayTimer'
  BY <1>1 DEF vars, taskVars, timerVars, NoStrayTimer
<1>2. ASSUME GoIdle \/ Callback PROVE NoStrayTimer'
  <2>1. armed' = armed /\ pc' = pc /\ call' = call
    BY <1>2 DEF GoIdle, Callback, Timeout, CancelEvent, Wake, taskVars, timerVars
  <2>2. QED
    BY <2>1, StraySame
<1>3. ASSUME IdleRound PROVE NoStrayTimer'
  <2>1. armed' \subseteq armed /\ pc' = pc /\ call' = call
    BY <1>3 DEF IdleRound, IdlePass, Expired, taskVars
  <2>2. QED
    BY <2>1, StraySame
<1>4. QED
  BY <1>1, <1>2, <1>3, StrayTake, StrayProgram, StrayCallStep DEF Next

\* A call that has returned leaves no timer behind, whatever the interleaving of
\* its timer, its event and the close of its descriptor: timer->cancel() of do_io
\* and the timers that idle takes out are all there ever were.
THEOREM NothingLeftArmed == Spec => []NoStrayTimer
<1>1. TypeInv /\ NoStrayTimer /\ TypeInv' /\ [Next]_vars => NoStrayTimer'
  BY StrayStep
<1>2. QED
  BY StrayStart, TypeAlways, <1>1, PTL DEF Spec

---------------------------------------------------------------------------
\* A timeout is that of its own call.

\* The callback of an expired timer, queued or running, is that of an earlier
\* call of its task or of the present one, whose timer has then expired.
Fitting ==
  {y \in Queued \cup Jobs :
     y.kind = "timeout" =>
       /\ y.n <= call[y.task].n
       /\ y.n = call[y.task].n => lapsed[y.task]}

LapseInv ==
  /\ \A t \in Task : cancelled[t] => lapsed[t]
  /\ \A t \in Task : timedOut[t] => lapsed[t]
  /\ \A i \in 1 .. Len(queue) : queue[i] \in Fitting
  /\ job \in Fitting

\* No timer has expired at first.
LEMMA LapseStart == Init => LapseInv
<1> SUFFICES ASSUME Init PROVE LapseInv
  OBVIOUS
<1>1. /\ \A t \in Task : ~cancelled[t] /\ ~timedOut[t]
      /\ job = Pick
  BY DEF Init
<1>2. \A i \in 1 .. Len(queue) : queue[i].kind = "fiber"
  <2>1. queue = [i \in 1 .. Cardinality(Task) |-> Fiber(SetToSeq(Task)[i])]
    BY DEF Init
  <2>2. \A i \in 1 .. Cardinality(Task) : Fiber(SetToSeq(Task)[i]).kind = "fiber"
    BY FirstOrder, FiberType
  <2>3. Len(queue) = Cardinality(Task)
    BY <2>1, FirstOrder
  <2>4. QED
    BY <2>1, <2>2, <2>3
<1>3. job \in Jobs /\ job.kind = "pick"
  BY <1>1 DEF Jobs, Pick, Entry
<1>4. \A i \in 1 .. Len(queue) : queue[i] \in Queued
  BY TypeStart DEF TypeInv
<1>5. QED
  BY <1>1, <1>2, <1>3, <1>4 DEF LapseInv, Fitting

\* A task stays with its call, or goes on to a later one.
Calm ==
  \A t \in Task :
    \/ call'[t].n = call[t].n /\ (lapsed[t] => lapsed'[t])
    \/ call'[t].n = call[t].n + 1

\* New entries are fibers.
OldOrFiber ==
  \A i \in 1 .. Len(queue') :
    (\E j \in 1 .. Len(queue) : queue'[i] = queue[j]) \/ \E t \in Task : queue'[i] = Fiber(t)

\* An entry that fits still does when a call goes on or the next one begins.
LEMMA FitsCalm ==
  ASSUME TypeInv, Calm, NEW y \in Fitting
  PROVE  y \in Fitting'
<1>1. y \in Queued \cup Jobs /\ (y.kind = "timeout" => y.task \in Task /\ y.n \in Nat)
  BY DEF Fitting, Queued, Jobs, Work4, Pick, Epoll, Entry
<1>2. CASE y.kind = "timeout"
  <2>1. y.n <= call[y.task].n /\ (y.n = call[y.task].n => lapsed[y.task])
    BY <1>2 DEF Fitting
  <2>2. \/ call'[y.task].n = call[y.task].n /\ (lapsed[y.task] => lapsed'[y.task])
        \/ call'[y.task].n = call[y.task].n + 1 /\ call[y.task].n \in Nat
    BY <1>1, <1>2 DEF Calm, TypeInv, Asked
  <2>3. QED
    BY <1>1, <2>1, <2>2 DEF Fitting
<1>3. CASE y.kind # "timeout"
  BY <1>1, <1>3 DEF Fitting
<1>4. QED
  BY <1>2, <1>3

\* When nothing but fibers is added, every entry of the queue fits.
LEMMA LapseQueue ==
  ASSUME TypeInv, LapseInv, Calm, queue' \in Seq(Queued), OldOrFiber
  PROVE  \A i \in 1 .. Len(queue') : queue'[i] \in Fitting'
<1> SUFFICES ASSUME NEW i \in 1 .. Len(queue') PROVE queue'[i] \in Fitting'
  OBVIOUS
<1>1. ASSUME NEW t \in Task, queue'[i] = Fiber(t) PROVE queue'[i] \in Fitting'
  BY <1>1, FiberType DEF Fitting
<1>2. ASSUME NEW j \in 1 .. Len(queue), queue'[i] = queue[j] PROVE queue'[i] \in Fitting'
  <2>1. queue[j] \in Fitting
    BY DEF LapseInv
  <2>2. QED
    BY <1>2, <2>1, FitsCalm
<1>3. QED
  BY <1>1, <1>2 DEF OldOrFiber

\* What the thread runs next is what it ran, an entry of the queue, or something
\* other than the callback of a call.
JobsFrom ==
  \/ job' = job
  \/ job'.kind # "timeout"
  \/ \E i \in 1 .. Len(queue) : job' = queue[i]

\* A flag is set only for a timer that has expired.
FlagsKept ==
  \A t \in Task : (cancelled'[t] => lapsed'[t]) /\ (timedOut'[t] => lapsed'[t])

\* What the thread runs fits when it came from the queue.
LEMMA LapseJobs ==
  ASSUME TypeInv, LapseInv, Calm, job' \in Jobs, JobsFrom
  PROVE  job' \in Fitting'
<1>1. CASE job' = job
  <2>1. job \in Fitting
    BY DEF LapseInv
  <2>2. QED
    BY <1>1, <2>1, FitsCalm
<1>2. CASE job'.kind # "timeout"
  BY <1>2 DEF Fitting
<1>3. ASSUME NEW i \in 1 .. Len(queue), job' = queue[i] PROVE job' \in Fitting'
  <2>1. queue[i] \in Fitting
    BY DEF LapseInv
  <2>2. QED
    BY <1>3, <2>1, FitsCalm
<1>4. QED
  BY <1>1, <1>2, <1>3 DEF JobsFrom

\* Steps that add no entry but fibers keep LapseInv.
LEMMA LapseKept ==
  ASSUME TypeInv, LapseInv, TypeInv', Calm, OldOrFiber, JobsFrom, FlagsKept
  PROVE  LapseInv'
<1>1. queue' \in Seq(Queued) /\ job' \in Jobs
  BY DEF TypeInv
<1>2. \A i \in 1 .. Len(queue') : queue'[i] \in Fitting'
  BY <1>1, LapseQueue
<1>3. job' \in Fitting'
  BY <1>1, LapseJobs
<1>4. QED
  BY <1>2, <1>3 DEF LapseInv, FlagsKept

\* A queue that stays as it is, or has lost its first entry.
LEMMA QueueSame == queue' = queue => OldOrFiber
  BY DEF OldOrFiber

\* Taking an entry moves it to the thread.
LEMMA LapseTake ==
  ASSUME TypeInv, LapseInv, TypeInv', Take
  PROVE  LapseInv'
<1>1. call' = call /\ lapsed' = lapsed /\ cancelled' = cancelled /\ timedOut' = timedOut
      /\ job' = Head(queue) /\ queue' = Tail(queue)
  BY TakeParts DEF timerVars
<1>2. /\ Head(queue) = queue[1] /\ 1 \in 1 .. Len(queue)
      /\ \A i \in 1 .. Len(queue') : i + 1 \in 1 .. Len(queue) /\ queue'[i] = queue[i + 1]
  <2>1. queue # <<>>
    BY TakeParts
  <2>2. /\ Head(queue) = queue[1] /\ Len(queue) \in Nat \ {0}
        /\ \A i \in 1 .. Len(Tail(queue)) :
             i + 1 \in 1 .. Len(queue) /\ Tail(queue)[i] = queue[i + 1]
    BY <2>1, Taken
  <2>3. 1 \in 1 .. Len(queue)
    BY <2>2
  <2>4. QED
    BY <1>1, <2>2, <2>3, Zenon
<1>3. OldOrFiber
  BY <1>2 DEF OldOrFiber
<1>4. JobsFrom
  BY <1>1, <1>2 DEF JobsFrom, TypeInv
<1>5. Calm /\ FlagsKept
  BY <1>1 DEF Calm, FlagsKept, LapseInv
<1>6. QED
  BY <1>3, <1>4, <1>5, LapseKept

\* The entries that a round of idle adds are timers that it took out and fibers.
LEMMA IdleEntries ==
  ASSUME TypeInv, NEW x \in SUBSET armed, NEW es \in SUBSET Watched,
         IdlePass(x, es), NEW i \in 1 .. Len(queue')
  PROVE  (\E j \in 1 .. Len(queue) : queue'[i] = queue[j]) \/ queue'[i] \in x
           \/ \E t \in Task : queue'[i] = Fiber(t)
<1>1. PICK cbs \in Seq(Queued), p \in Seq(Fd \X Event) : IdleOrder(x, es, cbs, p) /\ Triggers(cbs, p)
  BY IdleParts
<1>2. Len(queue) \in Nat /\ Len(cbs) \in Nat /\ Len(p) \in Nat
      /\ Len(queue') = Len(queue) + Len(cbs) + Len(p)
  BY <1>1 DEF TypeInv, Triggers
<1>3. i \in Nat /\ 1 <= i /\ i <= Len(queue) + Len(cbs) + Len(p)
  <2>1. i \in 1 .. Len(queue) + Len(cbs) + Len(p)
    BY <1>2
  <2>2. QED
    BY <1>2, <2>1
<1>4. CASE i <= Len(queue)
  <2>1. i \in 1 .. Len(queue)
    BY <1>2, <1>3, <1>4
  <2>2. queue'[i] = queue[i]
    BY <1>1, <2>1 DEF Triggers
  <2>3. QED
    BY <2>1, <2>2
<1>5. CASE Len(queue) < i /\ i <= Len(queue) + Len(cbs)
  <2>1. i - Len(queue) \in 1 .. Len(cbs) /\ Len(queue) + (i - Len(queue)) = i
    BY <1>2, <1>3, <1>5
  <2>2. queue'[i] = cbs[i - Len(queue)]
    BY <1>1, <2>1 DEF Triggers
  <2>3. cbs[i - Len(queue)] \in x
    BY <1>1, <2>1 DEF IdleOrder
  <2>4. QED
    BY <2>2, <2>3
<1>6. CASE Len(queue) + Len(cbs) < i
  <2> DEFINE k == i - (Len(queue) + Len(cbs))
  <2>1. k \in 1 .. Len(p) /\ Len(queue) + Len(cbs) + k = i
    BY <1>2, <1>3, <1>6
  <2> HIDE DEF k
  <2>2. queue'[i] = Fiber(waiter[p[k]])
    BY <1>1, <2>1 DEF Triggers
  <2>3. p[k] \in Fd \X Event /\ waiter[p[k]] # None
    BY <1>1, <2>1 DEF IdleOrder
  <2>4. waiter[p[k]] \in Task
    BY <2>3 DEF TypeInv
  <2>5. QED
    BY <2>2, <2>4
<1>7. QED
  BY <1>2, <1>3, <1>4, <1>5, <1>6

\* The timers that a round of idle takes out have expired.
LEMMA LapseIdle ==
  ASSUME TypeInv, NoStrayTimer, LapseInv, TypeInv', 
         NEW x \in SUBSET armed, NEW es \in SUBSET Watched, IdlePass(x, es)
  PROVE  LapseInv'
<1>1. /\ call' = call /\ cancelled' = cancelled /\ timedOut' = timedOut
      /\ job' = Pick
  BY DEF IdlePass, taskVars, Work
<1>2. \A t \in Task : lapsed'[t] <=> lapsed[t] \/ \E y \in x : y.task = t /\ y.n = call[t].n
  BY ExpiredParts DEF IdlePass
<1>3. Calm /\ FlagsKept
  BY <1>1, <1>2 DEF Calm, FlagsKept, LapseInv
<1>4. JobsFrom
  BY <1>1 DEF JobsFrom, TypeInv, Pick, Entry
<1>5. job' \in Jobs /\ queue' \in Seq(Queued)
  BY DEF TypeInv
<1>6. job' \in Fitting'
  BY <1>3, <1>4, <1>5, LapseJobs
<1>7. ASSUME NEW i \in 1 .. Len(queue') PROVE queue'[i] \in Fitting'
  <2>1. ASSUME NEW t \in Task, queue'[i] = Fiber(t) PROVE queue'[i] \in Fitting'
    BY <1>5, <2>1, FiberType DEF Fitting
  <2>2. ASSUME NEW j \in 1 .. Len(queue), queue'[i] = queue[j] PROVE queue'[i] \in Fitting'
    <3>1. queue[j] \in Fitting
      BY DEF LapseInv
    <3>2. QED
      BY <1>3, <2>2, <3>1, FitsCalm
  <2>3. CASE queue'[i] \in x
    <3>1. PICK y \in x : y = queue'[i]
      BY <2>3
    <3>2. y \in Queued /\ y.task \in Task /\ y.n \in Nat /\ call[y.task].n = y.n
      BY <3>1 DEF TypeInv, NoStrayTimer, Timers, Queued, Work4
    <3>3. lapsed'[y.task] /\ call'[y.task].n = y.n
      BY <1>1, <1>2, <3>2
    <3>4. y \in Fitting'
      BY <3>2, <3>3 DEF Fitting
    <3>5. QED
      BY <3>1, <3>4
  <2>4. QED
    BY <2>1, <2>2, <2>3, IdleEntries
<1>8. QED
  BY <1>3, <1>6, <1>7 DEF LapseInv, FlagsKept

\* The entries that a callback adds are fibers.
LEMMA CallbackQueue ==
  ASSUME TypeInv, GoIdle \/ Callback
  PROVE  OldOrFiber
<1>1. CASE queue' = queue
  BY <1>1, QueueSame
<1>2. ASSUME NEW t \in Task, Len(queue') = Len(queue) + 1, queue'[Len(queue) + 1] = Fiber(t),
             \A i \in 1 .. Len(queue) : queue'[i] = queue[i]
      PROVE  OldOrFiber
  <2>1. Len(queue) \in Nat
    BY DEF TypeInv
  <2>2. \A i \in 1 .. Len(queue') : i \in 1 .. Len(queue) \/ i = Len(queue) + 1
    BY <1>2, <2>1
  <2>3. QED
    BY <1>2, <2>2 DEF OldOrFiber
<1>3. CASE CancelEvent
  BY <1>1, <1>2, <1>3, CancelParts, OneTriggered
<1>4. CASE Wake
  <2>1. job.task \in Task /\ queue' = Append(queue, Fiber(job.task))
    BY <1>4, JobType DEF Wake, Doing
  <2>2. QED
    BY <1>2, <2>1, FiberType, Added
<1>5. CASE GoIdle \/ Timeout
  BY <1>1, <1>5 DEF GoIdle, Timeout
<1>6. QED
  BY <1>3, <1>4, <1>5 DEF Callback

\* A callback marks a call as timed out only when its timer has expired.
LEMMA LapseCallback ==
  ASSUME TypeInv, LapseInv, TypeInv', Callback
  PROVE  LapseInv'
<1>1. ASSUME Timeout PROVE LapseInv'
  <2>1. /\ call' = call /\ lapsed' = lapsed /\ timedOut' = timedOut /\ queue' = queue
        /\ job.kind = "timeout"
    BY <1>1 DEF Timeout, Doing, timerVars
  <2>2. job.task \in Task /\ job.n \in Nat
    BY <2>1, JobType
  <2>3. JobsFrom
    <3>1. job \in Work4({"timeout"})
      BY <2>1 DEF TypeInv, Jobs, Work4, Pick, Epoll, Entry
    <3>2. [job EXCEPT !.kind = "cancel"].kind = "cancel" /\ Pick.kind = "pick"
      BY <3>1 DEF Work4, Pick, Entry
    <3>3. \/ job' = [job EXCEPT !.kind = "cancel"]
          \/ job' = Pick
      BY <1>1 DEF Timeout, Work
    <3>4. job'.kind # "timeout"
      BY <3>2, <3>3
    <3>5. QED
      BY <3>4 DEF JobsFrom
  <2>4. Calm /\ OldOrFiber
    BY <2>1 DEF Calm, OldOrFiber
  <2>5. FlagsKept
    <3>1. CASE Alive(job)
      <4>1. cancelled' = [cancelled EXCEPT ![job.task] = TRUE]
        BY <1>1, <3>1 DEF Timeout
      <4>2. lapsed[job.task]
        BY <2>1, <3>1 DEF Alive, LapseInv, Fitting
      <4>3. QED
        BY <2>1, <2>2, <4>1, <4>2 DEF FlagsKept, LapseInv, TypeInv
    <3>2. CASE ~Alive(job)
      <4>1. cancelled' = cancelled
        BY <1>1, <3>2 DEF Timeout
      <4>2. QED
        BY <2>1, <4>1 DEF FlagsKept, LapseInv
    <3>3. QED
      BY <3>1, <3>2
  <2>6. QED
    BY <2>3, <2>4, <2>5, LapseKept
<1>2. ASSUME CancelEvent \/ Wake PROVE LapseInv'
  <2>1. call' = call /\ lapsed' = lapsed /\ cancelled' = cancelled /\ timedOut' = timedOut
        /\ job' = Pick
    BY <1>2 DEF CancelEvent, Wake, Work, taskVars, timerVars
  <2>2. JobsFrom
    BY <2>1 DEF JobsFrom, TypeInv, Pick, Entry
  <2>3. Calm /\ FlagsKept
    BY <2>1 DEF Calm, FlagsKept, LapseInv
  <2>4. OldOrFiber
    BY <1>2, CallbackQueue DEF Callback
  <2>5. QED
    BY <2>2, <2>3, <2>4, LapseKept
<1>3. QED
  BY <1>1, <1>2 DEF Callback

\* The entries that a call of the program adds are fibers.
LEMMA ProgramQueue ==
  ASSUME TypeInv, NEW t \in Task, Program(t)
  PROVE  OldOrFiber
<1>1. ASSUME NEW f \in Fd, CallClose(t, f) PROVE OldOrFiber
  <2>1. CASE queue' = queue
    BY <2>1, QueueSame
  <2>2. CASE CancelAll(f)
    <3>1. CancelsAll(f)
      BY <2>2, CancelledAll
    <3>2. Len(queue) \in Nat /\ Len(Here(f)) \in Nat /\ Len(queue') = Len(queue) + Len(Here(f))
      BY <3>1, HereIs DEF CancelsAll, TypeInv
    <3>3. ASSUME NEW i \in 1 .. Len(queue')
          PROVE  \/ \E j \in 1 .. Len(queue) : queue'[i] = queue[j]
                 \/ \E u \in Task : queue'[i] = Fiber(u)
      <4>1. i \in 1 .. Len(queue) + Len(Here(f))
        BY <3>2
      <4>2. CASE i <= Len(queue)
        <5>1. i \in 1 .. Len(queue)
          BY <3>2, <4>1, <4>2
        <5>2. queue'[i] = queue[i]
          BY <3>1, <5>1 DEF CancelsAll
        <5>3. QED
          BY <5>1, <5>2
      <4>3. CASE Len(queue) < i
        <5>1. i - Len(queue) \in 1 .. Len(Here(f)) /\ Len(queue) + (i - Len(queue)) = i
          BY <3>2, <4>1, <4>3
        <5>2. PICK k \in 1 .. Len(Here(f)) : Len(queue) + k = i
          BY <5>1
        <5>3. queue'[i] = Fiber(waiter[Here(f)[k]])
          BY <3>1, <5>2 DEF CancelsAll
        <5>4. Here(f)[k] \in Fd \X Event /\ waiter[Here(f)[k]] # None
          BY HereIs
        <5>5. waiter[Here(f)[k]] \in Task
          BY <5>4 DEF TypeInv
        <5>6. QED
          BY <5>3, <5>5
      <4>4. QED
        BY <3>2, <4>1, <4>2, <4>3
    <3>4. QED
      BY <3>3 DEF OldOrFiber
  <2>3. QED
    BY <1>1, <2>1, <2>2 DEF CallClose
<1>2. CASE ~\E f \in Fd : CallClose(t, f)
  <2>1. queue' = queue
    BY <1>2 DEF Program, CallSocket, CallIo, CallTimeout, CallSetFl, CallIoctl, CallSleep, Finish
  <2>2. QED
    BY <2>1, QueueSame
<1>3. QED
  BY <1>1, <1>2

\* The sleep as a call that begins.
LEMMA SleepBegins ==
  ASSUME TypeInv, NEW t \in Task, CallSleep(t)
  PROVE  \E c \in Asked :
           /\ Begin(t, c, "yield") /\ c.n = call[t].n + 1
           /\ armed' = armed \cup {Entry("wake", t, c)}
           /\ queue' = queue /\ job' = job
<1> DEFINE c == NextCall(t, "sleep", None, "READ", TRUE)
<1>1. c \in Asked /\ c.n = call[t].n + 1
  BY DEF NextCall, TypeInv, Asked, Event
<1>2. /\ Begin(t, c, "yield") /\ armed' = armed \cup {Entry("wake", t, c)}
      /\ queue' = queue /\ job' = job
  BY DEF CallSleep
<1> HIDE DEF c
<1>3. QED
  BY <1>1, <1>2

\* A call that begins has a number that no timer has.
LEMMA LapseProgram ==
  ASSUME TypeInv, LapseInv, TypeInv', NEW t \in Task, Program(t)
  PROVE  LapseInv'
<1>1. OldOrFiber
  BY ProgramQueue
<1>2. CASE Finish(t)
  <2>1. call' = call /\ lapsed' = lapsed /\ cancelled' = cancelled /\ timedOut' = timedOut
        /\ Work(Pick)
    BY <1>2 DEF Finish, timerVars
  <2>2. JobsFrom
    BY <2>1 DEF JobsFrom, Work, Pick, Entry
  <2>3. Calm /\ FlagsKept
    BY <2>1 DEF Calm, FlagsKept, LapseInv
  <2>4. QED
    BY <1>1, <2>2, <2>3, LapseKept
<1>3. ASSUME NEW c \in Asked, NEW where \in Place, Begin(t, c, where), c.n = call[t].n + 1,
             job' = job
      PROVE  LapseInv'
  <2>1. /\ call'[t] = c /\ ~cancelled'[t] /\ ~timedOut'[t]
        /\ \A u \in Task \ {t} :
             /\ call'[u] = call[u] /\ cancelled'[u] = cancelled[u]
             /\ timedOut'[u] = timedOut[u] /\ lapsed'[u] = lapsed[u]
    BY <1>3, Begun
  <2>2. Calm
    BY <1>3, <2>1 DEF Calm
  <2>3. FlagsKept
    BY <2>1 DEF FlagsKept, LapseInv
  <2>4. JobsFrom
    BY <1>3 DEF JobsFrom
  <2>5. QED
    BY <1>1, <2>2, <2>3, <2>4, LapseKept
<1>4. CASE CallSleep(t)
  <2>1. "yield" \in Place
    BY DEF Place, IoPC
  <2>2. QED
    BY <1>3, <1>4, <2>1, SleepBegins
<1>5. CASE ~CallSleep(t) /\ ~Finish(t)
  BY <1>3, <1>5, Begins
<1>6. QED
  BY <1>2, <1>4, <1>5

\* A call that reports a timeout was marked.
LEMMA LapseCallStep ==
  ASSUME TypeInv, LapseInv, TypeInv', NEW t \in Task, CallStep(t) \/ Unblock(t)
  PROVE  LapseInv'
<1>1. queue' = queue /\ lapsed' = lapsed
  <2>1. CASE SystemCall(t) \/ Unblock(t)
    BY <2>1, SystemCallMoves
  <2>2. CASE ~(SystemCall(t) \/ Unblock(t))
    BY <2>2 DEF CallStep, Arm, AddEvent, Yield, Resume, Create, Del, CloseF, timerVars
  <2>3. QED
    BY <2>1, <2>2
<1>2. JobsFrom
  <2>1. CASE Yield(t)
    BY <2>1 DEF Yield, Work, JobsFrom, Pick, Entry
  <2>2. CASE SystemCall(t) \/ Unblock(t)
    BY <2>2, SystemCallMoves DEF JobsFrom
  <2>3. CASE Arm(t) \/ AddEvent(t) \/ Resume(t) \/ Create(t) \/ Del(t) \/ CloseF(t)
    BY <2>3 DEF Arm, AddEvent, Resume, Create, Del, CloseF, JobsFrom
  <2>4. QED
    BY <2>1, <2>2, <2>3 DEF CallStep
<1>3. /\ \A u \in Task : call'[u].n = call[u].n
      /\ \A u \in Task : cancelled'[u] => cancelled[u]
      /\ \A u \in Task : timedOut'[u] => timedOut[u] \/ cancelled[u]
  <2>1. CASE SystemCall(t) \/ Unblock(t)
    BY <2>1, SystemCallMoves
  <2>2. CASE Arm(t) \/ AddEvent(t) \/ Yield(t) \/ Del(t)
    BY <2>2 DEF Arm, AddEvent, Yield, Del
  <2>3. CASE Create(t) \/ CloseF(t)
    <3>1. Return(t, "none")
      BY <2>3 DEF Create, CloseF
    <3>2. QED
      BY <3>1, Returned
  <2>4. CASE Resume(t)
    <3>1. CASE SleepOver(t)
      BY <3>1, Returned DEF SleepOver
    <3>2. CASE TimedOut(t)
      BY <3>2, Returned DEF TimedOut
    <3>3. CASE Retries(t)
      BY <3>3 DEF Retries
    <3>4. QED
      BY <2>4, <3>1, <3>2, <3>3, ResumeParts
  <2>5. QED
    BY <2>1, <2>2, <2>3, <2>4 DEF CallStep
<1>4. Calm /\ FlagsKept
  BY <1>1, <1>3 DEF Calm, FlagsKept, LapseInv
<1>5. QED
  BY <1>1, <1>2, <1>4, QueueSame, LapseKept

\* Every step keeps LapseInv.
LEMMA LapseStep == TypeInv /\ NoStrayTimer /\ LapseInv /\ TypeInv' /\ [Next]_vars => LapseInv'
<1> SUFFICES ASSUME TypeInv, NoStrayTimer, LapseInv, TypeInv', [Next]_vars PROVE LapseInv'
  OBVIOUS
<1>1. CASE UNCHANGED vars
  <2>1. UNCHANGED <<queue, job, call, cancelled, timedOut, lapsed>>
    BY <1>1 DEF vars, taskVars, timerVars
  <2>2. Calm /\ OldOrFiber /\ JobsFrom /\ FlagsKept
    BY <2>1 DEF Calm, OldOrFiber, JobsFrom, FlagsKept, LapseInv
  <2>3. QED
    BY <2>2, LapseKept
<1>2. ASSUME GoIdle PROVE LapseInv'
  <2>1. UNCHANGED <<queue, call, cancelled, timedOut, lapsed>> /\ job' = Epoll
    BY <1>2 DEF GoIdle, taskVars, timerVars, Work
  <2>2. Calm /\ OldOrFiber /\ FlagsKept
    BY <2>1 DEF Calm, OldOrFiber, FlagsKept, LapseInv
  <2>3. JobsFrom
    BY <2>1 DEF JobsFrom, TypeInv, Epoll, Entry
  <2>4. QED
    BY <2>2, <2>3, LapseKept
<1>3. ASSUME IdleRound PROVE LapseInv'
  BY <1>3, LapseIdle DEF IdleRound
<1>4. QED
  BY <1>1, <1>2, <1>3, LapseTake, LapseCallback, LapseProgram, LapseCallStep DEF Next

\* A call reports ETIMEDOUT only when its own timer has expired: the weak
\* pointer to timer_info keeps the callback of an earlier call of the fiber from
\* touching the present one, however late it runs.
THEOREM TimeoutIsOwn == Spec => []OwnTimeout
<1>1. TypeInv /\ NoStrayTimer /\ LapseInv /\ TypeInv' /\ [Next]_vars => LapseInv'
  BY LapseStep
<1>2. LapseInv => OwnTimeout
  BY DEF LapseInv, OwnTimeout
<1>3. QED
  BY LapseStart, TypeAlways, NothingLeftArmed, <1>1, <1>2, PTL DEF Spec

---------------------------------------------------------------------------
\* The blocking mode that the program sees.

\* A descriptor that is being made or closed belongs to one task, and the
\* program may not use it.  A context that is there is that of a descriptor the
\* kernel has, so socket() and accept() find none for a number they return.
Holding == {"create", "del", "closef"}

FlagInv ==
  /\ \A f \in known : f \in open /\ ctx[f] # NoCtx /\ ctx[f].user = asked[f]
  /\ \A f \in Fd : f \notin open => ctx[f] = NoCtx
  /\ \A t \in Task : pc[t] \in Holding => call[t].fd \in open /\ call[t].fd \notin known
  /\ \A t \in Task : pc[t] \in {"create", "closef"} => ctx[call[t].fd] = NoCtx
  /\ \A t \in Task : pc[t] = "create" => asked[call[t].fd] = FALSE
  /\ \A t, u \in Task :
       pc[t] \in Holding /\ pc[u] \in Holding /\ call[t].fd = call[u].fd => t = u

\* A context is not the absence of one.
LEMMA CtxThere == \A c \in FdCtx : c # NoCtx
<1> SUFFICES ASSUME NEW c \in FdCtx, c = NoCtx PROVE FALSE
  OBVIOUS
<1>1. c.timeout \in [Event -> BOOLEAN] /\ DOMAIN c.timeout = Event
  BY DEF FdCtx
<1>2. c.timeout = <<>>
  BY DEF NoCtx
<1>3. DOMAIN c.timeout = {}
  BY <1>2
<1>4. QED
  BY <1>1, <1>3 DEF Event

\* The descriptor a task holds.
LEMMA HeldType ==
  ASSUME TypeInv, NEW t \in Task, pc[t] \in Holding
  PROVE  call[t].fd \in Fd
  BY DEF TypeInv, Targets, Started, Holding

\* The first descriptors show what was asked for.
LEMMA FlagStart == Init => FlagInv
<1> SUFFICES ASSUME Init PROVE FlagInv
  OBVIOUS
<1>1. PICK s \in SUBSET setup.fds, b \in BOOLEAN :
        /\ open = s /\ known = s
        /\ ctx = [f \in Fd |-> IF f \notin s THEN NoCtx
                               ELSE [NewCtx EXCEPT !.timeout = [e \in Event |-> b]]]
  BY DEF Init
<1>2. \A t \in Task : pc[t] = "new"
  BY DEF Init
<1>3. \A f \in Fd : asked[f] = FALSE
  BY DEF Init
<1>4. s \subseteq Fd
  BY SetupParts DEF Init
<1> DEFINE c == [NewCtx EXCEPT !.timeout = [e \in Event |-> b]]
<1>5. c \in FdCtx /\ c.user = FALSE
  BY DEF NewCtx, FdCtx
<1>6. c # NoCtx
  BY <1>5, CtxThere
<1>7. \A f \in Fd : ctx[f] = IF f \notin s THEN NoCtx ELSE c
  BY <1>1
<1> HIDE DEF c
<1>8. QED
  BY <1>1, <1>2, <1>3, <1>4, <1>5, <1>6, <1>7 DEF FlagInv, Holding

\* Steps that leave the descriptors alone.
LEMMA FlagSame ==
  ASSUME TypeInv, FlagInv, UNCHANGED <<ctx, open, known, asked>>,
         \A u \in Task : pc'[u] \in Holding => pc'[u] = pc[u] /\ call'[u].fd = call[u].fd
  PROVE  FlagInv'
  BY DEF FlagInv, Holding

\* A new descriptor for t.
LEMMA FlagNew ==
  ASSUME TypeInv, FlagInv, NEW t \in Task, NEW g \in Fd, g \notin open,
         open' = open \cup {g}, asked' = [asked EXCEPT ![g] = FALSE],
         UNCHANGED <<ctx, known>>,
         pc'[t] = "create", call'[t].fd = g,
         \A u \in Task \ {t} : pc'[u] = pc[u] /\ call'[u] = call[u]
  PROVE  FlagInv'
<1>1. \A f \in known : f \in open /\ ctx[f] # NoCtx /\ ctx[f].user = asked[f]
  BY DEF FlagInv
<1>2. \A f \in Fd : asked'[f] = IF f = g THEN FALSE ELSE asked[f]
  BY DEF TypeInv
<1>3. known \subseteq Fd /\ g \notin known /\ ctx[g] = NoCtx
  BY <1>1 DEF TypeInv, FlagInv
<1>4. \A f \in known' : f \in open' /\ ctx'[f] # NoCtx /\ ctx'[f].user = asked'[f]
  BY <1>1, <1>2, <1>3
<1>5. \A f \in Fd : f \notin open' => ctx'[f] = NoCtx
  BY DEF FlagInv
<1>6. \A u \in Task \ {t} : pc[u] \in Holding =>
        call[u].fd \in Fd /\ call[u].fd \in open /\ call[u].fd # g /\ call[u].fd \notin known
  BY HeldType DEF FlagInv
<1>7. \A u \in Task : pc'[u] \in Holding => call'[u].fd \in open' /\ call'[u].fd \notin known'
  BY <1>3, <1>6
<1>8. \A u \in Task : pc'[u] \in {"create", "closef"} => ctx'[call'[u].fd] = NoCtx
  BY <1>3 DEF FlagInv
<1>9. \A u \in Task : pc'[u] = "create" => asked'[call'[u].fd] = FALSE
  <2>1. asked'[call'[t].fd] = FALSE
    BY <1>2
  <2>2. ASSUME NEW u \in Task \ {t}, pc'[u] = "create" PROVE asked'[call'[u].fd] = FALSE
    <3>1. pc[u] = "create" /\ call'[u].fd = call[u].fd /\ call[u].fd \in Fd
      BY <1>6, <2>2 DEF Holding
    <3>2. asked[call[u].fd] = FALSE
      BY <3>1 DEF FlagInv
    <3>3. asked'[call[u].fd] = FALSE
      BY <1>2, <3>1, <3>2
    <3>4. QED
      BY <3>1, <3>3
  <2>3. QED
    BY <2>1, <2>2
<1>10. \A v, u \in Task :
         pc'[v] \in Holding /\ pc'[u] \in Holding /\ call'[v].fd = call'[u].fd => v = u
  BY <1>6 DEF FlagInv
<1>11. QED
  BY <1>4, <1>5, <1>7, <1>8, <1>9, <1>10 DEF FlagInv

\* The contexts of descriptors in use may change as long as they go with what
\* was asked for.
LEMMA FlagUsed ==
  ASSUME TypeInv, FlagInv, NEW f \in known, UNCHANGED <<open, known>>,
         \A g \in Fd \ {f} : ctx'[g] = ctx[g] /\ asked'[g] = asked[g],
         ctx'[f] # NoCtx, ctx'[f].user = asked'[f],
         \A u \in Task : pc'[u] \in Holding => pc'[u] = pc[u] /\ call'[u].fd = call[u].fd
  PROVE  FlagInv'
<1>1. known \subseteq Fd /\ f \in open
  BY DEF TypeInv, FlagInv
<1>2. \A g \in known' : g \in open' /\ ctx'[g] # NoCtx /\ ctx'[g].user = asked'[g]
  BY <1>1 DEF FlagInv
<1>3. \A g \in Fd : g \notin open' => ctx'[g] = NoCtx
  BY <1>1 DEF FlagInv
<1>4. \A u \in Task : pc'[u] \in Holding =>
        /\ pc[u] \in Holding /\ pc'[u] = pc[u] /\ call'[u].fd = call[u].fd
        /\ call[u].fd \in Fd /\ call[u].fd # f
  BY HeldType DEF FlagInv
<1>5. \A u \in Task : pc'[u] \in {"create", "closef"} => ctx'[call'[u].fd] = NoCtx
  BY <1>4 DEF FlagInv, Holding
<1>6. \A u \in Task : pc'[u] = "create" => asked'[call'[u].fd] = FALSE
  BY <1>4 DEF FlagInv, Holding
<1>7. /\ \A u \in Task : pc'[u] \in Holding => call'[u].fd \in open' /\ call'[u].fd \notin known'
      /\ \A v, u \in Task :
           pc'[v] \in Holding /\ pc'[u] \in Holding /\ call'[v].fd = call'[u].fd => v = u
  BY <1>4 DEF FlagInv
<1>8. QED
  BY <1>2, <1>3, <1>5, <1>6, <1>7 DEF FlagInv

\* The places of the other tasks when a call begins, and its own.
LEMMA BeginHolds ==
  ASSUME TypeInv, NEW t \in Task, NEW c \in Asked, NEW where \in Place, Begin(t, c, where)
  PROVE  /\ pc'[t] = where /\ call'[t] = c
         /\ \A u \in Task \ {t} : pc'[u] = pc[u] /\ call'[u] = call[u]
  BY Begun

\* The calls of the program keep FlagInv.
LEMMA FlagProgram ==
  ASSUME TypeInv, FlagInv, NEW t \in Task, Program(t)
  PROVE  FlagInv'
<1>1. ASSUME NEW f \in Fd, CallSocket(t, f) PROVE FlagInv'
  <2> DEFINE c == NextCall(t, "socket", f, "READ", FALSE)
  <2>1. c \in Asked /\ c.fd = f /\ "create" \in Place
    BY DEF NextCall, TypeInv, Asked, Event, Place
  <2>2. Begin(t, c, "create")
    BY <1>1 DEF CallSocket
  <2> HIDE DEF c
  <2>3. /\ pc'[t] = "create" /\ call'[t].fd = f
        /\ \A u \in Task \ {t} : pc'[u] = pc[u] /\ call'[u] = call[u]
    BY <2>1, <2>2, BeginHolds
  <2>4. /\ f \notin open /\ open' = open \cup {f} /\ asked' = [asked EXCEPT ![f] = FALSE]
        /\ UNCHANGED <<ctx, known>>
    BY <1>1 DEF CallSocket
  <2>5. QED
    BY <2>3, <2>4, FlagNew
<1>2. ASSUME NEW f \in Fd, CallClose(t, f) PROVE FlagInv'
  <2> DEFINE c == NextCall(t, "close", f, "READ", FALSE)
  <2>1. c \in Asked /\ c.fd = f /\ "del" \in Place
    BY DEF NextCall, TypeInv, Asked, Event, Place
  <2>2. f \in known /\ ctx[f] # NoCtx /\ known' = known \ {f}
        /\ UNCHANGED <<ctx, open, asked>>
    BY <1>2 DEF CallClose, FlagInv, kernelVars
  <2>3. Begin(t, c, "del")
    BY <1>2, <2>2 DEF CallClose
  <2> HIDE DEF c
  <2>4. /\ pc'[t] = "del" /\ call'[t].fd = f
        /\ \A u \in Task \ {t} : pc'[u] = pc[u] /\ call'[u] = call[u]
    BY <2>1, <2>3, BeginHolds
  <2>5. \A u \in Task \ {t} : pc[u] \in Holding => call[u].fd # f
    BY <2>2 DEF FlagInv
  <2>6. f \in open
    BY <2>2 DEF FlagInv
  <2>7. QED
    BY <2>2, <2>4, <2>5, <2>6 DEF FlagInv, Holding
<1>3. ASSUME NEW f \in Fd, NEW e \in Event, CallIo(t, f, e) PROVE FlagInv'
  <2>1. PICK c \in Asked, where \in {"plain", "try"} : IoBegins(t, f, e, c, where)
    BY <1>3, IoStarts
  <2>2. Begin(t, c, where) /\ where \in Place /\ where \notin Holding
    BY <2>1 DEF IoBegins, Place, IoPC, Holding
  <2>3. UNCHANGED <<ctx, open, known, asked>>
    BY <1>3 DEF CallIo, kernelVars, userVars
  <2>4. \A u \in Task : pc'[u] \in Holding => pc'[u] = pc[u] /\ call'[u].fd = call[u].fd
    BY <2>2, BeginHolds
  <2>5. QED
    BY <2>3, <2>4, FlagSame
<1>4. ASSUME Begin(t, NextCall(t, "none", None, "READ", FALSE), "program")
      PROVE  \A u \in Task : pc'[u] \in Holding => pc'[u] = pc[u] /\ call'[u].fd = call[u].fd
  <2> DEFINE c == NextCall(t, "none", None, "READ", FALSE)
  <2>1. c \in Asked /\ "program" \in Place
    BY DEF NextCall, TypeInv, Asked, Event, Place
  <2>2. Begin(t, c, "program")
    BY <1>4
  <2> HIDE DEF c
  <2>3. pc'[t] = "program" /\ \A u \in Task \ {t} : pc'[u] = pc[u] /\ call'[u] = call[u]
    BY <2>1, <2>2, BeginHolds
  <2>4. QED
    BY <2>3 DEF Holding
<1>5. ASSUME NEW f \in Fd, NEW e \in Event, CallTimeout(t, f, e) PROVE FlagInv'
  <2>1. f \in known /\ ctx[f] # NoCtx /\ ctx[f].user = asked[f] /\ UNCHANGED <<open, known, asked>>
    BY <1>5 DEF CallTimeout, FlagInv, kernelVars, userVars
  <2>2. [ctx[f] EXCEPT !.timeout[e] = TRUE] \in FdCtx
        /\ [ctx[f] EXCEPT !.timeout[e] = TRUE].user = ctx[f].user
    BY <2>1 DEF TypeInv, FdCtx
  <2>3. ctx' = [ctx EXCEPT ![f] = [ctx[f] EXCEPT !.timeout[e] = TRUE]]
    BY <1>5, <2>1 DEF CallTimeout
  <2>4. ctx'[f] \in FdCtx /\ ctx'[f].user = asked'[f] /\ \A g \in Fd \ {f} : ctx'[g] = ctx[g]
    BY <2>1, <2>2, <2>3 DEF TypeInv
  <2>5. QED
    BY <1>4, <1>5, <2>1, <2>4, CtxThere, FlagUsed DEF CallTimeout
<1>6. ASSUME NEW f \in Fd, NEW b \in BOOLEAN, CallSetFl(t, f, b) \/ CallIoctl(t, f, b)
      PROVE  FlagInv'
  <2>1. f \in known /\ ctx[f] # NoCtx /\ UNCHANGED <<open, known>>
        /\ asked' = [asked EXCEPT ![f] = b]
    BY <1>6 DEF CallSetFl, CallIoctl, FlagInv
  <2>2. [ctx[f] EXCEPT !.user = b] \in FdCtx /\ [ctx[f] EXCEPT !.user = b].user = b
    BY <2>1 DEF TypeInv, FdCtx
  <2>3. ctx' = [ctx EXCEPT ![f] = [ctx[f] EXCEPT !.user = b]]
    BY <1>6, <2>1 DEF CallSetFl, CallIoctl
  <2>4. /\ ctx'[f] \in FdCtx /\ ctx'[f].user = b /\ asked'[f] = b
        /\ \A g \in Fd \ {f} : ctx'[g] = ctx[g] /\ asked'[g] = asked[g]
    BY <2>1, <2>2, <2>3 DEF TypeInv
  <2>5. QED
    BY <1>4, <1>6, <2>1, <2>4, CtxThere, FlagUsed DEF CallSetFl, CallIoctl
<1>7. ASSUME CallSleep(t) PROVE FlagInv'
  <2>1. UNCHANGED <<ctx, open, known, asked>>
    BY <1>7 DEF CallSleep, kernelVars, userVars
  <2>2. "yield" \in Place /\ "yield" \notin Holding
    BY DEF Place, IoPC, Holding
  <2>3. \A u \in Task : pc'[u] \in Holding => pc'[u] = pc[u] /\ call'[u].fd = call[u].fd
    BY <1>7, <2>2, SleepBegins, BeginHolds
  <2>4. QED
    BY <2>1, <2>3, FlagSame
<1>8. ASSUME Finish(t) PROVE FlagInv'
  <2>1. UNCHANGED <<ctx, open, known, asked, call>>
    BY <1>8 DEF Finish, kernelVars, userVars
  <2>2. \A u \in Task : pc'[u] \in Holding => pc'[u] = pc[u]
    BY <1>8, Moved DEF Finish, Place, Holding
  <2>3. QED
    BY <2>1, <2>2, FlagSame
<1>9. QED
  <2>1. \A b \in setup.ioctl : b \in BOOLEAN
    BY SetupParts DEF TypeInv
  <2>2. QED
    BY <1>1, <1>2, <1>3, <1>5, <1>6, <1>7, <1>8, <2>1 DEF Program

\* The steps of a call keep FlagInv.
LEMMA FlagCallStep ==
  ASSUME TypeInv, FlagInv, NEW t \in Task, CallStep(t) \/ Unblock(t)
  PROVE  FlagInv'
<1>1. ASSUME SystemCall(t) \/ Unblock(t) PROVE FlagInv'
  <2>1. ctx' = ctx /\ known' = known
    BY <1>1, SystemCallMoves
  <2>2. ASSUME NEW g \in Fd, Accepts(t, g) PROVE FlagInv'
    <3>1. /\ g \notin open /\ open' = open \cup {g} /\ asked' = [asked EXCEPT ![g] = FALSE]
          /\ pc'[t] = "create" /\ call'[t].fd = g
          /\ \A u \in Task \ {t} : pc'[u] = pc[u] /\ call'[u] = call[u]
      BY <2>2 DEF Accepts, TypeInv, Asked
    <3>2. QED
      BY <2>1, <3>1, FlagNew
  <2>3. CASE Answered(t)
    <3>1. pc'[t] = "program" /\ \A u \in Task \ {t} : pc'[u] = pc[u] /\ call'[u] = call[u]
      BY <2>3, Returned DEF Answered
    <3>2. UNCHANGED <<open, asked>>
      BY <2>3 DEF Answered
    <3>3. \A u \in Task : pc'[u] \in Holding => pc'[u] = pc[u] /\ call'[u].fd = call[u].fd
      BY <3>1 DEF Holding
    <3>4. QED
      BY <2>1, <3>2, <3>3, FlagSame
  <2>4. ASSUME NEW where \in {"blocked", "arm", "add"}, LeadsOn(t, where) PROVE FlagInv'
    <3>1. pc'[t] = where /\ \A u \in Task \ {t} : pc'[u] = pc[u]
      BY <2>4, Moved DEF LeadsOn, Place, IoPC
    <3>2. UNCHANGED <<open, asked, call>>
      BY <2>4 DEF LeadsOn
    <3>3. \A u \in Task : pc'[u] \in Holding => pc'[u] = pc[u] /\ call'[u].fd = call[u].fd
      BY <3>1, <3>2 DEF Holding
    <3>4. QED
      BY <2>1, <3>2, <3>3, FlagSame
  <2>5. \/ Answered(t)
        \/ \E g \in Fd : Accepts(t, g)
        \/ \E where \in {"blocked", "arm", "add"} : LeadsOn(t, where)
    BY <1>1, SystemCallParts, ServedParts DEF Unblock
  <2>6. QED
    BY <2>2, <2>3, <2>4, <2>5
<1>2. ASSUME Arm(t) \/ AddEvent(t) \/ Yield(t) PROVE FlagInv'
  <2>1. UNCHANGED <<ctx, open, known, asked, call>>
    BY <1>2 DEF Arm, AddEvent, Yield, kernelVars, userVars
  <2>2. \A u \in Task : pc'[u] \in Holding => pc'[u] = pc[u]
    BY <1>2, Moved DEF Arm, AddEvent, Yield, Place, IoPC, Holding
  <2>3. QED
    BY <2>1, <2>2, FlagSame
<1>3. ASSUME Resume(t) PROVE FlagInv'
  <2>1. UNCHANGED <<ctx, open, known, asked>> /\ (SleepOver(t) \/ TimedOut(t) \/ Retries(t))
    BY <1>3, ResumeParts
  <2>2. /\ pc'[t] \in {"program", "try"}
        /\ \A u \in Task \ {t} : pc'[u] = pc[u] /\ call'[u] = call[u]
    <3>1. CASE SleepOver(t) \/ TimedOut(t)
      BY <3>1, Returned DEF SleepOver, TimedOut
    <3>2. CASE Retries(t)
      BY <3>2, Moved DEF Retries, Place, IoPC
    <3>3. QED
      BY <2>1, <3>1, <3>2
  <2>3. \A u \in Task : pc'[u] \in Holding => pc'[u] = pc[u] /\ call'[u].fd = call[u].fd
    BY <2>2 DEF Holding
  <2>4. QED
    BY <2>1, <2>3, FlagSame
<1>4. ASSUME Create(t) PROVE FlagInv'
  <2> DEFINE f == call[t].fd
  <2>1. pc[t] = "create" /\ Return(t, "none") /\ known' = known \cup {f}
        /\ UNCHANGED <<open, asked>>
    BY <1>4 DEF Create, At
  <2>2. /\ f \in Fd /\ f \in open /\ f \notin known /\ ctx[f] = NoCtx /\ asked[f] = FALSE
        /\ \A u \in Task \ {t} : pc[u] \in Holding => call[u].fd # f
    BY <2>1, HeldType DEF FlagInv, Holding
  <2>3. ctx' = [ctx EXCEPT ![f] = NewCtx]
    BY <1>4, <2>2 DEF Create
  <2>4. pc'[t] = "program" /\ \A u \in Task \ {t} : pc'[u] = pc[u] /\ call'[u] = call[u]
    BY <2>1, Returned
  <2>5. NewCtx # NoCtx /\ NewCtx.user = FALSE
    <3>1. NewCtx \in FdCtx /\ NewCtx.user = FALSE
      BY DEF NewCtx, FdCtx
    <3>2. QED
      BY <3>1, CtxThere
  <2> HIDE DEF f
  <2>6. \A g \in Fd : ctx'[g] = IF g = f THEN NewCtx ELSE ctx[g]
    BY <2>2, <2>3 DEF TypeInv
  <2>7. \A g \in known' : g \in open' /\ ctx'[g] # NoCtx /\ ctx'[g].user = asked'[g]
    <3>1. ctx'[f] # NoCtx /\ ctx'[f].user = asked'[f]
      BY <2>1, <2>2, <2>5, <2>6
    <3>2. \A g \in known : g \in Fd /\ g # f
      BY <2>2 DEF TypeInv
    <3>3. QED
      BY <2>1, <2>2, <2>6, <3>1, <3>2 DEF FlagInv
  <2>8. \A g \in Fd : g \notin open' => ctx'[g] = NoCtx
    BY <2>1, <2>2, <2>6 DEF FlagInv
  <2>9. \A u \in Task : pc'[u] \in Holding =>
          /\ u # t /\ pc[u] = pc'[u] /\ call'[u].fd = call[u].fd
          /\ call[u].fd \in Fd /\ call[u].fd # f
    BY <2>2, <2>4, HeldType DEF Holding
  <2>10. \A u \in Task : pc'[u] \in Holding => call'[u].fd \in open' /\ call'[u].fd \notin known'
    BY <2>1, <2>9 DEF FlagInv
  <2>11. \A u \in Task : pc'[u] \in {"create", "closef"} => ctx'[call'[u].fd] = NoCtx
    BY <2>6, <2>9 DEF FlagInv, Holding
  <2>12. \A u \in Task : pc'[u] = "create" => asked'[call'[u].fd] = FALSE
    BY <2>1, <2>9 DEF FlagInv, Holding
  <2>13. \A v, u \in Task :
           pc'[v] \in Holding /\ pc'[u] \in Holding /\ call'[v].fd = call'[u].fd => v = u
    BY <2>9 DEF FlagInv
  <2>14. QED
    BY <2>7, <2>8, <2>10, <2>11, <2>12, <2>13 DEF FlagInv
<1>5. ASSUME Del(t) PROVE FlagInv'
  <2> DEFINE f == call[t].fd
  <2>1. pc[t] = "del" /\ ctx' = [ctx EXCEPT ![f] = NoCtx] /\ UNCHANGED <<call, open, known, asked>>
    BY <1>5 DEF Del, At, kernelVars, userVars
  <2>2. /\ f \in Fd /\ f \in open /\ f \notin known
        /\ \A u \in Task \ {t} : pc[u] \in Holding => call[u].fd # f
    BY <2>1, HeldType DEF FlagInv, Holding
  <2>3. pc'[t] = "closef" /\ \A u \in Task \ {t} : pc'[u] = pc[u]
    BY <1>5, Moved DEF Del, Place
  <2>4. \A g \in Fd : ctx'[g] = IF g = f THEN NoCtx ELSE ctx[g]
    BY <2>1, <2>2 DEF TypeInv
  <2>5. call[t].fd = f /\ known \subseteq Fd
    BY DEF TypeInv
  <2> HIDE DEF f
  <2>6. \A g \in known' : g \in open' /\ ctx'[g] # NoCtx /\ ctx'[g].user = asked'[g]
    <3>1. \A g \in known : g \in Fd /\ g # f
      BY <2>2, <2>5
    <3>2. QED
      BY <2>1, <2>4, <3>1 DEF FlagInv
  <2>7. \A g \in Fd : g \notin open' => ctx'[g] = NoCtx
    BY <2>1, <2>4 DEF FlagInv
  <2>8. \A u \in Task \ {t} : pc'[u] \in Holding =>
          pc[u] = pc'[u] /\ call[u].fd \in Fd /\ call[u].fd # f
    BY <2>2, <2>3, HeldType DEF Holding
  <2>9. \A u \in Task : pc'[u] \in Holding => call'[u].fd \in open' /\ call'[u].fd \notin known'
    BY <2>1, <2>2, <2>5, <2>8 DEF FlagInv
  <2>10. \A u \in Task : pc'[u] \in {"create", "closef"} => ctx'[call'[u].fd] = NoCtx
    BY <2>1, <2>2, <2>3, <2>4, <2>5, <2>8 DEF FlagInv, Holding
  <2>11. \A u \in Task : pc'[u] = "create" => asked'[call'[u].fd] = FALSE
    BY <2>1, <2>3 DEF FlagInv
  <2>12. \A v, u \in Task :
           pc'[v] \in Holding /\ pc'[u] \in Holding /\ call'[v].fd = call'[u].fd => v = u
    BY <2>1, <2>5, <2>8 DEF FlagInv
  <2>13. QED
    BY <2>6, <2>7, <2>9, <2>10, <2>11, <2>12 DEF FlagInv
<1>6. ASSUME CloseF(t) PROVE FlagInv'
  <2> DEFINE f == call[t].fd
  <2>1. pc[t] = "closef" /\ Return(t, "none") /\ open' = open \ {f}
        /\ UNCHANGED <<ctx, known, asked>>
    BY <1>6 DEF CloseF, At, userVars
  <2>2. /\ f \in Fd /\ f \notin known /\ ctx[f] = NoCtx
        /\ \A u \in Task \ {t} : pc[u] \in Holding => call[u].fd # f
    BY <2>1, HeldType DEF FlagInv, Holding
  <2>3. pc'[t] = "program" /\ \A u \in Task \ {t} : pc'[u] = pc[u] /\ call'[u] = call[u]
    BY <2>1, Returned
  <2> HIDE DEF f
  <2>4. \A u \in Task : pc'[u] \in Holding =>
          /\ u # t /\ pc[u] = pc'[u] /\ call'[u].fd = call[u].fd /\ call[u].fd # f
    BY <2>2, <2>3 DEF Holding
  <2>5. /\ \A g \in known' : g \in open' /\ ctx'[g] # NoCtx /\ ctx'[g].user = asked'[g]
        /\ \A g \in Fd : g \notin open' => ctx'[g] = NoCtx
    BY <2>1, <2>2 DEF FlagInv
  <2>6. /\ \A u \in Task : pc'[u] \in Holding => call'[u].fd \in open' /\ call'[u].fd \notin known'
        /\ \A u \in Task : pc'[u] \in {"create", "closef"} => ctx'[call'[u].fd] = NoCtx
        /\ \A u \in Task : pc'[u] = "create" => asked'[call'[u].fd] = FALSE
        /\ \A v, u \in Task :
             pc'[v] \in Holding /\ pc'[u] \in Holding /\ call'[v].fd = call'[u].fd => v = u
    BY <2>1, <2>4 DEF FlagInv, Holding
  <2>7. QED
    BY <2>5, <2>6 DEF FlagInv
<1>7. QED
  BY <1>1, <1>2, <1>3, <1>4, <1>5, <1>6 DEF CallStep

\* Every step keeps FlagInv.
LEMMA FlagStep == TypeInv /\ FlagInv /\ [Next]_vars => FlagInv'
<1> SUFFICES ASSUME TypeInv, FlagInv, [Next]_vars PROVE FlagInv'
  OBVIOUS
<1>1. ASSUME UNCHANGED <<ctx, open, known, asked, pc, call>> PROVE FlagInv'
  BY <1>1, FlagSame
<1>2. CASE UNCHANGED vars
  BY <1>1, <1>2 DEF vars, taskVars, kernelVars, userVars
<1>3. ASSUME GoIdle \/ Callback \/ IdleRound PROVE FlagInv'
  <2>1. UNCHANGED <<ctx, open, known, asked, pc, call>>
    BY <1>3 DEF GoIdle, Callback, Timeout, CancelEvent, Wake, IdleRound, IdlePass, taskVars,
                kernelVars, userVars
  <2>2. QED
    BY <1>1, <2>1
<1>4. ASSUME Take PROVE FlagInv'
  <2>1. UNCHANGED <<ctx, open, known, asked, call>>
    BY <1>4, TakeParts DEF kernelVars, userVars
  <2>2. \A u \in Task : pc'[u] \in Holding => pc'[u] = pc[u]
    <3>1. CASE pc' = pc
      BY <3>1
    <3>2. CASE pc' = [pc EXCEPT ![Head(queue).task] = IF @ = "new" THEN "program" ELSE "woken"]
      <4>1. \A u \in Task : pc'[u] \in {pc[u], "program", "woken"}
        BY <3>2 DEF TypeInv
      <4>2. QED
        BY <4>1 DEF Holding
    <3>3. QED
      BY <1>4, <3>1, <3>2, TakeParts
  <2>3. QED
    BY <2>1, <2>2, FlagSame
<1>5. QED
  BY <1>2, <1>3, <1>4, FlagProgram, FlagCallStep DEF Next

\* The program sees the blocking mode it asked for, whichever calls it mixes and
\* however often the number of a closed descriptor is used again: the context
\* leaves the table before the kernel may give the number away.
THEOREM FlagsKeptAsAsked == Spec => []FlagsAsAsked
<1>1. TypeInv /\ FlagInv /\ TypeInv' /\ [Next]_vars => FlagInv'
  BY FlagStep
<1>2. FlagInv => FlagsAsAsked
  BY DEF FlagInv, FlagsAsAsked, SeenFlag
<1>3. QED
  BY FlagStart, TypeAlways, <1>1, <1>2, PTL DEF Spec

---------------------------------------------------------------------------
\* A task that runs has the thread.

Away == {"new", "wait", "done"}

RunInv ==
  /\ \A i \in 1 .. Len(queue) : queue[i].kind = "fiber" => queue[i] = Fiber(queue[i].task)
  /\ \A t \in Task : pc[t] \notin Away => job = Fiber(t)

\* The fibers of two tasks are two entries.
LEMMA FibersDiffer ==
  ASSUME NEW t \in Task, NEW u \in Task
  PROVE  /\ Fiber(t) = Fiber(u) => t = u
         /\ Fiber(t) # Pick /\ Fiber(t) # Epoll
  BY DEF Fiber, Pick, Epoll, Entry

\* No task runs at first.
LEMMA RunStart == Init => RunInv
<1> SUFFICES ASSUME Init PROVE RunInv
  OBVIOUS
<1>1. \A t \in Task : pc[t] = "new"
  BY DEF Init
<1>2. ASSUME NEW i \in 1 .. Len(queue) PROVE queue[i] = Fiber(queue[i].task)
  <2>1. queue = [k \in 1 .. Cardinality(Task) |-> Fiber(SetToSeq(Task)[k])]
    BY DEF Init
  <2>2. i \in 1 .. Cardinality(Task)
    BY <2>1, FirstOrder
  <2>3. queue[i] = Fiber(SetToSeq(Task)[i]) /\ SetToSeq(Task)[i] \in Task
    BY <2>1, <2>2, FirstOrder
  <2>4. QED
    BY <2>3, FiberType
<1>3. QED
  BY <1>1, <1>2 DEF RunInv, Away

\* A task that goes on running keeps the thread, and one that starts has got it.
RunsOn == \A u \in Task : pc'[u] \notin Away => job' = Fiber(u)

\* Steps after which the running task has the thread.
LEMMA RunKept ==
  ASSUME TypeInv, RunInv, RunsOn, setup' = setup, queue' \in Seq(Queued),
         \A i \in 1 .. Len(queue') :
           \/ \E j \in 1 .. Len(queue) : queue'[i] = queue[j]
           \/ \E t \in Task : queue'[i] = Fiber(t)
           \/ queue'[i].kind # "fiber"
  PROVE  RunInv'
<1>1. ASSUME NEW u \in Task, pc'[u] \notin Away PROVE job' = Fiber(u)
  BY <1>1 DEF RunsOn
<1>2. ASSUME NEW i \in 1 .. Len(queue'), queue'[i].kind = "fiber"
      PROVE  queue'[i] = Fiber(queue'[i].task)
  <2>1. ASSUME NEW j \in 1 .. Len(queue), queue'[i] = queue[j] PROVE queue'[i] = Fiber(queue'[i].task)
    BY <1>2, <2>1 DEF RunInv
  <2>2. ASSUME NEW t \in Task, queue'[i] = Fiber(t) PROVE queue'[i] = Fiber(queue'[i].task)
    BY <2>2, FiberType
  <2>3. QED
    BY <1>2, <2>1, <2>2
<1>3. QED
  BY <1>1, <1>2 DEF RunInv

\* Taking an entry gives the fiber the thread.
LEMMA RunTake ==
  ASSUME TypeInv, RunInv, TypeInv', Take
  PROVE  RunInv'
<1>1. /\ job = Pick /\ job' = Head(queue)
      /\ queue' = Tail(queue) /\ setup' = setup /\ queue # <<>>
  BY TakeParts, JobType
<1>2. /\ Head(queue) = queue[1] /\ 1 \in 1 .. Len(queue)
      /\ \A i \in 1 .. Len(queue') : i + 1 \in 1 .. Len(queue) /\ queue'[i] = queue[i + 1]
  <2>1. /\ Head(queue) = queue[1] /\ Len(queue) \in Nat \ {0}
        /\ \A i \in 1 .. Len(Tail(queue)) :
             i + 1 \in 1 .. Len(queue) /\ Tail(queue)[i] = queue[i + 1]
    BY <1>1, Taken
  <2>2. 1 \in 1 .. Len(queue)
    BY <2>1
  <2>3. QED
    BY <1>1, <2>1, <2>2, Zenon
<1>3. \A u \in Task : pc[u] \in Away
  BY <1>1, FibersDiffer DEF RunInv
<1>4. RunsOn
  <2>1. CASE pc' = pc
    BY <1>3, <2>1 DEF RunsOn
  <2>2. CASE Head(queue).kind = "fiber" /\ pc[Head(queue).task] \in {"new", "wait"}
    <3>1. PICK r \in Task : r = Head(queue).task
      BY <1>1, <2>2, Taken, Resumable
    <3>2. pc' = [pc EXCEPT ![r] = IF @ = "new" THEN "program" ELSE "woken"]
      BY <2>2, <3>1, TakeParts
    <3>3. job' = Fiber(r)
      BY <1>1, <1>2, <2>2, <3>1 DEF RunInv, TypeInv
    <3>4. \A u \in Task \ {r} : pc'[u] = pc[u]
      BY <3>2 DEF TypeInv
    <3>5. QED
      BY <1>3, <3>3, <3>4 DEF RunsOn
  <2>3. QED
    BY <2>1, <2>2, TakeParts
<1>5. queue' \in Seq(Queued)
  BY DEF TypeInv
<1>6. QED
  BY <1>1, <1>2, <1>4, <1>5, RunKept

\* The other steps of the thread.
LEMMA RunThread ==
  ASSUME TypeInv, RunInv, TypeInv', GoIdle \/ Callback \/ IdleRound
  PROVE  RunInv'
<1>1. job.kind # "fiber" /\ pc' = pc /\ setup' = setup
  BY DEF GoIdle, Callback, Timeout, CancelEvent, Wake, IdleRound, IdlePass, Doing, taskVars
<1>2. RunsOn
  BY <1>1, FiberType DEF RunInv, RunsOn
<1>3. \A i \in 1 .. Len(queue') :
           \/ \E j \in 1 .. Len(queue) : queue'[i] = queue[j]
           \/ \E t \in Task : queue'[i] = Fiber(t)
           \/ queue'[i].kind # "fiber"
  <2>1. CASE IdleRound
    <3>1. PICK x \in SUBSET armed, es \in SUBSET Watched : IdlePass(x, es)
      BY <2>1 DEF IdleRound
    <3>2. \A y \in x : y.kind # "fiber"
      BY DEF TypeInv, Timers, Work4
    <3>3. QED
      BY <3>1, <3>2, IdleEntries
  <2>2. CASE GoIdle \/ Callback
    <3>1. OldOrFiber
      BY <2>2, CallbackQueue
    <3>2. QED
      BY <3>1 DEF OldOrFiber
  <2>3. QED
    BY <2>1, <2>2
<1>4. queue' \in Seq(Queued)
  BY DEF TypeInv
<1>5. QED
  BY <1>1, <1>2, <1>3, <1>4, RunKept

\* The task that takes a step.
LEMMA TaskRuns ==
  ASSUME TypeInv, NEW t \in Task, Program(t) \/ CallStep(t) \/ Unblock(t)
  PROVE  /\ pc[t] \notin Away /\ setup' = setup
         /\ \A u \in Task \ {t} : pc'[u] = pc[u] /\ call'[u] = call[u]
         /\ \/ pc'[t] \notin Away /\ job' = job
            \/ pc'[t] \in Away /\ Work(Pick)
<1>1. CASE SystemCall(t) \/ Unblock(t)
  BY <1>1, SystemCallMoves DEF Away
<1>2. CASE Finish(t)
  BY <1>2, Moved DEF Finish, At, Away, Place
<1>3. CASE Yield(t)
  BY <1>3, Moved DEF Yield, At, Away, Place, IoPC
<1>4. CASE CallSleep(t)
  <2>1. PICK c \in Asked : Begin(t, c, "yield") /\ job' = job
    BY <1>4, SleepBegins
  <2>2. "yield" \in Place /\ setup' = setup
    BY <1>4 DEF Place, IoPC, CallSleep
  <2>3. QED
    BY <2>1, <2>2, Begun DEF Away
<1>5. CASE Program(t) /\ ~CallSleep(t) /\ ~Finish(t)
  <2>1. PICK c \in Asked, where \in Place :
          /\ Begin(t, c, where) /\ job' = job /\ setup' = setup
          /\ where \in {"plain", "try", "create", "del", "closef", "program"}
    BY <1>5, Begins
  <2>2. QED
    BY <2>1, Begun DEF Away
<1>6. CASE Arm(t) \/ AddEvent(t) \/ Del(t)
  BY <1>6, Moved DEF Arm, AddEvent, Del, At, Away, Place, IoPC
<1>7. CASE Create(t) \/ CloseF(t)
  <2>1. Return(t, "none") /\ job' = job /\ setup' = setup /\ pc[t] \in {"create", "closef"}
    BY <1>7 DEF Create, CloseF, At
  <2>2. QED
    BY <2>1, Returned DEF Away
<1>8. CASE Resume(t)
  <2>1. /\ pc[t] = "woken" /\ job' = job /\ setup' = setup
        /\ SleepOver(t) \/ TimedOut(t) \/ Retries(t)
    BY <1>8, ResumeParts
  <2>2. CASE SleepOver(t) \/ TimedOut(t)
    BY <2>1, <2>2, Returned DEF SleepOver, TimedOut, Away
  <2>3. CASE Retries(t)
    BY <2>1, <2>3, Moved DEF Retries, Place, IoPC, Away
  <2>4. QED
    BY <2>1, <2>2, <2>3
<1>9. QED
  BY <1>1, <1>2, <1>3, <1>4, <1>5, <1>6, <1>7, <1>8 DEF CallStep

\* A task gives up the thread only when it waits or ends.
LEMMA RunTask ==
  ASSUME TypeInv, RunInv, TypeInv', NEW t \in Task, Program(t) \/ CallStep(t) \/ Unblock(t)
  PROVE  RunInv'
<1>1. /\ pc[t] \notin Away /\ setup' = setup
      /\ \A u \in Task \ {t} : pc'[u] = pc[u] /\ call'[u] = call[u]
      /\ \/ pc'[t] \notin Away /\ job' = job
         \/ pc'[t] \in Away /\ Work(Pick)
  BY TaskRuns
<1>2. RunsOn
  <2>1. CASE pc'[t] \notin Away /\ job' = job
    BY <1>1, <2>1 DEF RunInv, RunsOn
  <2>2. CASE pc'[t] \in Away
    <3>1. \A u \in Task \ {t} : pc[u] \in Away
      BY <1>1, FibersDiffer DEF RunInv
    <3>2. QED
      BY <1>1, <2>2, <3>1 DEF RunsOn
  <2>3. QED
    BY <1>1, <2>1, <2>2
<1>3. OldOrFiber
  <2>1. CASE Program(t)
    BY <2>1, ProgramQueue
  <2>2. CASE SystemCall(t) \/ Unblock(t)
    BY <2>2, SystemCallMoves, QueueSame
  <2>3. CASE CallStep(t) /\ ~SystemCall(t)
    BY <2>3, QueueSame DEF CallStep, Arm, AddEvent, Yield, Resume, Create, Del, CloseF
  <2>4. QED
    BY <2>1, <2>2, <2>3
<1>4. queue' \in Seq(Queued)
  BY DEF TypeInv
<1>5. QED
  BY <1>1, <1>2, <1>3, <1>4, RunKept DEF OldOrFiber

\* Every step keeps RunInv.
LEMMA RunStep == TypeInv /\ RunInv /\ TypeInv' /\ [Next]_vars => RunInv'
<1> SUFFICES ASSUME TypeInv, RunInv, TypeInv', [Next]_vars PROVE RunInv'
  OBVIOUS
<1>1. CASE UNCHANGED vars
  BY <1>1 DEF vars, taskVars, RunInv
<1>2. QED
  BY <1>1, RunTake, RunThread, RunTask DEF Next

---------------------------------------------------------------------------
\* What a running task relies on.

\* What holds between two steps of a task, as no other task can run: a socket
\* that is open is in non-blocking mode, or socket() or accept() is still at work
\* on it; a descriptor that was there at the system call is there when its event
\* is added; nobody waits for a descriptor that is being closed; and epoll
\* watches the descriptors for which a fiber waits, and no others.
AloneInv ==
  /\ FALSE \notin setup.ioctl =>
       \A f \in open : nonblock[f] \/ \E t \in Task : pc[t] = "create" /\ call[t].fd = f
  /\ FALSE \notin setup.ioctl => \A t \in Task : pc[t] # "blocked"
  /\ \A t \in Task : pc[t] \in {"arm", "add"} => call[t].fd \in open
  /\ \A t \in Task : pc[t] \in {"del", "closef"} =>
       \A e \in Event : waiter[<<call[t].fd, e>>] = None
  /\ \A f \in Fd : f \in watched <=> \E e \in Event : waiter[<<f, e>>] # None

\* Nobody else runs.
LEMMA AloneRuns ==
  ASSUME TypeInv, RunInv, NEW t \in Task, pc[t] \notin Away
  PROVE  \A u \in Task \ {t} : pc[u] \in Away
  BY FibersDiffer DEF RunInv

\* No task runs while the thread does other work.
LEMMA NobodyRuns ==
  ASSUME RunInv, job.kind # "fiber"
  PROVE  \A u \in Task : pc[u] \in Away
  BY FiberType DEF RunInv

\* The first state.
LEMMA AloneStart == Init => AloneInv
<1> SUFFICES ASSUME Init PROVE AloneInv
  OBVIOUS
<1>1. PICK s \in SUBSET setup.fds : open = s /\ nonblock = [f \in Fd |-> f \in s]
  BY DEF Init
<1>2. s \subseteq Fd
  BY SetupParts DEF Init
<1>3. \A f \in open : nonblock[f]
  BY <1>1, <1>2
<1>4. /\ \A t \in Task : pc[t] = "new"
      /\ \A q \in Fd \X Event : waiter[q] = None
      /\ watched = {}
  BY DEF Init
<1>5. QED
  BY <1>3, <1>4 DEF AloneInv

\* Steps of the thread while it runs no task.
LEMMA AloneThread ==
  ASSUME TypeInv, RunInv, AloneInv, 
         Take \/ GoIdle \/ Callback \/ IdleRound
  PROVE  AloneInv'
<1>1. /\ job.kind # "fiber"
      /\ setup' = setup /\ open' = open /\ nonblock' = nonblock
  BY DEF Take, GoIdle, Callback, Timeout, CancelEvent, Wake, IdleRound, IdlePass, Doing, kernelVars
<1>2. \A u \in Task : pc[u] \in Away
  BY <1>1, NobodyRuns
<1>3. \A u \in Task : pc'[u] \in Away \cup {"program", "woken"}
  <2>1. CASE pc' = pc
    BY <1>2, <2>1
  <2>2. CASE pc' = [pc EXCEPT ![Head(queue).task] = IF @ = "new" THEN "program" ELSE "woken"]
    BY <1>2, <2>2 DEF TypeInv
  <2>3. CASE Take
    BY <2>1, <2>2, <2>3, TakeParts
  <2>4. CASE GoIdle \/ Callback \/ IdleRound
    BY <2>1, <2>4 DEF GoIdle, Callback, Timeout, CancelEvent, Wake, IdleRound, IdlePass, taskVars
  <2>5. QED
    BY <2>3, <2>4
<1>4. \A f \in Fd : f \in watched' <=> \E e \in Event : waiter'[<<f, e>>] # None
  <2>1. CASE watched' = watched /\ waiter' = waiter
    BY <2>1 DEF AloneInv
  <2>2. ASSUME \A f \in Fd : f \in watched' <=> f \in watched /\ \E e \in Event : waiter'[<<f, e>>] # None,
               \A q \in Fd \X Event : waiter'[q] = None \/ waiter'[q] = waiter[q]
        PROVE  \A f \in Fd : f \in watched' <=> \E e \in Event : waiter'[<<f, e>>] # None
    <3>1. ASSUME NEW f \in Fd, NEW e \in Event, waiter'[<<f, e>>] # None PROVE f \in watched
      <4>1. waiter[<<f, e>>] # None
        BY <2>2, <3>1
      <4>2. QED
        BY <4>1 DEF AloneInv
    <3>2. QED
      BY <2>2, <3>1
  <2>3. CASE IdleRound
    <3>1. PICK cbs \in Seq(Queued), p \in Seq(Fd \X Event) : Triggers(cbs, p)
      BY <2>3, IdleParts DEF IdleRound
    <3>2. QED
      BY <2>2, <3>1 DEF Triggers
  <2>4. CASE CancelEvent
    BY <2>1, <2>2, <2>4, CancelParts, OneTriggered
  <2>5. CASE Take \/ GoIdle \/ Timeout \/ Wake
    BY <2>1, <2>5 DEF Take, GoIdle, Timeout, Wake, eventVars
  <2>6. QED
    BY <2>3, <2>4, <2>5 DEF Callback
<1>5. FALSE \notin setup'.ioctl => \A f \in open' : nonblock'[f]
  BY <1>1, <1>2 DEF AloneInv, Away
<1>6. QED
  BY <1>1, <1>3, <1>4, <1>5 DEF AloneInv, Away

\* Steps of a task that leave the descriptors and the events alone.
LEMMA AloneSame ==
  ASSUME TypeInv, AloneInv, NEW t \in Task, setup' = setup,
         \A u \in Task \ {t} : pc[u] \in Away /\ pc'[u] = pc[u] /\ call'[u] = call[u],
         open' = open, waiter' = waiter, watched' = watched,
         FALSE \notin setup.ioctl => \A f \in open : nonblock[f] => nonblock'[f],
         pc[t] # "create", FALSE \notin setup.ioctl => pc'[t] # "blocked",
         pc'[t] \in {"arm", "add"} => call'[t].fd \in open,
         pc'[t] \in {"del", "closef"} =>
           pc[t] \in {"del", "closef"} /\ call'[t].fd = call[t].fd
  PROVE  AloneInv'
<1>1. FALSE \notin setup'.ioctl => \A f \in open' : nonblock'[f]
  BY DEF AloneInv, Away
<1>2. FALSE \notin setup'.ioctl => \A u \in Task : pc'[u] # "blocked"
  BY DEF Away
<1>3. \A u \in Task : pc'[u] \in {"arm", "add"} => call'[u].fd \in open'
  BY DEF Away
<1>4. \A u \in Task : pc'[u] \in {"del", "closef"} =>
        \A e \in Event : waiter'[<<call'[u].fd, e>>] = None
  BY DEF AloneInv, Away
<1>5. \A f \in Fd : f \in watched' <=> \E e \in Event : waiter'[<<f, e>>] # None
  BY DEF AloneInv
<1>6. QED
  BY <1>1, <1>2, <1>3, <1>4, <1>5 DEF AloneInv

\* A new descriptor for t, in the blocking mode of the kernel.
LEMMA AloneNew ==
  ASSUME TypeInv, AloneInv, NEW t \in Task, NEW g \in Fd, setup' = setup,
         \A u \in Task \ {t} : pc[u] \in Away /\ pc'[u] = pc[u] /\ call'[u] = call[u],
         open' = open \cup {g}, nonblock' = [nonblock EXCEPT ![g] = FALSE],
         waiter' = waiter, watched' = watched,
         pc[t] # "create", pc'[t] = "create", call'[t].fd = g
  PROVE  AloneInv'
<1>1. FALSE \notin setup.ioctl => \A f \in open : nonblock[f]
  BY DEF AloneInv, Away
<1>2. \A f \in Fd : f # g => nonblock'[f] = nonblock[f]
  BY DEF TypeInv
<1>3. open \subseteq Fd
  BY DEF TypeInv
<1>4. FALSE \notin setup'.ioctl =>
        \A f \in open' : nonblock'[f] \/ \E u \in Task : pc'[u] = "create" /\ call'[u].fd = f
  BY <1>1, <1>2, <1>3
<1>5. \A u \in Task : pc'[u] \notin {"blocked", "arm", "add", "del", "closef"}
  BY DEF Away
<1>6. \A f \in Fd : f \in watched' <=> \E e \in Event : waiter'[<<f, e>>] # None
  BY DEF AloneInv
<1>7. QED
  BY <1>4, <1>5, <1>6 DEF AloneInv

\* Steps of a task that change the events.
LEMMA AloneEvents ==
  ASSUME TypeInv, AloneInv, NEW t \in Task, setup' = setup,
         \A u \in Task \ {t} : pc[u] \in Away /\ pc'[u] = pc[u] /\ call'[u] = call[u],
         open' \subseteq open, nonblock' = nonblock,
         pc[t] # "create", pc'[t] \notin {"blocked", "arm", "add"},
         pc'[t] \in {"del", "closef"} => \A e \in Event : waiter'[<<call'[t].fd, e>>] = None,
         \A f \in Fd : f \in watched' <=> \E e \in Event : waiter'[<<f, e>>] # None
  PROVE  AloneInv'
<1>1. FALSE \notin setup'.ioctl => \A f \in open' : nonblock'[f]
  BY DEF AloneInv, Away
<1>2. \A u \in Task : pc'[u] \notin {"blocked", "arm", "add"}
  BY DEF Away
<1>3. \A u \in Task : pc'[u] \in {"del", "closef"} =>
        \A e \in Event : waiter'[<<call'[u].fd, e>>] = None
  BY DEF Away
<1>4. QED
  BY <1>1, <1>2, <1>3 DEF AloneInv

\* What a call that only begins does to the tasks.
LEMMA AloneBegin ==
  ASSUME TypeInv, RunInv, AloneInv, NEW t \in Task, NEW c \in Asked,
         NEW where \in {"plain", "try", "yield", "program"}, Begin(t, c, where),
         UNCHANGED <<setup, open, waiter, watched>>,
         FALSE \notin setup.ioctl => \A f \in open : nonblock[f] => nonblock'[f]
  PROVE  AloneInv'
<1>1. where \in Place
  BY DEF Place, IoPC
<1>2. /\ pc[t] = "program" /\ pc'[t] = where
      /\ \A u \in Task \ {t} : pc'[u] = pc[u] /\ call'[u] = call[u]
  BY <1>1, Begun
<1>3. \A u \in Task \ {t} : pc[u] \in Away /\ pc'[u] = pc[u] /\ call'[u] = call[u]
  BY <1>2, AloneRuns DEF Away
<1>4. pc[t] # "create" /\ pc'[t] \notin {"blocked", "arm", "add", "del", "closef"}
  BY <1>2
<1>5. QED
  BY <1>3, <1>4, AloneSame

\* The calls of the program keep AloneInv.
LEMMA AloneProgram ==
  ASSUME TypeInv, FlagInv, RunInv, AloneInv, NEW t \in Task, Program(t)
  PROVE  AloneInv'
<1>1. ASSUME NEW f \in Fd, CallSocket(t, f) PROVE AloneInv'
  <2> DEFINE c == NextCall(t, "socket", f, "READ", FALSE)
  <2>1. c \in Asked /\ c.fd = f /\ "create" \in Place
    BY DEF NextCall, TypeInv, Asked, Event, Place
  <2>2. Begin(t, c, "create")
    BY <1>1 DEF CallSocket
  <2> HIDE DEF c
  <2>3. /\ pc[t] = "program" /\ pc'[t] = "create" /\ call'[t].fd = f
        /\ \A u \in Task \ {t} : pc'[u] = pc[u] /\ call'[u] = call[u]
    BY <2>1, <2>2, Begun
  <2>4. \A u \in Task \ {t} : pc[u] \in Away /\ pc'[u] = pc[u] /\ call'[u] = call[u]
    BY <2>3, AloneRuns DEF Away
  <2>5. /\ setup' = setup /\ open' = open \cup {f} /\ nonblock' = [nonblock EXCEPT ![f] = FALSE]
        /\ waiter' = waiter /\ watched' = watched
    BY <1>1 DEF CallSocket, eventVars
  <2>6. QED
    BY <2>3, <2>4, <2>5, AloneNew
<1>2. ASSUME NEW f \in Fd, CallClose(t, f) PROVE AloneInv'
  <2> DEFINE c == NextCall(t, "close", f, "READ", FALSE)
  <2>1. c \in Asked /\ c.fd = f /\ "del" \in Place
    BY DEF NextCall, TypeInv, Asked, Event, Place
  <2>2. f \in known /\ ctx[f] # NoCtx /\ setup' = setup /\ open' = open /\ nonblock' = nonblock
    BY <1>2 DEF CallClose, FlagInv, kernelVars
  <2>3. Begin(t, c, "del") /\ CancelAll(f)
    BY <1>2, <2>2 DEF CallClose
  <2> HIDE DEF c
  <2>4. /\ pc[t] = "program" /\ pc'[t] = "del" /\ call'[t].fd = f
        /\ \A u \in Task \ {t} : pc'[u] = pc[u] /\ call'[u] = call[u]
    BY <2>1, <2>3, Begun
  <2>5. \A u \in Task \ {t} : pc[u] \in Away /\ pc'[u] = pc[u] /\ call'[u] = call[u]
    BY <2>4, AloneRuns DEF Away
  <2>6. /\ \A q \in Fd \X Event : waiter'[q] = IF q[1] = f THEN None ELSE waiter[q]
        /\ watched' \subseteq watched
        /\ \A g \in watched : (\E e \in Event : waiter'[<<g, e>>] # None) => g \in watched'
        /\ \A g \in watched' : waiter' = waiter \/ \E e \in Event : waiter'[<<g, e>>] # None
    <3>1. CancelsAll(f)
      BY <2>3, CancelledAll
    <3>2. QED
      BY <3>1 DEF CancelsAll
  <2>7. \A g \in Fd : g \in watched' <=> \E e \in Event : waiter'[<<g, e>>] # None
    <3>1. ASSUME NEW g \in Fd, NEW e \in Event, waiter'[<<g, e>>] # None PROVE g \in watched
      <4>1. waiter[<<g, e>>] # None
        BY <2>6, <3>1
      <4>2. QED
        BY <4>1 DEF AloneInv
    <3>2. ASSUME NEW g \in watched' PROVE \E e \in Event : waiter'[<<g, e>>] # None
      <4>1. CASE waiter' = waiter
        <5>1. g \in watched /\ g \in Fd
          BY <2>6, <3>2 DEF TypeInv
        <5>2. QED
          BY <4>1, <5>1 DEF AloneInv
      <4>2. QED
        BY <2>6, <3>2, <4>1
    <3>3. QED
      BY <2>6, <3>1, <3>2
  <2>8. \A e \in Event : waiter'[<<call'[t].fd, e>>] = None
    BY <2>4, <2>6
  <2>9. open' \subseteq open /\ pc[t] # "create" /\ pc'[t] \notin {"blocked", "arm", "add"}
    BY <2>2, <2>4
  <2>10. QED
    BY <2>2, <2>5, <2>7, <2>8, <2>9, AloneEvents
<1>3. ASSUME NEW f \in Fd, NEW e \in Event, CallIo(t, f, e) PROVE AloneInv'
  <2>1. PICK c \in Asked, where \in {"plain", "try"} : IoBegins(t, f, e, c, where)
    BY <1>3, IoStarts
  <2>2. Begin(t, c, where)
    BY <2>1 DEF IoBegins
  <2>3. UNCHANGED <<setup, open, waiter, watched, nonblock>>
    BY <1>3 DEF CallIo, kernelVars, eventVars
  <2>4. QED
    BY <2>2, <2>3, AloneBegin
<1>4. ASSUME Begin(t, NextCall(t, "none", None, "READ", FALSE), "program"),
             UNCHANGED <<setup, open, waiter, watched>>,
             FALSE \notin setup.ioctl => \A f \in open : nonblock[f] => nonblock'[f]
      PROVE  AloneInv'
  <2> DEFINE c == NextCall(t, "none", None, "READ", FALSE)
  <2>1. c \in Asked
    BY DEF NextCall, TypeInv, Asked, Event
  <2>2. Begin(t, c, "program")
    BY <1>4
  <2> HIDE DEF c
  <2>3. QED
    BY <1>4, <2>1, <2>2, AloneBegin
<1>5. ASSUME NEW f \in Fd, NEW e \in Event, CallTimeout(t, f, e) PROVE AloneInv'
  <2>1. UNCHANGED <<setup, open, waiter, watched, nonblock>>
    BY <1>5 DEF CallTimeout, kernelVars, eventVars
  <2>2. QED
    BY <1>4, <1>5, <2>1 DEF CallTimeout
<1>6. ASSUME NEW f \in Fd, NEW b \in BOOLEAN, CallSetFl(t, f, b) PROVE AloneInv'
  <2>1. nonblock' = [nonblock EXCEPT ![f] = TRUE] /\ UNCHANGED <<setup, open, waiter, watched>>
    BY <1>6 DEF CallSetFl, FlagInv, eventVars
  <2>2. \A g \in open : nonblock[g] => nonblock'[g]
    BY <2>1 DEF TypeInv
  <2>3. QED
    BY <1>4, <1>6, <2>1, <2>2 DEF CallSetFl
<1>7. ASSUME NEW f \in Fd, NEW b \in setup.ioctl, CallIoctl(t, f, b) PROVE AloneInv'
  <2>1. nonblock' = [nonblock EXCEPT ![f] = b] /\ UNCHANGED <<setup, open, waiter, watched>>
    BY <1>7 DEF CallIoctl, eventVars
  <2>2. b \in BOOLEAN
    BY SetupParts DEF TypeInv
  <2>3. FALSE \notin setup.ioctl => \A g \in open : nonblock[g] => nonblock'[g]
    <3>1. SUFFICES ASSUME FALSE \notin setup.ioctl, NEW g \in open, nonblock[g] PROVE nonblock'[g]
      OBVIOUS
    <3>2. b = TRUE
      BY <2>2, <3>1
    <3>3. nonblock' = [nonblock EXCEPT ![f] = TRUE]
      BY <2>1, <3>2
    <3>4. QED
      BY <3>1, <3>3 DEF TypeInv
  <2>4. QED
    BY <1>4, <1>7, <2>1, <2>3 DEF CallIoctl
<1>8. ASSUME CallSleep(t) PROVE AloneInv'
  <2>1. UNCHANGED <<setup, open, waiter, watched, nonblock>>
    BY <1>8 DEF CallSleep, kernelVars, eventVars
  <2>2. PICK c \in Asked : Begin(t, c, "yield")
    BY <1>8, SleepBegins
  <2>3. QED
    BY <2>1, <2>2, AloneBegin
<1>9. ASSUME Finish(t) PROVE AloneInv'
  <2>1. UNCHANGED <<setup, open, waiter, watched, nonblock, call>> /\ pc[t] = "program"
    BY <1>9 DEF Finish, At, kernelVars, eventVars
  <2>2. pc'[t] = "done" /\ \A u \in Task \ {t} : pc'[u] = pc[u]
    BY <1>9, Moved DEF Finish, Place
  <2>3. \A u \in Task \ {t} : pc[u] \in Away /\ pc'[u] = pc[u] /\ call'[u] = call[u]
    BY <2>1, <2>2, AloneRuns DEF Away
  <2>4. QED
    BY <2>1, <2>2, <2>3, AloneSame
<1>10. QED
  BY <1>1, <1>2, <1>3, <1>5, <1>6, <1>7, <1>8, <1>9 DEF Program

\* The steps of a call keep AloneInv.
LEMMA AloneCallStep ==
  ASSUME TypeInv, FlagInv, RunInv, AloneInv, NEW t \in Task, CallStep(t) \/ Unblock(t)
  PROVE  AloneInv'
<1>1. /\ pc[t] \notin Away /\ setup' = setup
      /\ \A u \in Task \ {t} : pc'[u] = pc[u] /\ call'[u] = call[u]
  BY TaskRuns
<1>2. \A u \in Task \ {t} : pc[u] \in Away /\ pc'[u] = pc[u] /\ call'[u] = call[u]
  BY <1>1, AloneRuns
<1>3. ASSUME SystemCall(t) \/ Unblock(t) PROVE AloneInv'
  <2>1. pc[t] # "create" /\ waiter' = waiter /\ watched' = watched
    BY <1>3, SystemCallMoves
  <2>2. ASSUME NEW g \in Fd, Accepts(t, g) PROVE AloneInv'
    <3>1. /\ open' = open \cup {g} /\ nonblock' = [nonblock EXCEPT ![g] = FALSE]
          /\ pc'[t] = "create" /\ call'[t].fd = g
      BY <2>2 DEF Accepts, TypeInv, Asked
    <3>2. QED
      BY <1>1, <1>2, <2>1, <3>1, AloneNew
  <2>3. CASE Answered(t)
    <3>1. pc'[t] = "program" /\ open' = open /\ nonblock' = nonblock
      BY <2>3, Returned DEF Answered
    <3>2. QED
      BY <1>1, <1>2, <2>1, <3>1, AloneSame
  <2>4. ASSUME NEW where \in {"blocked", "arm", "add"}, LeadsOn(t, where) PROVE AloneInv'
    <3>1. /\ pc'[t] = where /\ open' = open /\ nonblock' = nonblock /\ call' = call
          /\ call[t].fd \in open
          /\ where = "blocked" => ~nonblock[call[t].fd]
      BY <2>4, Moved DEF LeadsOn, Place, IoPC
    <3>2. FALSE \notin setup.ioctl => where # "blocked"
      <4>1. \A u \in Task : pc[u] # "create"
        BY <1>2, <2>1 DEF Away
      <4>2. FALSE \notin setup.ioctl => nonblock[call[t].fd]
        BY <3>1, <4>1 DEF AloneInv
      <4>3. QED
        BY <3>1, <4>2
    <3>3. FALSE \notin setup.ioctl => pc'[t] # "blocked"
      BY <3>1, <3>2
    <3>4. pc'[t] \in {"arm", "add"} => call'[t].fd \in open
      BY <3>1
    <3>5. pc'[t] \notin {"del", "closef"} /\ \A f \in open : nonblock[f] => nonblock'[f]
      BY <3>1
    <3>6. QED
      BY <1>1, <1>2, <2>1, <3>1, <3>3, <3>4, <3>5, AloneSame
  <2>5. \/ Answered(t)
        \/ \E g \in Fd : Accepts(t, g)
        \/ \E where \in {"blocked", "arm", "add"} : LeadsOn(t, where)
    BY <1>3, SystemCallParts, ServedParts DEF Unblock
  <2>6. QED
    BY <2>2, <2>3, <2>4, <2>5
<1>4. ASSUME Arm(t) \/ Yield(t) PROVE AloneInv'
  <2>1. UNCHANGED <<open, waiter, watched, nonblock, call>> /\ pc[t] \in {"arm", "yield"}
    BY <1>4 DEF Arm, Yield, At, kernelVars, eventVars
  <2>2. (pc'[t] = "add" /\ pc[t] = "arm") \/ pc'[t] = "wait"
    BY <1>4, Moved DEF Arm, Yield, At, Place, IoPC
  <2>3. pc'[t] \in {"arm", "add"} => call'[t].fd \in open
    BY <2>1, <2>2 DEF AloneInv
  <2>4. QED
    BY <1>1, <1>2, <2>1, <2>2, <2>3, AloneSame
<1>5. ASSUME Resume(t) PROVE AloneInv'
  <2>1. /\ UNCHANGED <<open, waiter, watched, nonblock>> /\ pc[t] = "woken"
        /\ SleepOver(t) \/ TimedOut(t) \/ Retries(t)
    BY <1>5, ResumeParts
  <2>2. pc'[t] \in {"program", "try"}
    <3>1. CASE SleepOver(t) \/ TimedOut(t)
      BY <3>1, Returned DEF SleepOver, TimedOut
    <3>2. CASE Retries(t)
      BY <3>2, Moved DEF Retries, Place, IoPC
    <3>3. QED
      BY <2>1, <3>1, <3>2
  <2>3. QED
    BY <1>1, <1>2, <2>1, <2>2, AloneSame
<1>6. ASSUME Del(t) PROVE AloneInv'
  <2>1. UNCHANGED <<open, waiter, watched, nonblock, call>> /\ pc[t] = "del"
    BY <1>6 DEF Del, At, kernelVars, eventVars
  <2>2. pc'[t] = "closef"
    BY <1>6, Moved DEF Del, Place
  <2>3. QED
    BY <1>1, <1>2, <2>1, <2>2, AloneSame
<1>7. ASSUME AddEvent(t) PROVE AloneInv'
  <2> DEFINE f == call[t].fd
             p == <<f, call[t].ev>>
  <2>1. /\ pc[t] = "add" /\ open' = open /\ nonblock' = nonblock
    BY <1>7 DEF AddEvent, At, kernelVars
  <2>2. pc'[t] = "yield"
    BY <1>7, Moved DEF AddEvent, Place, IoPC
  <2>3. f \in Fd /\ f \in open /\ call[t].ev \in Event /\ p \in Fd \X Event
    BY <2>1 DEF AloneInv, TypeInv, Asked, Targets, Started
  <2>4. (\A e \in Event : waiter[<<f, e>>] = None) <=> f \notin watched
    BY <2>3 DEF AloneInv
  <2>5. \A g \in Fd : g \in watched' <=> \E e \in Event : waiter'[<<g, e>>] # None
    <3>1. CASE waiter[p] # None
      <4>1. waiter' = waiter /\ watched' = watched
        BY <1>7, <3>1 DEF AddEvent, eventVars
      <4>2. QED
        BY <4>1 DEF AloneInv
    <3>2. CASE waiter[p] = None
      <4>1. waiter' = [waiter EXCEPT ![p] = t] /\ watched' = watched \cup {f}
        BY <1>7, <2>3, <2>4, <3>2 DEF AddEvent
      <4>2. t # None
        BY HookAssumption
      <4>3. \A q \in Fd \X Event : waiter'[q] = IF q = p THEN t ELSE waiter[q]
        BY <2>3, <4>1 DEF TypeInv
      <4>4. waiter'[<<f, call[t].ev>>] # None
        BY <2>3, <4>2, <4>3
      <4>5. \A g \in Fd \ {f}, e \in Event : waiter'[<<g, e>>] = waiter[<<g, e>>]
        BY <4>3
      <4>6. ASSUME NEW g \in Fd \ {f}
            PROVE  g \in watched' <=> \E e \in Event : waiter'[<<g, e>>] # None
        <5>1. g \in watched <=> \E e \in Event : waiter[<<g, e>>] # None
          BY DEF AloneInv
        <5>2. g \in watched' <=> g \in watched
          BY <4>1
        <5>3. QED
          BY <4>5, <5>1, <5>2
      <4>7. f \in watched' /\ \E e \in Event : waiter'[<<f, e>>] # None
        BY <2>3, <4>1, <4>4
      <4>8. QED
        BY <4>6, <4>7
    <3>3. QED
      BY <3>1, <3>2
  <2>6. open' \subseteq open /\ pc[t] # "create" /\ pc'[t] \notin {"blocked", "arm", "add", "del", "closef"}
    BY <2>1, <2>2
  <2>7. QED
    BY <1>1, <1>2, <2>1, <2>5, <2>6, AloneEvents
<1>8. ASSUME CloseF(t) PROVE AloneInv'
  <2> DEFINE f == call[t].fd
  <2>1. /\ pc[t] = "closef" /\ Return(t, "none") /\ open' = open \ {f} /\ watched' = watched \ {f}
        /\ nonblock' = nonblock /\ waiter' = waiter
    BY <1>8 DEF CloseF, At
  <2>2. pc'[t] = "program"
    BY <2>1, Returned
  <2>3. f \in Fd /\ \A e \in Event : waiter[<<f, e>>] = None
    BY <2>1, HeldType DEF AloneInv, Holding
  <2> HIDE DEF f
  <2>4. \A g \in Fd : g \in watched' <=> \E e \in Event : waiter'[<<g, e>>] # None
    BY <2>1, <2>3 DEF AloneInv
  <2>5. open' \subseteq open /\ pc[t] # "create" /\ pc'[t] \notin {"blocked", "arm", "add", "del", "closef"}
    BY <2>1, <2>2
  <2>6. QED
    BY <1>1, <1>2, <2>1, <2>4, <2>5, AloneEvents
<1>9. ASSUME Create(t) PROVE AloneInv'
  <2> DEFINE f == call[t].fd
  <2>1. /\ pc[t] = "create" /\ Return(t, "none") /\ open' = open /\ waiter' = waiter
        /\ watched' = watched
    BY <1>9 DEF Create, At, eventVars
  <2>2. f \in Fd /\ ctx[f] = NoCtx
    BY <2>1, HeldType DEF FlagInv, Holding
  <2>3. nonblock' = [nonblock EXCEPT ![f] = TRUE]
    BY <1>9, <2>2 DEF Create
  <2>4. pc'[t] = "program"
    BY <2>1, Returned
  <2>5. FALSE \notin setup'.ioctl => \A g \in open' : nonblock'[g]
    <3>1. FALSE \notin setup.ioctl => \A g \in open : nonblock[g] \/ g = f
      BY <1>2 DEF AloneInv, Away
    <3>2. \A g \in Fd : nonblock'[g] = IF g = f THEN TRUE ELSE nonblock[g]
      BY <2>3 DEF TypeInv
    <3>3. open \subseteq Fd
      BY DEF TypeInv
    <3>4. QED
      BY <1>1, <2>1, <3>1, <3>2, <3>3
  <2>6. \A u \in Task : pc'[u] \notin {"blocked", "arm", "add", "del", "closef"}
    BY <1>2, <2>4 DEF Away
  <2>7. \A g \in Fd : g \in watched' <=> \E e \in Event : waiter'[<<g, e>>] # None
    BY <2>1 DEF AloneInv
  <2>8. QED
    BY <2>5, <2>6, <2>7 DEF AloneInv
<1>10. QED
  BY <1>3, <1>4, <1>5, <1>6, <1>7, <1>8, <1>9 DEF CallStep

\* Every step keeps AloneInv.
LEMMA AloneStep ==
  TypeInv /\ FlagInv /\ RunInv /\ AloneInv /\ [Next]_vars => AloneInv'
<1> SUFFICES ASSUME TypeInv, FlagInv, RunInv, AloneInv, [Next]_vars
             PROVE  AloneInv'
  OBVIOUS
<1>1. CASE UNCHANGED vars
  BY <1>1 DEF vars, taskVars, eventVars, kernelVars, AloneInv
<1>2. QED
  BY <1>1, AloneThread, AloneProgram, AloneCallStep DEF Next

\* A socket stays in non-blocking mode from its creation to its
\* close unless the program clears the mode with ioctl, so that no system call
\* blocks the thread on which every other fiber depends.
THEOREM NeverBlocked == Spec => []NeverBlocks
<1>1. Init => AloneInv
  BY AloneStart
<1>2. TypeInv /\ FlagInv /\ RunInv /\ TypeInv' /\ [Next]_vars => FlagInv' /\ RunInv'
  BY FlagStep, RunStep
<1>3. AloneInv => NeverBlocks
  BY DEF AloneInv, NeverBlocks
<1>4. QED
  BY FlagStart, RunStart, TypeAlways, AloneStep, <1>1, <1>2, <1>3, PTL DEF Spec

\* A fiber in an EventContext waits for a descriptor that epoll
\* watches: close wakes the fibers before the kernel forgets the descriptor, and
\* no event is added to one that has gone since the system call.
THEOREM WaitersWatched == Spec => []WaitsAreWatched
<1>1. Init => AloneInv
  BY AloneStart
<1>2. TypeInv /\ FlagInv /\ RunInv /\ TypeInv' /\ [Next]_vars => FlagInv' /\ RunInv'
  BY FlagStep, RunStep
<1>3. AloneInv => WaitsAreWatched
  <2> SUFFICES ASSUME AloneInv, NEW q \in Fd \X Event, waiter[q] # None
               PROVE  q[1] \in watched
    BY DEF WaitsAreWatched
  <2>1. PICK f \in Fd, e \in Event : q = <<f, e>>
    OBVIOUS
  <2>2. f \in watched
    BY <2>1 DEF AloneInv
  <2>3. QED
    BY <2>1, <2>2
<1>4. QED
  BY FlagStart, RunStart, TypeAlways, AloneStep, <1>1, <1>2, <1>3, PTL DEF Spec

---------------------------------------------------------------------------
\* One wake-up for every fiber that waits.

\* The four places in which what wakes t can be, as Wakes counts them.
Events(t)  == {p \in Fd \X Event : waiter[p] = t}
Alarms(t)  == {x \in armed : x.kind = "wake" /\ x.task = t}
Callers(t) == {x \in {job} : x.kind = "wake" /\ x.task = t}
Entered(t) == {i \in 1 .. Len(queue) : queue[i].kind \in {"wake", "fiber"} /\ queue[i].task = t}

\* One wake-up, and none.
InEvents(t)  == (\E p : Events(t) = {p}) /\ Alarms(t) = {} /\ Callers(t) = {} /\ Entered(t) = {}
InTimers(t)  == Events(t) = {} /\ (\E x : Alarms(t) = {x}) /\ Callers(t) = {} /\ Entered(t) = {}
InThread(t) == Events(t) = {} /\ Alarms(t) = {} /\ (\E x : Callers(t) = {x}) /\ Entered(t) = {}
InQueue(t)   == Events(t) = {} /\ Alarms(t) = {} /\ Callers(t) = {} /\ (\E i : Entered(t) = {i})
Waked(t)   == InEvents(t) \/ InTimers(t) \/ InThread(t) \/ InQueue(t)
Unwaked(t) == Events(t) = {} /\ Alarms(t) = {} /\ Callers(t) = {} /\ Entered(t) = {}

Waiting == {"new", "yield", "wait"}
Accounted(t) == IF pc[t] \in Waiting THEN Waked(t) ELSE Unwaked(t)

\* The wake-up of a waiting fiber is in one place at a time and moves from one
\* to the next; a fiber that runs has none.
WakeInv == failure = "none" => \A t \in Task : Accounted(t)

\* Every new fiber is in the queue once.
LEMMA WakeStart == Init => WakeInv
<1> SUFFICES ASSUME Init, NEW t \in Task PROVE Accounted(t)
  BY DEF WakeInv
<1>1. pc[t] \in Waiting
  BY DEF Init, Waiting
<1>2. Events(t) = {} /\ Alarms(t) = {} /\ Callers(t) = {}
  <2>1. t # None
    BY HookAssumption
  <2>2. Pick.kind # "wake"
    BY DEF Pick, Entry
  <2>3. QED
    BY <2>1, <2>2 DEF Init, Events, Alarms, Callers
<1>3. \E i : Entered(t) = {i}
  <2> DEFINE n == Cardinality(Task)
             s == SetToSeq(Task)
  <2>1. /\ s \in [1 .. n -> Task] /\ n \in Nat
        /\ \A i, j \in 1 .. n : s[i] = s[j] => i = j
    BY FirstOrder
  <2>2. PICK k \in 1 .. n : s[k] = t
    BY FirstOrder
  <2>3. queue = [i \in 1 .. n |-> Fiber(s[i])]
    BY DEF Init
  <2> HIDE DEF n, s
  <2>4. Len(queue) = n /\ \A i \in 1 .. n : queue[i] = Fiber(s[i])
    BY <2>1, <2>3
  <2>5. \A i \in 1 .. n : queue[i].kind = "fiber" /\ queue[i].task = s[i]
    BY <2>1, <2>4, FiberType
  <2>6. \A i \in 1 .. n : queue[i].task = t <=> i = k
    BY <2>1, <2>2, <2>5
  <2>7. Entered(t) = {k}
    BY <2>2, <2>4, <2>5, <2>6 DEF Entered
  <2>8. QED
    BY <2>7
<1>4. QED
  BY <1>1, <1>2, <1>3 DEF Accounted, Waked, InQueue

\* A task whose wake-up stays where it is.
Stays(t) ==
  /\ Events(t)' = Events(t) /\ Alarms(t)' = Alarms(t)
  /\ Callers(t)' = Callers(t) /\ Entered(t)' = Entered(t)

\* Its count stays right.
LEMMA WakeStays ==
  ASSUME NEW t \in Task, Accounted(t), Stays(t), pc'[t] \in Waiting <=> pc[t] \in Waiting
  PROVE  Accounted(t)'
<1>1. CASE pc[t] \in Waiting
  <2>1. Waked(t)
    BY <1>1 DEF Accounted
  <2>2. Waked(t)'
    BY <2>1 DEF Stays, Waked, InEvents, InTimers, InThread, InQueue
  <2>3. QED
    BY <1>1, <2>2 DEF Accounted
<1>2. CASE pc[t] \notin Waiting
  <2>1. Unwaked(t)
    BY <1>2 DEF Accounted
  <2>2. Unwaked(t)'
    BY <2>1 DEF Stays, Unwaked
  <2>3. QED
    BY <1>2, <2>2 DEF Accounted
<1>3. QED
  BY <1>1, <1>2

\* The work of the thread changes, but from and to no wake callback.
Careless == job' = job \/ (job.kind # "wake" /\ job'.kind # "wake")

\* Then a wake callback stays with the thread.
LEMMA CallersStay ==
  ASSUME Careless, NEW t \in Task
  PROVE  Callers(t)' = Callers(t)
  BY DEF Careless, Callers

\* A task has at most one wake-up, and none unless it waits.
LEMMA WakeIsOne ==
  ASSUME NEW t \in Task, Accounted(t)
  PROVE  /\ Events(t) # {} => InEvents(t) /\ pc[t] \in Waiting
         /\ Alarms(t) # {} => InTimers(t) /\ pc[t] \in Waiting
         /\ Callers(t) # {} => InThread(t) /\ pc[t] \in Waiting
         /\ Entered(t) # {} => InQueue(t) /\ pc[t] \in Waiting
<1>1. pc[t] \notin Waiting => Unwaked(t)
  BY DEF Accounted
<1>2. pc[t] \in Waiting => InEvents(t) \/ InTimers(t) \/ InThread(t) \/ InQueue(t)
  BY DEF Accounted, Waked
<1>3. QED
  BY <1>1, <1>2 DEF Unwaked, InEvents, InTimers, InThread, InQueue

\* The queue without its first entry.
LEMMA Shifted ==
  ASSUME TypeInv, queue # <<>>, queue' = Tail(queue), NEW t \in Task
  PROVE  /\ Entered(t) = {} \/ Entered(t) = {1} => Entered(t)' = {}
         /\ \A i : Entered(t) = {i} /\ i # 1 => Entered(t)' = {i - 1}
<1>1. /\ Len(queue) \in Nat \ {0} /\ Len(queue') = Len(queue) - 1
      /\ \A i \in 1 .. Len(queue') : i + 1 \in 1 .. Len(queue) /\ queue'[i] = queue[i + 1]
  <2>1. /\ Len(Tail(queue)) = Len(queue) - 1 /\ Len(queue) \in Nat \ {0}
        /\ \A i \in 1 .. Len(Tail(queue)) :
             i + 1 \in 1 .. Len(queue) /\ Tail(queue)[i] = queue[i + 1]
    BY Taken
  <2>2. QED
    BY <2>1, Zenon
<1>2. \A i \in 1 .. Len(queue') : i \in Entered(t)' <=> i + 1 \in Entered(t)
  BY <1>1 DEF Entered
<1>3. Entered(t)' \subseteq 1 .. Len(queue') /\ Entered(t) \subseteq 1 .. Len(queue)
  BY DEF Entered
<1>4. Entered(t) = {} \/ Entered(t) = {1} => Entered(t)' = {}
  <2> SUFFICES ASSUME Entered(t) = {} \/ Entered(t) = {1}, NEW i \in Entered(t)' PROVE FALSE
    OBVIOUS
  <2>1. i \in 1 .. Len(queue') /\ i + 1 \in Entered(t)
    BY <1>2, <1>3
  <2>2. QED
    BY <1>1, <2>1
<1>5. ASSUME NEW i, Entered(t) = {i}, i # 1 PROVE Entered(t)' = {i - 1}
  <2>1. i \in 1 .. Len(queue)
    BY <1>3, <1>5
  <2>2. i - 1 \in 1 .. Len(queue') /\ (i - 1) + 1 = i
    BY <1>1, <1>5, <2>1
  <2>3. i - 1 \in Entered(t)'
    BY <1>2, <1>5, <2>2
  <2>4. ASSUME NEW k \in Entered(t)' PROVE k = i - 1
    <3>1. k \in 1 .. Len(queue') /\ k + 1 = i
      BY <1>2, <1>3, <1>5, <2>4
    <3>2. QED
      BY <1>1, <2>1, <3>1
  <2>5. QED
    BY <2>3, <2>4
<1>6. QED
  BY <1>4, <1>5

\* The wake-ups in the queue move up, the first one to the thread or, when it
\* is the fiber itself, to its end.
LEMMA WakeTake ==
  ASSUME TypeInv, WakeInv, Take
  PROVE  WakeInv'
<1> SUFFICES ASSUME failure' = "none", NEW t \in Task PROVE Accounted(t)'
  BY DEF WakeInv
<1> DEFINE j == Head(queue)
<1>1. /\ failure = "none" /\ queue # <<>> /\ queue' = Tail(queue) /\ job.kind = "pick"
      /\ waiter' = waiter /\ armed' = armed /\ job' = j
  BY TakeParts DEF timerVars, eventVars
<1>2. Accounted(t)
  BY <1>1 DEF WakeInv
<1>3. j \in Queued /\ j = queue[1] /\ 1 \in 1 .. Len(queue)
  <2>1. j \in Queued /\ j = queue[1] /\ Len(queue) \in Nat \ {0}
    BY <1>1, Taken
  <2>2. QED
    BY <2>1
<1> HIDE DEF j
<1>4. Events(t)' = Events(t) /\ Alarms(t)' = Alarms(t)
  BY <1>1 DEF Events, Alarms
<1>5. /\ Entered(t) = {} \/ Entered(t) = {1} => Entered(t)' = {}
      /\ \A i : Entered(t) = {i} /\ i # 1 => Entered(t)' = {i - 1}
  BY <1>1, Shifted
<1>6. Callers(t) = {}
  BY <1>1 DEF Callers
<1>7. Callers(t)' = IF j.kind = "wake" /\ j.task = t THEN {j} ELSE {}
  BY <1>1 DEF Callers
<1>8. 1 \in Entered(t) <=> j.kind \in {"wake", "fiber"} /\ j.task = t
  BY <1>3 DEF Entered
<1>9. CASE 1 \notin Entered(t)
  <2>1. Callers(t)' = Callers(t)
    BY <1>6, <1>7, <1>8, <1>9
  <2>2. pc'[t] = pc[t]
    <3>1. CASE j.kind = "fiber" /\ pc[j.task] \in {"new", "wait"}
      <4>1. j.task \in Task /\ j.task # t
        BY <1>3, <1>8, <1>9, <3>1, Resumable
      <4>2. pc' = [pc EXCEPT ![j.task] = IF @ = "new" THEN "program" ELSE "woken"]
        BY <3>1, TakeParts DEF j
      <4>3. QED
        BY <4>1, <4>2 DEF TypeInv
    <3>2. CASE pc' = pc
      BY <3>2
    <3>3. QED
      BY <3>1, <3>2, TakeParts DEF j
  <2>3. CASE pc[t] \in Waiting
    <3>1. CASE InQueue(t)
      <4>1. InQueue(t)'
        BY <1>4, <1>5, <1>9, <2>1, <3>1 DEF InQueue
      <4>2. QED
        BY <2>2, <2>3, <4>1 DEF Accounted, Waked
    <3>2. CASE InEvents(t) \/ InTimers(t) \/ InThread(t)
      <4>1. (InEvents(t) \/ InTimers(t) \/ InThread(t))'
        BY <1>4, <1>5, <2>1, <3>2 DEF InEvents, InTimers, InThread
      <4>2. QED
        BY <2>2, <2>3, <4>1 DEF Accounted, Waked
    <3>3. QED
      BY <1>2, <2>3, <3>1, <3>2 DEF Accounted, Waked
  <2>4. CASE pc[t] \notin Waiting
    BY <1>2, <1>4, <1>5, <2>1, <2>2, <2>4 DEF Accounted, Unwaked
  <2>5. QED
    BY <2>3, <2>4
<1>10. CASE 1 \in Entered(t)
  <2>1. InQueue(t) /\ pc[t] \in Waiting
    BY <1>2, <1>10, WakeIsOne
  <2>2. Entered(t)' = {} /\ Events(t)' = {} /\ Alarms(t)' = {} /\ Callers(t) = {}
    BY <1>4, <1>5, <1>10, <2>1 DEF InQueue
  <2>3. CASE j.kind = "wake"
    <3>1. Callers(t)' = {j}
      BY <1>7, <1>8, <1>10, <2>3
    <3>2. pc' = pc
      BY <2>3, TakeParts DEF j
    <3>3. QED
      BY <2>1, <2>2, <3>1, <3>2 DEF Accounted, Waked, InThread
  <2>4. CASE j.kind = "fiber"
    <3>1. Callers(t)' = {}
      BY <1>7, <2>4
    <3>2. pc[t] \in {"new", "wait"} /\ pc' = [pc EXCEPT ![t] = IF @ = "new" THEN "program" ELSE "woken"]
      BY <1>8, <1>10, <2>4, TakeParts DEF j
    <3>3. pc'[t] \notin Waiting
      BY <3>2 DEF TypeInv, Waiting
    <3>4. QED
      BY <2>2, <3>1, <3>3 DEF Accounted, Unwaked
  <2>5. QED
    BY <1>8, <1>10, <2>3, <2>4
<1>11. QED
  BY <1>9, <1>10

\* Timers that are taken out go to the queue as callbacks, and the fibers that
\* waited for the events of p go there after them.
Moves(cbs, p) ==
  /\ Triggers(cbs, p)
  /\ \A i \in 1 .. Len(cbs) : cbs[i] \in armed
  /\ \A i, j \in 1 .. Len(cbs) : cbs[i] = cbs[j] => i = j
  /\ \A i \in 1 .. Len(p) : p[i] \in Fd \X Event /\ waiter[p[i]] # None
  /\ \A i, j \in 1 .. Len(p) : p[i] = p[j] => i = j
  /\ armed' = {x \in armed : \A i \in 1 .. Len(cbs) : cbs[i] # x}

\* Where the entries of t in the queue come from.
LEMMA MovedEntries ==
  ASSUME TypeInv, NEW cbs \in Seq(Queued), NEW p \in Seq(Fd \X Event), Moves(cbs, p),
         NEW t \in Task
  PROVE  /\ \A i \in Entered(t) : i \in Entered(t)'
         /\ \A i \in 1 .. Len(cbs) : Len(queue) + i \in Entered(t)' <=> cbs[i] \in Alarms(t)
         /\ \A i \in 1 .. Len(p) : Len(queue) + Len(cbs) + i \in Entered(t)' <=> p[i] \in Events(t)
         /\ \A i \in Entered(t)' :
              \/ i \in Entered(t)
              \/ \E k \in 1 .. Len(cbs) : i = Len(queue) + k /\ cbs[k] \in Alarms(t)
              \/ \E k \in 1 .. Len(p) : i = Len(queue) + Len(cbs) + k /\ p[k] \in Events(t)
<1>1. /\ Len(queue) \in Nat /\ Len(cbs) \in Nat /\ Len(p) \in Nat
      /\ Len(queue') = Len(queue) + Len(cbs) + Len(p)
  BY DEF TypeInv, Moves, Triggers
<1>2. /\ \A i \in 1 .. Len(queue) : queue'[i] = queue[i]
      /\ \A i \in 1 .. Len(cbs) : queue'[Len(queue) + i] = cbs[i]
      /\ \A i \in 1 .. Len(p) : queue'[Len(queue) + Len(cbs) + i] = Fiber(waiter[p[i]])
  BY DEF Moves, Triggers
<1>3. ASSUME NEW i \in 1 .. Len(queue) PROVE i \in Entered(t)' <=> i \in Entered(t)
  <2>1. i \in 1 .. Len(queue')
    BY <1>1
  <2>2. QED
    BY <1>2, <2>1 DEF Entered
<1>4. ASSUME NEW i \in 1 .. Len(cbs)
      PROVE  Len(queue) + i \in Entered(t)' <=> cbs[i] \in Alarms(t)
  <2>1. Len(queue) + i \in 1 .. Len(queue')
    BY <1>1
  <2>2. cbs[i] \in armed /\ cbs[i].kind \in {"timeout", "wake"}
    BY DEF Moves, TypeInv, Timers, Work4
  <2>3. queue'[Len(queue) + i] = cbs[i]
    BY <1>2
  <2>4. QED
    BY <2>1, <2>2, <2>3 DEF Entered, Alarms
<1>5. ASSUME NEW i \in 1 .. Len(p)
      PROVE  Len(queue) + Len(cbs) + i \in Entered(t)' <=> p[i] \in Events(t)
  <2>1. Len(queue) + Len(cbs) + i \in 1 .. Len(queue')
    BY <1>1
  <2>2. p[i] \in Fd \X Event /\ waiter[p[i]] \in Task
    BY DEF Moves, TypeInv
  <2>3. queue'[Len(queue) + Len(cbs) + i] = Fiber(waiter[p[i]])
    BY <1>2
  <2>4. Fiber(waiter[p[i]]).kind = "fiber" /\ Fiber(waiter[p[i]]).task = waiter[p[i]]
    BY <2>2, FiberType
  <2>5. QED
    BY <2>1, <2>2, <2>3, <2>4 DEF Entered, Events
<1>6. ASSUME NEW i \in Entered(t)'
      PROVE  \/ i \in Entered(t)
             \/ \E k \in 1 .. Len(cbs) : i = Len(queue) + k /\ cbs[k] \in Alarms(t)
             \/ \E k \in 1 .. Len(p) : i = Len(queue) + Len(cbs) + k /\ p[k] \in Events(t)
  <2>1. i \in 1 .. Len(queue')
    BY DEF Entered
  <2>2. CASE i <= Len(queue)
    <3>1. i \in 1 .. Len(queue)
      BY <1>1, <2>1, <2>2
    <3>2. QED
      BY <1>3, <1>6, <3>1
  <2>3. CASE Len(queue) < i /\ i <= Len(queue) + Len(cbs)
    <3> DEFINE k == i - Len(queue)
    <3>1. k \in 1 .. Len(cbs) /\ i = Len(queue) + k
      BY <1>1, <2>1, <2>3
    <3> HIDE DEF k
    <3>2. QED
      BY <1>4, <1>6, <3>1
  <2>4. CASE Len(queue) + Len(cbs) < i
    <3> DEFINE k == i - (Len(queue) + Len(cbs))
    <3>1. k \in 1 .. Len(p) /\ i = Len(queue) + Len(cbs) + k
      BY <1>1, <2>1, <2>4
    <3> HIDE DEF k
    <3>2. QED
      BY <1>5, <1>6, <3>1
  <2>5. QED
    BY <1>1, <2>1, <2>2, <2>3, <2>4
<1>7. Entered(t) \subseteq 1 .. Len(queue)
  BY DEF Entered
<1>8. QED
  BY <1>3, <1>4, <1>5, <1>6, <1>7

\* The events and timers of t that are left.
LEMMA MovedSources ==
  ASSUME TypeInv, NEW cbs \in Seq(Queued), NEW p \in Seq(Fd \X Event), Moves(cbs, p),
         NEW t \in Task
  PROVE  /\ \A q : q \in Events(t)' <=> q \in Events(t) /\ \A i \in 1 .. Len(p) : p[i] # q
         /\ \A x : x \in Alarms(t)' <=> x \in Alarms(t) /\ \A i \in 1 .. Len(cbs) : cbs[i] # x
<1>1. \A q \in Fd \X Event :
        waiter'[q] = IF \E i \in 1 .. Len(p) : p[i] = q THEN None ELSE waiter[q]
  BY DEF Moves, Triggers
<1>2. t # None
  BY HookAssumption
<1>3. ASSUME NEW q
      PROVE  q \in Events(t)' <=> q \in Events(t) /\ \A i \in 1 .. Len(p) : p[i] # q
  BY <1>1, <1>2 DEF Events
<1>4. ASSUME NEW x
      PROVE  x \in Alarms(t)' <=> x \in Alarms(t) /\ \A i \in 1 .. Len(cbs) : cbs[i] # x
  BY DEF Moves, Alarms
<1>5. QED
  BY <1>3, <1>4

\* Moving to the queue keeps every wake-up and doubles none.
LEMMA WakeMoves ==
  ASSUME TypeInv, NEW cbs \in Seq(Queued), NEW p \in Seq(Fd \X Event), Moves(cbs, p),
         NEW t \in Task, Accounted(t), Callers(t)' = Callers(t),
         pc'[t] \in Waiting <=> pc[t] \in Waiting
  PROVE  Accounted(t)'
<1> DEFINE n == Len(queue)
           m == Len(cbs)
<1>1. /\ \A i \in Entered(t) : i \in Entered(t)'
      /\ \A i \in 1 .. m : n + i \in Entered(t)' <=> cbs[i] \in Alarms(t)
      /\ \A i \in 1 .. Len(p) : n + m + i \in Entered(t)' <=> p[i] \in Events(t)
      /\ \A i \in Entered(t)' :
           \/ i \in Entered(t)
           \/ \E k \in 1 .. m : i = n + k /\ cbs[k] \in Alarms(t)
           \/ \E k \in 1 .. Len(p) : i = n + m + k /\ p[k] \in Events(t)
  BY MovedEntries
<1>2. /\ \A q : q \in Events(t)' <=> q \in Events(t) /\ \A i \in 1 .. Len(p) : p[i] # q
      /\ \A x : x \in Alarms(t)' <=> x \in Alarms(t) /\ \A i \in 1 .. m : cbs[i] # x
  BY MovedSources
<1>3. /\ \A i, j \in 1 .. m : cbs[i] = cbs[j] => i = j
      /\ \A i, j \in 1 .. Len(p) : p[i] = p[j] => i = j
  BY DEF Moves
<1> HIDE DEF n, m
<1>4. CASE Unwaked(t)
  <2>1. Unwaked(t)'
    BY <1>1, <1>2, <1>4 DEF Unwaked
  <2>2. pc[t] \notin Waiting
    BY <1>4 DEF Accounted, Unwaked, Waked, InEvents, InTimers, InThread, InQueue
  <2>3. QED
    BY <2>1, <2>2 DEF Accounted
<1>5. ASSUME Waked(t), Waked(t)' PROVE Accounted(t)'
  <2>1. pc[t] \in Waiting
    BY <1>5 DEF Accounted, Unwaked, Waked, InEvents, InTimers, InThread, InQueue
  <2>2. QED
    BY <1>5, <2>1 DEF Accounted
<1>6. CASE InEvents(t)
  <2>1. PICK q : Events(t) = {q}
    BY <1>6 DEF InEvents
  <2>2. Alarms(t) = {} /\ Callers(t) = {} /\ Entered(t) = {}
    BY <1>6 DEF InEvents
  <2>3. Alarms(t)' = {} /\ Callers(t)' = {}
    BY <1>2, <2>2
  <2>4. CASE \A i \in 1 .. Len(p) : p[i] # q
    <3>1. Events(t)' = {q} /\ Entered(t)' = {}
      BY <1>1, <1>2, <2>1, <2>2, <2>4
    <3>2. InEvents(t)'
      BY <2>3, <3>1 DEF InEvents
    <3>3. QED
      BY <1>5, <1>6, <3>2 DEF Waked
  <2>5. ASSUME NEW k \in 1 .. Len(p), p[k] = q PROVE Accounted(t)'
    <3>1. Events(t)' = {}
      BY <1>2, <2>1, <2>5
    <3>2. n + m + k \in Entered(t)'
      BY <1>1, <2>1, <2>5
    <3>3. ASSUME NEW i \in Entered(t)' PROVE i = n + m + k
      BY <1>1, <1>3, <2>1, <2>2, <2>5
    <3>4. Entered(t)' = {n + m + k}
      BY <3>2, <3>3
    <3>5. InQueue(t)'
      BY <2>3, <3>1, <3>4 DEF InQueue
    <3>6. QED
      BY <1>5, <1>6, <3>5 DEF Waked
  <2>6. QED
    BY <2>4, <2>5
<1>7. CASE InTimers(t)
  <2>1. PICK x : Alarms(t) = {x}
    BY <1>7 DEF InTimers
  <2>2. Events(t) = {} /\ Callers(t) = {} /\ Entered(t) = {}
    BY <1>7 DEF InTimers
  <2>3. Events(t)' = {} /\ Callers(t)' = {}
    BY <1>2, <2>2
  <2>4. CASE \A i \in 1 .. m : cbs[i] # x
    <3>1. Alarms(t)' = {x} /\ Entered(t)' = {}
      BY <1>1, <1>2, <2>1, <2>2, <2>4
    <3>2. InTimers(t)'
      BY <2>3, <3>1 DEF InTimers
    <3>3. QED
      BY <1>5, <1>7, <3>2 DEF Waked
  <2>5. ASSUME NEW k \in 1 .. m, cbs[k] = x PROVE Accounted(t)'
    <3>1. Alarms(t)' = {}
      BY <1>2, <2>1, <2>5
    <3>2. n + k \in Entered(t)'
      BY <1>1, <2>1, <2>5
    <3>3. ASSUME NEW i \in Entered(t)' PROVE i = n + k
      BY <1>1, <1>3, <2>1, <2>2, <2>5
    <3>4. Entered(t)' = {n + k}
      BY <3>2, <3>3
    <3>5. InQueue(t)'
      BY <2>3, <3>1, <3>4 DEF InQueue
    <3>6. QED
      BY <1>5, <1>7, <3>5 DEF Waked
  <2>6. QED
    BY <2>4, <2>5
<1>8. CASE InThread(t) \/ InQueue(t)
  <2>1. Events(t) = {} /\ Alarms(t) = {}
    BY <1>8 DEF InThread, InQueue
  <2>2. Events(t)' = {} /\ Alarms(t)' = {}
    BY <1>2, <2>1
  <2>3. Entered(t)' = Entered(t)
    BY <1>1, <2>1
  <2>4. Waked(t)'
    BY <1>8, <2>2, <2>3 DEF InThread, InQueue, Waked
  <2>5. QED
    BY <1>5, <1>8, <2>4 DEF Waked
<1>9. QED
  BY <1>4, <1>6, <1>7, <1>8 DEF Accounted, Waked

\* A round of idle.
LEMMA WakeIdle ==
  ASSUME TypeInv, WakeInv, NEW x \in SUBSET armed, NEW es \in SUBSET Watched,
         IdlePass(x, es)
  PROVE  WakeInv'
<1> SUFFICES ASSUME NEW t \in Task PROVE Accounted(t)'
  BY DEF WakeInv
<1>1. /\ failure = "none" /\ job.kind = "epoll" /\ job' = Pick /\ pc' = pc
      /\ armed' = armed \ x
  BY DEF IdlePass, Doing, Work, taskVars, Expired
<1>2. Careless
  BY <1>1 DEF Careless, TypeInv, Pick, Entry
<1>3. PICK cbs \in Seq(Queued), p \in Seq(Fd \X Event) : IdleOrder(x, es, cbs, p) /\ Triggers(cbs, p)
  BY IdleParts
<1>4. \A i \in 1 .. Len(cbs) : cbs[i] \in x
  BY <1>3 DEF IdleOrder
<1>5. armed' = {y \in armed : \A i \in 1 .. Len(cbs) : cbs[i] # y}
  <2>1. \A y \in x : \E i \in 1 .. Len(cbs) : cbs[i] = y
    BY <1>3 DEF IdleOrder
  <2>2. QED
    BY <1>1, <1>4, <2>1
<1>6. \A i \in 1 .. Len(p) : p[i] \in Fd \X Event /\ waiter[p[i]] # None
  BY <1>3 DEF IdleOrder
<1>7. /\ \A i, j \in 1 .. Len(cbs) : cbs[i] = cbs[j] => i = j
      /\ \A i, j \in 1 .. Len(p) : p[i] = p[j] => i = j
  BY <1>3 DEF IdleOrder
<1>8. Moves(cbs, p)
  BY <1>3, <1>4, <1>5, <1>6, <1>7 DEF Moves
<1>9. QED
  BY <1>1, <1>2, <1>8, CallersStay, WakeMoves DEF WakeInv

\* One event that is triggered.
LEMMA WakeCancel ==
  ASSUME TypeInv, WakeInv, CancelEvent
  PROVE  WakeInv'
<1> SUFFICES ASSUME NEW t \in Task PROVE Accounted(t)'
  BY DEF WakeInv
<1> DEFINE q == <<job.fd, job.ev>>
<1>1. /\ failure = "none" /\ job.kind = "cancel" /\ job' = Pick
      /\ pc' = pc /\ armed' = armed
  BY CancelParts DEF CancelEvent, Doing
<1>2. Careless
  BY <1>1 DEF Careless, TypeInv, Pick, Entry
<1>3. Callers(t)' = Callers(t) /\ Accounted(t)
  BY <1>1, <1>2, CallersStay DEF WakeInv
<1>4. q \in Fd \X Event
  BY CancelParts
<1>5. CASE waiter[q] = None
  <2>1. queue' = queue /\ waiter' = waiter
    BY <1>5, CancelParts
  <2>2. Stays(t)
    BY <1>1, <1>3, <2>1 DEF Stays, Events, Alarms, Entered
  <2>3. QED
    BY <1>1, <1>3, <2>2, WakeStays
<1>6. CASE waiter[q] # None
  <2> DEFINE p == <<q>>
             none == <<>>
  <2>1. Trigger(none, p)
    BY <1>6, CancelParts
  <2>2. /\ p \in Seq(Fd \X Event) /\ none \in Seq(Queued) /\ Len(p) = 1 /\ Len(none) = 0
        /\ p[1] = q
    BY <1>4
  <2> HIDE DEF p, none, q
  <2>3. \A i \in 1 .. Len(p) : p[i] \in Fd \X Event /\ waiter[p[i]] # None
    BY <1>4, <1>6, <2>2
  <2>4. Triggers(none, p)
    BY <2>1, <2>2, <2>3, Triggered
  <2>5. Moves(none, p)
    BY <1>1, <2>2, <2>3, <2>4 DEF Moves
  <2>6. QED
    BY <1>1, <1>3, <2>2, <2>5, WakeMoves
<1>7. QED
  BY <1>5, <1>6

\* The callback of a sleep becomes the fiber's entry in the queue.
LEMMA WakeWake ==
  ASSUME TypeInv, WakeInv, Wake
  PROVE  WakeInv'
<1> SUFFICES ASSUME NEW t \in Task PROVE Accounted(t)'
  BY DEF WakeInv
<1> DEFINE r == job.task
<1>1. /\ failure = "none" /\ job.kind = "wake" /\ job' = Pick
      /\ pc' = pc /\ armed' = armed /\ waiter' = waiter /\ r \in Task
      /\ queue' = Append(queue, Fiber(r))
  BY JobType DEF Wake, Doing, Work, taskVars, timerVars, eventVars
<1>2. Accounted(t) /\ Events(t)' = Events(t) /\ Alarms(t)' = Alarms(t)
  BY <1>1 DEF WakeInv, Events, Alarms
<1>3. Pick.kind # "wake"
  BY DEF Pick, Entry
<1>4. Callers(t)' = {}
  BY <1>1, <1>3 DEF Callers
<1>5. Callers(t) = IF r = t THEN {job} ELSE {}
  BY <1>1 DEF Callers
<1> HIDE DEF r
<1>6. /\ Len(queue') = Len(queue) + 1 /\ Len(queue) \in Nat
      /\ \A i \in 1 .. Len(queue) : queue'[i] = queue[i]
      /\ queue'[Len(queue) + 1] = Fiber(r)
  BY <1>1, FiberType, Added
<1>7. Fiber(r).kind = "fiber" /\ Fiber(r).task = r
  BY <1>1, FiberType
<1>8. ASSUME NEW i \in 1 .. Len(queue')
      PROVE  i \in Entered(t)' <=> i \in Entered(t) \/ (i = Len(queue) + 1 /\ r = t)
  <2>1. CASE i \in 1 .. Len(queue)
    <3>1. i # Len(queue) + 1 /\ queue'[i] = queue[i]
      BY <1>6, <2>1
    <3>2. QED
      BY <2>1, <3>1 DEF Entered
  <2>2. CASE i = Len(queue) + 1
    <3>1. i \notin 1 .. Len(queue)
      BY <1>6, <2>2
    <3>2. QED
      BY <1>6, <1>7, <2>2, <3>1 DEF Entered
  <2>3. QED
    BY <1>6, <2>1, <2>2
<1>9. Entered(t) \subseteq 1 .. Len(queue') /\ Entered(t)' \subseteq 1 .. Len(queue')
      /\ Len(queue) + 1 \in 1 .. Len(queue')
  BY <1>6 DEF Entered
<1>10. CASE r # t
  <2>1. Callers(t)' = Callers(t)
    BY <1>4, <1>5, <1>10
  <2>2. Entered(t)' = Entered(t)
    BY <1>8, <1>9, <1>10
  <2>3. QED
    BY <1>1, <1>2, <2>1, <2>2, WakeStays DEF Stays
<1>11. CASE r = t
  <2>1. InThread(t) /\ pc[t] \in Waiting
    BY <1>2, <1>5, <1>11, WakeIsOne
  <2>2. Events(t)' = {} /\ Alarms(t)' = {} /\ Entered(t) = {}
    BY <1>2, <2>1 DEF InThread
  <2>3. Entered(t)' = {Len(queue) + 1}
    BY <1>8, <1>9, <1>11, <2>2
  <2>4. InQueue(t)'
    BY <1>4, <2>2, <2>3 DEF InQueue
  <2>5. QED
    BY <1>1, <2>1, <2>4 DEF Accounted, Waked
<1>12. QED
  BY <1>10, <1>11

\* The other steps of the thread.
LEMMA WakeThread ==
  ASSUME TypeInv, WakeInv, GoIdle \/ Callback \/ IdleRound
  PROVE  WakeInv'
<1>1. ASSUME GoIdle \/ Timeout PROVE WakeInv'
  <2> SUFFICES ASSUME NEW t \in Task PROVE Accounted(t)'
    BY DEF WakeInv
  <2>1. /\ failure = "none" /\ job.kind \in {"pick", "timeout"} /\ pc' = pc
        /\ armed' = armed /\ waiter' = waiter /\ queue' = queue
    BY <1>1 DEF GoIdle, Timeout, Doing, taskVars, timerVars, eventVars
  <2>2. job'.kind # "wake"
    <3>1. CASE GoIdle
      BY <3>1 DEF GoIdle, Work, TypeInv, Epoll, Entry
    <3>2. CASE Timeout
      <4>1. job \in Work4({"timeout"})
        BY <3>2 DEF Timeout, Doing, TypeInv, Jobs, Work4, Pick, Epoll, Entry
      <4>2. [job EXCEPT !.kind = "cancel"].kind = "cancel" /\ Pick.kind = "pick"
        BY <4>1 DEF Work4, Pick, Entry
      <4>3. \/ job' = [job EXCEPT !.kind = "cancel"]
            \/ job' = Pick
        BY <3>2 DEF Timeout, Work
      <4>4. QED
        BY <4>2, <4>3 DEF TypeInv
    <3>3. QED
      BY <1>1, <3>1, <3>2
  <2>3. Careless
    BY <2>1, <2>2 DEF Careless
  <2>4. Callers(t)' = Callers(t)
    BY <2>3, CallersStay
  <2>5. Stays(t)
    BY <2>1, <2>4 DEF Stays, Events, Alarms, Entered
  <2>6. QED
    BY <2>1, <2>5, WakeStays DEF WakeInv
<1>2. QED
  BY <1>1, WakeCancel, WakeWake, WakeIdle DEF Callback, IdleRound

\* Steps of a task that do not touch what wakes anybody.
LEMMA WakeSame ==
  ASSUME TypeInv, WakeInv, failure = "none", NEW t \in Task,
         queue' = queue, waiter' = waiter, Careless,
         \A x : x.kind = "wake" => (x \in armed' <=> x \in armed),
         \A u \in Task \ {t} : pc'[u] = pc[u],
         pc'[t] \in Waiting <=> pc[t] \in Waiting
  PROVE  WakeInv'
<1> SUFFICES ASSUME NEW u \in Task PROVE Accounted(u)'
  BY DEF WakeInv
<1>1. Callers(u)' = Callers(u)
  BY CallersStay
<1>2. Alarms(u)' = Alarms(u)
  BY DEF Alarms
<1>3. Stays(u)
  BY <1>1, <1>2 DEF Stays, Events, Entered
<1>4. pc'[u] \in Waiting <=> pc[u] \in Waiting
  OBVIOUS
<1>5. QED
  BY <1>3, <1>4, WakeStays DEF WakeInv

\* A task that gives up the thread was running there.
LEMMA LeftCareless ==
  ASSUME RunInv, NEW t \in Task, pc[t] \notin Away, job' = job \/ Work(Pick)
  PROVE  Careless
<1>1. job.kind = "fiber" /\ Pick.kind = "pick"
  BY FiberType DEF RunInv, Pick, Entry
<1>2. QED
  BY <1>1 DEF Careless, Work

\* A sleep arms the timer that will wake it.
LEMMA WakeSleep ==
  ASSUME TypeInv, WakeInv, NEW t \in Task, CallSleep(t)
  PROVE  WakeInv'
<1> SUFFICES ASSUME NEW u \in Task PROVE Accounted(u)'
  BY DEF WakeInv
<1>1. PICK c \in Asked : /\ Begin(t, c, "yield") /\ armed' = armed \cup {Entry("wake", t, c)}
                         /\ queue' = queue /\ job' = job
  BY SleepBegins
<1>2. waiter' = waiter /\ "yield" \in Place
  BY DEF CallSleep, eventVars, Place, IoPC
<1>3. /\ failure = "none" /\ pc[t] = "program" /\ pc'[t] = "yield"
      /\ \A v \in Task \ {t} : pc'[v] = pc[v]
  BY <1>1, <1>2, Begun
<1>4. Accounted(u)
  BY <1>3 DEF WakeInv
<1> DEFINE y == Entry("wake", t, c)
<1>5. y.kind = "wake" /\ y.task = t /\ armed' = armed \cup {y}
  BY <1>1 DEF Entry
<1> HIDE DEF y
<1>6. Events(u)' = Events(u) /\ Callers(u)' = Callers(u) /\ Entered(u)' = Entered(u)
  BY <1>1, <1>2 DEF Events, Callers, Entered
<1>7. CASE u # t
  <2>1. Alarms(u)' = Alarms(u)
    BY <1>5, <1>7 DEF Alarms
  <2>2. QED
    BY <1>3, <1>4, <1>6, <1>7, <2>1, WakeStays DEF Stays
<1>8. CASE u = t
  <2>1. Unwaked(t)
    BY <1>3, <1>4, <1>8 DEF Accounted, Waiting
  <2>2. Alarms(t)' = {y}
    BY <1>5, <2>1 DEF Unwaked, Alarms
  <2>3. InTimers(t)'
    BY <1>6, <1>8, <2>1, <2>2 DEF Unwaked, InTimers
  <2>4. QED
    BY <1>3, <1>8, <2>3 DEF Accounted, Waked, Waiting
<1>9. QED
  BY <1>7, <1>8

\* close() moves the wake-ups of those that wait for the descriptor.
LEMMA WakeClose ==
  ASSUME TypeInv, WakeInv, NEW t \in Task, NEW f \in Fd, CallClose(t, f)
  PROVE  WakeInv'
<1> SUFFICES ASSUME NEW u \in Task PROVE Accounted(u)'
  BY DEF WakeInv
<1>1. /\ failure = "none" /\ job' = job /\ armed' = armed
      /\ (queue' = queue /\ waiter' = waiter) \/ CancelAll(f)
  BY DEF CallClose, Begin, At, eventVars
<1>2. pc[t] = "program" /\ pc'[t] \in {"del", "closef"} /\ \A v \in Task \ {t} : pc'[v] = pc[v]
  BY DEF CallClose, Begin, At, Goto, TypeInv
<1>3. pc'[u] \in Waiting <=> pc[u] \in Waiting
  BY <1>2 DEF Waiting
<1>4. Callers(u)' = Callers(u) /\ Accounted(u)
  BY <1>1 DEF Callers, WakeInv
<1>5. CASE queue' = queue /\ waiter' = waiter
  BY <1>1, <1>3, <1>4, <1>5, WakeStays DEF Stays, Events, Alarms, Entered
<1>6. CASE CancelAll(f) /\ Here(f) # <<>>
  <2> DEFINE p == Here(f)
             none == <<>>
  <2>1. Trigger(none, p)
    BY <1>6 DEF CancelAll, Here, Waits
  <2>2. /\ p \in Seq(Fd \X Event) /\ \A i \in 1 .. Len(p) : p[i] \in {f} \X Event /\ waiter[p[i]] # None
        /\ \A i, j \in 1 .. Len(p) : p[i] = p[j] => i = j
    BY HereIs
  <2>3. none \in Seq(Queued) /\ Len(none) = 0
    OBVIOUS
  <2> HIDE DEF p, none
  <2>4. \A i \in 1 .. Len(p) : p[i] \in Fd \X Event /\ waiter[p[i]] # None
    BY <2>2
  <2>5. Triggers(none, p)
    BY <2>1, <2>2, <2>3, <2>4, Triggered
  <2>6. Moves(none, p)
    BY <1>1, <2>2, <2>3, <2>4, <2>5 DEF Moves
  <2>7. QED
    BY <1>3, <1>4, <2>2, <2>3, <2>6, WakeMoves
<1>7. CASE CancelAll(f) /\ Here(f) = <<>>
  <2>1. queue' = queue /\ waiter' = waiter
    BY <1>7 DEF CancelAll, Here, Waits, eventVars
  <2>2. QED
    BY <1>5, <2>1
<1>8. QED
  BY <1>1, <1>5, <1>6, <1>7

\* The calls of the program keep WakeInv.
LEMMA WakeProgram ==
  ASSUME TypeInv, RunInv, WakeInv, NEW t \in Task, Program(t)
  PROVE  WakeInv'
<1>1. ASSUME Finish(t) PROVE WakeInv'
  <2>1. /\ failure = "none" /\ pc[t] = "program" /\ queue' = queue /\ waiter' = waiter
        /\ armed' = armed
    BY <1>1 DEF Finish, At, timerVars, eventVars
  <2>2. pc'[t] = "done" /\ \A u \in Task \ {t} : pc'[u] = pc[u]
    BY <1>1, Moved DEF Finish, Place
  <2>3. Careless
    BY <1>1, <2>1, LeftCareless DEF Finish, Away
  <2>4. pc'[t] \in Waiting <=> pc[t] \in Waiting
    BY <2>1, <2>2 DEF Waiting
  <2>5. QED
    BY <2>1, <2>2, <2>3, <2>4, WakeSame
<1>2. ASSUME ~CallSleep(t), ~Finish(t), queue' = queue, waiter' = waiter PROVE WakeInv'
  <2>1. PICK c \in Asked, where \in Place :
          /\ Begin(t, c, where) /\ armed' = armed /\ job' = job
          /\ where \in {"plain", "try", "create", "del", "closef", "program"}
    BY <1>2, Begins
  <2>2. /\ failure = "none" /\ pc[t] = "program" /\ pc'[t] = where
        /\ \A u \in Task \ {t} : pc'[u] = pc[u]
    BY <2>1, Begun
  <2>3. pc'[t] \in Waiting <=> pc[t] \in Waiting
    BY <2>1, <2>2 DEF Waiting
  <2>4. Careless
    BY <2>1 DEF Careless
  <2>5. QED
    BY <1>2, <2>1, <2>2, <2>3, <2>4, WakeSame
<1>3. ASSUME \/ \E f \in Fd : CallSocket(t, f)
             \/ \E f \in Fd, e \in Event : CallIo(t, f, e) \/ CallTimeout(t, f, e)
             \/ \E f \in Fd, b \in BOOLEAN : CallSetFl(t, f, b)
             \/ \E f \in Fd, b \in setup.ioctl : CallIoctl(t, f, b)
      PROVE  queue' = queue /\ waiter' = waiter
  BY <1>3 DEF CallSocket, CallIo, CallTimeout, CallSetFl, CallIoctl, eventVars
<1>4. QED
  BY <1>1, <1>2, <1>3, WakeSleep, WakeClose DEF Program

\* addEvent puts the fiber where the event, a timeout or a close will find it.
LEMMA WakeAdd ==
  ASSUME TypeInv, WakeInv, NEW t \in Task, AddEvent(t)
  PROVE  WakeInv'
<1> SUFFICES ASSUME failure' = "none", NEW u \in Task PROVE Accounted(u)'
  BY DEF WakeInv
<1> DEFINE p == <<call[t].fd, call[t].ev>>
<1>1. /\ failure = "none" /\ pc[t] = "add" /\ armed' = armed /\ queue' = queue /\ job' = job
  BY DEF AddEvent, At, timerVars
<1>2. pc'[t] = "yield" /\ \A v \in Task \ {t} : pc'[v] = pc[v]
  BY Moved DEF AddEvent, Place, IoPC
<1>3. p \in Fd \X Event
  BY <1>1 DEF TypeInv, Asked, Targets, Started
<1>4. waiter[p] = None /\ waiter' = [waiter EXCEPT ![p] = t]
  BY DEF AddEvent
<1> HIDE DEF p
<1>5. \A q \in Fd \X Event : waiter'[q] = IF q = p THEN t ELSE waiter[q]
  BY <1>3, <1>4 DEF TypeInv
<1>6. Accounted(u) /\ Alarms(u)' = Alarms(u) /\ Callers(u)' = Callers(u) /\ Entered(u)' = Entered(u)
  BY <1>1 DEF WakeInv, Alarms, Callers, Entered
<1>7. CASE u # t
  <2>1. u # None
    BY HookAssumption
  <2>2. Events(u)' = Events(u)
    BY <1>4, <1>5, <1>7, <2>1 DEF Events
  <2>3. QED
    BY <1>2, <1>6, <1>7, <2>2, WakeStays DEF Stays
<1>8. CASE u = t
  <2>1. Unwaked(t)
    BY <1>1, <1>6, <1>8 DEF Accounted, Waiting
  <2>2. Events(t)' = {p}
    BY <1>3, <1>5, <2>1 DEF Unwaked, Events
  <2>3. InEvents(t)'
    BY <1>6, <1>8, <2>1, <2>2 DEF Unwaked, InEvents
  <2>4. QED
    BY <1>2, <1>8, <2>3 DEF Accounted, Waked, Waiting
<1>9. QED
  BY <1>7, <1>8

\* The steps of a call keep WakeInv.
LEMMA WakeCallStep ==
  ASSUME TypeInv, RunInv, WakeInv, NEW t \in Task, CallStep(t) \/ Unblock(t)
  PROVE  WakeInv'
<1>1. ASSUME SystemCall(t) \/ Unblock(t) PROVE WakeInv'
  <2>1. failure = "none"
    BY <1>1 DEF SystemCall, Unblock, At
  <2>2. /\ queue' = queue /\ waiter' = waiter /\ armed' = armed /\ job' = job
        /\ \A u \in Task \ {t} : pc'[u] = pc[u]
        /\ pc'[t] \notin Waiting /\ pc[t] \notin Waiting
    BY <1>1, SystemCallMoves DEF Waiting
  <2>3. Careless
    BY <2>2 DEF Careless
  <2>4. QED
    BY <2>1, <2>2, <2>3, WakeSame
<1>2. ASSUME Arm(t) \/ Yield(t) \/ Del(t) PROVE WakeInv'
  <2>1. /\ failure = "none" /\ queue' = queue /\ waiter' = waiter
        /\ pc[t] \notin Away
        /\ job' = job \/ Work(Pick)
    BY <1>2 DEF Arm, Yield, Del, At, Away, eventVars
  <2>2. \A x : x.kind = "wake" => (x \in armed' <=> x \in armed)
    <3>1. CASE armed' = armed
      BY <3>1
    <3>2. CASE armed' = armed \cup {Entry("timeout", t, call[t])}
      BY <3>2 DEF Entry
    <3>3. QED
      BY <1>2, <3>1, <3>2 DEF Arm, Yield, Del, timerVars
  <2>3. /\ pc'[t] \in Waiting <=> pc[t] \in Waiting
        /\ \A u \in Task \ {t} : pc'[u] = pc[u]
    BY <1>2, Moved DEF Arm, Yield, Del, At, Waiting, Place, IoPC
  <2>4. Careless
    BY <2>1, LeftCareless
  <2>5. QED
    BY <2>1, <2>2, <2>3, <2>4, WakeSame
<1>3. ASSUME Create(t) \/ CloseF(t) PROVE WakeInv'
  <2>1. /\ failure = "none" /\ pc[t] \in {"create", "closef"} /\ queue' = queue
        /\ waiter' = waiter /\ armed' = armed /\ job' = job /\ Return(t, "none")
    BY <1>3 DEF Create, CloseF, At, timerVars, eventVars
  <2>2. pc'[t] = "program" /\ \A u \in Task \ {t} : pc'[u] = pc[u]
    BY <2>1, Returned
  <2>3. Careless /\ (pc'[t] \in Waiting <=> pc[t] \in Waiting)
    BY <2>1, <2>2 DEF Careless, Waiting
  <2>4. QED
    BY <2>1, <2>2, <2>3, WakeSame
<1>4. ASSUME Resume(t) PROVE WakeInv'
  <2>1. /\ failure = "none" /\ pc[t] = "woken" /\ armed' = {x \in armed : x.task # t}
        /\ queue' = queue /\ waiter' = waiter /\ job' = job
        /\ SleepOver(t) \/ TimedOut(t) \/ Retries(t)
    BY <1>4, ResumeParts
  <2>2. pc'[t] \in {"program", "try"} /\ \A u \in Task \ {t} : pc'[u] = pc[u]
    <3>1. CASE SleepOver(t) \/ TimedOut(t)
      BY <3>1, Returned DEF SleepOver, TimedOut
    <3>2. CASE Retries(t)
      BY <3>2, Moved DEF Retries, Place, IoPC
    <3>3. QED
      BY <2>1, <3>1, <3>2
  <2>3. Unwaked(t)
    BY <2>1 DEF WakeInv, Accounted, Waiting
  <2>4. \A x : x.kind = "wake" => (x \in armed' <=> x \in armed)
    BY <2>1, <2>3 DEF Unwaked, Alarms
  <2>5. Careless /\ (pc'[t] \in Waiting <=> pc[t] \in Waiting)
    BY <2>1, <2>2 DEF Careless, Waiting
  <2>6. QED
    BY <2>1, <2>2, <2>4, <2>5, WakeSame
<1>5. QED
  BY <1>1, <1>2, <1>3, <1>4, WakeAdd DEF CallStep

\* Every step keeps WakeInv.
LEMMA WakeStep == TypeInv /\ RunInv /\ WakeInv /\ [Next]_vars => WakeInv'
<1> SUFFICES ASSUME TypeInv, RunInv, WakeInv, [Next]_vars PROVE WakeInv'
  OBVIOUS
<1>1. CASE UNCHANGED vars
  <2>1. UNCHANGED <<queue, job, pc, armed, waiter, failure>>
    BY <1>1 DEF vars, taskVars, timerVars, eventVars
  <2>2. ASSUME NEW t \in Task, failure = "none" PROVE Accounted(t)'
    <3>1. Stays(t)
      BY <2>1 DEF Stays, Events, Alarms, Callers, Entered
    <3>2. QED
      BY <2>1, <2>2, <3>1, WakeStays DEF WakeInv
  <2>3. QED
    BY <2>1, <2>2 DEF WakeInv
<1>2. QED
  BY <1>1, WakeTake, WakeThread, WakeProgram, WakeCallStep DEF Next

\* The counts of sets of one element and of none.
LEMMA WakesCounted ==
  ASSUME NEW t \in Task, Accounted(t)
  PROVE  Wakes(t) = IF pc[t] \in {"new", "yield", "wait"} THEN 1 ELSE 0
<1>1. Wakes(t) = Cardinality(Events(t)) + Cardinality(Alarms(t)) + Cardinality(Callers(t))
                   + Cardinality(Entered(t))
  <2>1. CASE job.kind = "wake" /\ job.task = t
    <3>1. Callers(t) = {job}
      BY <2>1 DEF Callers
    <3>2. Cardinality(Callers(t)) = 1
      BY <3>1, FS_Singleton
    <3>3. QED
      BY <2>1, <3>2 DEF Wakes, Events, Alarms, Entered
  <2>2. CASE ~(job.kind = "wake" /\ job.task = t)
    <3>1. Callers(t) = {}
      BY <2>2 DEF Callers
    <3>2. Cardinality(Callers(t)) = 0
      BY <3>1, FS_EmptySet
    <3>3. QED
      BY <2>2, <3>2 DEF Wakes, Events, Alarms, Entered
  <2>3. QED
    BY <2>1, <2>2
<1>2. Cardinality({}) = 0
  BY FS_EmptySet
<1>3. \A x : Cardinality({x}) = 1
  BY FS_Singleton
<1>4. CASE pc[t] \in Waiting
  <2>1. InEvents(t) \/ InTimers(t) \/ InThread(t) \/ InQueue(t)
    BY <1>4 DEF Accounted, Waked
  <2>2. CASE InEvents(t)
    <3>1. /\ Cardinality(Events(t)) = 1
          /\ Cardinality(Alarms(t)) = 0 /\ Cardinality(Callers(t)) = 0 /\ Cardinality(Entered(t)) = 0
      BY <1>2, <1>3, <2>2 DEF InEvents
    <3>2. QED
      BY <1>1, <1>4, <3>1 DEF Waiting
  <2>3. CASE InTimers(t)
    <3>1. /\ Cardinality(Alarms(t)) = 1
          /\ Cardinality(Events(t)) = 0 /\ Cardinality(Callers(t)) = 0 /\ Cardinality(Entered(t)) = 0
      BY <1>2, <1>3, <2>3 DEF InTimers
    <3>2. QED
      BY <1>1, <1>4, <3>1 DEF Waiting
  <2>4. CASE InThread(t)
    <3>1. /\ Cardinality(Callers(t)) = 1
          /\ Cardinality(Events(t)) = 0 /\ Cardinality(Alarms(t)) = 0 /\ Cardinality(Entered(t)) = 0
      BY <1>2, <1>3, <2>4 DEF InThread
    <3>2. QED
      BY <1>1, <1>4, <3>1 DEF Waiting
  <2>5. CASE InQueue(t)
    <3>1. /\ Cardinality(Entered(t)) = 1
          /\ Cardinality(Events(t)) = 0 /\ Cardinality(Alarms(t)) = 0 /\ Cardinality(Callers(t)) = 0
      BY <1>2, <1>3, <2>5 DEF InQueue
    <3>2. QED
      BY <1>1, <1>4, <3>1 DEF Waiting
  <2>6. QED
    BY <2>1, <2>2, <2>3, <2>4, <2>5
<1>5. CASE pc[t] \notin Waiting
  BY <1>1, <1>2, <1>5 DEF Accounted, Unwaked, Waiting
<1>6. QED
  BY <1>4, <1>5

\* A fiber that waits has exactly one thing that will resume it, whichever of the
\* event, the timeout and a close comes first, and one that runs has none: no
\* wake-up is lost and none is delivered twice.
THEOREM WokenOnce == Spec => []OneWake
<1>1. WakeInv => OneWake
  BY WakesCounted DEF WakeInv, OneWake
<1>2. TypeInv /\ RunInv /\ WakeInv /\ TypeInv' /\ [Next]_vars => RunInv' /\ WakeInv'
  BY RunStep, WakeStep
<1>3. QED
  BY RunStart, WakeStart, TypeAlways, <1>1, <1>2, PTL DEF Spec

---------------------------------------------------------------------------
\* The bound on the number of calls, and the rest of the types.

\* No number is larger than the number of calls the tasks may make, and epoll
\* watches only descriptors that the kernel has.
BoundInv ==
  /\ \A t \in Task : call[t].n <= setup.calls
  /\ \A i \in 1 .. Len(queue) : queue[i].n <= setup.calls
  /\ job.n <= setup.calls
  /\ watched \subseteq open

\* The calls of one task alone do not reach the bound when it begins another.
LEMMA OneMoreCall ==
  ASSUME TypeInv, NEW t \in Task, Cardinality(Calls) < setup.calls
  PROVE  call[t].n + 1 <= setup.calls
<1>1. setup.calls \in Nat /\ call[t].n \in Nat
  BY HookAssumption DEF TypeInv, Asked
<1> DEFINE I == 1 .. setup.calls
           Mine == {t} \X I
<1>2. IsFiniteSet(I) /\ Cardinality(I) = setup.calls
  <2>1. \A b \in Int : IsFiniteSet(1 .. b) /\ Cardinality(1 .. b) = IF 1 > b THEN 0 ELSE b - 1 + 1
    BY FS_Interval
  <2>2. setup.calls \in Int /\ (setup.calls = 0 \/ ~(1 > setup.calls))
    BY <1>1
  <2>3. QED
    BY <1>1, <2>1, <2>2
<1>3. IsFiniteSet({t}) /\ Cardinality({t}) = 1
  BY FS_Singleton
<1>4. Cardinality(Mine) = setup.calls
  <2>1. Cardinality(Mine) = Cardinality({t}) * Cardinality(I)
    BY <1>2, <1>3, FS_Product
  <2>2. QED
    BY <1>1, <1>2, <1>3, <2>1
<1>5. IsFiniteSet(Calls)
  <2>1. IsFiniteSet(Task \X I)
    BY <1>2, HookAssumption, FS_Product
  <2>2. Calls \in SUBSET (Task \X I)
    BY DEF Calls
  <2>3. QED
    BY <2>1, <2>2, FS_Subset
<1>6. ASSUME setup.calls <= call[t].n PROVE FALSE
  <2>1. ASSUME NEW c \in Mine PROVE c \in Calls
    <3>1. c \in Task \X I /\ c[1] = t /\ c[2] \in I
      BY <2>1
    <3>2. c[2] <= call[c[1]].n
      BY <1>1, <1>6, <3>1
    <3>3. QED
      BY <3>1, <3>2 DEF Calls
  <2>2. Mine \in SUBSET Calls
    BY <2>1
  <2>3. Cardinality(Mine) <= Cardinality(Calls)
    BY <1>5, <2>2, FS_Subset
  <2>4. Cardinality(Calls) \in Nat
    BY <1>5, FS_CardinalityType
  <2>5. QED
    BY <1>1, <1>4, <2>3, <2>4
<1>7. QED
  BY <1>1, <1>6

\* Nothing has been called at first.
LEMMA BoundStart == Init => BoundInv
<1> SUFFICES ASSUME Init PROVE BoundInv
  OBVIOUS
<1>1. setup \in Setups /\ setup.calls \in Nat
  BY HookAssumption DEF Init
<1>2. /\ \A t \in Task : call[t] = NoCall
      /\ job = Pick
      /\ watched = {}
  BY DEF Init
<1>3. NoCall.n = 0 /\ Pick.n = 0
  BY DEF NoCall, Pick, Entry
<1>4. \A i \in 1 .. Len(queue) : queue[i].n = 0
  <2>1. queue = [i \in 1 .. Cardinality(Task) |-> Fiber(SetToSeq(Task)[i])]
    BY DEF Init
  <2>2. \A i \in 1 .. Cardinality(Task) : Fiber(SetToSeq(Task)[i]).n = 0
    BY DEF Fiber, Entry, NoCall
  <2>3. Len(queue) = Cardinality(Task)
    BY <2>1, FirstOrder
  <2>4. QED
    BY <2>1, <2>2, <2>3
<1>5. QED
  BY <1>1, <1>2, <1>3, <1>4 DEF BoundInv

\* The numbers after a step are those before it, or none; a queue entry may be
\* a timer that was armed.
NumbersFrom ==
  /\ \A i \in 1 .. Len(queue') :
       \/ \E j \in 1 .. Len(queue) : queue'[i] = queue[j]
       \/ \E t \in Task : queue'[i] = Fiber(t)
       \/ queue'[i] \in armed
  /\ \/ job'.n = job.n
     \/ job'.n = 0
     \/ \E i \in 1 .. Len(queue) : job' = queue[i]

\* Steps that take numbers from what is there keep the bound.
LEMMA BoundKept ==
  ASSUME TypeInv, NoStrayTimer, BoundInv, NumbersFrom, setup' = setup,
         \A t \in Task : call'[t].n = call[t].n \/ call'[t].n <= setup.calls,
         watched' \subseteq open'
  PROVE  BoundInv'
<1>1. setup.calls \in Nat /\ 0 <= setup.calls
  BY HookAssumption DEF TypeInv
<1>2. \A x \in armed : x.n <= setup.calls
  BY DEF TypeInv, Timers, Work4, NoStrayTimer, BoundInv
<1>3. \A i \in 1 .. Len(queue') : queue'[i].n <= setup.calls
  <2> SUFFICES ASSUME NEW i \in 1 .. Len(queue') PROVE queue'[i].n <= setup.calls
    OBVIOUS
  <2>1. CASE \E j \in 1 .. Len(queue) : queue'[i] = queue[j]
    BY <2>1 DEF BoundInv
  <2>2. CASE \E t \in Task : queue'[i] = Fiber(t)
    BY <1>1, <2>2 DEF Fiber, Entry, NoCall
  <2>3. CASE queue'[i] \in armed
    BY <1>2, <2>3
  <2>4. QED
    BY <2>1, <2>2, <2>3 DEF NumbersFrom
<1>4. job'.n <= setup.calls
  BY <1>1 DEF NumbersFrom, BoundInv
<1>5. \A t \in Task : call'[t].n <= setup.calls
  BY DEF BoundInv
<1>6. QED
  BY <1>3, <1>4, <1>5 DEF BoundInv

\* The thread takes an entry, goes idle or runs a callback.
LEMMA BoundThread ==
  ASSUME TypeInv, NoStrayTimer, BoundInv, Take \/ GoIdle \/ Callback
  PROVE  BoundInv'
<1>1. call' = call /\ setup' = setup /\ open' = open
  BY DEF Take, GoIdle, Callback, Timeout, CancelEvent, Wake, taskVars, kernelVars
<1>2. watched' \subseteq open'
  <2>1. watched' \subseteq watched
    <3>1. CASE CancelEvent
      BY <3>1, CancelParts, OneTriggered
    <3>2. CASE ~CancelEvent
      BY <3>2 DEF Take, GoIdle, Callback, Timeout, Wake, eventVars
    <3>3. QED
      BY <3>1, <3>2
  <2>2. QED
    BY <1>1, <2>1 DEF BoundInv
<1>3. Pick.n = 0 /\ Epoll.n = 0
  BY DEF Pick, Epoll, Entry, NoCall
<1>4. CASE Take
  <2>1. job' = Head(queue) /\ queue' = Tail(queue) /\ queue # <<>>
    BY <1>4, TakeParts
  <2>2. /\ Head(queue) = queue[1] /\ Len(queue) \in Nat \ {0}
        /\ \A i \in 1 .. Len(Tail(queue)) :
             i + 1 \in 1 .. Len(queue) /\ Tail(queue)[i] = queue[i + 1]
    BY <2>1, Taken
  <2>3. 1 \in 1 .. Len(queue)
    BY <2>2
  <2>4. \A i \in 1 .. Len(queue') : \E j \in 1 .. Len(queue) : queue'[i] = queue[j]
    BY <2>1, <2>2
  <2>5. job' = queue[1]
    BY <2>1, <2>2
  <2>6. NumbersFrom
    BY <2>3, <2>4, <2>5 DEF NumbersFrom
  <2>7. QED
    BY <1>1, <1>2, <2>6, BoundKept
<1>5. CASE GoIdle \/ Callback
  <2>1. job'.n = job.n \/ job'.n = 0
    <3>1. CASE Timeout
      <4>1. job \in Work4({"timeout"})
        BY <3>1 DEF Timeout, Doing, TypeInv, Jobs, Work4, Pick, Epoll, Entry
      <4>2. [job EXCEPT !.kind = "cancel"].n = job.n
        BY <4>1 DEF Work4
      <4>3. \/ job' = [job EXCEPT !.kind = "cancel"]
            \/ job' = Pick
        BY <3>1 DEF Timeout, Work
      <4>4. QED
        BY <1>3, <4>2, <4>3 DEF TypeInv
    <3>2. CASE ~Timeout
      <4>1. job' = Pick \/ job' = Epoll
        BY <1>5, <3>2 DEF GoIdle, Callback, CancelEvent, Wake, Work
      <4>2. QED
        BY <1>3, <4>1 DEF TypeInv
    <3>3. QED
      BY <3>1, <3>2
  <2>2. OldOrFiber
    BY <1>5, CallbackQueue
  <2>3. NumbersFrom
    BY <2>1, <2>2 DEF NumbersFrom, OldOrFiber
  <2>4. QED
    BY <1>1, <1>2, <2>3, BoundKept
<1>6. QED
  BY <1>4, <1>5

\* A round of idle.
LEMMA BoundIdle ==
  ASSUME TypeInv, NoStrayTimer, BoundInv, 
         NEW x \in SUBSET armed, NEW es \in SUBSET Watched, IdlePass(x, es)
  PROVE  BoundInv'
<1>1. call' = call /\ setup' = setup /\ open' = open /\ job' = Pick
  BY DEF IdlePass, taskVars, kernelVars, Work
<1>2. watched' \subseteq watched
  <2>1. PICK cbs \in Seq(Queued), p \in Seq(Fd \X Event) : Triggers(cbs, p)
    BY IdleParts
  <2>2. QED
    BY <2>1 DEF Triggers
<1>3. job'.n = job.n \/ job'.n = 0
  BY <1>1 DEF TypeInv, Pick, Entry, NoCall
<1>4. ASSUME NEW i \in 1 .. Len(queue')
      PROVE  \/ \E j \in 1 .. Len(queue) : queue'[i] = queue[j]
             \/ \E t \in Task : queue'[i] = Fiber(t)
             \/ queue'[i] \in armed
  BY IdleEntries
<1>5. NumbersFrom
  BY <1>3, <1>4 DEF NumbersFrom
<1>6. watched' \subseteq open'
  BY <1>1, <1>2 DEF BoundInv
<1>7. QED
  BY <1>1, <1>5, <1>6, BoundKept

\* What a program does: the number of its new call is within the bound.
LEMMA BoundProgram ==
  ASSUME TypeInv, NoStrayTimer, BoundInv, NEW t \in Task, Program(t)
  PROVE  BoundInv'
<1>1. OldOrFiber
  BY ProgramQueue
<1>2. setup' = setup /\ open \subseteq open'
  <2>1. ASSUME NEW f \in Fd, CallSocket(t, f) PROVE setup' = setup /\ open \subseteq open'
    BY <2>1 DEF CallSocket
  <2>2. CASE ~\E f \in Fd : CallSocket(t, f)
    <3>1. setup' = setup
      BY <2>2 DEF Program, CallClose, CallIo, CallTimeout, CallSetFl, CallIoctl, CallSleep, Finish
    <3>2. open' = open
      BY <2>2 DEF Program, CallClose, CallIo, CallTimeout, CallSetFl, CallIoctl, CallSleep, Finish,
                  kernelVars
    <3>3. QED
      BY <3>1, <3>2
  <2>3. QED
    BY <2>1, <2>2
<1>3. watched' \subseteq open'
  <2>1. ASSUME NEW f \in Fd, CallClose(t, f) PROVE watched' \subseteq watched
    <3>1. CASE CancelAll(f)
      BY <3>1, CancelledAll DEF CancelsAll
    <3>2. CASE ~CancelAll(f)
      BY <2>1, <3>2 DEF CallClose, eventVars
    <3>3. QED
      BY <3>1, <3>2
  <2>2. ASSUME ~\E f \in Fd : CallClose(t, f) PROVE watched' = watched
    BY <2>2 DEF Program, CallSocket, CallIo, CallTimeout, CallSetFl, CallIoctl, CallSleep, Finish,
                eventVars
  <2>3. watched' \subseteq watched
    BY <2>1, <2>2
  <2>4. QED
    BY <1>2, <2>3 DEF BoundInv
<1>4. ASSUME NEW c \in Asked, NEW where \in Place, Begin(t, c, where), c.n = call[t].n + 1,
             job' = job
      PROVE  BoundInv'
  <2>1. call'[t] = c /\ \A u \in Task \ {t} : call'[u] = call[u]
    BY <1>4, Begun
  <2>2. call[t].n + 1 <= setup.calls
    BY <1>4, OneMoreCall DEF Begin
  <2>3. \A u \in Task : call'[u].n = call[u].n \/ call'[u].n <= setup.calls
    BY <1>4, <2>1, <2>2
  <2>4. NumbersFrom
    BY <1>1, <1>4 DEF NumbersFrom, OldOrFiber
  <2>5. QED
    BY <1>2, <1>3, <2>3, <2>4, BoundKept
<1>5. CASE Finish(t)
  <2>1. call' = call /\ Work(Pick)
    BY <1>5 DEF Finish
  <2>2. job'.n = job.n \/ job'.n = 0
    BY <2>1 DEF Work, Pick, Entry, NoCall
  <2>3. NumbersFrom
    BY <1>1, <2>2 DEF NumbersFrom, OldOrFiber
  <2>4. QED
    BY <1>2, <1>3, <2>1, <2>3, BoundKept
<1>6. CASE CallSleep(t)
  <2>1. "yield" \in Place
    BY DEF Place, IoPC
  <2>2. QED
    BY <1>4, <1>6, <2>1, SleepBegins
<1>7. CASE ~CallSleep(t) /\ ~Finish(t)
  BY <1>4, <1>7, Begins
<1>8. QED
  BY <1>5, <1>6, <1>7

\* A call under way keeps its number; close takes the descriptor out of epoll
\* with the kernel's.
LEMMA BoundCallStep ==
  ASSUME TypeInv, NoStrayTimer, BoundInv, NEW t \in Task, CallStep(t) \/ Unblock(t)
  PROVE  BoundInv'
<1>1. queue' = queue /\ setup' = setup
  <2>1. CASE SystemCall(t) \/ Unblock(t)
    BY <2>1, SystemCallMoves
  <2>2. CASE ~(SystemCall(t) \/ Unblock(t))
    BY <2>2 DEF CallStep, Arm, AddEvent, Yield, Resume, Create, Del, CloseF
  <2>3. QED
    BY <2>1, <2>2
<1>2. job'.n = job.n \/ job'.n = 0
  <2>1. CASE Yield(t)
    BY <2>1 DEF Yield, Work, Pick, Entry, NoCall
  <2>2. CASE SystemCall(t) \/ Unblock(t)
    BY <2>2, SystemCallMoves
  <2>3. CASE Arm(t) \/ AddEvent(t) \/ Resume(t) \/ Create(t) \/ Del(t) \/ CloseF(t)
    BY <2>3 DEF Arm, AddEvent, Resume, Create, Del, CloseF
  <2>4. QED
    BY <2>1, <2>2, <2>3 DEF CallStep
<1>3. \A u \in Task : call'[u].n = call[u].n
  <2>1. CASE SystemCall(t) \/ Unblock(t)
    BY <2>1, SystemCallMoves
  <2>2. CASE Arm(t) \/ AddEvent(t) \/ Yield(t) \/ Del(t)
    BY <2>2 DEF Arm, AddEvent, Yield, Del
  <2>3. CASE Create(t) \/ CloseF(t)
    <3>1. Return(t, "none")
      BY <2>3 DEF Create, CloseF
    <3>2. QED
      BY <3>1, Returned
  <2>4. CASE Resume(t)
    <3>1. SleepOver(t) \/ TimedOut(t) \/ Retries(t)
      BY <2>4, ResumeParts
    <3>2. QED
      BY <3>1, Returned DEF SleepOver, TimedOut, Retries
  <2>5. QED
    BY <2>1, <2>2, <2>3, <2>4 DEF CallStep
<1>4. watched' \subseteq open'
  <2>1. watched \subseteq open
    BY DEF BoundInv
  <2>2. CASE SystemCall(t) \/ Unblock(t)
    <3>1. watched' = watched
      BY <2>2, SystemCallMoves
    <3>2. open \subseteq open'
      <4>1. \/ Answered(t)
            \/ \E g \in Fd : Accepts(t, g)
            \/ \E where \in {"blocked", "arm", "add"} : LeadsOn(t, where)
        BY <2>2, SystemCallParts, ServedParts DEF Unblock
      <4>2. QED
        BY <4>1 DEF Answered, Accepts, LeadsOn
    <3>3. QED
      BY <2>1, <3>1, <3>2
  <2>3. CASE AddEvent(t)
    <3>1. open' = open
      BY <2>3 DEF AddEvent, kernelVars
    <3>2. watched' = watched \/ (call[t].fd \in open /\ watched' = watched \cup {call[t].fd})
      BY <2>3 DEF AddEvent, eventVars
    <3>3. QED
      BY <2>1, <3>1, <3>2
  <2>4. CASE CloseF(t)
    BY <2>1, <2>4 DEF CloseF
  <2>5. CASE Arm(t) \/ Yield(t) \/ Resume(t) \/ Create(t) \/ Del(t)
    <3>1. watched' = watched /\ open' = open
      BY <2>5 DEF Arm, Yield, Resume, Create, Del, eventVars, kernelVars
    <3>2. QED
      BY <2>1, <3>1
  <2>6. QED
    BY <2>2, <2>3, <2>4, <2>5 DEF CallStep
<1>5. NumbersFrom
  BY <1>1, <1>2 DEF NumbersFrom
<1>6. QED
  BY <1>1, <1>3, <1>4, <1>5, BoundKept

\* Every step keeps the bound.
LEMMA BoundStep == TypeInv /\ NoStrayTimer /\ BoundInv /\ [Next]_vars => BoundInv'
<1> SUFFICES ASSUME TypeInv, NoStrayTimer, BoundInv, [Next]_vars PROVE BoundInv'
  OBVIOUS
<1>1. CASE UNCHANGED vars
  <2>1. UNCHANGED <<setup, queue, job, call, watched, open>>
    BY <1>1 DEF vars, taskVars, eventVars, kernelVars
  <2>2. QED
    BY <2>1 DEF BoundInv
<1>2. ASSUME IdleRound PROVE BoundInv'
  BY <1>2, BoundIdle DEF IdleRound
<1>3. QED
  BY <1>1, <1>2, BoundThread, BoundProgram, BoundCallStep DEF Next

\* Types and bounds together.
LEMMA TypesBounded ==
  ASSUME TypeInv, NoStrayTimer, FlagInv, BoundInv
  PROVE  TypeOK
<1>1. setup.calls \in Nat
  BY HookAssumption DEF TypeInv
<1>2. ASSUME NEW kinds, NEW x \in Work4(kinds), x.n <= setup.calls
      PROVE  x \in Entries(kinds, Task)
  BY <1>1, <1>2 DEF Work4, Entries
<1>3. queue \in Seq(Entries({"fiber", "timeout", "wake"}, Task))
  <2>1. queue \in Seq(Queued) /\ \A i \in 1 .. Len(queue) : queue[i] \in Queued
    BY DEF TypeInv
  <2>2. \A i \in 1 .. Len(queue) : queue[i] \in Entries({"fiber", "timeout", "wake"}, Task)
    BY <1>2, <2>1 DEF BoundInv, Queued
  <2>3. QED
    BY <2>1, <2>2
<1>4. job \in Entries({"fiber", "timeout", "cancel", "wake"}, Task) \cup {Pick, Epoll}
  BY <1>2 DEF TypeInv, BoundInv, Jobs
<1>5. \A t \in Task : call[t].n \in 0 .. setup.calls
  BY <1>1 DEF TypeInv, Asked, BoundInv
<1>6. armed \subseteq Entries({"timeout", "wake"}, Task)
  <2> SUFFICES ASSUME NEW x \in armed PROVE x \in Entries({"timeout", "wake"}, Task)
    OBVIOUS
  <2>1. x \in Work4({"timeout", "wake"}) /\ x.task \in Task
    BY DEF TypeInv, Timers, Work4
  <2>2. x.n <= setup.calls
    BY <2>1 DEF NoStrayTimer, BoundInv
  <2>3. QED
    BY <1>2, <2>1, <2>2
<1>7. watched \subseteq open /\ known \subseteq open
  BY DEF BoundInv, FlagInv
<1>8. \A f \in Fd : ctx[f] = NoCtx \/ ctx[f] \in FdCtx
  BY DEF TypeInv
<1>9. QED
  BY <1>3, <1>4, <1>5, <1>6, <1>7, <1>8 DEF TypeInv, TypeOK, Place

\* Every variable has its type: the numbers of calls in timers, queue and
\* thread stay within the bound, epoll watches and the program uses only
\* descriptors that the kernel has.
THEOREM TypesKept == Spec => []TypeOK
<1>1. TypeInv /\ NoStrayTimer /\ BoundInv /\ [Next]_vars => BoundInv'
  BY BoundStep
<1>2. TypeInv /\ FlagInv /\ [Next]_vars => FlagInv'
  BY FlagStep
<1>3. TypeInv /\ NoStrayTimer /\ FlagInv /\ BoundInv => TypeOK
  BY TypesBounded
<1>4. QED
  BY BoundStart, FlagStart, TypeAlways, NothingLeftArmed, <1>1, <1>2, <1>3, PTL DEF Spec
=============================================================================
