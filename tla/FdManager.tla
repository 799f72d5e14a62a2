------------------------------ MODULE FdManager -----------------------------
(***************************************************************************)
(* FdManager of src/fd_manager.cc: the table m_datas of descriptor         *)
(* contexts under an RWMutex, which get() takes for reading and, when it   *)
(* creates a context, again for writing.                                   *)
(*                                                                         *)
(* get() makes a context for the hooked socket() and accept() only, and    *)
(* the fcntl that FdCtx::init calls then is the hooked one, which calls    *)
(* get() again while the caller holds the write lock.  The nested call     *)
(* does not get its read lock, but gives the write lock back: from there   *)
(* on the caller works without a lock and its scoped lock unlocks a mutex  *)
(* it does not hold.  POSIX leaves that undefined when nobody holds it, as *)
(* C++ does a race of two threads for m_datas: behaviours stop there.      *)
(***************************************************************************)
EXTENDS Integers, FiniteSets

CONSTANTS
  Thread,   \* threads of the process
  Fd,       \* descriptors
  Initial,  \* m_datas.resize(64) in the constructor
  None      \* no thread

ASSUME FdAssumption ==
  /\ None \notin Thread /\ IsFiniteSet(Thread) /\ Fd \subseteq Nat
  /\ Initial \in Nat /\ Initial > 1

VARIABLES
  writer,   \* the thread that holds m_mutex for writing
  readers,  \* how many hold it for reading
  size,     \* m_datas.size()
  datas,    \* descriptors that have a context in m_datas
  pc,       \* where each thread is
  arg,      \* the descriptor it works on
  create,   \* auto_create
  locked,   \* the scoped lock of its frame that has m_locked set
  nested,   \* calls of fcntl left in FdCtx::init
  undefined \* something happened that C++ or pthreads leave undefined

lockVars  == <<writer, readers>>
tableVars == <<size, datas>>
vars == <<lockVars, tableVars, pc, arg, create, locked, nested, undefined>>

\* The places of a call that makes a context, after it has seen that there is none.
Creating ==
  {"unlock", "wrlock", "nestedlock", "nestedlook", "test", "resize", "store"}

\* The places from which m_datas is looked at or changed.
Accessing == {"look", "nestedlook", "test", "resize", "store", "del"}

Place == {"free", "rdlock", "look", "dellock", "del", "exit"} \cup Creating

Init ==
  /\ writer = None /\ readers = 0
  /\ size = Initial /\ datas = {}
  /\ pc = [a \in Thread |-> "free"]
  /\ arg = [a \in Thread |-> 0]
  /\ create = [a \in Thread |-> FALSE]
  /\ locked = [a \in Thread |-> "none"]
  /\ nested = [a \in Thread |-> 0]
  /\ undefined = FALSE

---------------------------------------------------------------------------
At(a, where) == ~undefined /\ pc[a] = where
Goto(a, where) == pc' = [pc EXCEPT ![a] = where]
Holds(a, lock) == locked' = [locked EXCEPT ![a] = lock]

\* pthread_rwlock_rdlock: to the thread that holds the lock for writing it
\* returns EDEADLK, which RWMutex does not look at.
Rdlock(a) ==
  /\ writer \in {None, a}
  /\ readers' = IF writer = a THEN readers ELSE readers + 1
  /\ UNCHANGED writer

\* Mutant of Wrlock: only other writers are kept out.
WrlockReaders(a) == writer = None /\ writer' = a /\ UNCHANGED readers

Wrlock(a) == writer = None /\ readers = 0 /\ writer' = a /\ UNCHANGED readers

\* pthread_rwlock_unlock gives back the write lock to its holder and one read
\* lock otherwise; without either it is undefined.
Unlock(a) ==
  /\ writer' = IF writer = a THEN None ELSE writer
  /\ readers' = IF writer = a THEN readers ELSE readers - 1
  /\ undefined' = (writer # a /\ readers = 0)

---------------------------------------------------------------------------
\* A descriptor belongs to one thread while it is created or deleted.
Owned(f) ==
  \E a \in Thread :
    pc[a] # "free" /\ arg[a] = f /\ (create[a] \/ pc[a] \in {"dellock", "del"})

CallGet(a, f, b) ==
  /\ At(a, "free") /\ (b => ~Owned(f))
  /\ arg' = [arg EXCEPT ![a] = f]
  /\ create' = [create EXCEPT ![a] = b]
  /\ Goto(a, "rdlock")
  /\ UNCHANGED <<lockVars, tableVars, locked, nested, undefined>>

CallDel(a, f) ==
  /\ At(a, "free") /\ ~Owned(f)
  /\ arg' = [arg EXCEPT ![a] = f]
  /\ create' = [create EXCEPT ![a] = FALSE]
  /\ Goto(a, "dellock")
  /\ UNCHANGED <<lockVars, tableVars, locked, nested, undefined>>

\* ReadLock lock(m_mutex).
LockRead(a) ==
  /\ At(a, "rdlock")
  /\ Rdlock(a)
  /\ Holds(a, "read") /\ Goto(a, "look")
  /\ UNCHANGED <<tableVars, arg, create, nested, undefined>>

\* Mutant of Look: a context that is there is made again.
LookAndCreate(a) ==
  /\ At(a, "look")
  /\ Goto(a, IF create[a] THEN "unlock" ELSE "exit")
  /\ UNCHANGED <<lockVars, tableVars, arg, create, locked, nested, undefined>>

\* The context that is there, or none wanted: get() returns.
Look(a) ==
  /\ At(a, "look")
  /\ Goto(a, IF arg[a] \in datas \/ ~create[a] THEN "exit" ELSE "unlock")
  /\ UNCHANGED <<lockVars, tableVars, arg, create, locked, nested, undefined>>

\* Mutant of UnlockRead: get() looks again instead of creating the context.
UnlockAndLook(a) ==
  /\ At(a, "unlock")
  /\ Unlock(a)
  /\ Holds(a, "none") /\ Goto(a, "rdlock")
  /\ UNCHANGED <<tableVars, arg, create, nested>>

\* lock.unlock(); the destructor of lock then leaves the mutex alone.
UnlockRead(a) ==
  /\ At(a, "unlock")
  /\ Unlock(a)
  /\ Holds(a, "none") /\ Goto(a, "wrlock")
  /\ UNCHANGED <<tableVars, arg, create, nested>>

\* WriteLock lock2(m_mutex), and FdCtx::init: fcntl(F_GETFL), and F_SETFL unless
\* the descriptor is in non-blocking mode already.
LockWrite(a) ==
  /\ At(a, "wrlock")
  /\ Wrlock(a)
  /\ Holds(a, "write")
  /\ \E n \in {1, 2} : nested' = [nested EXCEPT ![a] = n]
  /\ Goto(a, "nestedlock")
  /\ UNCHANGED <<tableVars, arg, create, undefined>>

\* The get() of the hooked fcntl, with a ReadLock of its own, which believes to
\* have the mutex whatever rdlock answered.
NestedLock(a) ==
  /\ At(a, "nestedlock")
  /\ Rdlock(a)
  /\ Goto(a, "nestedlook")
  /\ UNCHANGED <<tableVars, arg, create, locked, nested, undefined>>

\* Mutant of NestedUnlock: a ReadLock that was refused is not given back.
NestedLeave(a) ==
  /\ At(a, "nestedlook")
  /\ IF writer = a THEN UNCHANGED <<lockVars, undefined>> ELSE Unlock(a)
  /\ nested' = [nested EXCEPT ![a] = @ - 1]
  /\ Goto(a, IF nested[a] = 1 THEN "test" ELSE "nestedlock")
  /\ UNCHANGED <<tableVars, arg, create, locked>>

\* It returns no context, so that fcntl passes the call on to the kernel, and
\* its destructor unlocks: the first time, the caller's write lock.
NestedUnlock(a) ==
  /\ At(a, "nestedlook")
  /\ Unlock(a)
  /\ nested' = [nested EXCEPT ![a] = @ - 1]
  /\ Goto(a, IF nested[a] = 1 THEN "test" ELSE "nestedlock")
  /\ UNCHANGED <<tableVars, arg, create, locked>>

\* fd >= m_datas.size(), tested again after the write lock was taken.
TooSmall(f) == f >= size

Test(a) ==
  /\ At(a, "test")
  /\ Goto(a, IF TooSmall(arg[a]) THEN "resize" ELSE "store")
  /\ UNCHANGED <<lockVars, tableVars, arg, create, locked, nested, undefined>>

\* Another thread looks at or changes m_datas at the same time: the whole of it
\* when one of the two resizes, and otherwise the same place in it.
Races(a) ==
  \E b \in Thread \ {a} :
    /\ pc[b] \in Accessing
    /\ pc[a] = "resize" \/ pc[b] = "resize" \/ arg[b] = arg[a]

\* A race may end as if the two had come one after the other, or in anything.
RaceMayShow(a) == undefined' \in {FALSE, Races(a)}

\* m_datas.resize(fd * 1.5).
Resized(f) == (f * 3) \div 2

\* Mutant of Resize: a new table takes the place of the old one.
ResizeAnew(a) ==
  /\ At(a, "resize")
  /\ size' = Resized(arg[a])
  /\ datas' = {}
  /\ RaceMayShow(a)
  /\ Goto(a, "store")
  /\ UNCHANGED <<lockVars, arg, create, locked, nested>>

\* What lies beyond the new size is gone.
Resize(a) ==
  /\ At(a, "resize")
  /\ size' = Resized(arg[a])
  /\ datas' = {f \in datas : f < size'}
  /\ RaceMayShow(a)
  /\ Goto(a, "store")
  /\ UNCHANGED <<lockVars, arg, create, locked, nested>>

\* m_datas[fd] = ctx, which nothing checks.
Store(a) ==
  /\ At(a, "store")
  /\ datas' = datas \cup {arg[a]}
  /\ IF arg[a] >= size THEN undefined' = TRUE ELSE RaceMayShow(a)
  /\ Goto(a, "exit")
  /\ UNCHANGED <<lockVars, size, arg, create, locked, nested>>

LockDel(a) ==
  /\ At(a, "dellock")
  /\ Wrlock(a)
  /\ Holds(a, "write") /\ Goto(a, "del")
  /\ UNCHANGED <<tableVars, arg, create, nested, undefined>>

Del(a) ==
  /\ At(a, "del")
  /\ datas' = datas \ {arg[a]}
  /\ RaceMayShow(a)
  /\ Goto(a, "exit")
  /\ UNCHANGED <<lockVars, size, arg, create, locked, nested>>

\* The destructors of the scoped locks: the one with m_locked set unlocks,
\* whoever holds the mutex by then.
Exit(a) ==
  /\ At(a, "exit")
  /\ Unlock(a)
  /\ Holds(a, "none") /\ Goto(a, "free")
  /\ UNCHANGED <<tableVars, arg, create, nested>>

---------------------------------------------------------------------------
Call(a) ==
  \E f \in Fd : CallDel(a, f) \/ \E b \in BOOLEAN : CallGet(a, f, b)

Acquire(a) == LockRead(a) \/ LockWrite(a) \/ NestedLock(a) \/ LockDel(a)

Step(a) ==
  \/ Look(a) \/ UnlockRead(a) \/ NestedUnlock(a) \/ Test(a) \/ Resize(a)
  \/ Store(a) \/ Del(a) \/ Exit(a)

Next ==
  \/ \E a \in Thread : Call(a) \/ Acquire(a) \/ Step(a)
  \/ undefined /\ UNCHANGED vars

Spec == Init /\ [][Next]_vars

\* Threads go on, and one that waits for the mutex gets it if it is free again
\* and again.
Fairness == \A a \in Thread : WF_vars(Step(a)) /\ SF_vars(Acquire(a))

FairSpec == Spec /\ Fairness

---------------------------------------------------------------------------
\* Properties.

\* Every variable has its type; the mutex has a writer or readers, and every
\* context is within the table.
TypeOK ==
  /\ undefined \in BOOLEAN
  /\ writer \in Thread \cup {None} /\ readers \in -1 .. Cardinality(Thread)
  /\ size \in Nat /\ datas \subseteq Fd
  /\ ~undefined =>
       (writer # None => readers = 0) /\ \A f \in datas : f < size
  /\ pc \in [Thread -> Place]
  /\ arg \in [Thread -> Fd \cup {0}]
  /\ create \in [Thread -> BOOLEAN]
  /\ locked \in [Thread -> {"none", "read", "write"}]
  /\ nested \in [Thread -> 0 .. 2]

\* A descriptor that is given a context has none until then, although get()
\* holds no lock in between: fcntl finds none and sets O_NONBLOCK in the kernel,
\* and no context that is in use is replaced by another.
FreshContext ==
  \A a \in Thread : pc[a] \in Creating => arg[a] \notin datas

\* The price of the nested get(): as soon as a context has been made, the calls
\* cannot all return without an unlock of a mutex that nobody holds.
UnlockedTooOften ==
  datas # {} /\ (\A a \in Thread : pc[a] = "free") => undefined

\* A context leaves the table with del() of its descriptor, or in a resize whose
\* test of the size another thread's resize has overtaken.
ContextStays ==
  [][\A f \in datas :
       \/ f \in datas'
       \/ \E a \in Thread : pc[a] = "del" /\ arg[a] = f
       \/ \E a \in Thread : pc[a] = "resize" /\ arg[a] < size]_vars

\* Every get and del returns, unless something undefined happens first or readers
\* follow each other without a gap (the lock prefers them): no thread waits for a
\* lock that is left behind, or in the nested get() for its own.
CallsEnd ==
  []<>(readers = 0) =>
    \A a \in Thread : (pc[a] # "free") ~> (pc[a] = "free" \/ undefined)
=============================================================================
