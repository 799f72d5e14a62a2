--------------------------- MODULE FdManagerProofs --------------------------
(***************************************************************************)
(* Theorems about FdManager for any threads, descriptors and initial size: *)
(* the types, that a descriptor gets one context at a time, that only del  *)
(* and a resize which another has overtaken remove one, and that the lock  *)
(* is given back once more than it was taken for every context made.       *)
(***************************************************************************)
EXTENDS FdManager, FiniteSetTheorems, TLAPS

\* The threads that may have a read lock of m_mutex: through the scoped lock of
\* their frame, or in the nested get() of another thread's write section.
ReadHolders ==
  {a \in Thread : locked[a] = "read" \/ (pc[a] = "nestedlook" /\ writer # a)}

\* TypeOK without the bounds on the read locks.
Shape ==
  /\ undefined \in BOOLEAN
  /\ writer \in Thread \cup {None} /\ readers \in Int
  /\ size \in Nat /\ datas \subseteq Fd
  /\ ~undefined =>
       (writer # None => readers = 0) /\ \A f \in datas : f < size
  /\ readers >= -1 /\ (~undefined => readers >= 0)
  /\ pc \in [Thread -> Place]
  /\ arg \in [Thread -> Fd \cup {0}]
  /\ create \in [Thread -> BOOLEAN]
  /\ locked \in [Thread -> {"none", "read", "write"}]
  /\ nested \in [Thread -> 0 .. 2]

\* What m_locked of the scoped lock says at each place of get() and del().
ScopeInv ==
  \A a \in Thread :
    /\ pc[a] \in {"free", "rdlock", "wrlock", "dellock"} => locked[a] = "none"
    /\ pc[a] \in {"look", "unlock"} => locked[a] = "read"
    /\ pc[a] \in {"nestedlock", "nestedlook", "test", "resize", "store", "del"}
         => locked[a] = "write"
    /\ pc[a] = "exit" => locked[a] \in {"read", "write"}
    /\ pc[a] \in {"nestedlock", "nestedlook"} => nested[a] \in {1, 2}
    /\ writer = a => locked[a] = "write"
    /\ pc[a] \in {"test", "resize", "store"} => writer # a
    /\ pc[a] # "free" => arg[a] \in Fd

\* No more read locks than threads that may have one.
ReadInv == readers <= Cardinality(ReadHolders)

TypeInv == Shape /\ ScopeInv /\ ReadInv

\* A descriptor that is being given a context, or deleted, is in no other call
\* that does so; a table is resized for descriptors beyond the first two.
CreateInv ==
  /\ size > 1
  /\ \A a \in Thread :
       /\ pc[a] \in Creating => create[a]
       /\ pc[a] \in {"dellock", "del"} => ~create[a]
       /\ pc[a] = "resize" => arg[a] > 1
  /\ \A a, b \in Thread :
       a # b /\ pc[a] # "free" /\ create[a] /\ arg[b] = arg[a] =>
         pc[b] = "free" \/ (~create[b] /\ pc[b] \notin {"dellock", "del"})

\* The threads whose scoped write lock will unlock a mutex they do not hold.
Lost == {a \in Thread : locked[a] = "write" /\ writer # a}

\* How many unlocks the readers will do beyond the read locks that are counted.
Debt == Cardinality(ReadHolders) - readers

\* A context cannot be made without one unlock too many.
DebtInv == ~undefined /\ datas # {} => Lost # {} \/ Debt > 0

---------------------------------------------------------------------------
\* Helper operators of the model.

\* fd * 1.5 lies above fd unless fd is 0 or 1.
LEMMA ResizedLarger ==
  ASSUME NEW f \in Nat
  PROVE  Resized(f) \in Nat /\ (f > 1 => f < Resized(f))
BY DEF Resized

---------------------------------------------------------------------------
\* Counting the holders of read locks.

\* A set of threads is counted, and grows and shrinks by one.
LEMMA CountThreads ==
  ASSUME NEW S \in SUBSET Thread, NEW a \in Thread
  PROVE  /\ Cardinality(S) \in 0 .. Cardinality(Thread)
         /\ Cardinality(Thread) \in Nat
         /\ a \notin S => Cardinality(S \cup {a}) = Cardinality(S) + 1
         /\ a \in S => Cardinality(S \ {a}) = Cardinality(S) - 1
         /\ a \in S => Cardinality(S) > 0
<1>1. IsFiniteSet(Thread)
  BY FdAssumption
<1>2. IsFiniteSet(S) /\ Cardinality(S) <= Cardinality(Thread)
  BY <1>1, FS_Subset
<1>3. Cardinality(S) \in Nat /\ Cardinality(Thread) \in Nat
  BY <1>1, <1>2, FS_CardinalityType
<1>4. a \notin S => Cardinality(S \cup {a}) = Cardinality(S) + 1
  BY <1>2, FS_AddElement
<1>5. a \in S => Cardinality(S \ {a}) = Cardinality(S) - 1
  BY <1>2, FS_RemoveElement
<1>6. a \in S => Cardinality(S) > 0
  BY <1>2, <1>3, FS_EmptySet
<1>7. QED
  BY <1>2, <1>3, <1>4, <1>5, <1>6

\* The holders are counted, before and after a step.
LEMMA HoldersCount ==
  Cardinality(ReadHolders) \in Nat /\ Cardinality(ReadHolders') \in Nat
<1>1. ReadHolders \in SUBSET Thread /\ ReadHolders' \in SUBSET Thread
  BY DEF ReadHolders
<1>2. IsFiniteSet(Thread)
  BY FdAssumption
<1>3. IsFiniteSet(ReadHolders) /\ IsFiniteSet(ReadHolders')
  BY <1>1, <1>2, FS_Subset
<1>4. QED
  BY <1>3, FS_CardinalityType

\* A step of thread a changes the holders by a alone.
LEMMA HoldersStep ==
  ASSUME NEW a \in Thread,
         \A b \in Thread \ {a} :
           pc'[b] = pc[b] /\ locked'[b] = locked[b] /\ (writer' = b <=> writer = b)
  PROVE  /\ locked'[a] = "read" \/ (pc'[a] = "nestedlook" /\ writer' # a) =>
              ReadHolders' = ReadHolders \cup {a}
         /\ ~(locked'[a] = "read" \/ (pc'[a] = "nestedlook" /\ writer' # a)) =>
              ReadHolders' = ReadHolders \ {a}
BY DEF ReadHolders

---------------------------------------------------------------------------
\* The types.

\* What TypeOK says beyond the shape follows from the count of the holders.
LEMMA ShapeTypes ==
  ASSUME Shape, ReadInv
  PROVE  TypeOK
<1>2. ReadHolders \in SUBSET Thread /\ IsFiniteSet(Thread)
  BY FdAssumption DEF ReadHolders
<1>3. /\ Cardinality(ReadHolders) \in Nat /\ Cardinality(Thread) \in Nat
      /\ Cardinality(ReadHolders) <= Cardinality(Thread)
  BY <1>2, FS_Subset, FS_CardinalityType
<1>4. readers \in -1 .. Cardinality(Thread)
  BY <1>3 DEF Shape, ReadInv
<1>5. QED
  BY <1>4 DEF Shape, TypeOK

\* Initially no thread has called anything.
LEMMA TypeInit == Init => TypeInv
<1> SUFFICES ASSUME Init PROVE TypeInv
  OBVIOUS
<1>1. ReadHolders = {}
  BY FdAssumption DEF Init, ReadHolders
<1>2. Cardinality(ReadHolders) = 0
  BY <1>1, FS_EmptySet
<1>3. Shape
  <2>1. pc \in [Thread -> Place]
    BY DEF Init, Place, Creating
  <2>2. /\ arg \in [Thread -> Fd \cup {0}] /\ create \in [Thread -> BOOLEAN]
        /\ locked \in [Thread -> {"none", "read", "write"}]
        /\ nested \in [Thread -> 0 .. 2]
    BY DEF Init
  <2>3. /\ undefined \in BOOLEAN /\ ~undefined
        /\ writer = None /\ readers = 0 /\ size = Initial /\ datas = {}
    BY DEF Init
  <2>4. QED
    BY <2>1, <2>2, <2>3, FdAssumption DEF Shape
<1>4. ScopeInv
  BY FdAssumption DEF Init, ScopeInv
<1>5. ReadInv
  BY <1>2 DEF Init, ReadInv
<1>6. QED
  BY <1>3, <1>4, <1>5, ShapeTypes DEF TypeInv, Init

\* A race leaves a defined state or an undefined one.
LEMMA RaceType ==
  ASSUME NEW a \in Thread, RaceMayShow(a)
  PROVE  undefined' \in BOOLEAN
BY DEF RaceMayShow, Races

\* A step of one thread keeps the shape.
LEMMA ShapeStep ==
  ASSUME Shape, ScopeInv, NEW a \in Thread, Call(a) \/ Acquire(a) \/ Step(a)
  PROVE  Shape'
<1> USE DEF Shape, At, Goto, Holds, lockVars, tableVars
<1>1. ASSUME NEW where \in Place, Goto(a, where)
      PROVE  pc' \in [Thread -> Place]
  BY <1>1
<1>0. ASSUME ~undefined, Unlock(a)
      PROVE  /\ writer' \in Thread \cup {None} /\ readers' \in Int
             /\ undefined' \in BOOLEAN
             /\ ~undefined' => (writer' # None => readers' = 0)
             /\ readers' >= -1 /\ (~undefined' => readers' >= 0)
  <2>1. undefined' \in BOOLEAN
    BY <1>0 DEF Unlock
  <2>2. undefined' <=> writer # a /\ readers = 0
    BY <1>0 DEF Unlock
  <2>3. /\ writer' = IF writer = a THEN None ELSE writer
        /\ readers' = IF writer = a THEN readers ELSE readers - 1
    BY <1>0 DEF Unlock
  <2>4. QED
    BY <1>0, <2>1, <2>2, <2>3
<1>2. ASSUME NEW f \in Fd, CallDel(a, f) PROVE Shape'
  BY <1>1, <1>2 DEF CallDel, Place, Creating
<1>3. ASSUME NEW f \in Fd, NEW b \in BOOLEAN, CallGet(a, f, b) PROVE Shape'
  BY <1>1, <1>3 DEF CallGet, Place, Creating
<1>4. CASE LockRead(a)
  BY <1>1, <1>4, FdAssumption DEF LockRead, Rdlock, Place, ScopeInv
<1>5. CASE LockWrite(a)
  <2>1. nested' \in [Thread -> 0 .. 2]
    BY <1>5 DEF LockWrite
  <2>2. QED
    BY <1>1, <1>5, <2>1 DEF LockWrite, Wrlock, Place, Creating
<1>6. CASE NestedLock(a)
  BY <1>1, <1>6, FdAssumption DEF NestedLock, Rdlock, Place, Creating
<1>7. CASE LockDel(a)
  BY <1>1, <1>7 DEF LockDel, Wrlock, Place, Creating
<1>8. CASE Look(a)
  BY <1>1, <1>8 DEF Look, Place, Creating
<1>9. CASE UnlockRead(a)
  BY <1>0, <1>1, <1>9 DEF UnlockRead, Place, Creating
<1>10. CASE NestedUnlock(a)
  <2>1. nested' \in [Thread -> 0 .. 2]
    BY <1>10 DEF NestedUnlock, ScopeInv
  <2>2. QED
    BY <1>0, <1>1, <1>10, <2>1 DEF NestedUnlock, Place, Creating
<1>11. CASE Test(a)
  BY <1>1, <1>11 DEF Test, Place, Creating
<1>12. CASE Resize(a)
  <2>1. size' \in Nat
    BY <1>12, ResizedLarger, FdAssumption DEF Resize
  <2>2. (\A f \in datas' : f < size') /\ datas' \subseteq Fd
    BY <1>12 DEF Resize
  <2>3. undefined' \in BOOLEAN
    BY <1>12, RaceType DEF Resize
  <2>4. QED
    BY <1>1, <1>12, <2>1, <2>2, <2>3 DEF Resize, Place, Creating
<1>13. CASE Store(a)
  <2>1. arg[a] \in Fd /\ arg[a] \in Nat
    BY <1>13, FdAssumption DEF Store, ScopeInv
  <2>2. arg[a] >= size => undefined' = TRUE
    BY <1>13 DEF Store
  <2>3. undefined' \in BOOLEAN /\ (~undefined' => arg[a] < size)
    <3>1. CASE arg[a] >= size
      BY <2>2, <3>1
    <3>2. CASE ~(arg[a] >= size)
      <4>1. RaceMayShow(a)
        BY <1>13, <3>2 DEF Store
      <4>2. undefined' \in BOOLEAN
        BY <4>1, RaceType
      <4>3. QED
        BY <2>1, <3>2, <4>2
    <3>3. QED
      BY <3>1, <3>2
  <2>4. /\ datas' = datas \cup {arg[a]} /\ ~undefined
        /\ pc' = [pc EXCEPT ![a] = "exit"]
        /\ UNCHANGED <<lockVars, size, arg, create, locked, nested>>
    BY <1>13 DEF Store
  <2>5. ~undefined' => \A f \in datas' : f < size
    BY <2>1, <2>3, <2>4
  <2>6. pc' \in [Thread -> Place]
    BY <2>4 DEF Place
  <2>7. /\ writer' \in Thread \cup {None} /\ readers' \in Int
        /\ ~undefined' => (writer' # None => readers' = 0)
        /\ readers' >= -1 /\ (~undefined' => readers' >= 0)
    BY <2>4
  <2>8. /\ arg' \in [Thread -> Fd \cup {0}] /\ create' \in [Thread -> BOOLEAN]
        /\ locked' \in [Thread -> {"none", "read", "write"}]
        /\ nested' \in [Thread -> 0 .. 2]
        /\ size' \in Nat /\ datas' \subseteq Fd
    BY <2>1, <2>4
  <2>9. QED
    BY <2>3, <2>4, <2>5, <2>6, <2>7, <2>8
<1>14. CASE Del(a)
  <2>1. undefined' \in BOOLEAN
    BY <1>14, RaceType DEF Del
  <2>2. QED
    BY <1>1, <1>14, <2>1 DEF Del, Place, Creating
<1>15. CASE Exit(a)
  BY <1>0, <1>1, <1>15 DEF Exit, Place, Creating
<1>16. QED
  BY <1>2, <1>3, <1>4, <1>5, <1>6, <1>7, <1>8, <1>9, <1>10, <1>11, <1>12, <1>13,
     <1>14, <1>15 DEF Call, Acquire, Step

\* It keeps the relation of places and scoped locks.
LEMMA ScopeStep ==
  ASSUME Shape, ScopeInv, NEW a \in Thread, Call(a) \/ Acquire(a) \/ Step(a)
  PROVE  ScopeInv'
<1> USE DEF Shape, At, Goto, Holds, lockVars, tableVars
<1>1. ASSUME NEW f \in Fd, CallDel(a, f) PROVE ScopeInv'
  BY <1>1 DEF CallDel, ScopeInv
<1>2. ASSUME NEW f \in Fd, NEW b \in BOOLEAN, CallGet(a, f, b) PROVE ScopeInv'
  BY <1>2 DEF CallGet, ScopeInv
<1>3. CASE LockRead(a)
  BY <1>3, FdAssumption DEF LockRead, Rdlock, ScopeInv
<1>4. CASE LockWrite(a)
  BY <1>4 DEF LockWrite, Wrlock, ScopeInv
<1>5. CASE NestedLock(a)
  BY <1>5, FdAssumption DEF NestedLock, Rdlock, ScopeInv
<1>6. CASE LockDel(a)
  BY <1>6 DEF LockDel, Wrlock, ScopeInv
<1>7. CASE Look(a)
  BY <1>7 DEF Look, ScopeInv
<1>8. CASE UnlockRead(a)
  BY <1>8, FdAssumption DEF UnlockRead, Unlock, ScopeInv
<1>9. CASE NestedUnlock(a)
  BY <1>9, FdAssumption DEF NestedUnlock, Unlock, ScopeInv
<1>10. CASE Test(a)
  BY <1>10 DEF Test, ScopeInv
<1>11. CASE Resize(a)
  BY <1>11 DEF Resize, ScopeInv
<1>12. CASE Store(a)
  BY <1>12 DEF Store, ScopeInv
<1>13. CASE Del(a)
  BY <1>13 DEF Del, ScopeInv
<1>14. CASE Exit(a)
  BY <1>14, FdAssumption DEF Exit, Unlock, ScopeInv
<1>15. QED
  BY <1>1, <1>2, <1>3, <1>4, <1>5, <1>6, <1>7, <1>8, <1>9, <1>10, <1>11, <1>12,
     <1>13, <1>14 DEF Call, Acquire, Step

\* It keeps the read locks within their holders, and never makes up for an unlock
\* that was one too many.
LEMMA ReadStep ==
  ASSUME TypeInv, NEW a \in Thread, Call(a) \/ Acquire(a) \/ Step(a)
  PROVE  ReadInv' /\ Debt' >= Debt
<1> USE DEF TypeInv, Shape, At, Goto, Holds, lockVars, tableVars
<1>1. ReadHolders \in SUBSET Thread
  BY DEF ReadHolders
<1>2. a \in ReadHolders <=> locked[a] = "read" \/ (pc[a] = "nestedlook" /\ writer # a)
  BY DEF ReadHolders
<1>3. /\ Cardinality(ReadHolders) \in Nat
      /\ a \notin ReadHolders =>
           Cardinality(ReadHolders \cup {a}) = Cardinality(ReadHolders) + 1
      /\ a \in ReadHolders =>
           Cardinality(ReadHolders \ {a}) = Cardinality(ReadHolders) - 1
  BY <1>1, CountThreads
<1>4. ASSUME \A b \in Thread \ {a} :
               pc'[b] = pc[b] /\ locked'[b] = locked[b] /\ (writer' = b <=> writer = b),
             readers' <= readers
                + (IF locked'[a] = "read" \/ (pc'[a] = "nestedlook" /\ writer' # a)
                   THEN 1 ELSE 0)
                - (IF locked[a] = "read" \/ (pc[a] = "nestedlook" /\ writer # a)
                   THEN 1 ELSE 0),
             readers' \in Int
      PROVE  ReadInv' /\ Debt' >= Debt
  <2>1. CASE locked'[a] = "read" \/ (pc'[a] = "nestedlook" /\ writer' # a)
    <3>1. ReadHolders' = ReadHolders \cup {a}
      BY <1>4, <2>1, HoldersStep
    <3>2. a \in ReadHolders => ReadHolders' = ReadHolders
      BY <3>1
    <3>3. CASE a \in ReadHolders
      <4>1. readers' <= readers /\ ReadHolders' = ReadHolders
        BY <1>2, <1>4, <2>1, <3>2, <3>3
      <4>2. QED
        BY <1>3, <1>4, <4>1 DEF ReadInv, Debt
    <3>4. CASE a \notin ReadHolders
      <4>1. readers' <= readers + 1
        BY <1>2, <1>4, <2>1, <3>4
      <4>2. Cardinality(ReadHolders') = Cardinality(ReadHolders) + 1
        BY <1>3, <3>1, <3>4
      <4>3. QED
        BY <1>3, <1>4, <4>1, <4>2 DEF ReadInv, Debt
    <3>5. QED
      BY <3>3, <3>4
  <2>2. CASE ~(locked'[a] = "read" \/ (pc'[a] = "nestedlook" /\ writer' # a))
    <3>1. ReadHolders' = ReadHolders \ {a}
      BY <1>4, <2>2, HoldersStep
    <3>2. a \notin ReadHolders => ReadHolders' = ReadHolders
      BY <3>1
    <3>3. CASE a \notin ReadHolders
      <4>1. readers' <= readers /\ ReadHolders' = ReadHolders
        BY <1>2, <1>4, <2>2, <3>2, <3>3
      <4>2. QED
        BY <1>3, <1>4, <4>1 DEF ReadInv, Debt
    <3>4. CASE a \in ReadHolders
      <4>1. readers' <= readers - 1
        BY <1>2, <1>4, <2>2, <3>4
      <4>2. Cardinality(ReadHolders') = Cardinality(ReadHolders) - 1
        BY <1>3, <3>1, <3>4
      <4>3. QED
        BY <1>3, <1>4, <4>1, <4>2 DEF ReadInv, Debt
    <3>5. QED
      BY <3>3, <3>4
  <2>3. QED
    BY <2>1, <2>2
<1>5. ASSUME NEW f \in Fd, CallDel(a, f) PROVE ReadInv' /\ Debt' >= Debt
  BY <1>4, <1>5 DEF CallDel, ScopeInv
<1>6. ASSUME NEW f \in Fd, NEW b \in BOOLEAN, CallGet(a, f, b) PROVE ReadInv' /\ Debt' >= Debt
  BY <1>4, <1>6 DEF CallGet, ScopeInv
<1>7. CASE LockRead(a)
  BY <1>4, <1>7 DEF LockRead, Rdlock, ScopeInv
<1>8. CASE LockWrite(a)
  BY <1>4, <1>8, FdAssumption DEF LockWrite, Wrlock, ScopeInv
<1>9. CASE NestedLock(a)
  BY <1>4, <1>9 DEF NestedLock, Rdlock, ScopeInv
<1>10. CASE LockDel(a)
  BY <1>4, <1>10, FdAssumption DEF LockDel, Wrlock, ScopeInv
<1>11. CASE Look(a)
  BY <1>4, <1>11 DEF Look, ScopeInv
<1>12. CASE UnlockRead(a)
  BY <1>4, <1>12, FdAssumption DEF UnlockRead, Unlock, ScopeInv
<1>13. CASE NestedUnlock(a)
  BY <1>4, <1>13, FdAssumption DEF NestedUnlock, Unlock, ScopeInv
<1>14. CASE Test(a)
  BY <1>4, <1>14 DEF Test, ScopeInv
<1>15. CASE Resize(a)
  BY <1>4, <1>15 DEF Resize, ScopeInv
<1>16. CASE Store(a)
  BY <1>4, <1>16 DEF Store, ScopeInv
<1>17. CASE Del(a)
  BY <1>4, <1>17 DEF Del, ScopeInv
<1>18. CASE Exit(a)
  BY <1>4, <1>18, FdAssumption DEF Exit, Unlock, ScopeInv
<1>19. QED
  BY <1>5, <1>6, <1>7, <1>8, <1>9, <1>10, <1>11, <1>12, <1>13, <1>14, <1>15,
     <1>16, <1>17, <1>18 DEF Call, Acquire, Step

\* Every step of the program keeps the types.
LEMMA TypeNext == TypeInv /\ [Next]_vars => TypeInv'
<1> SUFFICES ASSUME TypeInv, [Next]_vars PROVE TypeInv'
  OBVIOUS
<1>1. ASSUME NEW a \in Thread, Call(a) \/ Acquire(a) \/ Step(a) PROVE TypeInv'
  BY <1>1, ShapeStep, ScopeStep, ReadStep DEF TypeInv
<1>2. CASE UNCHANGED vars
  BY <1>2 DEF vars, lockVars, tableVars, TypeInv, Shape, ScopeInv, ReadInv, ReadHolders
<1>3. QED
  BY <1>1, <1>2 DEF Next

\* Whatever the threads do, every variable has its type: while
\* nothing undefined has happened, a writer excludes readers and no context
\* lies beyond the table.
THEOREM TypesKept == Spec => []TypeOK
<1>1. Init => TypeInv
  BY TypeInit
<1>2. TypeInv => TypeOK
  BY ShapeTypes DEF TypeInv
<1>3. QED
  BY <1>1, <1>2, TypeNext, PTL DEF Spec

---------------------------------------------------------------------------
\* One context per descriptor.

\* The threads are initially free, and the table larger than 1.
LEMMA CreateInit == Init => CreateInv /\ FreshContext /\ DebtInv
BY FdAssumption DEF Init, CreateInv, FreshContext, Creating, DebtInv

\* What every step but a call leaves to the other threads, and to the call itself.
LEMMA InCall ==
  ASSUME TypeInv, NEW a \in Thread, Acquire(a) \/ Step(a)
  PROVE  /\ UNCHANGED <<arg, create>> /\ pc[a] # "free"
         /\ \A b \in Thread \ {a} : pc'[b] = pc[b]
         /\ pc'[a] \in Creating => pc[a] \in Creating \/ (create[a] /\ arg[a] \notin datas)
         /\ pc'[a] \in {"dellock", "del"} => pc[a] \in {"dellock", "del"}
         /\ pc'[a] = "resize" => pc[a] = "test" /\ arg[a] >= size
<1> USE DEF TypeInv, Shape, At, Goto
<1>1. CASE LockRead(a)
  BY <1>1 DEF LockRead, Creating
<1>2. CASE LockWrite(a)
  BY <1>2 DEF LockWrite, Creating
<1>3. CASE NestedLock(a)
  BY <1>3 DEF NestedLock, Creating
<1>4. CASE LockDel(a)
  BY <1>4 DEF LockDel, Creating
<1>5. CASE Look(a)
  BY <1>5 DEF Look, Creating
<1>6. CASE UnlockRead(a)
  BY <1>6 DEF UnlockRead, Creating
<1>7. CASE NestedUnlock(a)
  BY <1>7 DEF NestedUnlock, Creating
<1>8. CASE Test(a)
  BY <1>8 DEF Test, TooSmall, Creating
<1>9. CASE Resize(a)
  BY <1>9 DEF Resize, Creating
<1>10. CASE Store(a)
  BY <1>10 DEF Store, Creating
<1>11. CASE Del(a)
  BY <1>11 DEF Del, Creating
<1>12. CASE Exit(a)
  BY <1>12 DEF Exit, Creating
<1>13. QED
  BY <1>1, <1>2, <1>3, <1>4, <1>5, <1>6, <1>7, <1>8, <1>9, <1>10, <1>11, <1>12
     DEF Acquire, Step

\* What a step does to the table.
LEMMA TableChange ==
  ASSUME NEW a \in Thread, Call(a) \/ Acquire(a) \/ Step(a)
  PROVE  \/ UNCHANGED tableVars
         \/ Resize(a)
         \/ Store(a) /\ size' = size
         \/ Del(a) /\ size' = size
BY DEF Call, CallDel, CallGet, Acquire, LockRead, LockWrite, NestedLock, LockDel,
       Step, Look, UnlockRead, NestedUnlock, Test, Exit, Store, Del

\* A new call respects those that create or delete its descriptor.
LEMMA CreateCall ==
  ASSUME TypeInv, CreateInv, FreshContext, NEW a \in Thread, Call(a)
  PROVE  CreateInv' /\ FreshContext'
<1> USE DEF TypeInv, Shape, At, Goto
<1>1. PICK f \in Fd : CallDel(a, f) \/ \E b \in BOOLEAN : CallGet(a, f, b)
  BY DEF Call
<1>2. CASE CallDel(a, f)
  <2>1. /\ pc[a] = "free" /\ pc'[a] = "dellock" /\ arg'[a] = f /\ create'[a] = FALSE
        /\ UNCHANGED <<size, datas>> /\ ~Owned(f)
        /\ \A b \in Thread \ {a} :
             pc'[b] = pc[b] /\ arg'[b] = arg[b] /\ create'[b] = create[b]
    BY <1>2 DEF CallDel, tableVars
  <2>2. \A b \in Thread : pc[b] # "free" /\ arg[b] = f => ~create[b]
    BY <2>1 DEF Owned
  <2>3. FreshContext'
    BY <2>1 DEF FreshContext, Creating
  <2>4. CreateInv'
    BY <2>1, <2>2 DEF CreateInv, Creating
  <2>5. QED
    BY <2>3, <2>4
<1>3. ASSUME NEW w \in BOOLEAN, CallGet(a, f, w) PROVE CreateInv' /\ FreshContext'
  <2>1. /\ pc[a] = "free" /\ pc'[a] = "rdlock" /\ arg'[a] = f /\ create'[a] = w
        /\ UNCHANGED <<size, datas>> /\ (w => ~Owned(f))
        /\ \A b \in Thread \ {a} :
             pc'[b] = pc[b] /\ arg'[b] = arg[b] /\ create'[b] = create[b]
    BY <1>3 DEF CallGet, tableVars
  <2>2. w => \A b \in Thread : pc[b] # "free" /\ arg[b] = f =>
               ~create[b] /\ pc[b] \notin {"dellock", "del"}
    BY <2>1 DEF Owned
  <2>3. FreshContext'
    BY <2>1 DEF FreshContext, Creating
  <2>4. CreateInv'
    BY <2>1, <2>2 DEF CreateInv, Creating
  <2>5. QED
    BY <2>3, <2>4
<1>4. QED
  BY <1>1, <1>2, <1>3

\* Every other step of a call keeps its descriptor to itself.
LEMMA CreateStep ==
  ASSUME TypeInv, CreateInv, NEW a \in Thread, Acquire(a) \/ Step(a)
  PROVE  CreateInv'
<1>1. /\ UNCHANGED <<arg, create>> /\ pc[a] # "free"
      /\ \A b \in Thread \ {a} : pc'[b] = pc[b]
      /\ pc'[a] \in Creating => pc[a] \in Creating \/ create[a]
      /\ pc'[a] \in {"dellock", "del"} => pc[a] \in {"dellock", "del"}
      /\ pc'[a] = "resize" => arg[a] >= size
  BY InCall
<1>2. arg[a] \in Nat /\ size \in Nat /\ size > 1
  BY <1>1, FdAssumption DEF TypeInv, Shape, ScopeInv, CreateInv
<1>3. size' > 1
  <2>1. CASE Resize(a)
    <3>1. pc[a] = "resize" /\ size' = Resized(arg[a])
      BY <2>1 DEF Resize, At
    <3>2. arg[a] > 1
      BY <3>1 DEF CreateInv
    <3>3. QED
      BY <1>2, <3>1, <3>2, ResizedLarger
  <2>2. CASE size' = size
    BY <1>2, <2>2
  <2>3. QED
    BY <2>1, <2>2, TableChange DEF tableVars
<1>4. \A b \in Thread :
        /\ pc'[b] \in Creating => create'[b]
        /\ pc'[b] \in {"dellock", "del"} => ~create'[b]
        /\ pc'[b] = "resize" => arg'[b] > 1
  BY <1>1, <1>2 DEF CreateInv
<1>5. \A b, c \in Thread :
        b # c /\ pc'[b] # "free" /\ create'[b] /\ arg'[c] = arg'[b] =>
          pc'[c] = "free" \/ (~create'[c] /\ pc'[c] \notin {"dellock", "del"})
  <2> SUFFICES ASSUME NEW b \in Thread, NEW c \in Thread,
                      b # c, pc'[b] # "free", create'[b], arg'[c] = arg'[b]
               PROVE  pc'[c] = "free" \/ (~create'[c] /\ pc'[c] \notin {"dellock", "del"})
    OBVIOUS
  <2>1. pc[b] # "free" /\ create[b] /\ arg[c] = arg[b]
    BY <1>1
  <2>2. pc[c] = "free" \/ (~create[c] /\ pc[c] \notin {"dellock", "del"})
    BY <2>1 DEF CreateInv
  <2>3. QED
    BY <1>1, <2>2
<1>6. QED
  BY <1>3, <1>4, <1>5 DEF CreateInv

\* A descriptor gets a context only from the call that has found none.
LEMMA FreshStep ==
  ASSUME TypeInv, CreateInv, FreshContext, NEW a \in Thread, Acquire(a) \/ Step(a)
  PROVE  FreshContext'
<1>1. /\ UNCHANGED <<arg, create>> /\ pc[a] # "free"
      /\ \A b \in Thread \ {a} : pc'[b] = pc[b]
      /\ pc'[a] \in Creating => pc[a] \in Creating \/ arg[a] \notin datas
  BY InCall
<1>2. \A b \in Thread : pc'[b] \in Creating => arg[b] \notin datas
  BY <1>1 DEF FreshContext
<1>3. CASE Store(a)
  <2>1. pc[a] = "store" /\ pc'[a] = "exit" /\ datas' = datas \cup {arg[a]}
    BY <1>3 DEF Store, At, Goto, TypeInv, Shape
  <2>2. create[a]
    BY <2>1 DEF CreateInv, Creating
  <2>3. ASSUME NEW b \in Thread \ {a}, pc'[b] \in Creating PROVE arg[b] # arg[a]
    <3>1. pc[b] \in Creating /\ create[b] /\ pc[b] # "free"
      BY <1>1, <2>3 DEF CreateInv, Creating
    <3>2. QED
      BY <1>1, <2>2, <3>1 DEF CreateInv
  <2>4. pc'[a] \notin Creating
    BY <2>1 DEF Creating
  <2>5. QED
    BY <1>1, <1>2, <2>1, <2>3, <2>4 DEF FreshContext
<1>4. CASE ~Store(a)
  <2>1. datas' \subseteq datas
    BY <1>4, TableChange DEF Resize, Del, tableVars
  <2>2. QED
    BY <1>1, <1>2, <2>1 DEF FreshContext
<1>5. QED
  BY <1>3, <1>4

\* Every step of the program keeps descriptors apart.
LEMMA CreateNext ==
  TypeInv /\ CreateInv /\ FreshContext /\ [Next]_vars => CreateInv' /\ FreshContext'
<1> SUFFICES ASSUME TypeInv, CreateInv, FreshContext, [Next]_vars
             PROVE  CreateInv' /\ FreshContext'
  OBVIOUS
<1>1. CASE UNCHANGED vars
  BY <1>1 DEF vars, tableVars, CreateInv, FreshContext
<1>2. QED
  BY <1>1, CreateCall, CreateStep, FreshStep DEF Next

\* For any threads and descriptors, a descriptor that is being given a context
\* has none, from the look that found none to the store, with no lock in between.
THEOREM OneContext == Spec => []FreshContext
<1>1. Init => TypeInv /\ CreateInv /\ FreshContext
  BY TypeInit, CreateInit
<1>2. QED
  BY <1>1, TypeNext, CreateNext, PTL DEF Spec

---------------------------------------------------------------------------
\* Contexts that go.

\* A resize that was not overtaken leaves room for all that was there.
LEMMA ContextStep ==
  ASSUME TypeInv, CreateInv, [Next]_vars, ~undefined, NEW f \in datas
  PROVE  \/ f \in datas'
         \/ \E a \in Thread : pc[a] = "del" /\ arg[a] = f
         \/ \E a \in Thread : pc[a] = "resize" /\ arg[a] < size
<1>1. f < size /\ size \in Nat /\ f \in Nat
  BY FdAssumption DEF TypeInv, Shape
<1>2. ASSUME NEW a \in Thread, Resize(a), ~(arg[a] < size) PROVE f \in datas'
  <2>1. pc[a] = "resize" /\ size' = Resized(arg[a]) /\ datas' = {g \in datas : g < size'}
    BY <1>2 DEF Resize, At
  <2>2. arg[a] \in Nat /\ arg[a] > 1
    BY <2>1, FdAssumption DEF TypeInv, ScopeInv, CreateInv
  <2>3. arg[a] < size' /\ size' \in Nat
    BY <2>1, <2>2, ResizedLarger
  <2>4. f < size'
    BY <1>1, <1>2, <2>2, <2>3
  <2>5. QED
    BY <2>1, <2>4
<1>3. ASSUME NEW a \in Thread, Resize(a) PROVE pc[a] = "resize"
  BY <1>3 DEF Resize, At
<1>4. ASSUME NEW a \in Thread, Del(a) PROVE pc[a] = "del" /\ datas' = datas \ {arg[a]}
  BY <1>4 DEF Del, At
<1>5. ASSUME NEW a \in Thread, Store(a) PROVE f \in datas'
  BY <1>5 DEF Store
<1>6. CASE UNCHANGED vars
  BY <1>6 DEF vars, tableVars
<1>7. ASSUME NEW a \in Thread, Call(a) \/ Acquire(a) \/ Step(a)
      PROVE  \/ f \in datas'
             \/ pc[a] = "del" /\ arg[a] = f
             \/ pc[a] = "resize" /\ arg[a] < size
  <2>1. CASE UNCHANGED tableVars
    BY <2>1 DEF tableVars
  <2>2. CASE Resize(a)
    BY <1>2, <1>3, <2>2
  <2>3. CASE Store(a)
    BY <1>5, <2>3
  <2>4. CASE Del(a)
    BY <1>4, <2>4
  <2>5. QED
    BY <1>7, <2>1, <2>2, <2>3, <2>4, TableChange
<1>8. QED
  BY <1>6, <1>7 DEF Next

\* For any threads, descriptors and first table, a context leaves the table only
\* with del() of its descriptor or in a resize that another one has overtaken:
\* the size is tested again at the right place, and the lock alone is missing.
THEOREM ContextsStay == Spec => ContextStays
<1> DEFINE Stays ==
             \A f \in datas :
               \/ f \in datas'
               \/ \E a \in Thread : pc[a] = "del" /\ arg[a] = f
               \/ \E a \in Thread : pc[a] = "resize" /\ arg[a] < size
<1>1. TypeInv /\ CreateInv /\ [Next]_vars => [Stays]_vars
  <2> SUFFICES ASSUME TypeInv, CreateInv, [Next]_vars, vars' # vars PROVE Stays
    OBVIOUS
  <2>1. CASE undefined
    BY <2>1 DEF Next, Call, CallDel, CallGet, Acquire, LockRead, LockWrite, NestedLock,
              LockDel, Step, Look, UnlockRead, NestedUnlock, Test, Resize, Store, Del,
              Exit, At
  <2>2. CASE ~undefined
    BY <2>2, ContextStep
  <2>3. QED
    BY <2>1, <2>2
<1>2. Init => TypeInv /\ CreateInv /\ FreshContext
  BY TypeInit, CreateInit
<1>3. QED
  BY <1>1, <1>2, TypeNext, CreateNext, PTL DEF Spec, ContextStays

---------------------------------------------------------------------------
\* The unlock that is one too many.

\* What a step does to the scoped lock of its frame: only Exit lets go of one
\* that is locked for writing, and it then unlocks the mutex.
LEMMA LostStep ==
  ASSUME TypeInv, NEW a \in Thread, Call(a) \/ Acquire(a) \/ Step(a), a \in Lost
  PROVE  a \in Lost' \/ (Exit(a) /\ Debt' > Debt)
<1> USE DEF TypeInv, Shape, At, Goto, Holds, lockVars
<1>1. locked[a] = "write" /\ writer # a
  BY DEF Lost
<1>2. CASE Exit(a)
  <2>1. /\ writer' = writer /\ readers' = readers - 1 /\ locked'[a] = "none"
        /\ pc'[a] = "free" /\ pc[a] = "exit"
        /\ \A b \in Thread \ {a} : pc'[b] = pc[b] /\ locked'[b] = locked[b]
    BY <1>1, <1>2 DEF Exit, Unlock
  <2>2. ReadHolders' = ReadHolders \ {a}
    BY <2>1, HoldersStep
  <2>3. a \notin ReadHolders
    BY <1>1, <2>1 DEF ReadHolders
  <2>4. ReadHolders' = ReadHolders
    BY <2>2, <2>3
  <2>5. Cardinality(ReadHolders) \in Nat /\ readers \in Int
    BY HoldersCount
  <2>6. QED
    BY <1>2, <2>1, <2>4, <2>5 DEF Debt
<1>3. CASE ~Exit(a)
  <2>1. pc[a] \notin {"free", "rdlock", "look", "unlock", "wrlock", "dellock"}
    BY <1>1 DEF ScopeInv
  <2>2. locked'[a] = "write" /\ writer' # a
    <3>1. CASE NestedLock(a)
      BY <1>1, <3>1 DEF NestedLock, Rdlock
    <3>2. CASE NestedUnlock(a)
      BY <1>1, <3>2 DEF NestedUnlock, Unlock
    <3>3. CASE Test(a) \/ Resize(a) \/ Store(a) \/ Del(a)
      BY <1>1, <3>3 DEF Test, Resize, Store, Del
    <3>4. QED
      BY <1>3, <2>1, <3>1, <3>2, <3>3 DEF Call, CallDel, CallGet, Acquire, LockRead,
         LockWrite, LockDel, Step, Look, UnlockRead
  <2>3. QED
    BY <2>2 DEF Lost
<1>4. QED
  BY <1>2, <1>3

\* A step of one thread leaves what the others have lost.
LEMMA LostOthers ==
  ASSUME TypeInv, NEW a \in Thread, Call(a) \/ Acquire(a) \/ Step(a),
         NEW b \in Lost, b # a
  PROVE  b \in Lost'
<1>1. b \in Thread /\ locked[b] = "write" /\ writer # b
  BY DEF Lost
<1>2. locked'[b] = locked[b]
  BY <1>1 DEF TypeInv, Shape, Holds, Call, CallDel, CallGet, Acquire, LockRead, LockWrite,
     NestedLock, LockDel, Step, Look, UnlockRead, NestedUnlock, Test, Resize, Store, Del,
     Exit
<1>3. writer' \in {writer, a, None}
  BY DEF lockVars, Call, CallDel, CallGet, Acquire, LockRead, LockWrite,
     NestedLock, LockDel, Step, Look, UnlockRead, NestedUnlock, Test, Resize, Store, Del,
     Exit, Rdlock, Wrlock, Unlock
<1>4. QED
  BY <1>1, <1>2, <1>3, FdAssumption DEF Lost

\* Every step keeps a lost lock lost, until its unlock takes one from a reader.
LEMMA DebtStep ==
  ASSUME TypeInv, DebtInv, NEW a \in Thread, Call(a) \/ Acquire(a) \/ Step(a)
  PROVE  DebtInv'
<1> SUFFICES ASSUME ~undefined', datas' # {} PROVE Lost' # {} \/ Debt' > 0
  BY DEF DebtInv
<1>1. ~undefined
  BY DEF Call, CallDel, CallGet, Acquire, LockRead, LockWrite, NestedLock, LockDel, Step,
         Look, UnlockRead, NestedUnlock, Test, Resize, Store, Del, Exit, At
<1>2. Debt' >= Debt
  BY ReadStep
<1>3. Debt \in Int /\ Debt >= 0 /\ Debt' \in Int
  <2>2. Cardinality(ReadHolders) \in Nat /\ Cardinality(ReadHolders') \in Nat
    BY HoldersCount
  <2>3. Shape' /\ Shape
    BY ShapeStep DEF TypeInv
  <2>4. readers \in Int /\ readers' \in Int
    BY <2>3 DEF Shape
  <2>5. QED
    BY <2>2, <2>4 DEF Debt, TypeInv, ReadInv
<1>4. CASE Debt > 0
  BY <1>2, <1>3, <1>4
<1>5. CASE Lost # {}
  <2>1. PICK b \in Lost : TRUE
    BY <1>5
  <2>2. CASE b = a
    BY <1>3, <2>2, LostStep
  <2>3. CASE b # a
    BY <2>3, LostOthers
  <2>4. QED
    BY <2>2, <2>3
<1>6. CASE datas = {}
  <2>1. Store(a)
    BY <1>6, TableChange DEF Resize, Del, tableVars
  <2>2. locked[a] = "write" /\ writer # a
    BY <2>1 DEF Store, At, TypeInv, ScopeInv
  <2>3. a \in Lost'
    BY <2>1, <2>2 DEF Store, lockVars, Lost
  <2>4. QED
    BY <2>3
<1>7. QED
  BY <1>1, <1>4, <1>5, <1>6 DEF DebtInv

\* Every step of the program keeps it.
LEMMA DebtNext == TypeInv /\ DebtInv /\ [Next]_vars => DebtInv'
<1> SUFFICES ASSUME TypeInv, DebtInv, [Next]_vars PROVE DebtInv'
  OBVIOUS
<1>1. CASE UNCHANGED vars
  BY <1>1 DEF vars, lockVars, tableVars, DebtInv, Lost, Debt, ReadHolders
<1>2. QED
  BY <1>1, DebtStep DEF Next

\* For any threads and descriptors: once a context has been made, all calls
\* have returned only if a mutex was unlocked that nobody held, or two threads
\* raced for the table.  No program that makes a context by the hooked
\* socket() or accept() comes to rest with a sound lock.
THEOREM NeverAtRest == Spec => []UnlockedTooOften
<1>1. TypeInv /\ DebtInv => UnlockedTooOften
  <2> SUFFICES ASSUME TypeInv, DebtInv, datas # {}, \A a \in Thread : pc[a] = "free",
                      ~undefined
               PROVE  FALSE
    BY DEF UnlockedTooOften
  <2>1. \A a \in Thread : locked[a] = "none"
    BY DEF TypeInv, ScopeInv
  <2>2. Lost = {} /\ ReadHolders = {}
    BY <2>1 DEF Lost, ReadHolders
  <2>3. Cardinality(ReadHolders) = 0
    BY <2>2, FS_EmptySet
  <2>4. readers \in Int /\ readers >= 0
    BY DEF TypeInv, Shape
  <2>5. ~(Debt > 0)
    BY <2>3, <2>4 DEF Debt
  <2>6. QED
    BY <2>2, <2>5 DEF DebtInv
<1>2. Init => TypeInv /\ DebtInv
  BY TypeInit, CreateInit
<1>3. QED
  BY <1>1, <1>2, TypeNext, DebtNext, PTL DEF Spec
=============================================================================
