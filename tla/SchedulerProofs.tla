-------------------------- MODULE SchedulerProofs --------------------------
(***************************************************************************)
(* Theorems about Scheduler for any number of threads and tasks.           *)
(***************************************************************************)
EXTENDS Scheduler, FiniteSetTheorems, TLAPS

\* Every runner between taking and leaving a task holds one.
Holding == \A r \in Busy : task[r] \in Task

\* No runner has started before start(), nor the owner's before stop().
NotStarted ==
  /\ client = "open" => \A r \in Runner : pc[r] = "off"
  /\ UseCaller /\ client = "started" => pc[Owner] = "off"

CountInv == TypeOK /\ Holding /\ NotStarted /\ CountersAccurate

---------------------------------------------------------------------------
\* Helper operators of the model.

\* The scheduler has finitely many runner threads.
LEMMA RunnerFinite == IsFiniteSet(Runner)
  <1>1. IsFiniteSet(Worker) /\ IsFiniteSet({Owner}) /\ IsFiniteSet({})
    BY RunnerAssumption, FS_Singleton, FS_EmptySet
  <1>2. QED
    BY <1>1, FS_Union DEF Runner

\* Erase returns a queue of entries, one shorter.
LEMMA EraseType ==
  ASSUME NEW q \in Seq(Entry), NEW i \in 1 .. Len(q)
  PROVE  /\ Erase(q, i) \in Seq(Entry)
         /\ Len(Erase(q, i)) = Len(q) - 1
         /\ \A j \in 1 .. Len(q) - 1 :
              Erase(q, i)[j] = IF j < i THEN q[j] ELSE q[j + 1]
  <1>1. Len(q) - 1 \in Nat
    OBVIOUS
  <1>2. \A j \in 1 .. Len(q) - 1 : (IF j < i THEN q[j] ELSE q[j + 1]) \in Entry
    OBVIOUS
  <1>3. QED
    BY <1>1, <1>2 DEF Erase

\* A set of runners grows and shrinks by one.
LEMMA CountStep ==
  ASSUME NEW S \in SUBSET Runner, NEW r \in Runner
  PROVE  /\ Cardinality(S) \in Nat
         /\ r \notin S => Cardinality(S \cup {r}) = Cardinality(S) + 1
         /\ r \in S => Cardinality(S \ {r}) = Cardinality(S) - 1
         /\ r \in S => Cardinality(S) > 0
  <1>1. IsFiniteSet(S)
    BY RunnerFinite, FS_Subset
  <1>2. Cardinality(S) \in Nat
    BY <1>1, FS_CardinalityType
  <1>3. r \notin S => Cardinality(S \cup {r}) = Cardinality(S) + 1
    BY <1>1, FS_AddElement
  <1>4. r \in S => Cardinality(S \ {r}) = Cardinality(S) - 1
    BY <1>1, FS_RemoveElement
  <1>5. r \in S => Cardinality(S) > 0
    BY <1>1, <1>2, FS_EmptySet
  <1>6. QED
    BY <1>2, <1>3, <1>4, <1>5

---------------------------------------------------------------------------
\* Types, counters and holders.

\* How a step that moves one runner changes the sets the counters count.
LEMMA MoveRunner ==
  ASSUME TypeOK, NEW r \in Runner, NEW where \in RunnerPC, Goto(r, where)
  PROVE  /\ pc' \in [Runner -> RunnerPC]
         /\ \A q \in Runner : pc'[q] = IF q = r THEN where ELSE pc[q]
         /\ Busy' = IF where \in BusyPC THEN Busy \cup {r} ELSE Busy \ {r}
         /\ Idling' = IF where \in IdlePC THEN Idling \cup {r} ELSE Idling \ {r}
  <1>1. /\ pc' \in [Runner -> RunnerPC]
        /\ \A q \in Runner : pc'[q] = IF q = r THEN where ELSE pc[q]
    BY DEF TypeOK, Goto
  <1>2. QED
    BY <1>1 DEF Busy, Idling

\* A step in which only runner r moves keeps the invariant when the counters
\* follow the move.
LEMMA KeepCounts ==
  ASSUME CountInv, TypeOK', client' = client,
         NEW r \in Runner, pc[r] # "off",
         NEW where \in RunnerPC, Goto(r, where),
         active' = IF where \in BusyPC /\ pc[r] \notin BusyPC THEN active + 1
                   ELSE IF where \notin BusyPC /\ pc[r] \in BusyPC
                        THEN active - 1 ELSE active,
         idle' = IF where \in IdlePC /\ pc[r] \notin IdlePC THEN idle + 1
                 ELSE IF where \notin IdlePC /\ pc[r] \in IdlePC
                      THEN idle - 1 ELSE idle,
         \A q \in Runner \ {r} : task'[q] = task[q],
         where \in BusyPC => task'[r] \in Task
  PROVE  CountInv'
  <1> USE DEF CountInv
  <1>1. /\ \A q \in Runner : pc'[q] = IF q = r THEN where ELSE pc[q]
        /\ Busy' = IF where \in BusyPC THEN Busy \cup {r} ELSE Busy \ {r}
        /\ Idling' = IF where \in IdlePC THEN Idling \cup {r} ELSE Idling \ {r}
    BY MoveRunner
  <1>2. Holding'
    BY <1>1 DEF Holding, Busy
  <1>3. NotStarted'
    BY <1>1 DEF NotStarted, Runner
  <1>4. Busy \in SUBSET Runner /\ Idling \in SUBSET Runner
    BY DEF Busy, Idling
  <1>5. /\ r \in Busy <=> pc[r] \in BusyPC
        /\ r \in Idling <=> pc[r] \in IdlePC
    BY DEF Busy, Idling
  <1>6. active' = Cardinality(Busy')
    <2>1. CASE where \in BusyPC /\ pc[r] \notin BusyPC
      BY <2>1, <1>1, <1>4, <1>5, CountStep DEF CountersAccurate
    <2>2. CASE where \notin BusyPC /\ pc[r] \in BusyPC
      BY <2>2, <1>1, <1>4, <1>5, CountStep DEF CountersAccurate
    <2>3. CASE where \in BusyPC <=> pc[r] \in BusyPC
      <3>1. Busy' = Busy
        BY <2>3, <1>1, <1>5
      <3>2. QED
        BY <2>3, <3>1 DEF CountersAccurate
    <2>4. QED
      BY <2>1, <2>2, <2>3
  <1>7. idle' = Cardinality(Idling')
    <2>1. CASE where \in IdlePC /\ pc[r] \notin IdlePC
      BY <2>1, <1>1, <1>4, <1>5, CountStep DEF CountersAccurate
    <2>2. CASE where \notin IdlePC /\ pc[r] \in IdlePC
      BY <2>2, <1>1, <1>4, <1>5, CountStep DEF CountersAccurate
    <2>3. CASE where \in IdlePC <=> pc[r] \in IdlePC
      <3>1. Idling' = Idling
        BY <2>3, <1>1, <1>5
      <3>2. QED
        BY <2>3, <3>1 DEF CountersAccurate
    <2>4. QED
      BY <2>1, <2>2, <2>3
  <1>8. QED
    BY <1>2, <1>3, <1>6, <1>7 DEF CountersAccurate

\* A runner that holds a task, or is idle, is counted.
LEMMA Counted ==
  ASSUME CountInv, NEW r \in Runner
  PROVE  /\ pc[r] \in BusyPC => active - 1 \in Nat
         /\ pc[r] \in IdlePC => idle - 1 \in Nat
  <1>1. Busy \in SUBSET Runner /\ Idling \in SUBSET Runner
    BY DEF Busy, Idling
  <1>2. /\ r \in Busy => Cardinality(Busy) > 0 /\ Cardinality(Busy) \in Nat
        /\ r \in Idling => Cardinality(Idling) > 0 /\ Cardinality(Idling) \in Nat
    BY <1>1, CountStep
  <1>3. QED
    BY <1>2 DEF CountInv, CountersAccurate, Busy, Idling

\* Initially nothing is counted and nobody is counted for.
THEOREM CountInit == Init => CountInv
  <1> SUFFICES ASSUME Init PROVE CountInv
    OBVIOUS
  <1>1. TypeOK
    <2>1. queue \in Seq(Entry) /\ active \in Nat /\ idle \in Nat
      BY DEF Init
    <2>2. pc \in [Runner -> RunnerPC] /\ task \in [Runner -> Task \cup {None}]
      BY DEF Init, RunnerPC
    <2>3. /\ state \in [Task -> {"READY", "RUNNING", "TERM"}]
          /\ saved \in [Task -> BOOLEAN]
          /\ idleDone \in [Runner -> BOOLEAN]
          /\ mpid \in [Worker -> {"zero", "junk", "tid"}]
      BY DEF Init
    <2>4. QED
      BY <2>1, <2>2, <2>3 DEF Init, TypeOK
  <1>2. Busy = {} /\ Idling = {}
    BY DEF Init, Busy, Idling, BusyPC, IdlePC
  <1>3. Holding /\ NotStarted /\ CountersAccurate
    BY <1>2, FS_EmptySet
    DEF Init, Holding, NotStarted, CountersAccurate, Runner
  <1>4. QED
    BY <1>1, <1>3 DEF CountInv

\* Every step keeps the types, the holders and the counters of run() right:
\* ++ and -- of _activeThreadCount and _idleThreadCount pair up.
THEOREM CountNext == CountInv /\ [Next]_vars => CountInv'
  <1> SUFFICES ASSUME CountInv, [Next]_vars PROVE CountInv'
    OBVIOUS
  <1> USE DEF CountInv
  <1>1. CASE UNCHANGED vars
    BY <1>1 DEF vars, runVars, fiberVars, threadVars, TypeOK, Holding,
                NotStarted, CountersAccurate, Busy, Idling
  <1>2. ASSUME NEW t \in Task, OwnerAdd(t) PROVE CountInv'
    <2>1. Busy' = Busy /\ Idling' = Idling
      BY <1>2 DEF OwnerAdd, runVars, Busy, Idling
    <2>2. [task |-> t, thread |-> Pin[t]] \in Entry
      BY TaskAssumption DEF Entry
    <2>3. TypeOK'
      BY <1>2, <2>2 DEF OwnerAdd, Submit, Enqueue, TypeOK, runVars, fiberVars,
                        threadVars
    <2>4. Holding' /\ NotStarted' /\ CountersAccurate'
      BY <1>2, <2>1 DEF OwnerAdd, Holding, NotStarted, CountersAccurate, runVars
    <2>5. QED
      BY <2>3, <2>4
  <1>3. CASE Start
    <2>1. pc' \in [Runner -> RunnerPC]
      BY <1>3 DEF Start, TypeOK, RunnerPC
    <2>2. mpid' \in [Worker -> {"zero", "junk", "tid"}]
      BY <1>3 DEF Start
    <2>3. /\ UNCHANGED <<queue, active, idle, stopping, task, idleDone>>
          /\ UNCHANGED <<state, saved, joined, added, failure>>
          /\ client' = "started"
      BY <1>3 DEF Start, fiberVars
    <2>4. TypeOK'
      BY <2>1, <2>2, <2>3 DEF TypeOK
    <2>5. \A r \in Runner : pc[r] = "off" /\ pc'[r] \in {"born", "off"}
      BY <1>3 DEF Start, NotStarted
    <2>6. Busy' = Busy /\ Idling' = Idling
      BY <2>5 DEF Busy, Idling, BusyPC, IdlePC
    <2>7. NotStarted'
      BY <1>3, <2>3, <2>5, RunnerAssumption DEF Start, NotStarted, Runner
    <2>8. QED
      BY <2>3, <2>4, <2>6, <2>7 DEF Holding, CountersAccurate
  <1>4. CASE StopCall
    <2>1. /\ UNCHANGED <<queue, active, idle, task, idleDone, mpid>>
          /\ UNCHANGED <<state, saved, joined, added>>
          /\ stopping' = TRUE
          /\ client' \in {"root", "join"}
          /\ failure' \in {failure, "assert"}
      BY <1>4 DEF StopCall, fiberVars, threadVars, QcAssert
    <2>2. /\ pc' \in [Runner -> RunnerPC]
          /\ \A r \in Runner :
               pc'[r] = pc[r] \/ (pc[r] = "off" /\ pc'[r] = "fetch")
      BY <1>4 DEF StopCall, TypeOK, NotStarted, RunnerPC, Runner
    <2>3. Busy' = Busy /\ Idling' = Idling
      BY <2>2 DEF Busy, Idling, BusyPC, IdlePC
    <2>4. TypeOK'
      BY <2>1, <2>2 DEF TypeOK
    <2>5. QED
      BY <2>1, <2>3, <2>4 DEF Holding, NotStarted, CountersAccurate
  <1>5. CASE RootDone
    <2>1. Busy' = Busy /\ Idling' = Idling
      BY <1>5 DEF RootDone, runVars, Busy, Idling
    <2>2. TypeOK'
      BY <1>5 DEF RootDone, TypeOK, runVars, fiberVars, threadVars
    <2>3. QED
      BY <1>5, <2>1, <2>2
      DEF RootDone, runVars, Holding, NotStarted, CountersAccurate
  <1>6. ASSUME NEW w \in Worker, Join(w) PROVE CountInv'
    <2>1. Busy' = Busy /\ Idling' = Idling
      BY <1>6 DEF Join, runVars, Busy, Idling
    <2>2. TypeOK'
      BY <1>6 DEF Join, TypeOK, runVars, fiberVars, threadVars
    <2>3. QED
      BY <1>6, <2>1, <2>2
      DEF Join, runVars, Holding, NotStarted, CountersAccurate
  <1>7. CASE Return
    <2>1. Busy' = Busy /\ Idling' = Idling
      BY <1>7 DEF Return, runVars, Busy, Idling
    <2>2. TypeOK'
      BY <1>7 DEF Return, TypeOK, runVars, fiberVars, threadVars
    <2>3. QED
      BY <1>7, <2>1, <2>2
      DEF Return, runVars, Holding, NotStarted, CountersAccurate
  <1>8. ASSUME NEW w \in Worker, ThreadFunc(w) PROVE CountInv'
    <2>1. pc[w] = "born" /\ Goto(w, "fetch") /\ client' = client
      BY <1>8 DEF ThreadFunc, At
    <2>2. TypeOK'
      BY <1>8, <2>1, MoveRunner DEF ThreadFunc, TypeOK, Goto, At, RunnerPC, BusyPC, IdlePC, fiberVars, threadVars, Runner
    <2>3. QED
      BY <1>8, <2>1, <2>2, KeepCounts
      DEF ThreadFunc, RunnerPC, BusyPC, IdlePC, TypeOK, Holding, Busy, Runner
  <1>9. ASSUME NEW r \in Runner, Fetch(r) PROVE CountInv'
    <2>1. pc[r] = "fetch" /\ Goto(r, "resume") /\ client' = client
      BY <1>9 DEF Fetch, Occupy, At
    <2>2. PICK i \in 1 .. Len(queue) :
             /\ task' = [task EXCEPT ![r] = queue[i].task]
             /\ queue' = Erase(queue, i)
             /\ failure' \in {failure, "assert"}
      BY <1>9 DEF Fetch, QcAssert
    <2>3. queue[i].task \in Task
      <3>1. queue[i] \in Entry
        BY DEF TypeOK
      <3>2. QED
        BY <3>1 DEF Entry
    <2>4. queue' \in Seq(Entry)
      BY <2>2, EraseType DEF TypeOK
    <2>5. task' \in [Runner -> Task \cup {None}] /\ task'[r] \in Task
      BY <2>2, <2>3 DEF TypeOK
    <2>6. pc' \in [Runner -> RunnerPC]
      BY <2>1 DEF TypeOK, Goto, RunnerPC, BusyPC
    <2>7. active' = active + 1 /\ active' \in Nat
      BY <1>9 DEF Fetch, Occupy, TypeOK
    <2>8. UNCHANGED <<idle, stopping, idleDone, state, saved, mpid, joined, added>>
      BY <1>9 DEF Fetch, fiberVars, threadVars
    <2>9. TypeOK'
      BY <2>1, <2>2, <2>4, <2>5, <2>6, <2>7, <2>8 DEF TypeOK
    <2>10. \A q \in Runner \ {r} : task'[q] = task[q]
      BY <2>2 DEF TypeOK
    <2>11. QED
      BY <2>1, <2>5, <2>7, <2>8, <2>9, <2>10, KeepCounts
      DEF RunnerPC, BusyPC, IdlePC
  <1>10. ASSUME NEW r \in Runner, FetchNothing(r) PROVE CountInv'
    <2>1. pc[r] = "fetch" /\ Goto(r, "none") /\ client' = client
      BY <1>10 DEF FetchNothing, At
    <2>2. TypeOK'
      BY <1>10, <2>1, MoveRunner DEF FetchNothing, TypeOK, Goto, At, RunnerPC, BusyPC, IdlePC, fiberVars, threadVars
    <2>3. QED
      BY <1>10, <2>1, <2>2, KeepCounts
      DEF FetchNothing, RunnerPC, BusyPC, IdlePC, TypeOK, Holding, Busy
  <1>11. ASSUME NEW r \in Runner, GoIdle(r) PROVE CountInv'
    <2>1. pc[r] = "none" /\ Goto(r, "idle") /\ client' = client
      BY <1>11 DEF GoIdle, At
    <2>2. pc' \in [Runner -> RunnerPC] /\ idle' \in Nat
      BY <1>11, <2>1 DEF GoIdle, TypeOK, Goto, RunnerPC, IdlePC
    <2>3. TypeOK'
      BY <1>11, <2>2 DEF GoIdle, TypeOK, fiberVars, threadVars
    <2>4. QED
      BY <1>11, <2>1, <2>3, KeepCounts
      DEF GoIdle, RunnerPC, BusyPC, IdlePC, TypeOK, Holding, Busy
  <1>12. ASSUME NEW r \in Runner, IdleCheck(r) PROVE CountInv'
    <2>1. pc[r] = "idle" /\ Goto(r, "idleback") /\ client' = client
      BY <1>12 DEF IdleCheck, At
    <2>2. TypeOK'
      BY <1>12, <2>1, MoveRunner DEF IdleCheck, TypeOK, Goto, At, RunnerPC, BusyPC, IdlePC, fiberVars, threadVars, CanStop
    <2>3. QED
      BY <1>12, <2>1, <2>2, KeepCounts
      DEF IdleCheck, RunnerPC, BusyPC, IdlePC, TypeOK, Holding, Busy
  <1>13. ASSUME NEW r \in Runner, IdleBack(r) PROVE CountInv'
    <2>1. pc[r] = "idleback" /\ Goto(r, "fetch") /\ client' = client
      BY <1>13 DEF IdleBack, At
    <2>2. TypeOK'
      BY <1>13, <2>1, Counted, MoveRunner DEF IdleBack, TypeOK, Goto, At, RunnerPC, BusyPC, IdlePC, fiberVars, threadVars
    <2>3. QED
      BY <1>13, <2>1, <2>2, Counted, KeepCounts
      DEF IdleBack, RunnerPC, BusyPC, IdlePC, TypeOK, Holding, Busy
  <1>14. ASSUME NEW r \in Runner, Exit(r) PROVE CountInv'
    <2>1. pc[r] = "none" /\ Goto(r, "exit") /\ client' = client
      BY <1>14 DEF Exit, At
    <2>2. TypeOK'
      BY <1>14, <2>1, MoveRunner DEF Exit, TypeOK, Goto, At, RunnerPC, BusyPC, IdlePC, fiberVars, threadVars
    <2>3. QED
      BY <1>14, <2>1, <2>2, KeepCounts
      DEF Exit, RunnerPC, BusyPC, IdlePC, TypeOK, Holding, Busy
  <1>15. ASSUME NEW r \in Runner, Resume(r) PROVE CountInv'
    <2>1. pc[r] = "resume" /\ Goto(r, "task") /\ client' = client
      BY <1>15 DEF Resume, At
    <2>2. TypeOK'
      BY <1>15, <2>1, MoveRunner DEF Resume, TypeOK, Goto, At, RunnerPC, BusyPC, IdlePC, fiberVars, threadVars
    <2>3. QED
      BY <1>15, <2>1, <2>2, KeepCounts
      DEF Resume, RunnerPC, BusyPC, IdlePC, TypeOK, Holding, Busy
  <1>16. ASSUME NEW r \in Runner, Back(r) PROVE CountInv'
    <2>1. pc[r] = "back" /\ Goto(r, "fetch") /\ client' = client
      BY <1>16 DEF Back, At
    <2>2. TypeOK'
      BY <1>16, <2>1, Counted, MoveRunner DEF Back, TypeOK, Goto, At, RunnerPC, BusyPC, IdlePC, fiberVars, threadVars
    <2>3. QED
      BY <1>16, <2>1, <2>2, Counted, KeepCounts
      DEF Back, RunnerPC, BusyPC, IdlePC, TypeOK, Holding, Busy
  <1>17. ASSUME NEW r \in Runner, Requeue(r) PROVE CountInv'
    <2>1. pc[r] = "task" /\ Goto(r, "requeued") /\ client' = client
      BY <1>17 DEF Requeue, At
    <2>2. [task |-> task[r], thread |-> SelfPin(r)] \in Entry
      BY <2>1 DEF Holding, Busy, BusyPC, Entry, SelfPin
    <2>3. pc' \in [Runner -> RunnerPC]
      BY <2>1 DEF TypeOK, Goto, RunnerPC, BusyPC
    <2>4. queue' \in Seq(Entry)
      BY <1>17, <2>2 DEF Requeue, Enqueue, TypeOK
    <2>5. TypeOK'
      BY <1>17, <2>3, <2>4 DEF Requeue, TypeOK, fiberVars, threadVars
    <2>6. QED
      BY <1>17, <2>1, <2>5, <2>2, KeepCounts
      DEF Requeue, RunnerPC, BusyPC, IdlePC, TypeOK, Holding, Busy
  <1>18. ASSUME NEW r \in Runner, BeginYield(r) PROVE CountInv'
    <2>1. pc[r] = "requeued" /\ Goto(r, "switch") /\ client' = client
      BY <1>18 DEF BeginYield, At
    <2>2. TypeOK'
      BY <1>18, <2>1, MoveRunner DEF BeginYield, TypeOK, Goto, At, RunnerPC, BusyPC, IdlePC, fiberVars, threadVars
    <2>3. QED
      BY <1>18, <2>1, <2>2, KeepCounts
      DEF BeginYield, RunnerPC, BusyPC, IdlePC, TypeOK, Holding, Busy
  <1>19. ASSUME NEW r \in Runner, Switch(r) PROVE CountInv'
    <2>1. pc[r] = "switch" /\ Goto(r, "back") /\ client' = client
      BY <1>19 DEF Switch, At
    <2>2. TypeOK'
      BY <1>19, <2>1, MoveRunner DEF Switch, TypeOK, Goto, At, RunnerPC, BusyPC, IdlePC, fiberVars, threadVars
    <2>3. QED
      BY <1>19, <2>1, <2>2, KeepCounts
      DEF Switch, RunnerPC, BusyPC, IdlePC, TypeOK, Holding, Busy
  <1>20. ASSUME NEW r \in Runner, Finish(r) PROVE CountInv'
    <2>1. pc[r] = "task" /\ Goto(r, "back") /\ client' = client
      BY <1>20 DEF Finish, At
    <2>2. TypeOK'
      BY <1>20, <2>1, MoveRunner DEF Finish, TypeOK, Goto, At, RunnerPC, BusyPC, IdlePC, fiberVars, threadVars
    <2>3. QED
      BY <1>20, <2>1, <2>2, KeepCounts
      DEF Finish, RunnerPC, BusyPC, IdlePC, TypeOK, Holding, Busy
  <1>21. ASSUME NEW r \in Runner, NEW t \in Task, Spawn(r, t) PROVE CountInv'
    <2>1. Busy' = Busy /\ Idling' = Idling
      BY <1>21 DEF Spawn, runVars, Busy, Idling
    <2>2. [task |-> t, thread |-> Pin[t]] \in Entry
      BY TaskAssumption DEF Entry
    <2>3. TypeOK'
      BY <1>21, <2>2 DEF Spawn, Submit, Enqueue, TypeOK, runVars, fiberVars,
                         threadVars
    <2>4. QED
      BY <1>21, <2>1, <2>3
      DEF Spawn, Holding, NotStarted, CountersAccurate, runVars
  <1>22. QED
    BY <1>1, <1>2, <1>3, <1>4, <1>5, <1>6, <1>7, <1>8, <1>9, <1>10, <1>11,
       <1>12, <1>13, <1>14, <1>15, <1>16, <1>17, <1>18, <1>19, <1>20, <1>21
    DEF Next, StopStep, RunStep, TaskStep, Terminated

\* Every reachable state is well typed, and the counters that stopping() and
\* tickle() read count what they say.
THEOREM CountersCorrect == Spec => [](TypeOK /\ CountersAccurate)
  <1>1. CountInv => TypeOK /\ CountersAccurate
    BY DEF CountInv
  <1>2. QED
    BY <1>1, CountInit, CountNext, PTL DEF Spec

---------------------------------------------------------------------------
\* Closing: what holds once a runner's idle fiber has ended.

StopFirst == client \in {"open", "started"} => ~stopping
ExitDone  == \A r \in Runner : pc[r] = "exit" => idleDone[r]
Closed    == \A r \in Runner : idleDone[r] => Drained
JoinDone  == UseCaller /\ client \in {"join", "returned"} => idleDone[Owner]

DrainInv == StopFirst /\ ExitDone /\ Closed /\ JoinDone

\* Initially no runner has given up.
THEOREM DrainInit == Init => DrainInv
  BY DEF Init, DrainInv, StopFirst, ExitDone, Closed, JoinDone

\* Nothing a step of a busy runner does can disturb DrainInv: no idle fiber
\* has ended yet.
LEMMA BusyMove ==
  ASSUME CountInv, DrainInv, UNCHANGED <<stopping, idleDone, client>>,
         NEW r \in Busy, NEW where \in RunnerPC, where # "exit",
         Goto(r, where)
  PROVE  DrainInv'
  <1>1. \A q \in Runner : ~idleDone[q]
    BY DEF DrainInv, Closed, Drained
  <1>2. r \in Runner
    BY DEF Busy
  <1>3. \A q \in Runner : pc'[q] = IF q = r THEN where ELSE pc[q]
    BY <1>2, MoveRunner DEF CountInv
  <1>4. QED
    BY <1>1, <1>3
    DEF DrainInv, StopFirst, ExitDone, Closed, JoinDone, Runner

\* A runner that holds no task may move as long as it takes none.
LEMMA FreeMove ==
  ASSUME CountInv, DrainInv, UNCHANGED <<stopping, idleDone, client, queue>>,
         NEW r \in Runner, NEW where \in RunnerPC \ BusyPC,
         Goto(r, where), where = "exit" => idleDone[r]
  PROVE  DrainInv'
  <1>1. /\ \A q \in Runner : pc'[q] = IF q = r THEN where ELSE pc[q]
        /\ Busy' = Busy \ {r}
    BY MoveRunner DEF CountInv
  <1>2. Closed'
    BY <1>1 DEF DrainInv, Closed, Drained
  <1>3. QED
    BY <1>1, <1>2 DEF DrainInv, StopFirst, ExitDone, JoinDone

\* Every step keeps a scheduler that a runner has given up on drained: the
\* test of stopping() under _mutex cannot be overtaken by a late add_task.
THEOREM DrainNext == CountInv /\ DrainInv /\ [Next]_vars => DrainInv'
  <1> SUFFICES ASSUME CountInv, DrainInv, [Next]_vars PROVE DrainInv'
    OBVIOUS
  <1>1. CASE UNCHANGED vars
    BY <1>1 DEF vars, runVars, DrainInv, StopFirst, ExitDone, Closed, JoinDone,
                Drained, Busy
  <1>2. ASSUME NEW t \in Task, OwnerAdd(t) PROVE DrainInv'
    <2>1. ~stopping /\ \A r \in Runner : ~idleDone[r]
      BY <1>2 DEF OwnerAdd, DrainInv, StopFirst, Closed, Drained
    <2>2. QED
      BY <1>2, <2>1
      DEF OwnerAdd, runVars, DrainInv, StopFirst, ExitDone, Closed, JoinDone
  <1>3. CASE Start
    <2>1. ~stopping /\ \A r \in Runner : ~idleDone[r]
      BY <1>3 DEF Start, DrainInv, StopFirst, Closed, Drained
    <2>2. \A r \in Runner : pc'[r] = "born" \/ pc'[r] = pc[r]
      BY <1>3 DEF Start
    <2>3. QED
      BY <1>3, <2>1, <2>2
      DEF Start, DrainInv, StopFirst, ExitDone, Closed, JoinDone
  <1>4. CASE StopCall
    <2>1. ~stopping /\ \A r \in Runner : ~idleDone[r]
      BY <1>4 DEF StopCall, DrainInv, StopFirst, Closed, Drained
    <2>2. \A r \in Runner : pc'[r] = "fetch" \/ pc'[r] = pc[r]
      BY <1>4 DEF StopCall, CountInv, TypeOK
    <2>3. QED
      BY <1>4, <2>1, <2>2
      DEF StopCall, DrainInv, StopFirst, ExitDone, Closed, JoinDone
  <1>5. CASE RootDone
    <2>1. UseCaller => Owner \in Runner
      BY DEF Runner
    <2>2. QED
      BY <1>5, <2>1 DEF RootDone, At, runVars, DrainInv, StopFirst, ExitDone,
                        Closed, JoinDone, Drained, Busy
  <1>6. ASSUME NEW w \in Worker, Join(w) PROVE DrainInv'
    BY <1>6 DEF Join, runVars, DrainInv, StopFirst, ExitDone, Closed, JoinDone,
                Drained, Busy
  <1>7. CASE Return
    BY <1>7 DEF Return, runVars, DrainInv, StopFirst, ExitDone, Closed,
                JoinDone, Drained, Busy
  <1>8. ASSUME NEW w \in Worker, ThreadFunc(w) PROVE DrainInv'
    BY <1>8, FreeMove DEF ThreadFunc, RunnerPC, BusyPC, Runner
  <1>9. ASSUME NEW r \in Runner, Fetch(r) PROVE DrainInv'
    <2>1. queue # <<>>
      BY <1>9 DEF Fetch
    <2>2. \A q \in Runner : ~idleDone[q]
      BY <2>1 DEF DrainInv, Closed, Drained
    <2>3. \A q \in Runner : pc'[q] = "resume" \/ pc'[q] = pc[q]
      BY <1>9 DEF Fetch, Occupy, Goto, CountInv, TypeOK
    <2>4. UNCHANGED <<stopping, idleDone, client>>
      BY <1>9 DEF Fetch
    <2>5. QED
      BY <2>2, <2>3, <2>4
      DEF DrainInv, StopFirst, ExitDone, Closed, JoinDone
  <1>10. ASSUME NEW r \in Runner, FetchNothing(r) PROVE DrainInv'
    BY <1>10, FreeMove DEF FetchNothing, RunnerPC, BusyPC
  <1>11. ASSUME NEW r \in Runner, GoIdle(r) PROVE DrainInv'
    BY <1>11, FreeMove DEF GoIdle, RunnerPC, BusyPC, IdlePC
  <1>12. ASSUME NEW r \in Runner, IdleCheck(r) PROVE DrainInv'
    <2>1. /\ \A q \in Runner : pc'[q] = IF q = r THEN "idleback" ELSE pc[q]
          /\ Busy' = Busy \ {r}
      BY <1>12, MoveRunner DEF IdleCheck, CountInv, RunnerPC, BusyPC, IdlePC
    <2>2. active = 0 => Busy = {}
      BY RunnerFinite, FS_Subset, FS_EmptySet
      DEF CountInv, CountersAccurate, Busy
    <2>3. CanStop => Drained
      BY <2>2 DEF CanStop, Drained
    <2>4. /\ \A q \in Runner :
               idleDone'[q] = IF q = r THEN CanStop ELSE idleDone[q]
          /\ UNCHANGED <<stopping, queue, client>>
          /\ pc[r] = "idle"
      BY <1>12 DEF IdleCheck, At, CountInv, TypeOK
    <2>5. Closed'
      BY <2>1, <2>3, <2>4 DEF DrainInv, Closed, Drained
    <2>6. ExitDone'
      BY <2>1, <2>4 DEF DrainInv, ExitDone
    <2>7. JoinDone'
      <3>1. idleDone[r] => CanStop
        BY FS_EmptySet
        DEF DrainInv, Closed, Drained, CanStop, CountInv, CountersAccurate
      <3>2. QED
        BY <2>4, <3>1 DEF DrainInv, JoinDone, Runner
    <2>8. QED
      BY <2>4, <2>5, <2>6, <2>7 DEF DrainInv, StopFirst
  <1>13. ASSUME NEW r \in Runner, IdleBack(r) PROVE DrainInv'
    BY <1>13, FreeMove DEF IdleBack, RunnerPC, BusyPC
  <1>14. ASSUME NEW r \in Runner, Exit(r) PROVE DrainInv'
    BY <1>14, FreeMove DEF Exit, RunnerPC, BusyPC
  <1>15. ASSUME NEW r \in Runner, Resume(r) PROVE DrainInv'
    BY <1>15, BusyMove DEF Resume, At, Busy, RunnerPC, BusyPC
  <1>16. ASSUME NEW r \in Runner, Back(r) PROVE DrainInv'
    BY <1>16, BusyMove DEF Back, At, Busy, RunnerPC, BusyPC
  <1>17. ASSUME NEW r \in Runner, Requeue(r) PROVE DrainInv'
    BY <1>17, BusyMove DEF Requeue, At, Busy, RunnerPC, BusyPC
  <1>18. ASSUME NEW r \in Runner, BeginYield(r) PROVE DrainInv'
    BY <1>18, BusyMove DEF BeginYield, At, Busy, RunnerPC, BusyPC
  <1>19. ASSUME NEW r \in Runner, Switch(r) PROVE DrainInv'
    BY <1>19, BusyMove DEF Switch, At, Busy, RunnerPC, BusyPC
  <1>20. ASSUME NEW r \in Runner, Finish(r) PROVE DrainInv'
    BY <1>20, BusyMove DEF Finish, At, Busy, RunnerPC, BusyPC
  <1>21. ASSUME NEW r \in Runner, NEW t \in Task, Spawn(r, t) PROVE DrainInv'
    <2>1. r \in Busy
      BY <1>21 DEF Spawn, At, Busy, BusyPC
    <2>2. \A q \in Runner : ~idleDone[q]
      BY <2>1 DEF DrainInv, Closed, Drained
    <2>3. QED
      BY <1>21, <2>2 DEF Spawn, runVars, DrainInv, StopFirst, ExitDone, Closed,
                         JoinDone
  <1>22. QED
    BY <1>1, <1>2, <1>3, <1>4, <1>5, <1>6, <1>7, <1>8, <1>9, <1>10, <1>11,
       <1>12, <1>13, <1>14, <1>15, <1>16, <1>17, <1>18, <1>19, <1>20, <1>21
    DEF Next, StopStep, RunStep, TaskStep, Terminated

---------------------------------------------------------------------------
\* Custody: where each submitted task is.

\* A runner is about to run the task, or its code is running.
Carried(t) == \E r \in Runner : pc[r] \in {"resume", "task"} /\ task[r] = t
InCode(r)  == pc[r] \in {"task", "requeued"}

\* A task is over, queued, or carried.  (A runner past Requeue does not count:
\* the queue or another runner has the task by then.)
Custody == \A t \in added : state[t] = "TERM" \/ Queued(t) \/ Carried(t)

\* While the process lives, code of a task runs on one runner, its fiber is
\* RUNNING, and after Requeue the entry is still in the queue: the assertion
\* of run() keeps it there.
Exclusive ==
  failure = "none" =>
    \A r \in Runner : InCode(r) =>
      /\ state[task[r]] = "RUNNING"
      /\ pc[r] = "requeued" => Queued(task[r])
      /\ \A q \in Runner \ {r} : InCode(q) => task[q] # task[r]

TaskInv == Custody /\ Exclusive

\* Initially no task has been submitted.
THEOREM TaskInit == Init => TaskInv
  BY DEF Init, TaskInv, Custody, Exclusive, InCode

\* The queue after add_task holds what it held, and the new entry.
LEMMA EnqueueQueued ==
  ASSUME TypeOK, NEW u \in Task, NEW thread \in Runner \cup {AnyThread},
         Enqueue(u, thread)
  PROVE  Queued(u)' /\ \A t \in Task : Queued(t) => Queued(t)'
  <1> DEFINE e == [task |-> u, thread |-> thread]
  <1>1. queue' = Append(queue, e) /\ queue \in Seq(Entry) /\ e \in Entry
    BY DEF Enqueue, TypeOK, Entry
  <1>2. /\ Len(queue') = Len(queue) + 1 /\ Len(queue) \in Nat
        /\ queue'[Len(queue) + 1] = e
        /\ \A j \in 1 .. Len(queue) : queue'[j] = queue[j]
    BY <1>1
  <1>3. Queued(u)'
    BY <1>2 DEF Queued
  <1>4. ASSUME NEW t \in Task, Queued(t) PROVE Queued(t)'
    <2>1. PICK j \in 1 .. Len(queue) : queue[j].task = t
      BY <1>4 DEF Queued
    <2>2. j \in 1 .. Len(queue') /\ queue'[j].task = t
      BY <1>2, <2>1
    <2>3. QED
      BY <2>2 DEF Queued
  <1>5. QED
    BY <1>3, <1>4

\* The queue after the i-th entry was taken holds every other task it held.
LEMMA EraseQueued ==
  ASSUME TypeOK, NEW i \in 1 .. Len(queue), queue' = Erase(queue, i),
         NEW t, t # queue[i].task, Queued(t)
  PROVE  Queued(t)'
  <1>1. PICK j \in 1 .. Len(queue) : queue[j].task = t
    BY DEF Queued
  <1>2. /\ Len(queue) \in Nat /\ Len(queue') = Len(queue) - 1
        /\ \A k \in 1 .. Len(queue) - 1 :
             queue'[k] = IF k < i THEN queue[k] ELSE queue[k + 1]
    <2>1. queue \in Seq(Entry)
      BY DEF TypeOK
    <2>2. Len(queue) \in Nat
      BY <2>1
    <2>3. /\ Len(Erase(queue, i)) = Len(queue) - 1
          /\ \A k \in 1 .. Len(queue) - 1 :
               Erase(queue, i)[k] = IF k < i THEN queue[k] ELSE queue[k + 1]
      BY <2>1, EraseType
    <2>4. QED
      BY <2>2, <2>3
  <1>3. CASE j < i
    BY <1>1, <1>2, <1>3 DEF Queued
  <1>4. CASE j > i
    <2>1. j - 1 \in 1 .. Len(queue') /\ queue'[j - 1] = queue[j]
      BY <1>2, <1>4
    <2>2. QED
      BY <1>1, <2>1 DEF Queued
  <1>5. QED
    BY <1>1, <1>3, <1>4

\* A step that leaves the tasks alone, apart from moving one runner between
\* places outside task code.
LEMMA OutsideMove ==
  ASSUME CountInv, TaskInv,
         UNCHANGED <<queue, state, added>>, failure = "none",
         NEW r \in Runner, NEW where \in RunnerPC, Goto(r, where),
         pc[r] \notin {"resume", "task", "requeued"},
         where \notin {"task", "requeued"},
         \A q \in Runner \ {r} : task'[q] = task[q]
  PROVE  TaskInv'
  <1>1. \A q \in Runner : pc'[q] = IF q = r THEN where ELSE pc[q]
    BY MoveRunner DEF CountInv
  <1>2. \A t : (Queued(t) => Queued(t)') /\ (Carried(t) => Carried(t)')
    BY <1>1 DEF Queued, Carried
  <1>3. Custody'
    BY <1>2 DEF TaskInv, Custody
  <1>4. \A q \in Runner : InCode(q)' => InCode(q) /\ q # r
    BY <1>1 DEF InCode
  <1>5. Exclusive'
    BY <1>1, <1>2, <1>4 DEF TaskInv, Exclusive
  <1>6. QED
    BY <1>3, <1>5 DEF TaskInv

\* Every step keeps each submitted task in the queue or with one runner that
\* is inside its code, until it ends.
THEOREM TaskNext == CountInv /\ TaskInv /\ [Next]_vars => TaskInv'
  <1> SUFFICES ASSUME CountInv, TaskInv, [Next]_vars PROVE TaskInv'
    OBVIOUS
  <1> USE DEF TaskInv
  <1>1. CASE UNCHANGED vars
    BY <1>1 DEF vars, runVars, fiberVars, Custody, Exclusive, Queued, Carried,
                InCode
  <1>2. ASSUME NEW t \in Task, Submit(t),
               UNCHANGED <<state, pc, task, failure>>
        PROVE  TaskInv'
    <2>1. Pin[t] \in Runner \cup {AnyThread}
      BY TaskAssumption
    <2>2. Queued(t)' /\ \A u \in Task : Queued(u) => Queued(u)'
      BY <1>2, <2>1, EnqueueQueued DEF Submit, CountInv
    <2>3. \A u : Carried(u) => Carried(u)'
      BY <1>2 DEF Carried
    <2>4. added' = added \cup {t} /\ added \subseteq Task
      BY <1>2 DEF Submit, CountInv, TypeOK
    <2>5. Custody'
      BY <1>2, <2>2, <2>3, <2>4 DEF Custody
    <2>6. \A r \in Runner : InCode(r)' => InCode(r) /\ task[r] \in Task
      BY <1>2 DEF InCode, CountInv, Holding, Busy, BusyPC
    <2>7. Exclusive'
      BY <1>2, <2>2, <2>6 DEF Exclusive
    <2>8. QED
      BY <2>5, <2>7
  <1>3. CASE Start
    <2>1. \A r \in Runner : pc[r] = "off" /\ pc'[r] \in {"off", "born"}
      BY <1>3 DEF Start, CountInv, NotStarted
    <2>2. UNCHANGED <<queue, state, task, added>>
      BY <1>3 DEF Start, fiberVars
    <2>3. \A t : Queued(t)' <=> Queued(t)
      BY <2>2 DEF Queued
    <2>4. QED
      BY <2>1, <2>2, <2>3 DEF Custody, Exclusive, Carried, InCode
  <1>4. CASE StopCall
    <2>1. UNCHANGED <<queue, state, task, added>> /\ failure = "none"
      BY <1>4 DEF StopCall, fiberVars
    <2>2. \A r \in Runner :
            pc'[r] = pc[r] \/ (pc[r] = "off" /\ pc'[r] = "fetch")
      BY <1>4 DEF StopCall, CountInv, TypeOK, NotStarted, Runner
    <2>3. \A t : Queued(t)' <=> Queued(t)
      BY <2>1 DEF Queued
    <2>4. Custody'
      BY <2>1, <2>2, <2>3 DEF Custody, Carried
    <2>5. Exclusive'
      BY <2>1, <2>2, <2>3 DEF Exclusive, InCode
    <2>6. QED
      BY <2>4, <2>5
  <1>5. ASSUME RootDone \/ (\E w \in Worker : Join(w)) \/ Return
        PROVE  TaskInv'
    <2>1. UNCHANGED <<queue, state, pc, task, added>> /\ failure = "none"
      BY <1>5 DEF RootDone, At, Join, Return, runVars, fiberVars
    <2>2. QED
      BY <2>1 DEF Custody, Exclusive, Queued, Carried, InCode
  <1>6. ASSUME NEW w \in Worker, ThreadFunc(w) PROVE TaskInv'
    BY <1>6, OutsideMove DEF ThreadFunc, At, fiberVars, RunnerPC, Runner
  <1>7. ASSUME NEW r \in Runner, Fetch(r) PROVE TaskInv'
    <2>1. PICK i \in 1 .. Len(queue) :
             /\ task' = [task EXCEPT ![r] = queue[i].task]
             /\ queue' = Erase(queue, i)
             /\ failure' = "none" => state[queue[i].task] = "READY"
      BY <1>7 DEF Fetch, QcAssert
    <2>2. /\ \A q \in Runner : pc'[q] = IF q = r THEN "resume" ELSE pc[q]
          /\ UNCHANGED <<state, added>>
          /\ failure = "none" /\ pc[r] = "fetch"
      BY <1>7 DEF Fetch, Occupy, At, Goto, fiberVars, CountInv, TypeOK
    <2>3. \A q \in Runner :
            task'[q] = IF q = r THEN queue[i].task ELSE task[q]
      BY <2>1 DEF CountInv, TypeOK
    <2>4. \A t : t = queue[i].task \/ Carried(t) => Carried(t)'
      <3>1. pc'[r] = "resume" /\ task'[r] = queue[i].task
        BY <2>2, <2>3
      <3>2. \A q \in Runner : pc[q] \in {"resume", "task"} =>
              pc'[q] = pc[q] /\ task'[q] = task[q]
        BY <2>2, <2>3
      <3>3. QED
        BY <3>1, <3>2 DEF Carried
    <2>5. \A t : t # queue[i].task /\ Queued(t) => Queued(t)'
      BY <2>1, EraseQueued DEF CountInv
    <2>6. Custody'
      <3>1. SUFFICES ASSUME NEW t \in added
                     PROVE  state[t] = "TERM" \/ Queued(t)' \/ Carried(t)'
        BY <2>2 DEF Custody
      <3>2. CASE t = queue[i].task
        BY <2>4, <3>2
      <3>3. CASE t # queue[i].task
        BY <2>4, <2>5, <3>3 DEF Custody
      <3>4. QED
        BY <3>2, <3>3
    <2>7. ASSUME failure' = "none", NEW q \in Runner, InCode(q)'
          PROVE  /\ q # r /\ InCode(q) /\ task'[q] = task[q]
                 /\ state[task[q]] = "RUNNING" /\ task[q] # queue[i].task
      BY <2>1, <2>2, <2>3, <2>7 DEF InCode, Exclusive
    <2>8. Exclusive'
      BY <2>2, <2>5, <2>7 DEF Exclusive
    <2>9. QED
      BY <2>6, <2>8
  <1>8. ASSUME NEW r \in Runner, FetchNothing(r) PROVE TaskInv'
    BY <1>8, OutsideMove DEF FetchNothing, At, fiberVars, RunnerPC
  <1>9. ASSUME NEW r \in Runner, GoIdle(r) PROVE TaskInv'
    BY <1>9, OutsideMove DEF GoIdle, At, fiberVars, RunnerPC, IdlePC
  <1>10. ASSUME NEW r \in Runner, IdleCheck(r) PROVE TaskInv'
    BY <1>10, OutsideMove DEF IdleCheck, At, fiberVars, RunnerPC, IdlePC
  <1>11. ASSUME NEW r \in Runner, IdleBack(r) PROVE TaskInv'
    BY <1>11, OutsideMove DEF IdleBack, At, fiberVars, RunnerPC
  <1>12. ASSUME NEW r \in Runner, Exit(r) PROVE TaskInv'
    BY <1>12, OutsideMove DEF Exit, At, fiberVars, RunnerPC
  <1>13. ASSUME NEW r \in Runner, Resume(r) PROVE TaskInv'
    <2>1. /\ \A q \in Runner : pc'[q] = IF q = r THEN "task" ELSE pc[q]
          /\ UNCHANGED <<queue, task, added>>
          /\ failure = "none" /\ pc[r] = "resume"
          /\ state' = [state EXCEPT ![task[r]] = "RUNNING"]
          /\ failure' = "none" => state[task[r]] = "READY"
      BY <1>13 DEF Resume, At, Goto, CountInv, TypeOK
    <2>2. task[r] \in Task
      BY <2>1 DEF CountInv, Holding, Busy, BusyPC
    <2>3. \A t \in Task :
            state'[t] = IF t = task[r] THEN "RUNNING" ELSE state[t]
      BY <2>1, <2>2 DEF CountInv, TypeOK
    <2>4. \A t : (Queued(t)' <=> Queued(t)) /\ (Carried(t) => Carried(t)')
      BY <2>1 DEF Queued, Carried
    <2>5. Carried(task[r])'
      BY <2>1 DEF Carried
    <2>6. added \subseteq Task
      BY DEF CountInv, TypeOK
    <2>7. Custody'
      BY <2>1, <2>3, <2>4, <2>5, <2>6 DEF Custody
    <2>8. ASSUME failure' = "none", NEW q \in Runner, InCode(q)', q # r
          PROVE  /\ InCode(q) /\ task[q] \in Task /\ task[q] # task[r]
                 /\ state'[task[q]] = "RUNNING"
      <3>1. InCode(q)
        BY <2>1, <2>8 DEF InCode
      <3>2. state[task[q]] = "RUNNING"
        BY <2>1, <3>1 DEF Exclusive
      <3>3. task[q] \in Task
        BY <3>1 DEF InCode, CountInv, Holding, Busy, BusyPC
      <3>4. QED
        BY <2>1, <2>3, <2>8, <3>1, <3>2, <3>3
    <2>9. Exclusive'
      BY <2>1, <2>2, <2>3, <2>4, <2>8 DEF Exclusive, InCode
    <2>10. QED
      BY <2>7, <2>9
  <1>14. ASSUME NEW r \in Runner, Back(r) PROVE TaskInv'
    <2>1. \A q \in Runner \ {r} : task'[q] = task[q]
      BY <1>14 DEF Back, CountInv, TypeOK
    <2>2. QED
      BY <1>14, <2>1, OutsideMove DEF Back, At, fiberVars, RunnerPC
  <1>15. ASSUME NEW r \in Runner, Requeue(r) PROVE TaskInv'
    <2>1. /\ \A q \in Runner : pc'[q] = IF q = r THEN "requeued" ELSE pc[q]
          /\ UNCHANGED <<state, task, added, failure>>
          /\ failure = "none" /\ pc[r] = "task"
      BY <1>15 DEF Requeue, At, Goto, fiberVars, CountInv, TypeOK
    <2>2. task[r] \in Task
      BY <2>1 DEF CountInv, Holding, Busy, BusyPC
    <2>3. SelfPin(r) \in Runner \cup {AnyThread}
      BY DEF SelfPin
    <2>4. Queued(task[r])' /\ \A t \in Task : Queued(t) => Queued(t)'
      BY <1>15, <2>2, <2>3, EnqueueQueued DEF Requeue, CountInv
    <2>5. \A t : t # task[r] /\ Carried(t) => Carried(t)'
      BY <2>1 DEF Carried
    <2>6. added \subseteq Task
      BY DEF CountInv, TypeOK
    <2>7. Custody'
      BY <2>1, <2>4, <2>5, <2>6 DEF Custody
    <2>8. \A q \in Runner : InCode(q)' => InCode(q) /\ task[q] \in Task
      BY <2>1, <2>2 DEF InCode, CountInv, Holding, Busy, BusyPC
    <2>9. \A q \in Runner : pc'[q] = "requeued" => q = r \/ pc[q] = "requeued"
      BY <2>1
    <2>10. Exclusive'
      BY <2>1, <2>4, <2>8, <2>9 DEF Exclusive
    <2>11. QED
      BY <2>7, <2>10
  <1>16. ASSUME NEW r \in Runner, BeginYield(r) PROVE TaskInv'
    <2>1. /\ \A q \in Runner : pc'[q] = IF q = r THEN "switch" ELSE pc[q]
          /\ UNCHANGED <<queue, task, added, failure>>
          /\ failure = "none" /\ pc[r] = "requeued" /\ InCode(r)
          /\ state' = [state EXCEPT ![task[r]] = "READY"]
      BY <1>16 DEF BeginYield, At, Goto, CountInv, TypeOK, InCode
    <2>2. \A t \in Task : t # task[r] => state'[t] = state[t]
      BY <2>1 DEF CountInv, TypeOK
    <2>3. \A t : (Queued(t)' <=> Queued(t)) /\ (Carried(t) => Carried(t)')
      BY <2>1 DEF Queued, Carried
    <2>4. state[task[r]] # "TERM" /\ Queued(task[r])
      BY <2>1 DEF Exclusive
    <2>5. added \subseteq Task
      BY DEF CountInv, TypeOK
    <2>6. Custody'
      BY <2>1, <2>2, <2>3, <2>4, <2>5 DEF Custody
    <2>7. \A q \in Runner :
            InCode(q)' => InCode(q) /\ q # r /\ task[q] \in Task
      BY <2>1 DEF InCode, CountInv, Holding, Busy, BusyPC
    <2>8. \A q \in Runner : InCode(q)' => task[q] # task[r]
      BY <2>1, <2>7 DEF Exclusive
    <2>9. Exclusive'
      BY <2>1, <2>2, <2>3, <2>7, <2>8 DEF Exclusive
    <2>10. QED
      BY <2>6, <2>9
  <1>17. ASSUME NEW r \in Runner, Switch(r) PROVE TaskInv'
    BY <1>17, OutsideMove DEF Switch, At, RunnerPC, BusyPC
  <1>18. ASSUME NEW r \in Runner, Finish(r) PROVE TaskInv'
    <2>1. /\ \A q \in Runner : pc'[q] = IF q = r THEN "back" ELSE pc[q]
          /\ UNCHANGED <<queue, task, added, failure>>
          /\ failure = "none" /\ pc[r] = "task" /\ InCode(r)
          /\ state' = [state EXCEPT ![task[r]] = "TERM"]
      BY <1>18 DEF Finish, At, Goto, CountInv, TypeOK, InCode
    <2>2. \A t \in Task :
            state'[t] = IF t = task[r] THEN "TERM" ELSE state[t]
      BY <2>1 DEF CountInv, TypeOK
    <2>3. \A t : /\ Queued(t)' <=> Queued(t)
                 /\ t # task[r] /\ Carried(t) => Carried(t)'
      BY <2>1 DEF Queued, Carried
    <2>4. added \subseteq Task
      BY DEF CountInv, TypeOK
    <2>5. Custody'
      <3>1. SUFFICES ASSUME NEW t \in added
                     PROVE  state'[t] = "TERM" \/ Queued(t)' \/ Carried(t)'
        BY <2>1 DEF Custody
      <3>2. CASE t = task[r]
        BY <2>2, <2>4, <3>2
      <3>3. CASE t # task[r]
        <4>1. state[t] = "TERM" \/ Queued(t) \/ Carried(t)
          BY <3>1 DEF Custody
        <4>2. QED
          BY <2>2, <2>3, <2>4, <3>1, <3>3, <4>1
      <3>4. QED
        BY <3>2, <3>3
    <2>6. \A q \in Runner :
            InCode(q)' => InCode(q) /\ q # r /\ task[q] \in Task
      BY <2>1 DEF InCode, CountInv, Holding, Busy, BusyPC
    <2>7. \A q \in Runner : InCode(q)' => task[q] # task[r]
      BY <2>1, <2>6 DEF Exclusive
    <2>8. Exclusive'
      <3>1. SUFFICES ASSUME failure = "none", NEW q \in Runner, InCode(q)'
                     PROVE  /\ state'[task[q]] = "RUNNING"
                            /\ pc'[q] = "requeued" =>
                                 \A t : t = task[q] => Queued(t)'
                            /\ \A p \in Runner \ {q} :
                                 InCode(p)' => task[p] # task[q]
        BY <2>1 DEF Exclusive
      <3>2. InCode(q) /\ q # r /\ task[q] \in Task /\ task[q] # task[r]
        BY <2>6, <2>7, <3>1
      <3>3. state'[task[q]] = state[task[q]] /\ pc'[q] = pc[q]
        BY <2>1, <2>2, <3>2
      <3>4. QED
        BY <2>3, <2>6, <3>1, <3>2, <3>3 DEF Exclusive
    <2>9. QED
      BY <2>5, <2>8
  <1>19. ASSUME NEW t \in Task, OwnerAdd(t) PROVE TaskInv'
    BY <1>2, <1>19 DEF OwnerAdd, runVars, fiberVars
  <1>20. ASSUME NEW r \in Runner, NEW t \in Task, Spawn(r, t) PROVE TaskInv'
    BY <1>2, <1>20 DEF Spawn, runVars, fiberVars
  <1>21. QED
    BY <1>1, <1>3, <1>4, <1>5, <1>6, <1>7, <1>8, <1>9, <1>10, <1>11, <1>12,
       <1>13, <1>14, <1>15, <1>16, <1>17, <1>18, <1>19, <1>20
    DEF Next, StopStep, RunStep, TaskStep, Terminated

---------------------------------------------------------------------------
\* The theorems.

\* The three parts of the inductive invariant hold in every reachable state.
THEOREM InvariantHolds == Spec => [](CountInv /\ DrainInv /\ TaskInv)
  <1>1. Init => CountInv /\ DrainInv /\ TaskInv
    BY CountInit, DrainInit, TaskInit
  <1>2. CountInv /\ DrainInv /\ TaskInv /\ [Next]_vars
          => (CountInv /\ DrainInv /\ TaskInv)'
    BY CountNext, DrainNext, TaskNext
  <1>3. QED
    BY <1>1, <1>2, PTL DEF Spec

\* No task that add_task accepted is ever lost, whoever runs it and however
\* tasks put themselves back.
THEOREM TasksKept == Spec => []NoTaskLost
  <1>1. TaskInv => NoTaskLost
    BY DEF TaskInv, Custody, NoTaskLost, Carried, Held, Busy, BusyPC
  <1>2. QED
    BY <1>1, InvariantHolds, PTL

\* When nothing is queued and no runner is busy, every task has ended.
LEMMA DrainedEnds ==
  ASSUME TaskInv, Drained
  PROVE  \A t \in added : state[t] = "TERM"
  <1>1. \A t : ~Queued(t) /\ ~Carried(t)
    BY DEF Drained, Queued, Carried, Busy, BusyPC
  <1>2. QED
    BY <1>1 DEF TaskInv, Custody

\* A runner gives up only when every task ever submitted has ended.
THEOREM ExitOnlyWhenDrained == Spec => []DrainedExit
  <1>1. DrainInv /\ TaskInv => DrainedExit
    BY DrainedEnds DEF DrainInv, Closed, DrainedExit
  <1>2. QED
    BY <1>1, InvariantHolds, PTL

\* With use_caller, stop() gets to joining the threads only when all work is
\* over.
THEOREM StopOnlyWhenDrained == Spec => []StopDrains
  <1>1. DrainInv /\ TaskInv => StopDrains
    BY DrainedEnds DEF DrainInv, Closed, JoinDone, StopDrains, Runner
  <1>2. QED
    BY <1>1, InvariantHolds, PTL

\* Every variable keeps its type: no counter of the scheduler drops below zero.
THEOREM TypesCorrect == Spec => []TypeOK
  <1>1. CountInv => TypeOK
    BY DEF CountInv
  <1>2. QED
    BY <1>1, InvariantHolds, PTL
=============================================================================
