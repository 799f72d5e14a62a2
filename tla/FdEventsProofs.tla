--------------------------- MODULE FdEventsProofs ---------------------------
(***************************************************************************)
(* Theorems about FdEvents for any runners, any clients and any number of  *)
(* registrations: the types, and that event contexts agree with m_events   *)
(* whenever no thread is at work.                                          *)
(***************************************************************************)
EXTENDS FdEvents, FiniteSetTheorems, TLAPS

\* The number of registered events is a number.
LEMMA Counted ==
  ASSUME events \subseteq Event
  PROVE  Cardinality(events) \in Nat
<1>1. IsFiniteSet({}) /\ IsFiniteSet({"READ"}) /\ IsFiniteSet({"WRITE"})
  BY FS_EmptySet, FS_Singleton
<1>2. IsFiniteSet(Event)
  <2>1. IsFiniteSet({"READ"} \cup {"WRITE"})
    BY <1>1, FS_Union
  <2>2. {"READ"} \cup {"WRITE"} = Event
    BY DEF Event
  <2>3. QED
    BY <2>1, <2>2
<1>3. QED
  BY <1>2, FS_Subset, FS_CardinalityType

\* Init establishes the types.
LEMMA InitTypes == Init => TypeOK
<1> SUFFICES ASSUME Init PROVE TypeOK
  OBVIOUS
<1>1. pending \in 0 .. Wrap - 1 /\ adds \in 0 .. setup.adds
  BY EventAssumption DEF Init
<1>2. /\ ctx \in [Event -> BOOLEAN] /\ runs \in [Event -> Nat]
      /\ arg \in [Thread -> Event] /\ op \in [Thread -> {"ADD", "MOD"}]
      /\ todo \in [Thread -> SUBSET Report]
  BY DEF Init, Event
<1>3. QED
  BY <1>1, <1>2 DEF Init, TypeOK, WaitPC, HoldPC

\* The calls of a process are those of its setup.
LEMMA CallsMade ==
  ASSUME TypeOK, NEW a \in Thread, Call(a)
  PROVE  \E e \in Event : \/ CallAdd(a, e)
                         \/ \E where \in OtherCall : CallOther(a, e, where)
<1>1. setup.calls \subseteq OtherCall
  BY EventAssumption DEF TypeOK
<1>2. QED
  BY <1>1 DEF Call

\* The calls of the program keep the types.
LEMMA CallTypes ==
  ASSUME TypeOK, NEW a \in Thread, Call(a) \/ CallStep(a)
  PROVE  TypeOK'
<1> USE EventAssumption
<1>1. ASSUME NEW e \in Event, CallAdd(a, e) PROVE TypeOK'
  BY <1>1 DEF CallAdd, ChooseOp, TypeOK, At, Goto, eventVars, epollVars, fdVars,
              WaitPC, HoldPC
<1>2. ASSUME NEW e \in Event, NEW where \in OtherCall,
             CallOther(a, e, where)
      PROVE  TypeOK'
  BY <1>2 DEF CallOther, OtherCall, TypeOK, At, Goto, eventVars, epollVars, fdVars,
              WaitPC, HoldPC
<1>3. ASSUME NEW from, NEW to \in HoldPC, Lock(a, from, to) PROVE TypeOK'
  BY <1>3 DEF Lock, Acquire, TypeOK, At, Goto, eventVars, epollVars, fdVars, WaitPC, HoldPC
<1>4. CASE AddAgain(a)
  BY <1>4 DEF AddAgain, Release, TypeOK, At, Goto, eventVars, epollVars, fdVars
<1>5. CASE AddEvent(a)
  <2>1. pending' \in 0 .. Wrap - 1
    BY <1>5 DEF AddEvent, CountUp, TypeOK
  <2>2. /\ events' \subseteq Event /\ ctx' \in [Event -> BOOLEAN]
        /\ runs' \in [Event -> Nat]
    BY <1>5 DEF AddEvent, TypeOK
  <2>3. /\ registered' \in BOOLEAN /\ edge' \in BOOLEAN /\ interest' \subseteq Event
        /\ cond' \subseteq Report /\ edges' \subseteq cond'
    BY <1>5 DEF AddEvent, EpollSet, TypeOK
  <2>4. QED
    BY <1>5, <2>1, <2>2, <2>3 DEF AddEvent, QcAssert, Release, TypeOK, At, Goto
<1>6. CASE DelNothing(a)
  BY <1>6 DEF DelNothing, Release, Return, TypeOK, At, Goto, eventVars, epollVars, fdVars
<1>7. CASE DelEvent(a)
  BY <1>7 DEF DelEvent, Left, EpollSet, QcAssert, CountDown, Drop, Release, Return, TypeOK, At, Goto
<1>8. CASE CancelNothing(a)
  BY <1>8 DEF CancelNothing, Release, TypeOK, At, Goto, eventVars, epollVars, fdVars
<1>9. CASE CancelEvent(a)
  BY <1>9 DEF CancelEvent, Trigger, Left, EpollSet, CountDown, Drop, Release, TypeOK, At, Goto
<1>10. CASE CancelAll(a)
  <2>1. pending' \in 0 .. Wrap - 1
    BY <1>10, Counted DEF CancelAll, CountDown, TypeOK
  <2>2. QED
    BY <1>10, <2>1 DEF CancelAll, Trigger, EpollSet, Release, TypeOK, At, Goto
<1>11. QED
  BY <1>1, <1>2, <1>3, <1>4, <1>5, <1>6, <1>7, <1>8, <1>9, <1>10, CallsMade
     DEF CallStep, HoldPC

\* The dispatch keeps the types.
LEMMA DispatchTypes ==
  ASSUME TypeOK, NEW r \in Runner, Deliver(r) \/ DispatchStep(r)
  PROVE  TypeOK'
<1> USE EventAssumption
<1>0. r \in Thread  BY DEF Thread
<1>1. CASE Deliver(r)
  BY <1>0, <1>1 DEF Deliver, TypeOK, At, Goto, eventVars, epollVars, Report, WaitPC
<1>2. CASE Lock(r, "looklock", "look")
  BY <1>0, <1>2 DEF Lock, Acquire, TypeOK, At, Goto, eventVars, epollVars, fdVars, HoldPC
<1>3. CASE LookNothing(r)
  BY <1>0, <1>3 DEF LookNothing, Release, TypeOK, At, Goto, eventVars, epollVars, fdVars
<1>4. CASE Look(r)
  <2>1. Real(r) \subseteq Event /\ FirstOf(Real(r)) \in Event
    BY <1>0 DEF TypeOK, Real, FirstOf, Event
  <2>2. QED
    BY <1>0, <1>4, <2>1
       DEF Look, Release, TypeOK, At, Goto, eventVars, epollVars, fdVars, Report
<1>5. CASE TriggerUnlocked(r)
  BY <1>0, <1>5 DEF TriggerUnlocked, Trigger, TypeOK, At, Goto, epollVars, fdVars
<1>6. CASE ClearContext(r)
  BY <1>0, <1>6 DEF ClearContext, TypeOK, At, Goto, epollVars, fdVars, WaitPC
<1>7. CASE CountAgain(r)
  <2>1. \A es : FirstOf(es) \in Event  BY DEF FirstOf, Event
  <2>2. QED
    BY <1>0, <1>7, <2>1 DEF CountAgain, CountDown, TypeOK, At, Goto, epollVars, fdVars
<1>8. CASE Leave(r)
  BY <1>0, <1>8 DEF Leave, Release, TypeOK, At, Goto, eventVars, epollVars, fdVars
<1>9. QED
  BY <1>1, <1>2, <1>3, <1>4, <1>5, <1>6, <1>7, <1>8 DEF DispatchStep

\* Every step keeps the types.
LEMMA StepTypes == TypeOK /\ [Next]_vars => TypeOK'
<1> SUFFICES ASSUME TypeOK, [Next]_vars PROVE TypeOK'
  OBVIOUS
<1>1. ASSUME NEW e \in Report, Arrive(e) \/ Consume(e) PROVE TypeOK'
  BY <1>1 DEF Arrive, Consume, TypeOK, eventVars, epollVars
<1>2. ASSUME NEW a \in Thread, Call(a) \/ CallStep(a) PROVE TypeOK'
  BY <1>2, CallTypes
<1>3. ASSUME NEW r \in Runner, Deliver(r) \/ DispatchStep(r) PROVE TypeOK'
  BY <1>3, DispatchTypes
<1>4. CASE UNCHANGED vars
  BY <1>4 DEF vars, TypeOK, eventVars, epollVars, fdVars
<1>5. QED
  BY <1>1, <1>2, <1>3, <1>4 DEF Next

\* For any threads and any number of registrations, every variable of the
\* descriptor has its type, whatever order the threads come in: in particular
\* m_pendingEventCount stays a size_t and epoll reports what there is.
THEOREM TypesKept == Spec => []TypeOK
<1>1. QED
  BY InitTypes, StepTypes, PTL DEF Spec

---------------------------------------------------------------------------
\* The contexts.

\* A context is set only while its event is in m_events; and an event without
\* one is about to be deleted, by the thread that has reset its context.
ContextInv ==
  failure = "none" =>
    \A e \in Event :
      /\ ctx[e] => e \in events
      /\ e \in events /\ ~ctx[e] =>
           \E a \in Thread : pc[a] \in {"dellock", "del"} /\ arg[a] = e

\* A step of thread a keeps the invariant if it leaves events and contexts alone
\* and a is not about to delete an event, or still is.
LEMMA OtherStep ==
  ASSUME TypeOK, ContextInv, failure = "none",
         NEW a \in Thread, events' = events, ctx' = ctx,
         \A b \in Thread \ {a} : pc'[b] = pc[b] /\ arg'[b] = arg[b],
         \/ pc[a] \notin {"dellock", "del"}
         \/ arg[a] \notin events
         \/ pc'[a] \in {"dellock", "del"} /\ arg'[a] = arg[a]
  PROVE  ContextInv'
BY DEF ContextInv

\* The calls of the program keep it.
LEMMA CallContexts ==
  ASSUME TypeOK, ContextInv, NEW a \in Thread, Call(a) \/ CallStep(a)
  PROVE  ContextInv'
<1>1. ASSUME NEW e \in Event, CallAdd(a, e) PROVE ContextInv'
  BY <1>1, OtherStep DEF CallAdd, Free, At, Goto, TypeOK, eventVars
<1>2. ASSUME NEW e \in Event, NEW where \in OtherCall,
             CallOther(a, e, where)
      PROVE  ContextInv'
  BY <1>2, OtherStep DEF CallOther, OtherCall, Free, At, Goto, TypeOK, eventVars
<1>3. ASSUME NEW from \in WaitPC \ {"dellock"}, NEW to, Lock(a, from, to)
      PROVE  ContextInv'
  BY <1>3, OtherStep DEF Lock, At, Goto, TypeOK, eventVars, WaitPC
<1>4. CASE Lock(a, "dellock", "del")
  BY <1>4, OtherStep DEF Lock, At, Goto, TypeOK, eventVars
<1>5. CASE AddAgain(a)
  BY <1>5, OtherStep DEF AddAgain, At, Goto, TypeOK, eventVars
<1>6. CASE AddEvent(a)
  BY <1>6 DEF AddEvent, At, Goto, TypeOK, ContextInv, QcAssert
<1>7. CASE DelNothing(a)
  BY <1>7, OtherStep DEF DelNothing, Return, At, Goto, TypeOK, eventVars
<1>8. CASE DelEvent(a)
  BY <1>8 DEF DelEvent, Drop, Return, At, Goto, TypeOK, ContextInv, QcAssert
<1>9. CASE CancelNothing(a)
  BY <1>9, OtherStep DEF CancelNothing, At, Goto, TypeOK, eventVars
<1>10. CASE CancelEvent(a)
  BY <1>10 DEF CancelEvent, Drop, Trigger, At, Goto, TypeOK, ContextInv
<1>11. CASE CancelAll(a)
  BY <1>11 DEF CancelAll, Trigger, At, Goto, TypeOK, ContextInv
<1>12. QED
  BY <1>1, <1>2, <1>3, <1>4, <1>5, <1>6, <1>7, <1>8, <1>9, <1>10, <1>11, CallsMade
     DEF CallStep, WaitPC

\* The dispatch keeps it: it resets a context only on its way to delEvent.
LEMMA DispatchContexts ==
  ASSUME TypeOK, ContextInv, NEW r \in Runner, Deliver(r) \/ DispatchStep(r)
  PROVE  ContextInv'
<1>0. r \in Thread  BY DEF Thread
<1>1. CASE Deliver(r)
  BY <1>0, <1>1, OtherStep DEF Deliver, Free, At, Goto, TypeOK, eventVars
<1>2. CASE Lock(r, "looklock", "look")
  BY <1>0, <1>2, OtherStep DEF Lock, At, Goto, TypeOK, eventVars
<1>3. CASE LookNothing(r)
  BY <1>0, <1>3, OtherStep DEF LookNothing, At, Goto, TypeOK, eventVars
<1>4. CASE Look(r)
  BY <1>0, <1>4, OtherStep DEF Look, At, Goto, TypeOK, eventVars
<1>5. CASE TriggerUnlocked(r)
  BY <1>0, <1>5, OtherStep DEF TriggerUnlocked, At, Goto, TypeOK
<1>6. CASE ClearContext(r)
  BY <1>0, <1>6 DEF ClearContext, At, Goto, TypeOK, ContextInv
<1>7. CASE CountAgain(r)
  BY <1>0, <1>7, OtherStep DEF CountAgain, At, Goto, TypeOK
<1>8. CASE Leave(r)
  BY <1>0, <1>8, OtherStep DEF Leave, At, Goto, TypeOK, eventVars
<1>9. QED
  BY <1>1, <1>2, <1>3, <1>4, <1>5, <1>6, <1>7, <1>8 DEF DispatchStep

\* Every step keeps it; arrivals and stuttering touch nothing it speaks of.
LEMMA StepContexts == TypeOK /\ ContextInv /\ [Next]_vars => ContextInv'
<1> SUFFICES ASSUME TypeOK, ContextInv, [Next]_vars PROVE ContextInv'
  OBVIOUS
<1>1. ASSUME NEW e \in Report, Arrive(e) \/ Consume(e) PROVE ContextInv'
  BY <1>1 DEF Arrive, Consume, ContextInv, eventVars
<1>2. ASSUME NEW a \in Thread, Call(a) \/ CallStep(a) PROVE ContextInv'
  BY <1>2, CallContexts
<1>3. ASSUME NEW r \in Runner, Deliver(r) \/ DispatchStep(r) PROVE ContextInv'
  BY <1>3, DispatchContexts
<1>4. CASE UNCHANGED vars
  BY <1>4 DEF vars, ContextInv, eventVars
<1>5. QED
  BY <1>1, <1>2, <1>3, <1>4 DEF Next

\* For any threads: in spite of the accesses of idle() without the lock and of
\* the mutex it releases twice, contexts and m_events agree whenever no thread
\* is at work.
THEOREM ContextsAgree == Spec => []ContextMatches
<1>1. Init => ContextInv
  BY DEF Init, ContextInv
<1>2. ContextInv => ContextMatches
  BY DEF ContextInv, ContextMatches, Quiet
<1>3. QED
  BY InitTypes, StepTypes, StepContexts, <1>1, <1>2, PTL DEF Spec

---------------------------------------------------------------------------
\* A process of one thread.

\* What holds of the only thread x: epoll has what m_events has, a context is
\* set except between triggerEvent and delEvent, a callback is queued once, and
\* what x took for registered when it looked is registered until it handles it.
Orderly(x) ==
  /\ failure = "none"
  /\ \A b \in Thread \ {x} : pc[b] = "free"
  /\ registered <=> events # {}
  /\ interest = events
  /\ \A e \in Event :
       ctx[e] <=>
         e \in events /\ ~(pc[x] \in {"dellock", "del"} /\ todo[x] # {} /\ arg[x] = e)
  /\ \A e \in Event :
       /\ runs[e] <= 1
       /\ ctx[e] /\ ~(pc[x] = "clear" /\ arg[x] = e) => runs[e] = 0
  /\ pc[x] \in {"addlock", "add"} => op[x] = ChooseOp
  /\ pc[x] \in {"free", "addlock", "add", "cancellock", "cancel", "alllock", "all",
                "leave"} => todo[x] = {}
  /\ pc[x] \in {"looklock", "look"} => todo[x] # {} /\ todo[x] \cap Event \subseteq events
  /\ pc[x] \in {"trigger", "clear"} => todo[x] \subseteq events /\ arg[x] \in todo[x]
  /\ pc[x] \in {"dellock", "del"} /\ todo[x] # {} =>
       todo[x] \subseteq events /\ arg[x] \in todo[x]
  /\ pc[x] = "count" => arg[x] \in todo[x] /\ todo[x] \ {arg[x]} \subseteq events

AloneInv == \A x \in Thread : setup.threads = {x} => Orderly(x)

\* The calls of the program keep the thread's order.
LEMMA CallOrder ==
  ASSUME TypeOK, NEW x \in Thread, Orderly(x), Call(x) \/ CallStep(x)
  PROVE  Orderly(x)'
<1>1. ASSUME NEW e \in Event, CallAdd(x, e) PROVE Orderly(x)'
  BY <1>1 DEF CallAdd, Free, At, Goto, ChooseOp, TypeOK, Orderly, eventVars, epollVars,
              fdVars
<1>2. ASSUME NEW e \in Event, NEW where \in OtherCall,
             CallOther(x, e, where)
      PROVE  Orderly(x)'
  BY <1>2 DEF CallOther, OtherCall, Free, At, Goto, TypeOK, Orderly, eventVars, epollVars, fdVars
<1>3. CASE \/ Lock(x, "addlock", "add") \/ Lock(x, "dellock", "del")
           \/ Lock(x, "cancellock", "cancel") \/ Lock(x, "alllock", "all")
  BY <1>3 DEF Lock, At, Goto, ChooseOp, TypeOK, Orderly, eventVars, epollVars, fdVars
<1>4. CASE AddAgain(x)
  BY <1>4 DEF AddAgain, At, Goto, TypeOK, Orderly, eventVars, epollVars, fdVars
<1>5. CASE AddEvent(x)
  <2>1. /\ pc[x] = "add" /\ arg[x] \notin events /\ pc' = [pc EXCEPT ![x] = "free"]
        /\ ctx' = [ctx EXCEPT ![arg[x]] = TRUE] /\ runs' = [runs EXCEPT ![arg[x]] = 0]
        /\ events' = events \cup {arg[x]} /\ interest' = events \cup {arg[x]}
        /\ registered' = (events \cup {arg[x]} # {})
        /\ UNCHANGED <<arg, op, todo>>
        /\ failure' = IF ~ctx[arg[x]] /\ EpollAccepts(op[x]) THEN failure ELSE "assert"
    BY <1>5 DEF AddEvent, QcAssert, EpollSet, At, Goto
  <2>2. ~ctx[arg[x]] /\ EpollAccepts(op[x])
    BY <2>1 DEF Orderly, ChooseOp, EpollAccepts, TypeOK
  <2>3. failure' = "none"
    BY <2>1, <2>2 DEF Orderly
  <2>4. arg[x] \in Event /\ todo[x] = {}
    BY <2>1 DEF Orderly, TypeOK
  <2>5. \A e \in Event : /\ ctx'[e] <=> e = arg[x] \/ ctx[e]
                         /\ runs'[e] = IF e = arg[x] THEN 0 ELSE runs[e]
    BY <2>1, <2>4 DEF TypeOK
  <2>6. \A b \in Thread : pc'[b] = IF b = x THEN "free" ELSE pc[b]
    BY <2>1 DEF TypeOK
  <2>7. \A e \in Event : ctx[e] <=> e \in events
    BY <2>1 DEF Orderly
  <2>8. \A e \in Event : ctx'[e] <=> e \in events'
    BY <2>1, <2>5, <2>7
  <2>9. \A e \in Event : runs'[e] <= 1 /\ (ctx'[e] => runs'[e] = 0)
    BY <2>1, <2>5, <2>7 DEF Orderly
  <2>10. registered' <=> events' # {}
    BY <2>1
  <2>11. todo'[x] = {} /\ pc'[x] = "free" /\ interest' = events'
    BY <2>1, <2>4, <2>6
  <2>12. \A b \in Thread \ {x} : pc'[b] = "free"
    BY <2>6 DEF Orderly
  <2>13. QED
    BY <2>3, <2>8, <2>9, <2>10, <2>11, <2>12 DEF Orderly
<1>6. CASE DelNothing(x)
  BY <1>6 DEF DelNothing, Return, At, Goto, TypeOK, Orderly, eventVars, epollVars, fdVars
<1>7. CASE DelEvent(x)
  BY <1>7 DEF DelEvent, Left, EpollSet, QcAssert, Drop, Return, At, Goto, TypeOK, Orderly
<1>8. CASE CancelNothing(x)
  BY <1>8 DEF CancelNothing, At, Goto, TypeOK, Orderly, eventVars, epollVars, fdVars
<1>9. CASE CancelEvent(x)
  <2>1. /\ pc[x] = "cancel" /\ arg[x] \in events /\ pc' = [pc EXCEPT ![x] = "free"]
        /\ ctx' = [ctx EXCEPT ![arg[x]] = FALSE] /\ events' = events \ {arg[x]}
        /\ interest' = events \ {arg[x]} /\ registered' = (events \ {arg[x]} # {})
        /\ UNCHANGED <<arg, op, todo>> /\ Trigger({arg[x]}, registered)
    BY <1>9 DEF CancelEvent, Left, EpollSet, Drop, At, Goto
  <2>2. arg[x] \in Event /\ todo[x] = {} /\ ctx[arg[x]] /\ registered
    BY <2>1 DEF Orderly, TypeOK
  <2>3. /\ failure' = "none"
        /\ \A e \in Event : runs'[e] = IF e = arg[x] THEN runs[e] + 1 ELSE runs[e]
    BY <2>1, <2>2 DEF Trigger, Orderly
  <2>4. \A e \in Event : ctx'[e] <=> ctx[e] /\ e # arg[x]
    BY <2>1, <2>2 DEF TypeOK
  <2>5. \A b \in Thread : pc'[b] = IF b = x THEN "free" ELSE pc[b]
    BY <2>1 DEF TypeOK
  <2>6. \A e \in Event : ctx[e] <=> e \in events
    BY <2>1 DEF Orderly
  <2>7. \A e \in Event : ctx'[e] <=> e \in events'
    BY <2>1, <2>4, <2>6
  <2>8. \A e \in Event : runs'[e] <= 1 /\ (ctx'[e] => runs'[e] = 0)
    <3>1. \A e \in Event : runs[e] \in Nat /\ runs[e] <= 1 /\ (ctx[e] => runs[e] = 0)
      BY <2>1 DEF Orderly, TypeOK
    <3>2. QED
      BY <2>2, <2>3, <2>4, <3>1
  <2>9. registered' <=> events' # {}
    BY <2>1
  <2>10. todo'[x] = {} /\ pc'[x] = "free" /\ interest' = events'
    BY <2>1, <2>2, <2>5
  <2>11. \A b \in Thread \ {x} : pc'[b] = "free"
    BY <2>5 DEF Orderly
  <2>12. QED
    BY <2>3, <2>7, <2>8, <2>9, <2>10, <2>11 DEF Orderly
<1>10. CASE CancelAll(x)
  <2>1. /\ pc[x] = "all" /\ events # {} /\ pc' = [pc EXCEPT ![x] = "free"]
        /\ ctx' = [e \in Event |-> ctx[e] /\ e \notin events] /\ events' = {}
        /\ interest' = {} /\ registered' = ({} # {})
        /\ UNCHANGED <<arg, op, todo>> /\ Trigger(events, registered)
    BY <1>10 DEF CancelAll, EpollSet, At, Goto
  <2>2. /\ todo[x] = {} /\ registered /\ events \subseteq Event
        /\ \A e \in Event : ctx[e] <=> e \in events
    BY <2>1 DEF Orderly, TypeOK
  <2>3. /\ failure' = "none"
        /\ \A e \in Event : runs'[e] = IF e \in events THEN runs[e] + 1 ELSE runs[e]
    BY <2>1, <2>2 DEF Trigger, Orderly
  <2>4. \A e \in Event : ~ctx'[e]
    BY <2>1, <2>2
  <2>5. \A b \in Thread : pc'[b] = IF b = x THEN "free" ELSE pc[b]
    BY <2>1 DEF TypeOK
  <2>6. \A e \in Event : runs'[e] <= 1
    <3>1. \A e \in Event : runs[e] \in Nat /\ runs[e] <= 1 /\ (ctx[e] => runs[e] = 0)
      BY <2>1 DEF Orderly, TypeOK
    <3>2. QED
      BY <2>2, <2>3, <3>1
  <2>7. ~registered'
    BY <2>1
  <2>8. todo'[x] = {} /\ pc'[x] = "free" /\ interest' = events' /\ events' = {}
    BY <2>1, <2>2, <2>5
  <2>9. \A b \in Thread \ {x} : pc'[b] = "free"
    BY <2>5 DEF Orderly
  <2>10. QED
    BY <2>3, <2>4, <2>6, <2>7, <2>8, <2>9 DEF Orderly
<1>11. QED
  BY <1>1, <1>2, <1>3, <1>4, <1>5, <1>6, <1>7, <1>8, <1>9, <1>10, CallsMade DEF CallStep

\* The dispatch keeps it.
LEMMA DispatchOrder ==
  ASSUME TypeOK, NEW x \in Runner, Orderly(x), Deliver(x) \/ DispatchStep(x)
  PROVE  Orderly(x)'
<1>0. x \in Thread
  BY DEF Thread
<1>1. CASE Deliver(x)
  BY <1>0, <1>1 DEF Deliver, Free, At, Goto, TypeOK, Orderly, Event, eventVars, epollVars
<1>2. CASE Lock(x, "looklock", "look")
  BY <1>0, <1>2 DEF Lock, At, Goto, TypeOK, Orderly, eventVars, epollVars, fdVars
<1>3. CASE LookNothing(x)
  BY <1>0, <1>3 DEF LookNothing, At, Goto, TypeOK, Orderly, eventVars, epollVars, fdVars
<1>4. CASE Look(x)
  <2>1. /\ pc[x] = "look" /\ Real(x) # {} /\ pc' = [pc EXCEPT ![x] = "trigger"]
        /\ todo' = [todo EXCEPT ![x] = Real(x)]
        /\ arg' = [arg EXCEPT ![x] = FirstOf(Real(x))]
        /\ UNCHANGED <<failure, events, ctx, runs, registered, interest>>
    BY <1>4 DEF Look, At, Goto, eventVars, epollVars
  <2>2. events \subseteq Event /\ todo[x] \cap Event \subseteq events
    BY <1>0, <2>1 DEF Orderly, TypeOK
  <2>3. Real(x) \subseteq events
    BY <2>2 DEF Real
  <2>4. FirstOf(Real(x)) \in Real(x)
    BY <2>1, <2>2, <2>3 DEF FirstOf, Event
  <2>5. /\ todo'[x] = Real(x) /\ arg'[x] = FirstOf(Real(x))
        /\ \A b \in Thread : pc'[b] = IF b = x THEN "trigger" ELSE pc[b]
    BY <1>0, <2>1 DEF TypeOK
  <2>6. QED
    BY <1>0, <2>1, <2>3, <2>4, <2>5 DEF Orderly
<1>5. CASE TriggerUnlocked(x)
  <2>1. /\ pc[x] = "trigger" /\ pc' = [pc EXCEPT ![x] = "clear"]
        /\ UNCHANGED <<arg, todo, events, ctx, registered, interest>>
        /\ Trigger({arg[x]}, TRUE)
    BY <1>5 DEF TriggerUnlocked, At, Goto, epollVars
  <2>2. /\ arg[x] \in events /\ events \subseteq Event
        /\ \A e \in Event : ctx[e] <=> e \in events
        /\ \A e \in Event : runs[e] \in Nat /\ runs[e] <= 1 /\ (ctx[e] => runs[e] = 0)
    BY <1>0, <2>1 DEF Orderly, TypeOK
  <2>3. /\ failure' = "none"
        /\ \A e \in Event : runs'[e] = IF e = arg[x] THEN runs[e] + 1 ELSE runs[e]
    BY <2>1, <2>2 DEF Trigger, Orderly
  <2>4. \A b \in Thread : pc'[b] = IF b = x THEN "clear" ELSE pc[b]
    BY <2>1 DEF TypeOK
  <2>5. \A e \in Event : runs'[e] <= 1 /\ (ctx'[e] /\ arg'[x] # e => runs'[e] = 0)
    BY <2>1, <2>2, <2>3
  <2>6. QED
    BY <1>0, <2>1, <2>3, <2>4, <2>5 DEF Orderly
<1>6. CASE ClearContext(x)
  BY <1>0, <1>6 DEF ClearContext, At, Goto, TypeOK, Orderly, epollVars, fdVars
<1>7. CASE CountAgain(x)
  <2> DEFINE rest == todo[x] \ {arg[x]}
  <2>1. /\ pc[x] = "count" /\ UNCHANGED <<events, ctx, runs, registered, interest, failure>>
        /\ pc' = [pc EXCEPT ![x] = IF rest = {} THEN "leave" ELSE "trigger"]
        /\ todo' = [todo EXCEPT ![x] = rest]
        /\ arg' = [arg EXCEPT ![x] = IF rest = {} THEN @ ELSE FirstOf(rest)]
    BY <1>7 DEF CountAgain, At, Goto, epollVars
  <2>2. rest \subseteq events /\ events \subseteq Event
    BY <1>0, <2>1 DEF Orderly, TypeOK
  <2>3. rest # {} => FirstOf(rest) \in rest
    BY <2>2 DEF FirstOf, Event
  <2>4. /\ todo'[x] = rest
        /\ rest # {} => arg'[x] = FirstOf(rest)
        /\ pc'[x] = IF rest = {} THEN "leave" ELSE "trigger"
        /\ \A b \in Thread \ {x} : pc'[b] = pc[b]
    <3> HIDE DEF rest
    <3>1. QED
      BY <1>0, <2>1 DEF TypeOK
  <2> HIDE DEF rest
  <2>5. CASE rest = {}
    BY <1>0, <2>1, <2>4, <2>5 DEF Orderly
  <2>6. CASE rest # {}
    BY <1>0, <2>1, <2>2, <2>3, <2>4, <2>6 DEF Orderly
  <2>7. QED
    BY <2>5, <2>6
<1>8. CASE Leave(x)
  BY <1>0, <1>8 DEF Leave, At, Goto, TypeOK, Orderly, eventVars, epollVars, fdVars
<1>9. QED
  BY <1>1, <1>2, <1>3, <1>4, <1>5, <1>6, <1>7, <1>8 DEF DispatchStep

\* Every step of a process of one thread is a step of that thread.
LEMMA StepOrder == TypeOK /\ AloneInv /\ [Next]_vars => AloneInv'
<1> SUFFICES ASSUME TypeOK, AloneInv, [Next]_vars, NEW x \in Thread, setup'.threads = {x}
             PROVE  Orderly(x)'
  BY DEF AloneInv
<1>1. setup' = setup
  BY DEF Next, vars, Arrive, Consume, Call, CallAdd, CallOther, CallStep, Lock, AddAgain,
         AddEvent, DelNothing, DelEvent, CancelNothing, CancelEvent, CancelAll, Deliver,
         DispatchStep, LookNothing, Look, TriggerUnlocked, ClearContext, CountAgain, Leave
<1>2. setup.threads = {x} /\ Orderly(x)
  BY <1>1 DEF AloneInv
<1>3. ASSUME NEW e \in Report, Arrive(e) \/ Consume(e) PROVE Orderly(x)'
  BY <1>2, <1>3 DEF Arrive, Consume, Orderly, ChooseOp, eventVars, epollVars
<1>4. ASSUME NEW a \in Thread, Call(a) \/ CallStep(a) PROVE Orderly(x)'
  <2>1. a = x
    BY <1>2, <1>4
    DEF Call, CallAdd, CallOther, Free, At, CallStep, Lock, AddAgain, AddEvent, DelNothing,
        DelEvent, CancelNothing, CancelEvent, CancelAll, Orderly
  <2>2. QED
    BY <1>2, <1>4, <2>1, CallOrder
<1>5. ASSUME NEW r \in Runner, Deliver(r) \/ DispatchStep(r) PROVE Orderly(x)'
  <2>1. r \in Thread
    BY DEF Thread
  <2>2. r = x
    BY <1>2, <1>5, <2>1
    DEF Deliver, Free, At, DispatchStep, Lock, LookNothing, Look, TriggerUnlocked,
        ClearContext, CountAgain, Leave, Orderly
  <2>3. QED
    BY <1>2, <1>5, <2>2, DispatchOrder
<1>6. CASE UNCHANGED vars
  BY <1>2, <1>6 DEF vars, Orderly, ChooseOp, eventVars, epollVars
<1>7. QED
  BY <1>3, <1>4, <1>5, <1>6 DEF Next

\* The invariant holds in every reachable state.
LEMMA AloneAlways == Spec => [](TypeOK /\ AloneInv)
<1>1. Init => AloneInv
  BY DEF Init, AloneInv, Orderly, Event
<1>2. QED
  BY <1>1, InitTypes, StepTypes, StepOrder, PTL DEF Spec

\* The one thread of a process.
LEMMA OnlyThread ==
  ASSUME TypeOK, Alone
  PROVE  \E x \in Thread : setup.threads = {x}
<1>1. IsFiniteSet(setup.threads) /\ setup.threads \subseteq Thread
  BY EventAssumption DEF TypeOK
<1>2. QED
  BY <1>1, FS_Singleton DEF Alone

\* In a process of one thread no assertion of addEvent, delEvent, cancelEvent or
\* triggerEvent fails, and no event is triggered through a null scheduler,
\* although idle() gives the mutex back before it handles the events.
THEOREM NothingFails == Spec => []NoFailure
<1>1. TypeOK /\ AloneInv => NoFailure
  BY OnlyThread DEF NoFailure, AloneInv, Orderly
<1>2. QED
  BY <1>1, AloneAlways, PTL

\* In a process of one thread the callback of a registration is queued at most
\* once, whether its descriptor becomes ready or it is cancelled.
THEOREM QueuedOnce == Spec => []AtMostOnce
<1>1. TypeOK /\ AloneInv => AtMostOnce
  BY OnlyThread DEF AtMostOnce, AloneInv, Orderly
<1>2. QED
  BY <1>1, AloneAlways, PTL
=============================================================================
