--------------------------- MODULE FdTableProofs ---------------------------
(***************************************************************************)
(* Theorems about FdTable for any threads, descriptors and first table:    *)
(* as long as no two calls have met, about one descriptor or on the way to *)
(* a resize, no context is ever replaced and epoll accepts every call.     *)
(* The assertions about epoll_ctl fail only because addEvent looks at the  *)
(* size and at the events of its context before it takes the locks.        *)
(***************************************************************************)
EXTENDS FdTable, TLAPS

Place == {"free", "grow", "choose", "add", "del"}

Shape ==
  /\ size \in Nat /\ size > 1
  /\ slot \in [Fd -> 0 .. MaxMade] /\ made \in [Fd -> 0 .. MaxMade]
  /\ events \in [Fd -> [1 .. MaxMade -> SUBSET Event]]
  /\ epoll \in [Fd -> 0 .. MaxMade]
  /\ pc \in [Thread -> Place]
  /\ arg \in [Thread -> Nat \X Event]
  /\ found \in [Thread -> 0 .. MaxMade]
  /\ op \in [Thread -> {"ADD", "MOD"}]
  /\ failure \in {"none", "throw"}

\* Every descriptor within the table has had one context, and none beyond it.
FirstOnly ==
  \A f \in Fd : slot[f] = made[f] /\ slot[f] = IF f < size THEN 1 ELSE NoCtx

\* A thread that is to grow the table has a descriptor beyond it, any other at
\* work has the context of its descriptor.
Lookups ==
  \A a \in Thread :
    /\ pc[a] # "free" => arg[a][1] \in Fd
    /\ pc[a] = "grow" => size <= arg[a][1]
    /\ pc[a] \in {"choose", "add", "del"} => found[a] = 1
    /\ pc[a] = "add" => (op[a] = "ADD" <=> events[arg[a][1]][1] = {})

\* No two calls have met.
Apart ==
  \A a, b \in Thread :
    a # b /\ pc[a] # "free" /\ pc[b] # "free" =>
      arg[a][1] # arg[b][1] /\ ~(pc[a] = "grow" /\ pc[b] = "grow")

\* epoll knows the descriptors whose context has events.
Agree == \A f \in Fd : epoll[f] # NoCtx <=> events[f][1] # {}

TableInv == Shape /\ FirstOnly /\ Lookups /\ Agree /\ Apart

\* While no two calls have met; from then on nothing is claimed.
MeetInv == overlap \in BOOLEAN /\ (~overlap => TableInv)

\* The constructor's table.
LEMMA TableStart ==
  ASSUME Sized, Init
  PROVE  TableInv
<1>1. 1 \in 1 .. MaxMade /\ 0 \in 0 .. MaxMade /\ 1 \in 0 .. MaxMade
  BY DEF Sized
<1>2. Shape
  <2>1. size \in Nat /\ size > 1 /\ failure = "none"
    BY DEF Sized, Init
  <2>2. slot \in [Fd -> 0 .. MaxMade] /\ made \in [Fd -> 0 .. MaxMade]
    BY <1>1 DEF Init, NoCtx
  <2>3. /\ events \in [Fd -> [1 .. MaxMade -> SUBSET Event]]
        /\ epoll \in [Fd -> 0 .. MaxMade]
    BY <1>1 DEF Init, NoCtx
  <2>4. /\ pc \in [Thread -> Place]
        /\ arg \in [Thread -> Nat \X Event]
        /\ found \in [Thread -> 0 .. MaxMade] /\ op \in [Thread -> {"ADD", "MOD"}]
    BY <1>1 DEF Init, NoCtx, Event, Place
  <2>5. QED
    BY <2>1, <2>2, <2>3, <2>4 DEF Shape
<1>3. FirstOnly /\ Lookups /\ Apart
  BY DEF Init, FirstOnly, Lookups, Apart, NoCtx
<1>4. Agree
  BY <1>1 DEF Init, Agree, NoCtx
<1>5. QED
  BY <1>2, <1>3, <1>4 DEF TableInv

\* A lookup that finds the context, or sends its thread to grow the table.
LEMMA TableCall ==
  ASSUME Sized, TableInv, NEW a \in Thread, NEW f \in Fd, NEW e \in Event,
         CallAdd(a, f, e) \/ CallDel(a, f, e), ~overlap'
  PROVE  TableInv'
<1>1. PICK where \in {"grow", "choose", "del"} :
        Call(a, f, e, where) /\ (where = "grow" => size <= f) /\ (where # "grow" => f < size)
  <2>1. f \in Nat /\ size \in Nat
    BY DEF Sized, TableInv, Shape
  <2>2. CASE CallDel(a, f, e)
    BY <2>2 DEF CallDel
  <2>3. CASE CallAdd(a, f, e)
    BY <2>1, <2>3 DEF CallAdd
  <2>4. QED
    BY <2>2, <2>3
<1>2. /\ arg' = [arg EXCEPT ![a] = <<f, e>>]
      /\ found' = [found EXCEPT ![a] = slot[f]]
      /\ pc' = [pc EXCEPT ![a] = where]
      /\ UNCHANGED <<size, slot, made, events, epoll, op, failure>>
      /\ pc[a] = "free" /\ ~Meets(a, f, where)
  BY <1>1 DEF Call, At, Goto, tableVars
<1>3. f \in Nat /\ slot[f] \in 0 .. MaxMade
  BY DEF Sized, TableInv, Shape
<1>4. Shape'
  <2>1. arg' \in [Thread -> Nat \X Event] /\ found' \in [Thread -> 0 .. MaxMade]
    BY <1>2, <1>3 DEF TableInv, Shape
  <2>2. pc' \in [Thread -> Place]
    BY <1>2 DEF TableInv, Shape, Place
  <2>3. QED
    BY <1>2, <2>1, <2>2 DEF TableInv, Shape
<1>5. FirstOnly' /\ Agree'
  BY <1>2 DEF TableInv, FirstOnly, Agree
<1>6. /\ arg'[a] = <<f, e>> /\ found'[a] = slot[f] /\ pc'[a] = where
      /\ \A b \in Thread \ {a} : arg'[b] = arg[b] /\ found'[b] = found[b] /\ pc'[b] = pc[b]
  BY <1>2 DEF TableInv, Shape
<1>7. where # "grow" => slot[f] = 1
  BY <1>1 DEF TableInv, FirstOnly
<1>8. Lookups'
  BY <1>1, <1>2, <1>6, <1>7 DEF TableInv, Lookups
<1>9. Apart'
  <2>1. \A b \in Thread \ {a} :
          pc[b] # "free" => arg[b][1] # f /\ ~(where = "grow" /\ pc[b] = "grow")
    BY <1>2 DEF Meets
  <2>2. QED
    BY <1>6, <2>1 DEF TableInv, Apart
<1>10. QED
  BY <1>4, <1>5, <1>8, <1>9 DEF TableInv

\* A resize by the only thread that is about to make one leaves room for its
\* descriptor, and every context where it is.
LEMMA TableGrow ==
  ASSUME Sized, TableInv, NEW a \in Thread, Grow(a)
  PROVE  TableInv' /\ \A f \in Fd : slot[f] # NoCtx => slot'[f] = slot[f]
<1> DEFINE n == (arg[a][1] * 3) \div 2
<1>1. /\ size \in Nat /\ size > 1 /\ arg[a][1] \in Fd /\ arg[a][1] \in Nat /\ size <= arg[a][1]
      /\ pc[a] = "grow"
  BY DEF Sized, Grow, At, TableInv, Shape, Lookups
<1>2. n \in Nat /\ arg[a][1] < n
  BY <1>1
<1>3. /\ size' = n
      /\ slot' = [f \in Fd |-> IF f >= n THEN NoCtx
                               ELSE IF slot[f] = NoCtx THEN made[f] + 1 ELSE slot[f]]
      /\ made' = [f \in Fd |-> IF slot'[f] > made[f] THEN slot'[f] ELSE made[f]]
      /\ found' = [found EXCEPT ![a] = slot'[arg[a][1]]]
      /\ pc' = [pc EXCEPT ![a] = "choose"]
      /\ UNCHANGED <<events, epoll, arg, op, failure>>
  BY DEF Grow, ContextResize, Goto
<1> HIDE DEF n
<1>4. \A f \in Fd : slot'[f] = IF f < n THEN 1 ELSE NoCtx
  <2> SUFFICES ASSUME NEW f \in Fd PROVE slot'[f] = IF f < n THEN 1 ELSE NoCtx
    OBVIOUS
  <2>1. f \in Nat /\ slot[f] = made[f] /\ slot[f] = IF f < size THEN 1 ELSE NoCtx
    BY DEF Sized, TableInv, FirstOnly
  <2>2. slot'[f] = IF f >= n THEN NoCtx ELSE IF slot[f] = NoCtx THEN made[f] + 1 ELSE slot[f]
    BY <1>3
  <2>3. CASE f < size
    <3>1. f < n /\ slot[f] = 1
      BY <1>1, <1>2, <2>1, <2>3
    <3>2. QED
      BY <1>2, <2>1, <2>2, <3>1 DEF NoCtx
  <2>4. CASE ~(f < size)
    <3>1. slot[f] = NoCtx /\ made[f] + 1 = 1
      BY <2>1, <2>4 DEF NoCtx
    <3>2. slot'[f] = IF f >= n THEN NoCtx ELSE 1
      BY <2>2, <3>1
    <3>3. QED
      BY <1>2, <2>1, <3>2
  <2>5. QED
    BY <2>3, <2>4
<1>5. \A f \in Fd : made'[f] = slot'[f]
  <2> SUFFICES ASSUME NEW f \in Fd PROVE made'[f] = slot'[f]
    OBVIOUS
  <2>1. f \in Nat /\ slot[f] = made[f] /\ slot[f] = IF f < size THEN 1 ELSE NoCtx
    BY DEF Sized, TableInv, FirstOnly
  <2>2. made'[f] = IF slot'[f] > made[f] THEN slot'[f] ELSE made[f]
    BY <1>3
  <2>3. slot'[f] = IF f < n THEN 1 ELSE NoCtx
    BY <1>4
  <2>4. CASE f < size
    <3>1. f < n /\ made[f] = 1 /\ slot'[f] = 1
      BY <1>1, <1>2, <2>1, <2>3, <2>4
    <3>2. QED
      BY <2>2, <3>1
  <2>5. CASE ~(f < size)
    <3>1. made[f] = 0 /\ (slot'[f] = 0 \/ slot'[f] = 1)
      BY <2>1, <2>3, <2>5 DEF NoCtx
    <3>2. QED
      BY <2>2, <3>1
  <2>6. QED
    BY <2>4, <2>5
<1>6. FirstOnly'
  BY <1>3, <1>4, <1>5 DEF FirstOnly
<1>7. slot'[arg[a][1]] = 1
  BY <1>1, <1>2, <1>4
<1>8. Shape'
  <2>1. 0 \in 0 .. MaxMade /\ 1 \in 0 .. MaxMade
    BY DEF Sized
  <2>2. \A f \in Fd : slot'[f] \in 0 .. MaxMade /\ made'[f] \in 0 .. MaxMade
    BY <1>4, <1>5, <2>1 DEF NoCtx
  <2>3. slot' \in [Fd -> 0 .. MaxMade] /\ made' \in [Fd -> 0 .. MaxMade]
    BY <1>3, <2>2
  <2>4. found' \in [Thread -> 0 .. MaxMade]
    BY <1>3, <1>7, <2>1 DEF TableInv, Shape
  <2>5. pc' \in [Thread -> Place]
    BY <1>3 DEF TableInv, Shape, Place
  <2>6. size' \in Nat /\ size' > 1
    BY <1>1, <1>2, <1>3
  <2>7. QED
    BY <1>3, <2>3, <2>4, <2>5, <2>6 DEF TableInv, Shape
<1>9. Agree'
  BY <1>3 DEF TableInv, Agree
<1>10. Lookups'
  <2>1. pc'[a] = "choose" /\ found'[a] = 1 /\ arg'[a][1] \in Fd
    BY <1>1, <1>3, <1>7 DEF TableInv, Shape
  <2>2. \A b \in Thread \ {a} :
          pc'[b] = pc[b] /\ found'[b] = found[b] /\ arg'[b] = arg[b] /\ pc[b] # "grow"
    BY <1>1, <1>3 DEF TableInv, Shape, Apart
  <2>3. QED
    BY <1>3, <2>1, <2>2 DEF TableInv, Lookups
<1>11. \A f \in Fd : slot[f] # NoCtx => slot'[f] = slot[f]
  <2> SUFFICES ASSUME NEW f \in Fd, slot[f] # NoCtx PROVE slot'[f] = slot[f]
    OBVIOUS
  <2>1. f \in Nat /\ slot[f] = IF f < size THEN 1 ELSE NoCtx
    BY DEF Sized, TableInv, FirstOnly
  <2>2. QED
    BY <1>1, <1>2, <1>4, <2>1
<1>12. Apart'
  <2>1. /\ pc[a] = "grow" /\ pc'[a] = "choose"
        /\ \A b \in Thread \ {a} : pc'[b] = pc[b]
    BY <1>1, <1>3 DEF TableInv, Shape
  <2>2. QED
    BY <1>3, <2>1 DEF TableInv, Apart
<1>13. QED
  BY <1>6, <1>8, <1>9, <1>10, <1>11, <1>12 DEF TableInv

\* The choice of the operation is right for as long as no other call is about the
\* descriptor.
LEMMA TableChoose ==
  ASSUME Sized, TableInv, NEW a \in Thread, Choose(a)
  PROVE  TableInv'
<1> DEFINE o == IF events[arg[a][1]][found[a]] = {} THEN "ADD" ELSE "MOD"
<1>1. /\ pc[a] = "choose" /\ op' = [op EXCEPT ![a] = o] /\ pc' = [pc EXCEPT ![a] = "add"]
      /\ UNCHANGED <<size, slot, made, events, epoll, arg, found, failure>>
  BY DEF Choose, At, Goto, tableVars
<1>2. found[a] = 1
  BY <1>1 DEF TableInv, Lookups
<1>3. o \in {"ADD", "MOD"} /\ (o = "ADD" <=> events[arg[a][1]][1] = {})
  BY <1>2
<1> HIDE DEF o
<1>4. /\ op'[a] = o /\ pc'[a] = "add"
      /\ \A b \in Thread \ {a} : op'[b] = op[b] /\ pc'[b] = pc[b]
  BY <1>1 DEF TableInv, Shape
<1>5. Shape'
  <2>1. op' \in [Thread -> {"ADD", "MOD"}] /\ pc' \in [Thread -> Place]
    BY <1>1, <1>3 DEF TableInv, Shape, Place
  <2>2. QED
    BY <1>1, <2>1 DEF TableInv, Shape
<1>6. Lookups'
  BY <1>1, <1>2, <1>3, <1>4 DEF TableInv, Lookups
<1>7. FirstOnly' /\ Agree' /\ Apart'
  BY <1>1, <1>4 DEF TableInv, FirstOnly, Agree, Apart
<1>8. QED
  BY <1>5, <1>6, <1>7 DEF TableInv

\* What the rest of a call may do to the first contexts.
LEMMA TableWork ==
  ASSUME Sized, TableInv, NEW a \in Thread, NEW f \in Fd, NEW s \in SUBSET Event,
         NEW known \in 0 .. MaxMade,
         failure' \in {"none", "throw"}, pc[a] # "free", arg[a][1] = f,
         pc' = [pc EXCEPT ![a] = "free"], UNCHANGED <<size, slot, made, arg, found, op>>,
         events' = [events EXCEPT ![f][1] = s], epoll' = [epoll EXCEPT ![f] = known],
         known # NoCtx <=> s # {}
  PROVE  TableInv'
<1>1. 1 \in 1 .. MaxMade
  BY DEF Sized
<1>2. Shape'
  <2>1. events' \in [Fd -> [1 .. MaxMade -> SUBSET Event]]
    BY <1>1 DEF TableInv, Shape
  <2>2. epoll' \in [Fd -> 0 .. MaxMade] /\ pc' \in [Thread -> Place]
    BY DEF TableInv, Shape, Place
  <2>3. QED
    BY <2>1, <2>2 DEF TableInv, Shape
<1>3. FirstOnly'
  BY DEF TableInv, FirstOnly
<1>0. /\ pc'[a] = "free"
      /\ \A b \in Thread \ {a} : pc'[b] = pc[b]
      /\ \A g \in Fd \ {f} : events'[g] = events[g]
  BY DEF TableInv, Shape
<1>4. Lookups'
  <2> SUFFICES ASSUME NEW b \in Thread, pc'[b] # "free"
               PROVE  /\ arg[b][1] \in Fd
                      /\ pc[b] = "grow" => size <= arg[b][1]
                      /\ pc[b] \in {"choose", "add", "del"} => found[b] = 1
                      /\ pc[b] = "add" => (op[b] = "ADD" <=> events'[arg[b][1]][1] = {})
    BY <1>0 DEF Lookups
  <2>1. b # a /\ pc[b] # "free"
    BY <1>0
  <2>2. arg[b][1] \in Fd \ {f}
    BY <2>1 DEF TableInv, Lookups, Apart
  <2>3. events'[arg[b][1]] = events[arg[b][1]]
    BY <1>0, <2>2
  <2>4. QED
    BY <2>1, <2>2, <2>3 DEF TableInv, Lookups
<1>5. Agree'
  <2>1. events'[f][1] = s /\ epoll'[f] = known
    BY <1>1 DEF TableInv, Shape
  <2>2. \A g \in Fd \ {f} : events'[g] = events[g] /\ epoll'[g] = epoll[g]
    BY DEF TableInv, Shape
  <2>3. QED
    BY <2>1, <2>2 DEF TableInv, Agree
<1>6. Apart'
  BY <1>0 DEF TableInv, Apart
<1>7. QED
  BY <1>2, <1>3, <1>4, <1>5, <1>6 DEF TableInv

\* The rest of addEvent: ADD when the context had no events, which is when epoll
\* does not know the descriptor, and MOD otherwise.
LEMMA TableAdd ==
  ASSUME Sized, TableInv, NEW a \in Thread, Add(a)
  PROVE  TableInv'
<1> DEFINE f == arg[a][1]
           e == arg[a][2]
<1>1. /\ f \in Fd /\ found[a] = 1 /\ e \in Event /\ failure = "none" /\ pc[a] = "add"
      /\ arg[a][1] = f
      /\ op[a] = "ADD" <=> events[f][1] = {}
  BY DEF Add, At, TableInv, Lookups, Shape
<1>2. 1 \in 1 .. MaxMade /\ 1 \in 0 .. MaxMade
  BY DEF Sized
<1>3. events[f][1] \in SUBSET Event /\ epoll[f] \in 0 .. MaxMade
      /\ (epoll[f] # NoCtx <=> events[f][1] # {})
  BY <1>1, <1>2 DEF TableInv, Shape, Agree
<1>4. Accepted(f, op[a])
  BY <1>1, <1>3 DEF Accepted
<1>5. UNCHANGED <<size, slot, made, arg, found, op>> /\ pc' = [pc EXCEPT ![a] = "free"]
  BY DEF Add, tableVars, Goto
<1>6. CASE e \in events[f][1]
  <2>1. failure' = "throw" /\ events' = events /\ epoll' = epoll
    BY <1>1, <1>6 DEF Add
  <2>2. events' = [events EXCEPT ![f][1] = events[f][1]] /\ epoll' = [epoll EXCEPT ![f] = epoll[f]]
    BY <1>1, <1>2, <2>1 DEF TableInv, Shape
  <2> HIDE DEF f, e
  <2>3. QED
    BY <1>1, <1>3, <1>5, <2>1, <2>2, TableWork
<1>7. CASE e \notin events[f][1]
  <2>1. failure' = "none"
    BY <1>1, <1>4, <1>7 DEF Add
  <2>2. events' = [events EXCEPT ![f][1] = events[f][1] \cup {e}]
    BY <1>1, <1>7 DEF Add
  <2>3. epoll' = [epoll EXCEPT ![f] = 1]
    BY <1>1, <2>1 DEF Add
  <2>4. events[f][1] \cup {e} \in SUBSET Event /\ events[f][1] \cup {e} # {} /\ 1 # NoCtx
    BY <1>1, <1>3 DEF NoCtx
  <2> HIDE DEF f, e
  <2>5. QED
    BY <1>1, <1>2, <1>5, <2>1, <2>2, <2>3, <2>4, TableWork
<1>8. QED
  BY <1>6, <1>7

\* The rest of delEvent: only what is there is taken out of epoll.
LEMMA TableDel ==
  ASSUME Sized, TableInv, NEW a \in Thread, Del(a)
  PROVE  TableInv'
<1> DEFINE f == arg[a][1]
           e == arg[a][2]
           left == events[f][1] \ {e}
<1>1. /\ f \in Fd /\ found[a] = 1 /\ e \in Event /\ failure = "none" /\ pc[a] = "del"
      /\ arg[a][1] = f
  BY DEF Del, At, TableInv, Lookups, Shape
<1>2. 1 \in 1 .. MaxMade /\ 1 \in 0 .. MaxMade /\ 0 \in 0 .. MaxMade
  BY DEF Sized
<1>3. events[f][1] \in SUBSET Event /\ epoll[f] \in 0 .. MaxMade
      /\ (epoll[f] # NoCtx <=> events[f][1] # {})
  BY <1>1, <1>2 DEF TableInv, Shape, Agree
<1>4. e \in events[f][1] => Accepted(f, "MOD")
  BY <1>3 DEF Accepted
<1>5. UNCHANGED <<size, slot, made, arg, found, op>> /\ pc' = [pc EXCEPT ![a] = "free"]
  BY DEF Del, tableVars, Goto
<1>6. CASE e \notin events[f][1]
  <2>1. failure' = "none" /\ events' = events /\ epoll' = epoll
    BY <1>1, <1>6 DEF Del
  <2>2. events' = [events EXCEPT ![f][1] = events[f][1]] /\ epoll' = [epoll EXCEPT ![f] = epoll[f]]
    BY <1>1, <1>2, <2>1 DEF TableInv, Shape
  <2> HIDE DEF f, e
  <2>3. QED
    BY <1>1, <1>3, <1>5, <2>1, <2>2, TableWork
<1>7. CASE e \in events[f][1]
  <2>1. failure' = "none"
    BY <1>1, <1>4, <1>7 DEF Del
  <2>2. events' = [events EXCEPT ![f][1] = left]
    BY <1>1, <1>7 DEF Del
  <2>3. epoll' = [epoll EXCEPT ![f] = IF left = {} THEN NoCtx ELSE 1]
    BY <1>1, <1>7 DEF Del
  <2>4. left \in SUBSET Event
    BY <1>3
  <2> DEFINE known == IF left = {} THEN NoCtx ELSE 1
  <2>5. known \in 0 .. MaxMade /\ (known # NoCtx <=> left # {})
    BY <1>2 DEF NoCtx
  <2>6. epoll' = [epoll EXCEPT ![f] = known]
    BY <2>3
  <2> HIDE DEF f, e, left, known
  <2>7. QED
    BY <1>1, <1>5, <2>1, <2>2, <2>4, <2>5, <2>6, TableWork
<1>8. QED
  BY <1>6, <1>7

\* Only calls can meet, and it is not forgotten that they have.
LEMMA MeetingCalls ==
  ASSUME [Next]_vars, overlap \in BOOLEAN
  PROVE  /\ overlap' \in BOOLEAN /\ (overlap => overlap')
         /\ \/ UNCHANGED vars
            \/ \E a \in Thread, f \in Fd, e \in Event : CallAdd(a, f, e) \/ CallDel(a, f, e)
            \/ \E a \in Thread : Grow(a) \/ Choose(a) \/ Add(a) \/ Del(a)
<1>1. [Next]_vars
  OBVIOUS
<1>2. ASSUME NEW a \in Thread, NEW f \in Fd, NEW e \in Event, CallAdd(a, f, e) \/ CallDel(a, f, e)
      PROVE  overlap' \in BOOLEAN /\ (overlap => overlap')
  BY <1>2 DEF CallAdd, CallDel, Call, Meets
<1>3. ASSUME NEW a \in Thread, Grow(a) \/ Choose(a) \/ Add(a) \/ Del(a)
      PROVE  overlap' = overlap
  BY <1>3 DEF Grow, Choose, Add, Del
<1>4. CASE UNCHANGED vars
  BY <1>4 DEF vars
<1>5. QED
  BY <1>1, <1>2, <1>3, <1>4 DEF Next

\* Every step keeps the table, until two calls meet.
LEMMA TableStep ==
  ASSUME Sized, MeetInv, [Next]_vars
  PROVE  MeetInv'
<1>1. overlap' \in BOOLEAN /\ (overlap => overlap')
  BY MeetingCalls DEF MeetInv
<1>2. SUFFICES ASSUME ~overlap' PROVE TableInv'
  BY <1>1 DEF MeetInv
<1>3. TableInv
  BY <1>1, <1>2 DEF MeetInv
<1>4. CASE UNCHANGED vars
  BY <1>3, <1>4 DEF vars, tableVars, TableInv, Shape, FirstOnly, Lookups, Agree, Apart
<1>5. QED
  BY <1>2, <1>3, <1>4, MeetingCalls, TableCall, TableGrow, TableChoose, TableAdd, TableDel
  DEF MeetInv

\* Until two calls meet, the table is sound.
LEMMA TableAlways ==
  ASSUME Sized
  PROVE  Spec => []MeetInv
<1>1. Init => MeetInv
  BY TableStart DEF MeetInv, Init
<1>2. MeetInv /\ [Next]_vars => MeetInv'
  BY TableStep
<1>3. QED
  BY <1>1, <1>2, PTL DEF Spec

\* For any number of threads, qc_assert(!rt) of addEvent and delEvent fails only
\* after two calls about one descriptor, or two on the way to a resize, were under
\* way together: the size tested before the write lock and the operation chosen
\* before the lock of the context are all that can go wrong.
THEOREM RefusedAfterOverlap ==
  ASSUME Sized
  PROVE  Spec => []RefusedOnlyByOverlap
<1>1. MeetInv => RefusedOnlyByOverlap
  BY DEF MeetInv, TableInv, Shape, RefusedOnlyByOverlap
<1>2. QED
  BY TableAlways, <1>1, PTL

\* Until two calls have met, contextResize leaves every context where it is.
THEOREM ContextsStay ==
  ASSUME Sized
  PROVE  Spec => ContextsKept
<1> DEFINE Kept == ~overlap => \A f \in Fd : slot[f] # NoCtx => slot'[f] = slot[f]
<1>1. MeetInv /\ [Next]_vars => [Kept]_vars
  <2> SUFFICES ASSUME MeetInv, [Next]_vars, ~overlap, NEW f \in Fd, slot[f] # NoCtx
               PROVE  slot'[f] = slot[f]
    OBVIOUS
  <2>1. ASSUME NEW a \in Thread, Grow(a) PROVE slot'[f] = slot[f]
    BY <2>1, TableGrow DEF MeetInv
  <2>2. ASSUME NEW a \in Thread, Choose(a) \/ Add(a) \/ Del(a) PROVE slot' = slot
    BY <2>2 DEF Choose, Add, Del, tableVars
  <2>3. ASSUME NEW a \in Thread, NEW g \in Fd, NEW e \in Event,
               CallAdd(a, g, e) \/ CallDel(a, g, e)
        PROVE  slot' = slot
    BY <2>3 DEF CallAdd, CallDel, Call, tableVars
  <2>4. CASE UNCHANGED vars
    BY <2>4 DEF vars, tableVars
  <2>5. QED
    BY <2>1, <2>2, <2>3, <2>4, MeetingCalls DEF MeetInv
<1>2. QED
  BY TableAlways, <1>1, PTL DEF Spec, ContextsKept

\* With a single thread no two calls meet, and epoll_ctl is never refused: this is
\* the manager that is made by default.
THEOREM AloneNeverRefused ==
  ASSUME Sized, NEW a, Thread = {a}
  PROVE  Spec => []EpollAsserts
<1> DEFINE Alone == ~overlap
<1>1. Init => Alone
  BY DEF Init
<1>2. Alone /\ [Next]_vars => Alone'
  <2>1. ASSUME NEW b \in Thread, NEW f, NEW where PROVE ~Meets(b, f, where)
    BY <2>1 DEF Meets
  <2>2. ASSUME NEW b \in Thread, NEW f \in Fd, NEW e \in Event,
               CallAdd(b, f, e) \/ CallDel(b, f, e)
        PROVE  ~overlap => ~overlap'
    <3>1. PICK where : Call(b, f, e, where)
      BY <2>2 DEF CallAdd, CallDel
    <3>2. QED
      BY <2>1, <3>1 DEF Call
  <2>3. ASSUME NEW b \in Thread, Grow(b) \/ Choose(b) \/ Add(b) \/ Del(b)
        PROVE  overlap' = overlap
    BY <2>3 DEF Grow, Choose, Add, Del
  <2>4. QED
    BY <2>2, <2>3 DEF Next, vars
<1>3. RefusedOnlyByOverlap /\ Alone => EpollAsserts
  BY DEF RefusedOnlyByOverlap, EpollAsserts
<1>4. QED
  BY <1>1, <1>2, <1>3, RefusedAfterOverlap, PTL DEF Spec
=============================================================================
