------------------------------- MODULE FdTable ------------------------------
(***************************************************************************)
(* The table m_fdContexts of src/iomanager.cc: addEvent looks up the       *)
(* context of its descriptor and makes the table larger when there is      *)
(* none; delEvent, which idle calls too, and cancelEvent look it up.       *)
(*                                                                         *)
(* What happens inside one FdContext is module FdEvents; here a lookup, a  *)
(* resize, the choice of the epoll operation, which addEvent makes without *)
(* the lock of the context, and the rest of a call are one step each.      *)
(***************************************************************************)
EXTENDS Integers, FiniteSets

CONSTANTS
  Thread,   \* threads that use the manager
  Fd,       \* descriptors, numbers, all of them open
  Initial,  \* contextResize(32) in the constructor
  Uses,     \* the descriptors that each thread works on
  MaxMade   \* BOUND: contexts made for one descriptor

\* Initial is 32 in the source; fd * 1.5 needs it to be more than 1.
Sized ==
  /\ Fd \subseteq Nat /\ Uses \in [Thread -> SUBSET Fd]
  /\ Initial \in Nat /\ Initial > 1 /\ MaxMade \in Nat \ {0}

Event == {"READ", "WRITE"}
NoCtx == 0     \* a null FdContext*, or a descriptor that epoll does not know

VARIABLES
  size,    \* m_fdContexts.size()
  slot,    \* the context of each descriptor, numbered as they are made
  made,    \* how many were made for it, the lost ones included
  events,  \* m_events of each context
  epoll,   \* the context in epoll's data.ptr
  pc,      \* where each thread is
  arg,     \* the descriptor and the event it works on
  found,   \* the context it has found
  op,      \* what addEvent will ask of epoll_ctl
  failure, \* "none", or what ended the process
  overlap  \* history: calls were under way together that get in each other's way

tableVars == <<size, slot, made>>
vars == <<tableVars, events, epoll, pc, arg, found, op, failure, overlap>>

Init ==
  /\ size = Initial
  /\ slot = [f \in Fd |-> IF f < Initial THEN 1 ELSE NoCtx]
  /\ made = slot
  /\ events = [f \in Fd |-> [k \in 1 .. MaxMade |-> {}]]
  /\ epoll = [f \in Fd |-> NoCtx]
  /\ pc = [a \in Thread |-> "free"]
  /\ arg = [a \in Thread |-> <<0, "READ">>]
  /\ found = [a \in Thread |-> NoCtx]
  /\ op = [a \in Thread |-> "ADD"]
  /\ failure = "none"
  /\ overlap = FALSE

---------------------------------------------------------------------------
At(a, where) == failure = "none" /\ pc[a] = where
Goto(a, where) == pc' = [pc EXCEPT ![a] = where]

\* epoll_ctl goes by the descriptor: ADD is for one that epoll does not know,
\* MOD and DEL for one that it knows.
Accepted(f, o) == (o = "ADD") <=> (epoll[f] = NoCtx)

\* Another call is about the same descriptor, or both are to resize the table.
Meets(a, f, where) ==
  \E b \in Thread \ {a} :
    pc[b] # "free" /\ (arg[b][1] = f \/ (where = "grow" /\ pc[b] = "grow"))

\* The calls look the descriptor up under the read lock.
Call(a, f, e, where) ==
  /\ At(a, "free") /\ f \in Uses[a]
  /\ arg' = [arg EXCEPT ![a] = <<f, e>>]
  /\ found' = [found EXCEPT ![a] = slot[f]]
  /\ overlap' = (overlap \/ Meets(a, f, where))
  /\ Goto(a, where)
  /\ UNCHANGED <<tableVars, events, epoll, op, failure>>

\* Not in the table: addEvent makes room, the others return.
CallAdd(a, f, e) == Call(a, f, e, IF f < size THEN "choose" ELSE "grow")
CallDel(a, f, e) == f < size /\ Call(a, f, e, "del")

\* contextResize: descriptors beyond the new size lose their context, which
\* nothing deletes, and every empty place below it gets a new one.
ContextResize(n) ==
  /\ size' = n
  /\ slot' = [f \in Fd |-> IF f >= n THEN NoCtx
                           ELSE IF slot[f] = NoCtx THEN made[f] + 1 ELSE slot[f]]
  /\ made' = [f \in Fd |-> IF slot'[f] > made[f] THEN slot'[f] ELSE made[f]]

\* addEvent under the write lock: the size is not looked at again.
Grow(a) ==
  /\ At(a, "grow") /\ \A f \in Fd : made[f] < MaxMade
  /\ ContextResize((arg[a][1] * 3) \div 2)
  /\ found' = [found EXCEPT ![a] = slot'[arg[a][1]]]
  /\ Goto(a, "choose")
  /\ UNCHANGED <<events, epoll, arg, op, failure, overlap>>

\* The operation goes by the events of the context, read without its lock.
Choose(a) ==
  /\ At(a, "choose")
  /\ op' = [op EXCEPT ![a] = IF events[arg[a][1]][found[a]] = {} THEN "ADD" ELSE "MOD"]
  /\ Goto(a, "add")
  /\ UNCHANGED <<tableVars, events, epoll, arg, found, failure, overlap>>

\* The rest of addEvent, under the lock of the context: the same event twice
\* throws, and epoll_ctl must accept the operation.
Add(a) ==
  /\ At(a, "add")
  /\ LET f == arg[a][1]
         k == found[a]
         again == arg[a][2] \in events[f][k]
     IN /\ failure' = CASE again -> "throw"
                        [] ~again /\ ~Accepted(f, op[a]) -> "assert"
                        [] OTHER -> failure
        /\ events' = IF again THEN events ELSE [events EXCEPT ![f][k] = @ \cup {arg[a][2]}]
        /\ epoll' = IF failure' = "none" THEN [epoll EXCEPT ![f] = k] ELSE epoll
  /\ Goto(a, "free")
  /\ UNCHANGED <<tableVars, arg, found, op, overlap>>

\* The rest of delEvent and cancelEvent: an event that is not there is left
\* alone; epoll gets what remains, by MOD or DEL, with this context.
Del(a) ==
  /\ At(a, "del")
  /\ LET f == arg[a][1]
         k == found[a]
         left == events[f][k] \ {arg[a][2]}
     IN IF arg[a][2] \notin events[f][k]
        THEN UNCHANGED <<events, epoll, failure>>
        ELSE /\ failure' = IF Accepted(f, "MOD") THEN failure ELSE "assert"
             /\ events' = [events EXCEPT ![f][k] = left]
             /\ epoll' = [epoll EXCEPT ![f] = IF left = {} THEN NoCtx ELSE k]
  /\ Goto(a, "free")
  /\ UNCHANGED <<tableVars, arg, found, op, overlap>>

---------------------------------------------------------------------------
Next ==
  \/ \E a \in Thread, f \in Fd, e \in Event :
       CallAdd(a, f, e) \/ CallDel(a, f, e)
  \/ \E a \in Thread : Grow(a) \/ Choose(a) \/ Add(a) \/ Del(a)
  \/ failure # "none" /\ UNCHANGED vars

Spec == Init /\ [][Next]_vars

---------------------------------------------------------------------------
\* A context that is in the table stays there, so that whoever has found it, and
\* epoll, go on with the one that later calls find: while no two calls have met.
ContextsKept ==
  [][~overlap => \A f \in Fd : slot[f] # NoCtx => slot'[f] = slot[f]]_vars

\* qc_assert(!rt) of addEvent and delEvent: epoll_ctl is never asked for
\* something it must refuse, whatever other threads do to the table.
EpollAsserts == failure # "assert"

\* It is refused only after two calls have met: about one descriptor, or both on
\* the way to resize the table.
RefusedOnlyByOverlap == failure = "assert" => overlap
=============================================================================
