----------------------------- MODULE MCFdEvents -----------------------------
(***************************************************************************)
(* Instances of FdEvents for TLC: a runner alone; two runners, both idle   *)
(* at times, with one registration and every call; and two runners with    *)
(* two events next to each other, once both ready and dispatched, once one *)
(* ready while any call is made about either.  A runner with a client is   *)
(* the least in which the lock is held twice.                              *)
(***************************************************************************)
EXTENDS FdEvents

CONSTANTS r1, r2, c1

Process(threads, n, calls, reports) ==
  [threads |-> threads, adds |-> n, calls |-> calls, reports |-> reports]

Processes ==
  {Process({r1}, 3, OtherCall, Report),
   Process({r1, r2}, 1, OtherCall, Event),
   Process({r1, r2}, 2, {}, Event),
   Process({r1, r2}, 2, OtherCall, {"WRITE"})}

Pair == {Process({r1, c1}, 1, OtherCall, Report)}
=============================================================================
