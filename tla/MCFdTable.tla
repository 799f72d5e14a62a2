------------------------------ MODULE MCFdTable -----------------------------
(***************************************************************************)
(* Instances of FdTable for TLC: two descriptors beyond the first table,   *)
(* the table grown for the smaller of which has no place for the larger.   *)
(* Each thread works on one of them, so that they share the table only.    *)
(***************************************************************************)
EXTENDS FdTable

LargeFds == {40, 100}

OneEach ==
  CHOOSE u \in [Thread -> {{f} : f \in Fd}] : \A a, b \in Thread : u[a] = u[b] => a = b
=============================================================================
