------------------------------- MODULE MCHook -------------------------------
(***************************************************************************)
(* Instances of Hook for TLC: a process with two descriptor numbers, and   *)
(* one that reuses a single number and uses ioctl(FIONBIO) in either way.  *)
(***************************************************************************)
EXTENDS Hook, TLC

CONSTANTS f1, f2

OneOrTwo ==
  {[fds |-> {f1, f2}, ioctl |-> {TRUE}, calls |-> 4],
   [fds |-> {f1}, ioctl |-> BOOLEAN, calls |-> 4]}
=============================================================================
