----------------------------- MODULE MCFdManager ----------------------------
(***************************************************************************)
(* Instances of FdManager for TLC: two descriptors beyond the first table, *)
(* which the larger makes grow past the smaller, but not the other way.    *)
(***************************************************************************)
EXTENDS FdManager

LargeFds == {70, 200}
=============================================================================
