------------------------------- MODULE Input -------------------------------
(***************************************************************************)
(* The input of an algorithm that has no state of its own: a record whose  *)
(* kind says which algorithm it is for.  It never changes.                 *)
(***************************************************************************)
VARIABLE input
============================================================================
