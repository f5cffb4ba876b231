--------------------------- MODULE MCWriteBuffer ----------------------------
(* The write buffer for TLC: schema tables and flushers are interchangeable. *)
EXTENDS WriteBuffer, TLC

Symmetry == Permutations(SchemaTables) \cup Permutations(Flushers)
=============================================================================
