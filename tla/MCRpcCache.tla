----------------------------- MODULE MCRpcCache -----------------------------
(* A small instance of the log cache: two windows that share a log, one that
   shares none, and an empty one. *)
EXTENDS RpcCache

McMatch == [w1 |-> {"l1", "l2"}, w2 |-> {"l2"}, w3 |-> {"l3", "l4"}, w4 |-> {}]
=============================================================================
