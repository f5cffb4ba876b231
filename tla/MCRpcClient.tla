----------------------------- MODULE MCRpcClient ----------------------------
(* A small instance of the RPC client for TLC: the second retry alone lasts as
   long as the dedup timeout, as the 30 seconds of the code's do. *)
EXTENDS RpcClient

McDelays == <<1, 2>>
=============================================================================
