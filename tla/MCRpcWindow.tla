----------------------------- MODULE MCRpcWindow -----------------------------
(* Two clients of two processes on one database; a send window longer than  *)
(* the request window, a lock wait shorter than both.  Single requests, and *)
(* batches that exceed the request budget, the send budget or neither.      *)
EXTENDS RpcWindow, TLC

MCSymmetry == Permutations(Client)

MCBatch == { <<FALSE>>, <<TRUE>>, <<FALSE, TRUE>>, <<TRUE, TRUE>>,
             <<FALSE, FALSE, FALSE>> }
=============================================================================
