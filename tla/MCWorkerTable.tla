--------------------------- MODULE MCWorkerTable ---------------------------
(***************************************************************************)
(* Tables of three workers and two tasks that share buckets.               *)
(***************************************************************************)
EXTENDS WorkerTable, TLC

CONSTANTS w1, w2, w3, t1, t2

Colliding == (w1 :> 0) @@ (w2 :> 2) @@ (w3 :> 1) @@ (t1 :> 1) @@ (t2 :> 3)
=============================================================================
