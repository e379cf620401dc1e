---------------------------- MODULE MCWorkQueue ----------------------------
(***************************************************************************)
(* Small instances of WorkQueue for TLC.                                   *)
(***************************************************************************)
EXTENDS WorkQueue, TLC

CONSTANTS t1, t2, t3, w1, w2

Ask(c, m, d, g) ==
  [r \in Resource |-> CASE r = "cores" -> c [] r = "memory" -> m
                        [] r = "disk" -> d [] r = "gpus" -> g]

\* Tasks that say nothing of their needs take a whole worker each.
BothUnlabeled == [t \in Task |-> Ask(-1, -1, -1, -1)]

\* One core, a whole worker, and more cores than one worker has.
MixedRequests == (t1 :> Ask(1, -1, -1, -1)) @@ (t2 :> Ask(-1, -1, -1, -1))
                   @@ (t3 :> Ask(2, -1, -1, -1))

CoreWorker == [c \in Category |-> IF c \in {"cores", "workers"} THEN {1} ELSE {}]
SameTag    == [t \in Task |-> "a"]
=============================================================================
