------------------------- MODULE MCWorkQueueWorker -------------------------
(***************************************************************************)
(* Small instances of WorkQueueWorker for TLC.                             *)
(***************************************************************************)
EXTENDS WorkQueueWorker

\* One task that takes the whole worker, one of one core, one that needs disk.
Mixed ==
  [id \in TaskId |->
     [r \in {"cores", "disk"} |->
        CASE id = 2 /\ r = "cores" -> 1
          [] id = 3 /\ r = "disk"  -> 2
          [] OTHER                 -> -1]]

TwoOfEach  == [r \in {"cores", "disk"} |-> 2]
DiskShrank == [TwoOfEach EXCEPT !["disk"] = 1]
Shrinking  == {TwoOfEach, DiskShrank}
=============================================================================
