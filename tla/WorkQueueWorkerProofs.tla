----------------------- MODULE WorkQueueWorkerProofs -----------------------
(***************************************************************************)
(* Proofs about WorkQueueWorker, for any tasks, requests and resources and *)
(* any number of connections.                                              *)
(***************************************************************************)
EXTENDS WorkQueueWorker, TLAPS

\* While there are results the flag is set, except in the stage that sets it,
\* and the flag is set only if the master knows; no result survives the link.
Told ==
  /\ announced \in Nat
  /\ results_to_be_sent_msg => announced > 0
  /\ pc \in {"poll", "start"} /\ results_to_be_sent # {} => results_to_be_sent_msg
  /\ pc = "connect" => results_to_be_sent = {} /\ ~results_to_be_sent_msg

IInv == Told /\ StoredIsActive

LEMMA InitInv == Init => IInv
BY DEF Init, IInv, Told, StoredIsActive

\* kill_all_tasks leaves nothing to tell and nothing running.
LEMMA KillAllInv ==
  ASSUME kill_all_tasks
  PROVE  /\ StoredIsActive'
         /\ results_to_be_sent' = {} /\ results_to_be_sent_msg' = FALSE
BY DEF kill_all_tasks, StoredIsActive

LEMMA DisconnectInv == ASSUME IInv, disconnect_master PROVE IInv'
BY KillAllInv DEF disconnect_master, linkvars, IInv, Told

\* A message from the master.
LEMMA MasterInv == ASSUME IInv, Master PROVE IInv'
<1> USE DEF IInv
<1>1. ASSUME NEW id \in TaskId, do_task(id) PROVE IInv'
  BY <1>1 DEF do_task, Poll, Told, StoredIsActive
<1>2. ASSUME NEW id \in TaskId, do_kill(id) PROVE IInv'
  <2>1. Told'
    BY <1>2 DEF do_kill, Poll, Told
  <2>2. StoredIsActive'
    BY <1>2 DEF do_kill, Without, StoredIsActive
  <2> QED BY <2>1, <2>2
<1>3. CASE KillAll
  BY <1>3, KillAllInv DEF KillAll, Poll, Told
<1>4. CASE report_tasks
  BY <1>4 DEF report_tasks, Poll, Told, StoredIsActive
<1>5. CASE OtherMessage
  BY <1>5 DEF OtherMessage, Poll, taskvars, Told, StoredIsActive
<1> QED BY <1>1, <1>2, <1>3, <1>4, <1>5 DEF Master

\* A step of the worker's own round.
LEMMA RoundInv == ASSUME IInv, Round PROVE IInv'
<1> USE DEF IInv
<1>1. CASE Quiet
  BY <1>1 DEF Quiet, Poll, taskvars, Told, StoredIsActive
<1>2. CASE AvailableResults
  <2>1. Told'
    <3>1. announced \in Nat /\ (results_to_be_sent_msg => announced > 0)
      BY DEF Told
    <3>2. CASE ~results_to_be_sent_msg /\ results_to_be_sent # {}
      <4>1. announced' = announced + 1 /\ announced' \in Nat /\ announced' > 0
        BY <1>2, <3>1, <3>2 DEF AvailableResults
      <4> QED BY <1>2, <3>2, <4>1, Zenon DEF AvailableResults, Told
    <3>3. CASE ~(~results_to_be_sent_msg /\ results_to_be_sent # {})
      <4>1. announced' = announced
        BY <1>2, <3>3, Zenon DEF AvailableResults
      <4> QED BY <1>2, <3>1, <3>3, <4>1, Zenon DEF AvailableResults, Told
    <3> QED BY <3>2, <3>3
  <2>2. StoredIsActive'
    BY <1>2 DEF AvailableResults, StoredIsActive
  <2> QED BY <2>1, <2>2
<1>3. CASE start_task
  <2>1. Told'
    BY <1>3 DEF start_task, MayStart, linkvars, Told
  <2>2. StoredIsActive'
    BY <1>3 DEF start_task, Put, Without, StoredIsActive
  <2> QED BY <2>1, <2>2
<1>4. CASE PassOver
  BY <1>4 DEF PassOver, linkvars, Told, StoredIsActive
<1>5. CASE Disconnect
  BY <1>5, DisconnectInv DEF Disconnect
<1>6. CASE EndRound
  BY <1>6 DEF EndRound, taskvars, linkvars, Told, StoredIsActive
<1> QED BY <1>1, <1>2, <1>3, <1>4, <1>5, <1>6 DEF Round

LEMMA NextInv == ASSUME IInv, [Next]_vars PROVE IInv'
<1> USE DEF IInv
<1>1. CASE connect_master
  BY <1>1 DEF connect_master, taskvars, Told, StoredIsActive
<1>2. CASE handle_abort
  BY <1>2 DEF handle_abort, taskvars, linkvars, Told, StoredIsActive
<1>3. CASE abort_worker
  BY <1>3, KillAllInv DEF abort_worker, linkvars, Told
<1>4. CASE IdleTimeout
  BY <1>4 DEF IdleTimeout, taskvars, linkvars, Told, StoredIsActive
<1>5. CASE Volatile
  BY <1>5, DisconnectInv DEF Volatile
<1>6. CASE StartFails
  BY <1>6 DEF StartFails, linkvars, Told, StoredIsActive
<1>7. ASSUME NEW ti \in active_tasks, handle_tasks(ti) PROVE IInv'
  BY <1>7 DEF handle_tasks, Without, linkvars, Told, StoredIsActive
<1>8. CASE UNCHANGED vars
  BY <1>8 DEF vars, taskvars, linkvars, Told, StoredIsActive
<1> QED BY <1>1, <1>2, <1>3, <1>4, <1>5, <1>6, <1>7, <1>8, MasterInv, RoundInv DEF Next

\* At every point of every run of the worker, a task that it lists as started
\* has a process (start_task, handle_tasks and do_kill keep the two tables
\* together).
THEOREM StoredIsActiveAlways == Spec => []StoredIsActive
<1>1. IInv => StoredIsActive
  BY DEF IInv
<1> QED BY InitInv, NextInv, <1>1, PTL DEF Spec

\* No result is ever left behind unannounced: whenever the worker waits for a
\* message and holds results, available_results was sent for them and the
\* master has not answered it yet.
THEOREM ResultsAnnouncedAlways == Spec => []ResultsAnnounced
<1>1. IInv => ResultsAnnounced
  BY DEF IInv, Told, ResultsAnnounced
<1> QED BY InitInv, NextInv, <1>1, PTL DEF Spec
=============================================================================
