------------------------------ MODULE TaskPool ------------------------------
(***************************************************************************)
(* What the Work Queue API promises about a task, with no workers, lists   *)
(* or network in sight: a task that was submitted is held by the queue     *)
(* until it is handed back exactly once, either by work_queue_wait or by   *)
(* one of the calls that cancel or delete tasks.  WorkQueue implements it. *)
(***************************************************************************)
CONSTANT Task   \* task ids; work_queue_submit gives every submission its own

VARIABLES
  held,         \* tasks the queue is responsible for
  delivered,    \* tasks returned by work_queue_wait
  withdrawn     \* tasks taken back by a cancel or a reset

vars == <<held, delivered, withdrawn>>

Init ==
  /\ held = {}
  /\ delivered = {}
  /\ withdrawn = {}

Submit(t) ==
  /\ t \notin held \cup delivered \cup withdrawn
  /\ held' = held \cup {t}
  /\ UNCHANGED <<delivered, withdrawn>>

Deliver(t) ==
  /\ t \in held
  /\ held' = held \ {t}
  /\ delivered' = delivered \cup {t}
  /\ UNCHANGED withdrawn

Withdraw(S) ==
  /\ S \subseteq held
  /\ held' = held \ S
  /\ withdrawn' = withdrawn \cup S
  /\ UNCHANGED delivered

Next ==
  \/ \E t \in Task : Submit(t) \/ Deliver(t)
  \/ \E S \in SUBSET held : Withdraw(S)

Spec == Init /\ [][Next]_vars
=============================================================================
