------------------------------ MODULE WorkQueue ------------------------------
(***************************************************************************)
(* The Work Queue master (work_queue.c): where every task is, which worker *)
(* it is charged to, and the loop of work_queue_wait that moves it.        *)
(*                                                                         *)
(* The master is a single thread.  Between two calls of the application it *)
(* is in `app'; inside work_queue_wait it walks through the stages of the  *)
(* loop.  A worker is only seen through its link: every message it may     *)
(* send, and the loss of the link, is an alternative of the stage that     *)
(* reads from it.  Links carry no more than that here; the protocol with a *)
(* real worker at the other end is the subject of other modules.           *)
(***************************************************************************)
EXTENDS Integers, Sequences, FiniteSets, Functions, SequencesExt

CONSTANTS
  Task,          \* task ids, one per call of work_queue_submit
  Worker,        \* links: hash keys of worker_table
  Foremen,       \* links whose peer announces itself as a foreman
  StatusClients, \* links whose peer is work_queue_status, not a worker
  NoWorker, NoTask,
  Request,       \* Request[t][r]: what task t asks of resource r, -1 if unsaid
  Offer,         \* Offer[c]: totals a worker may report for category c
  Tag,           \* Tag[t]: the task's tag
  Calls,         \* the calls the application makes besides submit and wait
  Timeouts,      \* the waits it uses: "none" (WORK_QUEUE_WAITFORTASK), "timed"
  TaskOrder,     \* "fifo" or "lifo" (work_queue_specify_task_order)
  AsynchronyMultiplier, AsynchronyModifier,
  WorkersToWait, \* the number given to work_queue_activate_worker_waiting
  FastAbort,     \* is fast_abort_multiplier positive
  AbortMinimum,  \* completed tasks before fast abort acts (10 in the code)
  ProcessModule  \* work_queue_enable_process_module

Resource == {"cores", "memory", "disk", "gpus"}
Category == Resource \cup {"workers"}      \* what a worker reports
Charged  == Resource \cup {"unlabeled"}    \* what the master allocates
Flag     == {"INPUT_MISSING", "OUTPUT_MISSING", "STDOUT_MISSING"}

ASSUME ConstantsOK ==
  /\ IsFiniteSet(Task)
  /\ NoWorker \notin Worker
  /\ NoTask \notin Task
  /\ Foremen \subseteq Worker
  /\ StatusClients \subseteq Worker \ Foremen
  /\ Request \in [Task -> [Resource -> Int]]
  /\ \A t \in Task, r \in Resource : Request[t][r] >= -1
  /\ Offer \in [Category -> SUBSET Nat]
  /\ Tag \in [Task -> STRING]
  /\ Calls \subseteq {"cancel_by_taskid", "cancel_by_tasktag", "cancel_all_tasks",
                     "reset", "shut_down_workers", "activate_worker_waiting",
                     "activate_before_dispatch"}
  /\ Timeouts \subseteq {"none", "timed"}
  /\ TaskOrder \in {"fifo", "lifo"}
  /\ AsynchronyMultiplier \in Nat \ {0}
  /\ AsynchronyModifier \in Nat
  /\ WorkersToWait \in Nat
  /\ FastAbort \in BOOLEAN
  /\ AbortMinimum \in Nat
  /\ ProcessModule \in BOOLEAN

VARIABLES
  ready_list,       \* tasks to be sent to a worker
  running_tasks,    \* tasks sent to a worker, no result yet
  finished_tasks,   \* result received, output files still on the worker
  complete_list,    \* tasks to be returned by work_queue_wait
  worker_table,     \* connected workers
  current_tasks,    \* w->current_tasks
  worker_task_map,  \* the worker a task was committed to
  workers_with_available_results,
  hostname,         \* w->hostname: "unknown", "QUEUE_STATUS" or a real name
  resources,        \* w->resources: totals the worker reported
  allocated,        \* w->unlabeled_allocated, w->cores_allocated, ...
  result,           \* t->result: the set of flags or-ed into it
  total_tasks_complete, total_tasks_failed,
  workers_to_wait,
  pc,               \* where the master is
  stoptime,         \* of the current wait: "none", "timed" (future) or "past"
  polled,           \* links the last poll found readable, not yet handled
  sending,          \* task whose inputs are being sent
  delivered,        \* history: tasks returned by work_queue_wait
  withdrawn         \* history: tasks cancelled, or deleted by a reset

taskvars  == <<ready_list, running_tasks, finished_tasks, complete_list,
               current_tasks, worker_task_map>>
peervars  == <<worker_table, workers_with_available_results, hostname, resources>>
statvars  == <<total_tasks_complete, total_tasks_failed, workers_to_wait>>
loopvars  == <<pc, stoptime, polled, sending>>
histvars  == <<delivered, withdrawn>>
vars == <<taskvars, peervars, allocated, result, statvars, loopvars, histvars>>

\* Every task the queue holds (the sum work_queue_empty tests for zero).
Held == Range(ready_list) \cup running_tasks \cup finished_tasks
          \cup Range(complete_list)

------------------------------------------------------------------------------
(* Resource accounting.                                                     *)

AtLeast0(n) == IF n < 0 THEN 0 ELSE n

\* t->unlabeled, kept by set_task_unlabel_flag and the work_queue_task_specify_* calls.
Unlabeled(t) == \A r \in Resource : Request[t][r] < 0

\* What commit_task_to_worker charges and reap_task_from_worker gives back.
Charge(t) ==
  [c \in Charged |->
    IF c = "unlabeled" THEN (IF Unlabeled(t) THEN 1 ELSE 0)
                       ELSE AtLeast0(Request[t][c])]

\* overcommitted_resource_total: disk is never overcommitted, and the
\* modifier is for cores and unlabeled tasks only.
Overcommitted(w, c) ==
  LET total == resources[w][c]
  IN  IF c = "disk" \/ total = 0 THEN total
      ELSE total * AsynchronyMultiplier
             + (IF c \in {"cores", "workers"} THEN AsynchronyModifier ELSE 0)

\* Slip: all kinds of resources must be spare, not any of them.
IsAvailableAll(w) ==
  /\ hostname[w] # "unknown"
  /\ \A c \in {"cores", "disk", "memory"} : Overcommitted(w, c) > allocated[w][c]

\* available_workers: gpus are not looked at.
IsAvailable(w) ==
  /\ hostname[w] # "unknown"
  /\ IF allocated[w]["unlabeled"] > 0
     THEN Overcommitted(w, "workers") > allocated[w]["unlabeled"]
     ELSE \E c \in {"cores", "disk", "memory"} : Overcommitted(w, c) > allocated[w][c]

\* Slip: the test for labeled tasks is missing.
CheckWorkerIgnoresLabeled(w, t) ==
  IF Unlabeled(t)
  THEN allocated[w]["unlabeled"] + 1 <= Overcommitted(w, "workers")
  ELSE /\ allocated[w]["unlabeled"] <= 0
       /\ \A r \in Resource : allocated[w][r] + Charge(t)[r] <= Overcommitted(w, r)

CheckWorkerAgainstTask(w, t) ==
  IF Unlabeled(t)
  THEN /\ \A r \in Resource : allocated[w][r] <= 0
       /\ allocated[w]["unlabeled"] + 1 <= Overcommitted(w, "workers")
  ELSE /\ allocated[w]["unlabeled"] <= 0
       /\ \A r \in Resource : allocated[w][r] + Charge(t)[r] <= Overcommitted(w, r)

NoResources  == [c \in Category |-> 0]
NoAllocation == [c \in Charged |-> 0]

\* Slip: the count of unlabeled tasks is not given back.
ReleasedKeepsUnlabeled(w, t) ==
  [c \in Charged |-> IF c = "unlabeled" THEN allocated[w][c]
                     ELSE AtLeast0(allocated[w][c] - Charge(t)[c])]

\* The accounting half of reap_task_from_worker, with its reset of negative values.
Released(w, t) == [c \in Charged |-> AtLeast0(allocated[w][c] - Charge(t)[c])]
------------------------------------------------------------------------------
(* Tables shared by the stages.                                             *)

Init ==
  /\ ready_list = << >> /\ complete_list = << >>
  /\ running_tasks = {} /\ finished_tasks = {}
  /\ worker_table = {}
  /\ current_tasks = [w \in Worker |-> {}]
  /\ worker_task_map = [t \in Task |-> NoWorker]
  /\ workers_with_available_results = {}
  /\ hostname = [w \in Worker |-> "unknown"]
  /\ resources = [w \in Worker |-> NoResources]
  /\ allocated = [w \in Worker |-> NoAllocation]
  /\ result = [t \in Task |-> {}]
  /\ total_tasks_complete = 0 /\ total_tasks_failed = 0
  /\ workers_to_wait = 0
  /\ pc = "app" /\ stoptime = "none" /\ polled = {} /\ sending = NoTask
  /\ delivered = {} /\ withdrawn = {}

\* Slip: the task stays in running_tasks.
ReapKeepsRunning(t) ==
  LET w == worker_task_map[t]
  IN  /\ current_tasks' = [current_tasks EXCEPT ![w] = @ \ {t}]
      /\ worker_task_map' = [worker_task_map EXCEPT ![t] = NoWorker]
      /\ allocated' = [allocated EXCEPT ![w] = Released(w, t)]
      /\ UNCHANGED running_tasks

\* Slip: the task stays in worker_task_map.
ReapKeepsMap(t) ==
  LET w == worker_task_map[t]
  IN  /\ current_tasks' = [current_tasks EXCEPT ![w] = @ \ {t}]
      /\ running_tasks' = running_tasks \ {t}
      /\ allocated' = [allocated EXCEPT ![w] = Released(w, t)]
      /\ UNCHANGED worker_task_map

\* reap_task_from_worker
Reap(t) ==
  LET w == worker_task_map[t]
  IN  /\ current_tasks' = [current_tasks EXCEPT ![w] = @ \ {t}]
      /\ running_tasks' = running_tasks \ {t}
      /\ worker_task_map' = [worker_task_map EXCEPT ![t] = NoWorker]
      /\ allocated' = [allocated EXCEPT ![w] = Released(w, t)]

\* Slip: cleanup_worker does not reset t->result.
ResultKept(w) == result

\* cleanup_worker: the tasks of w start over.
ResultAfterCleanup(w) ==
  [t \in Task |-> IF t \in current_tasks[w] THEN {} ELSE result[t]]

\* Slip: the dead worker is left among those with results to read.
PendingKept(w) == workers_with_available_results

PendingAfterRemoval(w) == workers_with_available_results \ {w}

\* remove_worker, but for the return of its tasks to the ready list.  The
\* structure is freed: a later connection in the slot starts from scratch.
ForgetWorker(w) ==
  /\ worker_table' = worker_table \ {w}
  /\ workers_with_available_results' = PendingAfterRemoval(w)
  /\ running_tasks' = running_tasks \ current_tasks[w]
  /\ finished_tasks' = finished_tasks \ current_tasks[w]
  /\ worker_task_map' =
       [t \in Task |-> IF t \in current_tasks[w] THEN NoWorker ELSE worker_task_map[t]]
  /\ result' = ResultAfterCleanup(w)
  /\ current_tasks' = [current_tasks EXCEPT ![w] = {}]
  /\ hostname' = [hostname EXCEPT ![w] = "unknown"]
  /\ resources' = [resources EXCEPT ![w] = NoResources]
  /\ allocated' = [allocated EXCEPT ![w] = NoAllocation]
  /\ UNCHANGED complete_list

\* The orders in which a loop over a hash table may visit the set S.
Orders(S) == Bijection(1..Cardinality(S), S)

\* Slip: only the tasks that are still running are queued again.
RemoveWorkerLosesFinished(w) ==
  /\ \E order \in Orders(current_tasks[w] \cap running_tasks) :
       ready_list' = order \o ready_list
  /\ ForgetWorker(w)

\* remove_worker: cleanup_worker pushes every task of w on the head of the
\* ready list, in the order of the hash table.
RemoveWorker(w) ==
  /\ \E order \in Orders(current_tasks[w]) : ready_list' = order \o ready_list
  /\ ForgetWorker(w)

------------------------------------------------------------------------------
(* Calls of the application other than work_queue_wait.                     *)

Submit(t) ==
  /\ pc = "app"
  /\ t \notin Held \cup delivered \cup withdrawn
  /\ ready_list' = IF TaskOrder = "lifo" THEN Cons(t, ready_list)
                                         ELSE Append(ready_list, t)
  /\ result' = [result EXCEPT ![t] = {}]
  /\ UNCHANGED <<running_tasks, finished_tasks, complete_list, current_tasks,
                 worker_task_map, peervars, allocated, statvars, loopvars, histvars>>

\* cancel_running_task, or list_remove from the list that holds the task.
Cancel(t) ==
  /\ \/ /\ t \in running_tasks \cup finished_tasks
        /\ Reap(t)
        /\ finished_tasks' = finished_tasks \ {t}
        /\ UNCHANGED <<ready_list, complete_list>>
     \/ /\ \E i \in DOMAIN ready_list :
             ready_list[i] = t /\ ready_list' = RemoveAt(ready_list, i)
        /\ UNCHANGED <<running_tasks, finished_tasks, complete_list, current_tasks,
                       worker_task_map, allocated>>
     \/ /\ \E i \in DOMAIN complete_list :
             complete_list[i] = t /\ complete_list' = RemoveAt(complete_list, i)
        /\ UNCHANGED <<ready_list, running_tasks, finished_tasks, current_tasks,
                       worker_task_map, allocated>>
  /\ withdrawn' = withdrawn \cup {t}
  /\ result' = [result EXCEPT ![t] = {}]
  /\ UNCHANGED <<peervars, statvars, loopvars, delivered>>

CancelByTaskid(t) ==
  /\ pc = "app" /\ "cancel_by_taskid" \in Calls
  /\ Cancel(t)

\* The first match: running before finished before ready before complete,
\* the two lists from their head.
FirstTagged(t) ==
  LET match  == {u \in Held : Tag[u] = Tag[t]}
      Earliest(s) == \E i \in DOMAIN s :
                       s[i] = t /\ \A j \in 1..(i-1) : s[j] \notin match
  IN  IF match \cap running_tasks # {} THEN t \in running_tasks
      ELSE IF match \cap finished_tasks # {} THEN t \in finished_tasks
      ELSE IF match \cap Range(ready_list) # {} THEN Earliest(ready_list)
      ELSE Earliest(complete_list)

CancelByTasktag(t) ==
  /\ pc = "app" /\ "cancel_by_tasktag" \in Calls
  /\ FirstTagged(t)
  /\ Cancel(t)

\* work_queue_cancel_all_tasks: the lists and the pending results at once ...
CancelAllTasks ==
  /\ pc = "app" /\ "cancel_all_tasks" \in Calls
  /\ withdrawn' = withdrawn \cup Range(ready_list) \cup Range(complete_list)
  /\ result' = [t \in Task |-> IF t \in Range(complete_list) THEN {} ELSE result[t]]
  /\ ready_list' = << >> /\ complete_list' = << >>
  /\ workers_with_available_results' = {}
  /\ pc' = "cancel_all"
  /\ UNCHANGED <<running_tasks, finished_tasks, current_tasks, worker_task_map,
                 worker_table, hostname, resources, allocated, statvars,
                 stoptime, polled, sending, delivered>>

\* Slip: every task is taken for an unlabeled one.
CancelAllTaskUncounts(w, t) ==
  /\ pc = "cancel_all"
  /\ t \in current_tasks[w]
  /\ running_tasks' = running_tasks \ {t}
  /\ finished_tasks' = finished_tasks \ {t}
  /\ worker_task_map' = [worker_task_map EXCEPT ![t] = NoWorker]
  /\ allocated' = [allocated EXCEPT ![w] =
       [c \in Charged |-> @[c] - (IF c = "unlabeled" THEN 1 ELSE Request[t][c])]]
  /\ current_tasks' = [current_tasks EXCEPT ![w] = @ \ {t}]
  /\ result' = [result EXCEPT ![t] = {}]
  /\ withdrawn' = withdrawn \cup {t}
  /\ UNCHANGED <<ready_list, complete_list, peervars, statvars, loopvars, delivered>>

\* ... then the tasks of the workers, one by one.  The request itself is
\* subtracted, not the charge, and the count of unlabeled tasks is left alone.
CancelAllTask(w, t) ==
  /\ pc = "cancel_all"
  /\ t \in current_tasks[w]
  /\ running_tasks' = running_tasks \ {t}
  /\ finished_tasks' = finished_tasks \ {t}
  /\ worker_task_map' = [worker_task_map EXCEPT ![t] = NoWorker]
  /\ allocated' = [allocated EXCEPT ![w] =
       [c \in Charged |-> IF c = "unlabeled" THEN @[c] ELSE @[c] - Request[t][c]]]
  /\ current_tasks' = [current_tasks EXCEPT ![w] = @ \ {t}]
  /\ result' = [result EXCEPT ![t] = {}]
  /\ withdrawn' = withdrawn \cup {t}
  /\ UNCHANGED <<ready_list, complete_list, peervars, statvars, loopvars, delivered>>

CancelAllDone ==
  /\ pc = "cancel_all"
  /\ \A w \in worker_table : current_tasks[w] = {}
  /\ pc' = "app"
  /\ UNCHANGED <<taskvars, peervars, allocated, result, statvars, stoptime, polled,
                 sending, histvars>>

\* work_queue_shut_down_workers(n), n > 0: one idle worker.  The loop ends
\* there: remove_worker exhausts the cursor of worker_table (see WorkerTable).
ShutDownWorkers ==
  /\ pc = "app" /\ "shut_down_workers" \in Calls
  /\ \E w \in worker_table : current_tasks[w] = {} /\ RemoveWorker(w)
  /\ UNCHANGED <<statvars, loopvars, histvars>>

\* work_queue_reset: release_all_workers releases one worker, for the same
\* reason; RESET_ALL then deletes what is on the ready list.
ResetKeepTasks ==
  /\ pc = "app" /\ "reset" \in Calls
  /\ \E w \in worker_table : RemoveWorker(w)
  /\ UNCHANGED <<statvars, loopvars, histvars>>

ResetAll ==
  /\ pc = "app" /\ "reset" \in Calls
  /\ \/ \E w \in worker_table :
          /\ ForgetWorker(w)
          /\ withdrawn' = withdrawn \cup Range(ready_list) \cup current_tasks[w]
     \/ /\ worker_table = {}
        /\ withdrawn' = withdrawn \cup Range(ready_list)
        /\ UNCHANGED <<running_tasks, finished_tasks, complete_list, current_tasks,
                       worker_task_map, peervars, allocated, result>>
  /\ ready_list' = << >>
  /\ UNCHANGED <<statvars, loopvars, delivered>>

\* At any time, or only as it is meant: before tasks are dispatched.
ActivateWorkerWaiting ==
  /\ pc = "app"
  /\ \/ "activate_worker_waiting" \in Calls
     \/ "activate_before_dispatch" \in Calls /\ running_tasks \cup finished_tasks = {}
  /\ workers_to_wait' = WorkersToWait
  /\ UNCHANGED <<taskvars, peervars, allocated, result, total_tasks_complete,
                 total_tasks_failed, loopvars, histvars>>
------------------------------------------------------------------------------
(* Messages that recv_worker_msg consumes wherever it is called.            *)

RecvWorkqueue(w) ==   \* process_workqueue
  /\ w \notin StatusClients /\ hostname[w] = "unknown"
  /\ hostname' = [hostname EXCEPT ![w] = "named"]
  /\ UNCHANGED <<workers_with_available_results, resources>>

RecvStatus(w) ==      \* process_queue_status
  /\ w \in StatusClients
  /\ hostname' = [hostname EXCEPT ![w] = "QUEUE_STATUS"]
  /\ UNCHANGED <<workers_with_available_results, resources>>

RecvAvailable(w) ==
  /\ hostname[w] = "named"
  /\ workers_with_available_results' = workers_with_available_results \cup {w}
  /\ UNCHANGED <<hostname, resources>>

RecvResource(w) ==    \* process_resource
  /\ hostname[w] = "named"
  /\ \E c \in Category : \E n \in Offer[c] :
       resources' = [resources EXCEPT ![w][c] = n]
  /\ UNCHANGED <<workers_with_available_results, hostname>>

RecvAlive(w) ==       \* also "name" and "resource tag": nothing kept here
  UNCHANGED <<workers_with_available_results, hostname, resources>>

RecvWorkerMsg(w) ==
  /\ \/ RecvWorkqueue(w) \/ RecvStatus(w) \/ RecvAvailable(w)
     \/ RecvResource(w) \/ RecvAlive(w)
  /\ UNCHANGED <<taskvars, worker_table, allocated, result>>

------------------------------------------------------------------------------
(* work_queue_wait, stage by stage.                                         *)

TimeLeft == stoptime # "past" /\ stoptime' = stoptime
TimeOut  == stoptime # "none" /\ stoptime' = "past"

Wait(timeout) ==
  /\ pc = "app"
  /\ pc' = "loop" /\ stoptime' = timeout
  /\ UNCHANGED <<taskvars, peervars, allocated, result, statvars, polled, sending,
                 histvars>>

\* remove_unresponsive_workers.  One removal exhausts the cursor.
RemoveUnresponsiveWorkers ==
  /\ pc = "loop"
  /\ \/ \E w \in worker_table : RemoveWorker(w)
     \/ UNCHANGED <<taskvars, peervars, allocated, result>>
  /\ pc' = "pop"
  /\ UNCHANGED <<statvars, stoptime, polled, sending, histvars>>

Return ==
  /\ pc' = "app" /\ stoptime' = "none"
  /\ UNCHANGED <<polled, sending>>

\* t->result is compared with SUCCESS, which is 1 like INPUT_MISSING.
WaitReturnsTask ==
  /\ pc = "pop" /\ complete_list # << >>
  /\ LET t == Head(complete_list)
     IN  /\ complete_list' = Tail(complete_list)
         /\ total_tasks_failed' =
              total_tasks_failed + (IF result[t] = {"INPUT_MISSING"} THEN 0 ELSE 1)
         /\ delivered' = delivered \cup {t}
         /\ result' = [result EXCEPT ![t] = {}]   \* the application's from here on
  /\ Return
  /\ UNCHANGED <<ready_list, running_tasks, finished_tasks, current_tasks,
                 worker_task_map, peervars, allocated, total_tasks_complete,
                 workers_to_wait, withdrawn>>

\* finished_tasks is not part of the test.
WaitFindsNothing ==
  /\ pc = "pop" /\ complete_list = << >>
  /\ \/ ProcessModule                          \* process_pending()
     \/ running_tasks = {} /\ ready_list = << >>
  /\ Return
  /\ UNCHANGED <<taskvars, peervars, allocated, result, statvars, histvars>>

\* link_poll and add_worker: one new worker, or more if there is a stoptime.
PollLinks ==
  /\ pc = "pop" /\ complete_list = << >>
  /\ running_tasks # {} \/ ready_list # << >>
  /\ polled' \in SUBSET worker_table
  /\ \E new \in SUBSET (Worker \ worker_table) :
       /\ stoptime = "none" => Cardinality(new) <= 1
       /\ worker_table' = worker_table \cup new
  /\ pc' = "links"
  /\ UNCHANGED <<taskvars, workers_with_available_results, hostname, resources,
                 allocated, result, statvars, stoptime, sending, histvars>>

HandleWorker(w) ==
  /\ pc = "links" /\ w \in polled
  /\ polled' = polled \ {w}
  /\ RecvWorkerMsg(w) \/ RemoveWorker(w)
  /\ UNCHANGED <<statvars, pc, stoptime, sending, histvars>>

Known == {w \in worker_table : hostname[w] # "unknown"}

\* Tasks are transferred once enough workers are known.
StageAfterPoll ==
  IF Known # {} /\ Cardinality(Known) >= workers_to_wait
  THEN (IF ready_list = << >> THEN "receive" ELSE "start")
  ELSE "abort"

\* process_available_results(w, -1): w reports the results R, truncated for
\* the tasks of F, then "end"; or the exchange fails.  If w announced results
\* again meanwhile, the table may have doubled: the loop ends there, with the
\* workers it did not get to still in the table, and w too if the key that is
\* removed was freed (see WorkerTable).  At which size it doubles is left open.
ProcessAvailableResults(w) ==
  /\ pc = "links" /\ polled = {}
  /\ w \in workers_with_available_results
  /\ UNCHANGED <<statvars, stoptime, polled, sending, histvars>>
  /\ \E doubled \in BOOLEAN :
       /\ \/ \E R \in SUBSET current_tasks[w] : \E F \in SUBSET R :
               /\ running_tasks' = running_tasks \ R
               /\ finished_tasks' = finished_tasks \cup R
               /\ result' = [t \in Task |-> IF t \in F THEN result[t] \cup {"STDOUT_MISSING"}
                                                       ELSE result[t]]
               /\ \/ workers_with_available_results' = workers_with_available_results \ {w}
                  \/ doubled /\ UNCHANGED workers_with_available_results
               /\ UNCHANGED <<ready_list, complete_list, current_tasks, worker_task_map,
                              worker_table, hostname, resources, allocated>>
          \/ RemoveWorker(w)
       /\ pc' = IF doubled THEN StageAfterPoll' ELSE pc

PollDone ==
  /\ pc = "links" /\ polled = {} /\ workers_with_available_results = {}
  /\ pc' = StageAfterPoll
  /\ UNCHANGED <<taskvars, peervars, allocated, result, statvars, stoptime, polled,
                 sending, histvars>>

\* recv_worker_msg_retry, while the master waits for results or for output
\* files of w, consumes whatever other updates w has sent before.
RecvDuringTransfer(w) ==
  /\ \/ pc = "links" /\ polled = {} /\ w \in workers_with_available_results
     \/ pc = "receive" /\ current_tasks[w] \cap finished_tasks # {}
  /\ RecvWorkerMsg(w)
  /\ UNCHANGED <<statvars, loopvars, histvars>>

\* start_tasks, one round: find_best_worker finds w; commit_task_to_worker.
CommitTask(w) ==
  LET t == Head(ready_list)
  IN  /\ pc = "start"
      /\ CheckWorkerAgainstTask(w, t)
      /\ ready_list' = Tail(ready_list)
      /\ current_tasks' = [current_tasks EXCEPT ![w] = @ \cup {t}]
      /\ running_tasks' = running_tasks \cup {t}
      /\ worker_task_map' = [worker_task_map EXCEPT ![t] = w]
      /\ allocated' = [allocated EXCEPT ![w] = [c \in Charged |-> @[c] + Charge(t)[c]]]
      /\ pc' = "send" /\ sending' = t
      /\ UNCHANGED <<finished_tasks, complete_list, peervars, result, statvars,
                     stoptime, polled, histvars>>

\* Slip: nothing is received when the head could not be started.
NoWorkerFitsLeaves ==
  /\ pc = "start"
  /\ \A w \in worker_table : ~CheckWorkerAgainstTask(w, Head(ready_list))
  /\ ready_list' = IF \E w \in worker_table : IsAvailable(w)
                   THEN Append(Tail(ready_list), Head(ready_list))
                   ELSE ready_list
  /\ pc' = "abort"
  /\ UNCHANGED <<running_tasks, finished_tasks, complete_list, current_tasks,
                 worker_task_map, peervars, allocated, result, statvars, stoptime,
                 polled, sending, histvars>>

\* No worker fits: the head goes to the end if some worker is available.
NoWorkerFits ==
  /\ pc = "start"
  /\ \A w \in worker_table : ~CheckWorkerAgainstTask(w, Head(ready_list))
  /\ ready_list' = IF \E w \in worker_table : IsAvailable(w)
                   THEN Append(Tail(ready_list), Head(ready_list))
                   ELSE ready_list
  /\ pc' = "receive"
  /\ UNCHANGED <<running_tasks, finished_tasks, complete_list, current_tasks,
                 worker_task_map, peervars, allocated, result, statvars, stoptime,
                 polled, sending, histvars>>

\* start_one_task and handle_failure, then the test at the end of the loop.
SendInputs ==
  LET t == sending
      w == worker_task_map[t]
  IN  /\ pc = "send"
      /\ \/ UNCHANGED <<taskvars, peervars, allocated, result>>
         \/ /\ Reap(t)       \* an input file cannot be read: handle_app_failure
            /\ complete_list' = Cons(t, complete_list)
            /\ result' = [result EXCEPT ![t] = @ \cup {"INPUT_MISSING"}]
            /\ UNCHANGED <<ready_list, finished_tasks, peervars>>
         \/ RemoveWorker(w)  \* the transfer failed
      /\ \/ TimeLeft /\ pc' = IF ready_list' = << >> THEN "receive" ELSE "start"
         \/ TimeOut /\ pc' = "receive"
      /\ sending' = NoTask
      /\ UNCHANGED <<polled, statvars, histvars>>

\* receive_tasks, one round: fetch_output_from_worker, and the loop's test.
FetchOutput(t) ==
  LET w == worker_task_map[t]
  IN  /\ pc = "receive" /\ t \in finished_tasks
      /\ \/ /\ Reap(t)       \* outputs retrieved, or noted as missing
            /\ finished_tasks' = finished_tasks \ {t}
            /\ complete_list' = Cons(t, complete_list)
            /\ \E F \in SUBSET {"OUTPUT_MISSING"} :
                 result' = [result EXCEPT ![t] = @ \cup F]
            /\ total_tasks_complete' = total_tasks_complete + 1
            /\ UNCHANGED <<ready_list, peervars>>
         \/ /\ Reap(t)       \* they cannot be stored: handle_app_failure
            /\ finished_tasks' = finished_tasks \ {t}
            /\ complete_list' = Cons(t, complete_list)
            /\ result' = [result EXCEPT ![t] = @ \cup {"OUTPUT_MISSING"}]
            /\ UNCHANGED <<ready_list, peervars, total_tasks_complete>>
         \/ RemoveWorker(w) /\ UNCHANGED total_tasks_complete
      /\ \/ TimeLeft /\ UNCHANGED <<pc, workers_to_wait>>
         \/ TimeOut /\ pc' = "abort" /\ workers_to_wait' = 0
      /\ UNCHANGED <<total_tasks_failed, polled, sending, histvars>>

\* Slip: receive_tasks stops before every finished task was received.
TransferDoneEarly ==
  /\ pc = "receive"
  /\ pc' = "abort" /\ workers_to_wait' = 0
  /\ UNCHANGED <<taskvars, peervars, allocated, result, total_tasks_complete,
                 total_tasks_failed, stoptime, polled, sending, histvars>>

\* Leaving wait_loop_transfer_tasks; workers are no longer waited for.
TransferDone ==
  /\ pc = "receive" /\ finished_tasks = {}
  /\ pc' = "abort" /\ workers_to_wait' = 0
  /\ UNCHANGED <<taskvars, peervars, allocated, result, total_tasks_complete,
                 total_tasks_failed, stoptime, polled, sending, histvars>>

\* abort_slow_workers, one round.
AbortSlowWorker(w) ==
  /\ pc = "abort" /\ FastAbort
  /\ total_tasks_complete - total_tasks_failed >= AbortMinimum
  /\ current_tasks[w] \cap running_tasks # {}
  /\ ~(w \in Foremen /\ hostname[w] = "named")
  /\ RemoveWorker(w)
  /\ UNCHANGED <<statvars, loopvars, histvars>>

WaitAgain ==
  /\ pc = "abort"
  /\ TimeLeft
  /\ pc' = "loop"
  /\ UNCHANGED <<taskvars, peervars, allocated, result, statvars, polled, sending,
                 histvars>>

WaitTimesOut ==
  /\ pc = "abort"
  /\ stoptime # "none"
  /\ Return
  /\ UNCHANGED <<taskvars, peervars, allocated, result, statvars, histvars>>

------------------------------------------------------------------------------
Application ==
  \/ \E t \in Task : Submit(t) \/ CancelByTaskid(t) \/ CancelByTasktag(t)
  \/ CancelAllTasks \/ ShutDownWorkers \/ ResetKeepTasks \/ ResetAll
  \/ ActivateWorkerWaiting
  \/ \E timeout \in Timeouts : Wait(timeout)

\* The steps that move the master on, once it is inside a call.
Progress ==
  \/ \E w \in worker_table : \E t \in current_tasks[w] : CancelAllTask(w, t)
  \/ CancelAllDone
  \/ RemoveUnresponsiveWorkers
  \/ WaitReturnsTask \/ WaitFindsNothing \/ PollLinks
  \/ \E w \in worker_table : HandleWorker(w) \/ ProcessAvailableResults(w)
  \/ PollDone
  \/ \E w \in worker_table : CommitTask(w)
  \/ NoWorkerFits \/ SendInputs
  \/ \E t \in Task : FetchOutput(t)
  \/ TransferDone
  \/ WaitAgain \/ WaitTimesOut

Next ==
  \/ Application
  \/ Progress
  \/ \E w \in worker_table : RecvDuringTransfer(w) \/ AbortSlowWorker(w)

Spec == Init /\ [][Next]_vars
\* The program runs on: once in a call the master does not stop, a peer that
\* floods the link does not starve the transfer it interrupts, and the
\* application keeps calling wait until work_queue_empty (work_queue.h:369).
Fairness ==
  /\ WF_vars(Progress)
  /\ WF_vars(pc = "receive" /\ \E t \in Task : FetchOutput(t))
  /\ WF_vars(Held # {} /\ \E timeout \in Timeouts : Wait(timeout))

FairSpec == Spec /\ Fairness

------------------------------------------------------------------------------
(* Properties.                                                              *)

TablesTypeOK ==
  /\ ready_list \in Seq(Task) /\ complete_list \in Seq(Task)
  /\ running_tasks \subseteq Task /\ finished_tasks \subseteq Task
  /\ worker_table \subseteq Worker
  /\ current_tasks \in [Worker -> SUBSET Task]
  /\ worker_task_map \in [Task -> Worker \cup {NoWorker}]
  /\ workers_with_available_results \subseteq worker_table
  /\ hostname \in [Worker -> {"unknown", "named", "QUEUE_STATUS"}]
  /\ resources \in [Worker -> [Category -> Nat]]
  /\ allocated \in [Worker -> [Charged -> Int]]
  /\ result \in [Task -> SUBSET Flag]
  /\ delivered \subseteq Task /\ withdrawn \subseteq Task

LoopTypeOK ==
  /\ total_tasks_complete \in Nat /\ total_tasks_failed \in Nat
  /\ workers_to_wait \in Nat
  /\ pc \in {"app", "cancel_all", "loop", "pop", "links", "start", "send",
             "receive", "abort"}
  /\ stoptime \in {"none", "timed", "past"}
  /\ polled \subseteq worker_table
  /\ sending \in Task \cup {NoTask}

\* Every variable keeps its type; in particular the master never holds a
\* link to read from whose worker structure remove_worker has freed.
TypeOK == TablesTypeOK /\ LoopTypeOK

\* A task is in at most one of the four containers, and at most once: the
\* lists and tables of struct work_queue never share or repeat a task.
OnePlace ==
  /\ IsInjective(ready_list) /\ IsInjective(complete_list)
  /\ Range(ready_list) \cap Range(complete_list) = {}
  /\ running_tasks \cap finished_tasks = {}
  /\ (running_tasks \cup finished_tasks)
       \cap (Range(ready_list) \cup Range(complete_list)) = {}

\* The three views of who runs what agree: a task is in running_tasks or
\* finished_tasks iff worker_task_map has its worker, and that worker is
\* connected and has the task in current_tasks.  receive_tasks passes the
\* result of its lookup on unchecked.
MapConsistent ==
  /\ \A t \in Task : t \in running_tasks \cup finished_tasks
                       <=> worker_task_map[t] # NoWorker
  /\ \A w \in Worker : current_tasks[w] = {t \in Task : worker_task_map[t] = w}
  /\ \A t \in Task : worker_task_map[t] # NoWorker => worker_task_map[t] \in worker_table

\* A task that is waiting for a worker, or running, carries no flag of an
\* earlier attempt: t->result speaks of the run whose outputs are returned.
NoStaleResult ==
  \A t \in Task : result[t] # {} => t \in finished_tasks \cup Range(complete_list)

ChargeOf(w, c) == MapThenSumSet(LAMBDA t : Charge(t)[c], current_tasks[w])

\* Whatever the application calls, a worker is charged for at least what its
\* tasks requested, so check_worker_against_task cannot overload it.
NeverUndercharged ==
  \A w \in Worker, c \in Charged : allocated[w][c] >= ChargeOf(w, c)

\* Without work_queue_cancel_all_tasks the accounting is exact, and the
\* reset of negative values in reap_task_from_worker is never needed.
ChargedExactly ==
  \A w \in Worker, c \in Charged : allocated[w][c] = ChargeOf(w, c)

\* available_workers counts every identified worker that has something to
\* offer and runs nothing.
IdleIsAvailable ==
  \A w \in worker_table :
    (hostname[w] = "named" /\ current_tasks[w] = {} /\ resources[w]["cores"] > 0)
      => IsAvailable(w)

\* "Do not allow labeled/unlabeled mix" (check_worker_against_task).
NoLabelMix ==
  \A w \in Worker : \A t, u \in current_tasks[w] : Unlabeled(t) <=> Unlabeled(u)

\* A task that fits nowhere does not keep the tasks behind it from a worker
\* that could run them, once that worker has reported its cores: start_tasks
\* moves it to the end.
NotClogged ==
  [][(NoWorkerFits /\ \E t \in Range(ready_list), w \in worker_table :
                        resources[w]["cores"] > 0 /\ CheckWorkerAgainstTask(w, t))
       => ready_list' # ready_list]_vars

\* work_queue_wait comes back without a task before its timeout only if the
\* queue is empty, given that workers are waited for before tasks are dispatched,
\* which is what work_queue.h has work_queue_activate_worker_waiting for.
NullOnlyWhenEmpty == [][WaitFindsNothing => Held = {}]_vars

\* A task whose result has arrived is not left on its worker for ever,
\* under the same condition.
FinishedIsFetched == \A t \in Task : t \in finished_tasks ~> t \notin finished_tasks

\* The queue implements TaskPool: a submitted task is neither lost nor given
\* back twice, whatever happens to the workers it is sent to.
Pool == INSTANCE TaskPool WITH held <- Held
ImplementsTaskPool == Pool!Spec
=============================================================================
