-------------------------- MODULE WorkQueueWorker --------------------------
(***************************************************************************)
(* A worker (work_queue_worker.c in worker mode): it connects to a master, *)
(* queues the tasks it is sent, runs those its resources allow, announces  *)
(* their results once and sends them when the master asks, until it is     *)
(* disconnected; then it looks for a master again.                         *)
(*                                                                         *)
(* The loop of work_for_master goes through the stages of pc: "poll" for a *)
(* message, "tasks" to reap the processes that have exited, "start" to     *)
(* start what fits.  The master's messages are chosen freely, within what  *)
(* work_queue.c sends.  Task ids are per master: another master, or the    *)
(* same one restarted, counts from 1 again.                                *)
(***************************************************************************)
EXTENDS Integers, Sequences, FiniteSets, SequencesExt, FiniteSetsExt

CONSTANTS
  TaskId,       \* task ids
  Resource,     \* "cores" and others that are accounted for in the same way
  Request,      \* what each task asks for; -1 if it does not say
  Measures,     \* what resources_measure_locally may find the totals to be
  Workers,      \* local_resources->workers.total
  MaxSessions   \* bound on the number of connections

ASSUME WorkerConstants ==
  /\ "cores" \in Resource /\ IsFiniteSet(Resource)
  /\ Request \in [TaskId -> [Resource -> Nat \cup {-1}]]
  /\ Measures # {} /\ Measures \subseteq [Resource -> Nat]
  /\ Workers \in Nat \ {0} /\ MaxSessions \in Nat

VARIABLES
  pc,                     \* stage of the loop; "connect" and "exit" outside it
  session,                \* which connection this is
  waiting_tasks,
  stored_tasks,           \* started tasks, by task id
  active_tasks,           \* started tasks, by process
  results_to_be_sent,     \* finished tasks, by task id
  results_to_be_sent_msg, \* available_results was sent for them
  allocated,              \* cores_allocated, memory_allocated, ...
  total,                  \* local_resources
  ok, abort_flag,
  visited,                \* tasks passed over by the loop that starts tasks
  received,               \* ids of the tasks of this session
  announced               \* available_results messages the master has yet to answer

taskvars == <<waiting_tasks, stored_tasks, active_tasks, results_to_be_sent,
              results_to_be_sent_msg, allocated>>
linkvars == <<session, received, announced>>
vars == <<pc, taskvars, total, ok, abort_flag, visited, linkvars>>

Nothing == [r \in Resource |-> 0]

Init ==
  /\ pc = "connect" /\ session = 0
  /\ waiting_tasks = << >> /\ visited = 0
  /\ stored_tasks = {} /\ active_tasks = {} /\ results_to_be_sent = {}
  /\ results_to_be_sent_msg = FALSE
  /\ allocated = Nothing /\ total \in Measures
  /\ ok = TRUE /\ abort_flag = FALSE
  /\ received = {} /\ announced = 0

------------------------------------------------------------------------------
(* What the stages share                                                    *)

AtLeast(n, m) == IF n < m THEN m ELSE n

\* A task that says nothing takes its share of the worker, and a core at least.
Charge(id) ==
  [r \in Resource |->
     IF \A s \in Resource : Request[id][s] < 0
     THEN AtLeast(total[r] \div Workers, IF r = "cores" THEN 1 ELSE 0)
     ELSE AtLeast(Request[id][r], 0)]

\* Slip: cores are not compared.
FitsUnlessCores(id) ==
  \A r \in Resource \ {"cores"} : allocated[r] + Charge(id)[r] <= total[r]

check_for_resources(id) ==
  \A r \in Resource : allocated[r] + Charge(id)[r] <= total[r]

\* Slip: the earlier entry stays.
PutAlso(table, ti) == table \cup {ti}

\* A table keyed by task id holds one entry for an id: a later one replaces it.
Without(table, id) == {ti \in table : ti.id # id}
Put(table, ti)     == Without(table, ti.id) \cup {ti}

Minus(ti) == [r \in Resource |-> allocated[r] - ti.charge[r]]

\* Slip: results_to_be_sent_msg is not reset.
KillAllKeepsMsg ==
  /\ results_to_be_sent' = {} /\ active_tasks' = {} /\ stored_tasks' = {}
  /\ allocated' = Nothing
  /\ UNCHANGED <<waiting_tasks, results_to_be_sent_msg>>

\* Slip: the processes are not reaped.
KillAllKeepsActive ==
  /\ results_to_be_sent' = {} /\ results_to_be_sent_msg' = FALSE
  /\ allocated' = Nothing
  /\ UNCHANGED <<waiting_tasks, active_tasks, stored_tasks>>

\* waiting_tasks is left as it is.
kill_all_tasks ==
  /\ results_to_be_sent' = {} /\ results_to_be_sent_msg' = FALSE
  /\ active_tasks' = {} /\ stored_tasks' = {}
  /\ allocated' = Nothing
  /\ UNCHANGED waiting_tasks

disconnect_master ==
  /\ kill_all_tasks
  /\ pc' = "connect" /\ ok' = TRUE /\ visited' = 0
  /\ UNCHANGED <<total, abort_flag, linkvars>>

\* send_resource_update measures anew, unless it is too early for that.
Measure == total' \in Measures

------------------------------------------------------------------------------
(* Outside the loop                                                         *)

connect_master ==
  /\ pc = "connect" /\ ~abort_flag /\ session < MaxSessions
  /\ pc' = "poll" /\ session' = session + 1
  /\ received' = {} /\ announced' = 0
  /\ Measure
  /\ UNCHANGED <<taskvars, ok, abort_flag, visited>>

\* SIGTERM, SIGINT or SIGQUIT, or no message from the master is readable.
handle_abort ==
  /\ pc # "exit" /\ ~abort_flag
  /\ abort_flag' = TRUE
  /\ UNCHANGED <<pc, taskvars, total, ok, visited, linkvars>>

\* Without a master for too long, or told to stop.
abort_worker ==
  /\ pc = "connect" \/ (pc = "poll" /\ abort_flag)
  /\ kill_all_tasks
  /\ pc' = "exit"
  /\ UNCHANGED <<total, ok, abort_flag, visited, linkvars>>

IdleTimeout ==
  /\ pc = "poll" /\ ~abort_flag
  /\ waiting_tasks = << >> /\ stored_tasks = {} /\ results_to_be_sent = {}
  /\ abort_flag' = TRUE
  /\ UNCHANGED <<pc, taskvars, total, ok, visited, linkvars>>

\* worker_volatility: a worker may be told to drop its master now and then.
Volatile ==
  /\ pc = "poll" /\ ~abort_flag
  /\ disconnect_master

------------------------------------------------------------------------------
(* "poll": send_resource_update, then handle_master, one message or none.    *)

Poll ==
  /\ pc = "poll" /\ ~abort_flag
  /\ pc' = "tasks"
  /\ Measure
  /\ UNCHANGED <<abort_flag, visited, session>>

Quiet ==
  /\ Poll
  /\ UNCHANGED <<taskvars, ok, received, announced>>

\* A task is queued once its input files are linked into its directory.
do_task(id) ==
  /\ Poll
  /\ id \notin received /\ received' = received \cup {id}
  /\ \/ ok' = ok
        /\ waiting_tasks' = Append(waiting_tasks, [id |-> id, session |-> session])
     \/ ok' = FALSE /\ UNCHANGED waiting_tasks
  /\ UNCHANGED <<stored_tasks, active_tasks, results_to_be_sent, results_to_be_sent_msg,
                 allocated, announced>>

\* A running task is killed and reaped; a finished one only loses its result,
\* and a waiting one only its directory.
do_kill(id) ==
  /\ Poll
  /\ id \in received
  /\ results_to_be_sent' = Without(results_to_be_sent, id)
  /\ stored_tasks' = Without(stored_tasks, id)
  /\ LET running == (stored_tasks \ Without(stored_tasks, id)) \cap active_tasks
     IN  /\ active_tasks' = active_tasks \ running
         /\ allocated' = IF running = {} THEN allocated
                         ELSE Minus(CHOOSE ti \in running : TRUE)
  /\ UNCHANGED <<waiting_tasks, results_to_be_sent_msg, ok, received, announced>>

\* kill -1, from work_queue_cancel_all_tasks, which forgets the announcements it
\* has read and will answer those still under way; and reset, which empties the
\* workspace as well.
KillAll ==
  /\ Poll
  /\ kill_all_tasks
  /\ ok' \in {TRUE, FALSE}
  /\ announced' \in 0 .. announced
  /\ UNCHANGED received

\* send_results -1: every result, then "end".  It may answer several announcements.
report_tasks ==
  /\ Poll
  /\ announced > 0 /\ announced' \in 0 .. announced - 1
  /\ results_to_be_sent' = {} /\ results_to_be_sent_msg' = FALSE
  /\ allocated' = [r \in Resource |-> allocated[r]
                     - MapThenSumSet(LAMBDA ti : ti.charge[r], results_to_be_sent)]
  /\ UNCHANGED <<waiting_tasks, stored_tasks, active_tasks, ok, received>>

\* check and the file transfers keep no state here; release, exit, a file that
\* cannot be handled, an unknown message and a closed link end the connection.
OtherMessage ==
  /\ Poll
  /\ ok' \in {TRUE, FALSE}
  /\ UNCHANGED <<taskvars, received, announced>>

------------------------------------------------------------------------------
(* "tasks": handle_tasks, then available_results.                           *)

\* Slip: the task stays in stored_tasks.
HandleKeepsStored(ti) ==
  /\ pc = "tasks" /\ ti \in active_tasks
  /\ active_tasks' = active_tasks \ {ti}
  /\ results_to_be_sent' = Put(results_to_be_sent, ti)
  /\ UNCHANGED <<pc, waiting_tasks, stored_tasks, results_to_be_sent_msg, allocated, total,
                 ok, abort_flag, visited, linkvars>>

\* The process of ti has exited.
handle_tasks(ti) ==
  /\ pc = "tasks" /\ ti \in active_tasks
  /\ active_tasks' = active_tasks \ {ti}
  /\ stored_tasks' = Without(stored_tasks, ti.id)
  /\ results_to_be_sent' = Put(results_to_be_sent, ti)
  /\ UNCHANGED <<pc, waiting_tasks, results_to_be_sent_msg, allocated, total, ok,
                 abort_flag, visited, linkvars>>

\* Then the disk may turn out to be full.
AvailableResults ==
  /\ pc = "tasks"
  /\ results_to_be_sent_msg' = (results_to_be_sent_msg \/ results_to_be_sent # {})
  /\ announced' = IF ~results_to_be_sent_msg /\ results_to_be_sent # {}
                  THEN announced + 1 ELSE announced
  /\ ok' \in {ok, FALSE}
  /\ pc' = "start"
  /\ UNCHANGED <<waiting_tasks, stored_tasks, active_tasks, results_to_be_sent, allocated,
                 total, abort_flag, visited, session, received>>

------------------------------------------------------------------------------
(* "start": the tasks that fit, then the end of the round.                  *)

MayStart == /\ pc = "start" /\ ok
            /\ Len(waiting_tasks) > visited
            /\ allocated["cores"] < total["cores"]

start_task ==
  /\ MayStart
  /\ LET t  == Head(waiting_tasks)
         ti == [id |-> t.id, session |-> t.session, charge |-> Charge(t.id)]
     IN  /\ check_for_resources(t.id)
         /\ allocated' = [r \in Resource |-> allocated[r] + Charge(t.id)[r]]
         /\ stored_tasks' = Put(stored_tasks, ti)
         /\ active_tasks' = active_tasks \cup {ti}
  /\ waiting_tasks' = Tail(waiting_tasks)
  /\ Measure
  /\ UNCHANGED <<pc, results_to_be_sent, results_to_be_sent_msg, ok, abort_flag, visited,
                 linkvars>>

\* The fork fails: the task is dropped, and the worker will stop.
StartFails ==
  /\ MayStart
  /\ check_for_resources(Head(waiting_tasks).id)
  /\ waiting_tasks' = Tail(waiting_tasks)
  /\ abort_flag' = TRUE
  /\ Measure
  /\ UNCHANGED <<pc, stored_tasks, active_tasks, results_to_be_sent, results_to_be_sent_msg,
                 allocated, ok, visited, linkvars>>

PassOver ==
  /\ MayStart
  /\ ~check_for_resources(Head(waiting_tasks).id)
  /\ waiting_tasks' = Append(Tail(waiting_tasks), Head(waiting_tasks))
  /\ visited' = visited + 1
  /\ UNCHANGED <<pc, stored_tasks, active_tasks, results_to_be_sent, results_to_be_sent_msg,
                 allocated, total, ok, abort_flag, linkvars>>

\* Slip: the test is missing.
NeverGivesUp == FALSE

\* Nothing runs and nothing that waits can be started.
NoTaskCanRun ==
  /\ pc = "start" /\ ok /\ ~MayStart
  /\ waiting_tasks # << >> /\ stored_tasks = {}

Disconnect ==
  /\ NoTaskCanRun \/ (pc = "start" /\ ~ok)
  /\ disconnect_master

EndRound ==
  /\ pc = "start" /\ ok /\ ~MayStart /\ ~NoTaskCanRun
  /\ pc' = "poll" /\ visited' = 0
  /\ UNCHANGED <<taskvars, total, ok, abort_flag, linkvars>>

------------------------------------------------------------------------------
Master ==
  \/ \E id \in TaskId : do_task(id) \/ do_kill(id)
  \/ KillAll \/ report_tasks \/ OtherMessage

Round ==
  \/ Quiet \/ AvailableResults
  \/ start_task \/ PassOver \/ Disconnect \/ EndRound

Next ==
  \/ connect_master \/ handle_abort \/ abort_worker \/ IdleTimeout \/ Volatile
  \/ Master \/ Round \/ StartFails
  \/ \E ti \in active_tasks : handle_tasks(ti)

Spec == Init /\ [][Next]_vars

\* The worker goes round its loop, every task comes to an end, and the master
\* asks for the results that were announced to it.
FairSpec ==
  /\ Spec
  /\ WF_vars(Round \/ abort_worker)
  /\ SF_vars(\E ti \in active_tasks : handle_tasks(ti))
  /\ SF_vars(report_tasks)

------------------------------------------------------------------------------
(* Properties                                                               *)

TaskOf   == [id : TaskId, session : 1 .. MaxSessions]
TaskInfo == [id : TaskId, session : 1 .. MaxSessions, charge : [Resource -> Nat]]

\* Types of the variables; tables keyed by task id hold one entry for an id.
TypeOK ==
  /\ pc \in {"connect", "poll", "tasks", "start", "exit"}
  /\ session \in 0 .. MaxSessions
  /\ waiting_tasks \in Seq(TaskOf)
  /\ stored_tasks \subseteq TaskInfo /\ active_tasks \subseteq TaskInfo
  /\ results_to_be_sent \subseteq TaskInfo
  /\ \A table \in {stored_tasks, results_to_be_sent} :
       \A x, y \in table : x.id = y.id => x = y
  /\ results_to_be_sent_msg \in BOOLEAN /\ announced \in Nat
  /\ allocated \in [Resource -> Int] /\ total \in Measures
  /\ ok \in BOOLEAN /\ abort_flag \in BOOLEAN /\ visited \in Nat
  /\ received \subseteq TaskId

Charged(r) == MapThenSumSet(LAMBDA ti : ti.charge[r], active_tasks \cup results_to_be_sent)

\* Whatever is killed, the worker never takes as free what a running task, or
\* one whose result has not been sent, still holds.
NeverUndercharged == \A r \in Resource : allocated[r] >= Charged(r)

\* A task is started only if it fits beside what is running, by the totals of
\* that moment, whatever was killed, finished or measured anew before.
NeverOvercommits ==
  [][start_task => \A r \in Resource :
       MapThenSumSet(LAMBDA ti : ti.charge[r], active_tasks') <= total[r]]_vars

\* A task that is listed as started has a process: kill finds what it is to
\* kill, and clearing the table on a disconnection finds it empty.
StoredIsActive == stored_tasks \subseteq active_tasks

\* Results are never left without the master having been told: between rounds
\* there is an available_results message that the master has yet to answer.
ResultsAnnounced ==
  pc = "poll" /\ results_to_be_sent # {} => results_to_be_sent_msg /\ announced > 0

\* A waiting task is started, or the connection ends so that the master can
\* send it to another worker.
NoTaskStuck ==
  \A id \in TaskId :
    (\E i \in DOMAIN waiting_tasks : waiting_tasks[i].id = id)
      ~> \/ ~\E i \in DOMAIN waiting_tasks : waiting_tasks[i].id = id
         \/ pc \in {"connect", "exit"}

\* What a comment in work_for_master says: the worker does not disconnect for
\* want of resources while results wait to be sent back.
KeepsResults == [][NoTaskCanRun /\ Disconnect => results_to_be_sent = {}]_vars
=============================================================================
