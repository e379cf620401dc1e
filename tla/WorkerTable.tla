---------------------------- MODULE WorkerTable ----------------------------
(***************************************************************************)
(* The loops in which the master walks worker_table,                       *)
(* workers_with_available_results and running_tasks while it takes workers *)
(* out of them.  Each table has one cursor (HashTable), and remove_worker  *)
(* itself walks worker_table, to log how many workers are left.  WorkQueue *)
(* takes from here which of a loop's workers a loop gets to.               *)
(***************************************************************************)
EXTENDS HashTable

CONSTANTS
  Worker, Task,   \* the keys of the tables
  TasksPerWorker, \* bound on the tasks sent to one worker
  ShutDown,       \* the n given to work_queue_shut_down_workers
  Loops           \* the loops that are run

ASSUME /\ Worker \cup Task = Key /\ Worker \cap Task = {}
       /\ TasksPerWorker \in Nat /\ ShutDown \subseteq Nat

VARIABLES
  worker_table,
  results,        \* workers_with_available_results
  running_tasks,
  current_tasks,  \* of each worker
  loop,           \* the loop the master is in, or "none"
  n,              \* how many workers shut_down_workers is to shut down
  found,          \* the keys of the table when the loop began
  visited,        \* the keys the loop has been given
  removed         \* the workers removed by the loop

tablevars == <<worker_table, results, running_tasks, current_tasks>>
loopvars  == <<loop, n, found, visited, removed>>
vars      == <<worker_table, results, running_tasks, current_tasks, loop, n, found,
               visited, removed>>

Init ==
  /\ worker_table = hash_table_create(InitialBuckets)
  /\ results = hash_table_create(InitialBuckets)
  /\ running_tasks = hash_table_create(InitialBuckets)
  /\ current_tasks = [w \in Worker |-> {}]
  /\ loop = "none" /\ n = 0
  /\ found = {} /\ visited = {} /\ removed = {}

\* known_workers and available_workers, called by log_worker_stats.
Walked(t) == [t EXCEPT !.ibucket = BucketCount(t), !.ientry = Null]

\* Slip: the worker stays in workers_with_available_results.
RemoveWorkerKeepsResults(w, wt, rs, rt) ==
  /\ worker_table' = Walked(hash_table_remove(wt, w))
  /\ results' = rs
  /\ running_tasks' = FoldSet(LAMBDA k, t : hash_table_remove(t, k), rt, current_tasks[w])
  /\ current_tasks' = [current_tasks EXCEPT ![w] = {}]
  /\ removed' = removed \cup {w}

\* remove_worker, on the three tables as they are when it is called.
remove_worker(w, wt, rs, rt) ==
  /\ worker_table' = Walked(hash_table_remove(wt, w))
  /\ results' = hash_table_remove(rs, w)
  /\ running_tasks' = FoldSet(LAMBDA k, t : hash_table_remove(t, k), rt, current_tasks[w])
  /\ current_tasks' = [current_tasks EXCEPT ![w] = {}]
  /\ removed' = removed \cup {w}

------------------------------------------------------------------------------
(* Between loops workers join, tasks are sent and results announced.        *)

add_worker(w) ==
  /\ loop = "none" /\ w \notin Keys(worker_table)
  /\ worker_table' = Walked(hash_table_insert(worker_table, w))
  /\ UNCHANGED <<results, running_tasks, current_tasks, loopvars>>

CommitTask(w, t) ==
  /\ loop = "none" /\ w \in Keys(worker_table) /\ t \notin Keys(running_tasks)
  /\ Cardinality(current_tasks[w]) < TasksPerWorker
  /\ running_tasks' = hash_table_insert(running_tasks, t)
  /\ current_tasks' = [current_tasks EXCEPT ![w] = @ \cup {t}]
  /\ worker_table' = Walked(worker_table)
  /\ UNCHANGED <<results, loopvars>>

AvailableResults(w) ==
  /\ loop = "none" /\ w \in Keys(worker_table)
  /\ results' = hash_table_insert(results, w)
  /\ UNCHANGED <<worker_table, running_tasks, current_tasks, loopvars>>

------------------------------------------------------------------------------
(* The loops                                                                *)

Begin(name, count, keys) ==
  /\ loop = "none" /\ name \in Loops
  /\ loop' = name /\ n' = count /\ found' = keys
  /\ visited' = {} /\ removed' = {}

OnWorkers == {"release_all_workers", "shut_down_workers", "remove_unresponsive_workers"}

BeginOnWorkers ==
  /\ \/ \E k \in ShutDown : Begin("shut_down_workers", k, Keys(worker_table))
     \/ Begin("release_all_workers", 0, Keys(worker_table))
     \/ Begin("remove_unresponsive_workers", 0, Keys(worker_table))
  /\ worker_table' = hash_table_firstkey(worker_table)
  /\ UNCHANGED <<results, running_tasks, current_tasks>>

\* The tail of wait_loop_poll_links.
BeginResults ==
  /\ Begin("results", 0, Keys(results))
  /\ results.size > 0
  /\ results' = hash_table_firstkey(results)
  /\ UNCHANGED <<worker_table, running_tasks, current_tasks>>

BeginAbortSlowWorkers ==
  /\ Begin("abort_slow_workers", 0, Keys(running_tasks))
  /\ running_tasks' = hash_table_firstkey(running_tasks)
  /\ UNCHANGED <<worker_table, results, current_tasks>>

\* The table that the loop walks.
Table ==
  CASE loop \in OnWorkers          -> worker_table
    [] loop = "results"            -> results
    [] loop = "abort_slow_workers" -> running_tasks

EndLoop ==
  /\ loop # "none"
  /\ \/ Table.ientry = Null
     \/ loop = "shut_down_workers" /\ Cardinality(removed) >= n
  /\ loop' = "none" /\ n' = 0
  /\ found' = {} /\ visited' = {} /\ removed' = {}
  /\ UNCHANGED tablevars

\* One round: the cursor moves on, then the body runs for the key returned.
Round(key) ==
  /\ Table.ientry # Null /\ ~Dangling(Table) /\ key = Table.ientry
  /\ visited' = visited \cup {key}
  /\ UNCHANGED <<loop, n, found>>

\* work_queue_delete and work_queue_reset release every worker they are given.
ReleaseWorker(w) ==
  /\ loop = "release_all_workers" /\ Round(w)
  /\ remove_worker(w, hash_table_nextkey(worker_table), results, running_tasks)

ShutDownWorker(w) ==
  /\ loop = "shut_down_workers" /\ Cardinality(removed) < n /\ Round(w)
  /\ IF current_tasks[w] = {}
     THEN remove_worker(w, hash_table_nextkey(worker_table), results, running_tasks)
     ELSE /\ worker_table' = hash_table_nextkey(worker_table)
          /\ UNCHANGED <<results, running_tasks, current_tasks, removed>>

\* Slip: the walk begins anew at the end of the table.
CheckWorkerStartsOver(w) ==
  /\ loop = "remove_unresponsive_workers" /\ Round(w)
  /\ LET t == hash_table_nextkey(worker_table)
     IN  worker_table' = IF t.ientry = Null THEN hash_table_firstkey(t) ELSE t
  /\ UNCHANGED <<results, running_tasks, current_tasks, removed>>

\* A worker that does not answer is removed, another one may be sent a check.
CheckWorker(w) ==
  /\ loop = "remove_unresponsive_workers" /\ Round(w)
  /\ \/ remove_worker(w, hash_table_nextkey(worker_table), results, running_tasks)
     \/ /\ worker_table' = hash_table_nextkey(worker_table)
        /\ UNCHANGED <<results, running_tasks, current_tasks, removed>>

\* Slip: the old pairs are freed while they are moved, and a later key is
\* written where w's was.
FreedKeyReused(w) == Worker \cup {Null}

\* What the memory of w's key may hold once the key is freed, by the removal of
\* its entry or by a doubling: w's key, or (Null) no worker's.  A doubling copies
\* all keys before it frees the first, and until the loop's hash_table_remove no
\* other worker's key is written anywhere: the master reads from w alone.
FreedKey(w) == {w, Null}

RemoveFreed(t, k) == IF k = Null THEN t ELSE hash_table_remove(t, k)

\* Slip: one worker is served in each round of the wait loop.
ResultsOfFirst(w) ==
  /\ loop = "results" /\ Round(w)
  /\ results' = Walked(hash_table_remove(results, w))
  /\ UNCHANGED <<worker_table, running_tasks, current_tasks, removed>>

\* process_available_results, and the loop's hash_table_remove.  The worker may
\* announce results again, which may double the table and spend its cursor.  If
\* the worker fails, remove_worker takes it out first; the removals commute.
ResultsOf(w) ==
  /\ loop = "results" /\ Round(w)
  /\ LET t == hash_table_nextkey(results)
         u == hash_table_insert(t, w)
     IN  \/ \E k \in FreedKey(w) :
              \/ remove_worker(w, worker_table, RemoveFreed(t, k), running_tasks)
              \/ remove_worker(w, worker_table, RemoveFreed(u, k), running_tasks)
         \/ /\ \/ results' = hash_table_remove(t, w)
               \/ Overloaded(t) /\ \E k \in FreedKey(w) : results' = RemoveFreed(u, k)
            /\ UNCHANGED <<worker_table, running_tasks, current_tasks, removed>>

\* A slow task costs its worker the connection.
AbortSlow(t) ==
  /\ loop = "abort_slow_workers" /\ Round(t)
  /\ \/ \E w \in Worker :
          /\ t \in current_tasks[w]
          /\ remove_worker(w, worker_table, results, hash_table_nextkey(running_tasks))
     \/ /\ running_tasks' = hash_table_nextkey(running_tasks)
        /\ UNCHANGED <<worker_table, results, current_tasks, removed>>

Loop ==
  \/ \E w \in Worker :
       ReleaseWorker(w) \/ ShutDownWorker(w) \/ CheckWorker(w) \/ ResultsOf(w)
  \/ \E t \in Task : AbortSlow(t)
  \/ EndLoop

Next ==
  \/ \E w \in Worker : add_worker(w) \/ AvailableResults(w)
  \/ \E w \in Worker, t \in Task : CommitTask(w, t)
  \/ BeginOnWorkers \/ BeginResults \/ BeginAbortSlowWorkers
  \/ Loop

Spec == Init /\ [][Next]_vars

\* A loop of the master runs on until it ends, and the application keeps calling
\* work_queue_wait, each round of which reads the results that are announced.
FairSpec == Spec /\ WF_vars(Loop) /\ SF_vars(BeginResults)

------------------------------------------------------------------------------
(* Properties                                                               *)

TableOK(t) ==
  /\ t.size = Cardinality(Keys(t)) /\ t.ientry \in Key \cup {Null}
  /\ \A k \in Keys(t) : hash_table_lookup(t, k)

\* The tables keep their shape, and every key is in the bucket that lookup
\* searches; workers with results are connected.
TypeOK ==
  /\ TableOK(worker_table) /\ Keys(worker_table) \subseteq Worker
  /\ TableOK(results) /\ Keys(results) \subseteq Keys(worker_table)
  /\ TableOK(running_tasks)
  /\ Keys(running_tasks) = UNION {current_tasks[w] : w \in Keys(worker_table)}
  /\ loop \in OnWorkers \cup {"none", "results", "abort_slow_workers"}

\* No loop reads a freed entry, although every loop removes what it walks.
CursorSafe == loop # "none" => ~Dangling(Table)

\* wait_loop_poll_links forgets no worker that announced results: those it has
\* not asked for them yet are still in the table.
NoneForgotten == loop = "results" => found \ visited \subseteq Keys(results)

\* A loop over running_tasks or worker_table that removes no worker reaches
\* every key that was there when it began.
VisitsAll ==
  /\ loop \in (OnWorkers \ {"shut_down_workers"}) \cup {"abort_slow_workers"}
  /\ Table.ientry = Null /\ removed = {}
  => found \subseteq visited

\* Every loop comes to an end.
LoopEnds == loop # "none" ~> loop = "none"

\* No worker that announced results is passed over for ever, although a doubling
\* may end the results loop before its turn and others may announce again.
AnnouncedIsRead == \A w \in Worker : w \in Keys(results) ~> w \notin Keys(results)

\* What work_queue.h says of a reset: it disconnects all workers.
ResetDisconnectsAll == [][loop = "release_all_workers" /\ EndLoop
                            => Keys(worker_table) = {}]_vars
=============================================================================
