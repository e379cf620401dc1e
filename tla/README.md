# Verification of cyque's Work Queue

cyque is a Go binding (`src/queue/queue.go`) to the Work Queue library of the
cooperative computing tools, which it carries as C sources under
`src/queue/cctools`. An application submits tasks to a *master*; *workers*
connect to it, run tasks and send back results and output files. This directory
models that system in TLA+, checks the models with TLC on small instances and
proves the central invariants with TLAPS for all instances.

Paths below are relative to `src/queue/cctools`; `master` stands for
`work_queue/src/work_queue.c` and `worker` for
`work_queue/src/work_queue_worker.c`.

## 1. Inventory

| Component | State | Operations | Module |
|---|---|---|---|
| Master (`master`) | `ready_list`, `running_tasks`, `finished_tasks`, `complete_list`, `worker_task_map`, `worker_table`, per worker `current_tasks`, resources and allocations, counters, the stage of `work_queue_wait` | submit, wait, three kinds of cancel, reset, shutdown, worker waiting, messages and failures of links, fast abort, keepalive | `WorkQueue` |
| What the API promises | tasks held, delivered, withdrawn | submit, deliver, withdraw | `TaskPool` |
| Hash tables (`dttools/src/hash_table.c`, `itable.c`) | buckets, size, the cursor of the one iteration | create, insert, remove, lookup, firstkey, nextkey, doubling | `HashTable` |
| Loops of the master over tables they shrink | `worker_table`, `workers_with_available_results`, `running_tasks` and their cursors | release, shutdown, keepalive, results and fast abort loops | `WorkerTable` |
| Worker (`worker`, worker mode) | `waiting_tasks`, `stored_tasks`, `active_tasks`, `results_to_be_sent`, allocations, totals, flags | connect, task, kill, reset, report, reap, start, disconnect, abort | `WorkQueueWorker` |
| Session of a master and a worker | successive links, which task went over which, announcements, the answer being read | send a task, kill, kill all, ask for results and for outputs, lose a link, reconnect | `Session` |
| Files cached on a worker | `current_files` of the master, cache directory of the worker | put, get, unlink, cleanup after a task | planned |
| Files of a task | `input_files`, `output_files` | `work_queue_task_specify_*` | planned |
| Foreman (`worker` in foreman mode) | a queue of its own below, a link above | | planned |
| Choice of a master, catalog | bad masters, back-off | | planned |
| Worker pool (`work_queue_pool.c`) | workers submitted, decisions | | planned |
| Go binding (`src/queue/queue.go`) | a map of tasks | | planned |
| Batch job interface, MPI queue, Chirp, authentication, condor tool | | | not planned, see section 7 |

The models map to about two fifths of `work_queue.c` and of
`work_queue_worker.c` and half of `hash_table.c`. That is some 4% of all the C
code under `src`, most of which (Chirp, batch systems, general utilities) takes
no part in what the queue decides.

How the parts interact: the application calls the master, which is
single-threaded and only works inside those calls. `work_queue_wait` polls the
links, reads messages, asks workers for the results they announced, sends ready
tasks, fetches output files and aborts slow workers, then starts over. A worker
is a loop of its own: one message from the master, then the processes that have
exited, then the tasks that fit. Both run against peers that may disappear at
any read or write.

What makes it hard:

* a task moves through four containers of the master and three of the worker,
  and every failure path must move it too;
* a worker can vanish, be cancelled or be reset between a result, its output
  files and the return of the task;
* every iteration in the C code uses a cursor that lives in the table, while
  its body inserts into and removes from that table;
* resources are charged in one function and given back in five others;
* the results handshake is one flag at each end.

## 2. Plan

In the order of importance, with what exists marked.

1. Master: `WorkQueue`, implementing `TaskPool`; type, place, map, accounting
   and liveness properties; proof of the inductive invariant and of the
   refinement. *Done.*
2. Cursor: `HashTable`, `WorkerTable`. *Done.*
3. Worker: `WorkQueueWorker`, with a proof of its table and handshake
   invariants. *Done.*
4. Session: `Session`, the worker and the master's view of it over FIFO links,
   with reconnection. *Done; not proved.* To come: a proof of `WorkerAccepts`
   and `ResultsWillBeAsked`, whose inductive form counts announcements on the
   link against requests.
5. Files: coherence of `current_files` with the worker's cache, through
   transfer failures, cleanup of failed tasks and invalidation; the name
   conflict checks of `work_queue_task_specify_file`; the sandbox of a task.
   One run with two tasks that share a cached file and one connection lost.
6. Proofs for the master of `NoStaleResult`, `NotClogged` and
   `NullOnlyWhenEmpty`: `WorkQueueWaitProofs`. *Done.* To come: `CursorSafe` for
   the loops that may not dangle.
7. Foreman, choice of a master, worker pool, Go binding: a module and a run
   each, the foreman composed from `WorkQueue` and `Session`.

## 3. The models

**`WorkQueue`** follows `work_queue.c` handler by handler. `pc` is the place in
the code: `app` between calls, `cancel_all` inside
`work_queue_cancel_all_tasks`, and for `work_queue_wait_internal` `loop`
(the head of its loop), `pop` (a complete task, or nothing left), `links` (the links that poll found readable), `start` and `send`
(`start_tasks`), `receive` (`receive_tasks`) and `abort`
(`abort_slow_workers`, and the test of the timeout). A stage that reads from a
link has one alternative for each message and one for the loss of the link,
which is `RemoveWorker`, that is `remove_worker` with `cleanup_worker`: all the
worker's tasks go back to `ready_list`. `t->result` is the set of its flags. A
file transfer has three outcomes: it succeeds, it fails for a reason of the
application's (the task is returned with a flag), or it fails with the link.
`worker_table` is a set here; that a loop over it stops at the first worker it
removes, and that the loop over `workers_with_available_results` may stop early
when that table doubles under it, is taken from `WorkerTable`.
`work_queue_activate_worker_waiting` comes in two forms: at any moment, and as
`work_queue.h` describes it, before tasks are dispatched. `asynchrony_multiplier` is a float in the
code and a positive integer here, with its effect on rounding left out.
`delivered` and `withdrawn` are history.

**`TaskPool`** is the abstract specification: a submitted task is held until it
is handed back, once. `WorkQueue` maps `held` to the union of the four
containers, the sum that `work_queue_empty` compares with zero.

**`HashTable`** is `hash_table.c` as operators on a table: chains of keys per
bucket, the size, and the cursor as `ibucket` and `ientry`. Values are left
out. A removed entry is freed, so a cursor that names a key that is not in the
table dangles.

**`WorkerTable`** has three such tables and the loops that walk them, one round
per step. `remove_worker` calls `log_worker_stats`, and the arguments of its
`debug` call run `known_workers` and `available_workers`, which walk
`worker_table` with the cursor of the loop that is removing. The
results loop has three alternatives: the results are read; the worker fails and
is removed, which frees the key the loop is about to remove; or an
`available_results` message that arrives meanwhile doubles the table, which
frees all keys and ends the walk early (and the worker may fail after that). A
freed key reads as the worker's own, if the memory has not been used again, or as
no worker's. It is never another worker's: no key is allocated between the free
and the removal, since the doubling copies all keys before it frees the old
ones.

**`WorkQueueWorker`** is one worker over several connections. `pc` is `connect`
outside `work_for_master`; inside, `poll`, `tasks` and `start` are the three
parts of a round. The master is any sequence of the messages `work_queue.c`
sends: it sends an id once per connection, kills what it sent, and asks for
results only after `available_results` (`announced`). Ids are per master, so a
second connection may bring the same ids. Resource totals are measured again
in every round, as the code may, and may have changed. A task carries the connection
it came from (`session`), for the properties only.

**`Session`** extends `WorkQueueWorker` and replaces its free choice of messages
by a queue for each direction of each connection. The master keeps, for each
task, the connection it was sent on (`place`), `finished_tasks`, its side of
`worker_table` (`open`) and `workers_with_available_results` (`available`); what
it is reading, and how many output files come after it, is `reading`. While it reads, it does nothing else, as in the
code; between reads it may do anything `work_queue.c` does to this worker, in
any order, which is more than the wait loop's order allows. An end may close the
link at any time. The master may believe in an old connection while the worker
is on the next. A task with a missing input file is given back without a message
to the worker; the output files of a task are asked for one after the other, and
`kill` follows the last. A message that the master does not expect leaves it only
`LinkFails`, as the code removes the worker.

Every model keeps the mutated forms of some operations, marked *Slip*, beside
the originals. They are used by no specification: they replace the original when
the strength of a property is tested.

## 4. The runs

| Run | Instance | What it shows |
|---|---|---|
| `tables` | 2 unlabeled tasks, 2 workers that take two each, all calls but cancel_all, with waiting for 2 workers at any moment | `TypeOK`, `OnePlace`, `MapConsistent`, `NoStaleResult`, `ChargedExactly`, `IdleIsAvailable`, `ImplementsTaskPool` |
| `wait` | 3 tasks (one core, whole worker, too many cores), a worker and a status client, cancel_all, waiting for 2 workers before tasks are dispatched, `lifo`, waits without a timeout, under fairness | `NeverUndercharged`, `NoLabelMix`, `NotClogged`, `NullOnlyWhenEmpty`, `FinishedIsFetched` |
| `loops` | 3 workers, 2 tasks, all loops, one task per worker, under fairness | `TypeOK`, `NoneForgotten`, `CursorSafe`, `VisitsAll`, `LoopEnds`, `AnnouncedIsRead` |
| `worker` | 3 tasks (whole worker, one core, disk only), 2 resources, disk that shrinks and grows, 2 connections, under fairness | `TypeOK`, `NeverUndercharged`, `StoredIsActive`, `ResultsAnnounced`, `NeverOvercommits`, `NoTaskStuck` |
| `link` | 2 tasks of one core on a worker of two, 2 connections, no or two outputs for a task, each a file, missing, or a directory, under fairness | `STypeOK`, `WorkerAccepts`, `InStep`, `TaskAccounted`, `ResultsWillBeAsked`, `MasterGetsAnswer` |

`link` discharges what `worker` assumes of the master: `WorkerAccepts` is the
guards of the worker's handlers, as an invariant of the two together.
`ResultsWillBeAsked` is about two flags, one at each end, that are reset at
different moments; it holds because an announcement read before the end of an
answer was sent before the worker took the request.

Deadlock is checked in the runs of the master and of the tables. It is not in
those of the worker and the session, in which the worker may exit or use up its
connections.

Runs in which the code disagrees with what the repository says of it:

| Run | Said | Done |
|---|---|---|
| `timed` | keep calling wait until the queue is empty (`work_queue.h:370`) | with timed waits a finished task can stay on its worker for ever; the queue is never empty |
| `cancel_all` | `available_workers` counts the workers available to run tasks | after a cancel_all an idle worker stays charged and is not counted |
| `reset` | "disconnects all workers" | one worker is disconnected |
| `abort_slow` | the iteration visits every task | it reads a freed entry if the slow worker has two tasks |
| `dir` | "Else wait for end message from worker." | a directory that cannot be created ends the read; the rest of the answer is taken for an invalid message |
| `old` | old tasks are not returned to a new master | waiting tasks survive the disconnection, and their results are credited to later tasks of the same id |
| `results` | no disconnection while results wait | they are dropped |

In `abort_slow` what follows the read of freed memory is undefined; the run
stops at the state in which the cursor dangles.

### Bounds

Two tasks and two workers are what the master's tables need: every invariant
speaks of at most two tasks and the worker or two that hold them, and a worker
that takes two tasks at once is the case in which failure paths differ. Three
tasks are used where the order of `ready_list` matters, because a task that
does not fit then has one before and one behind it. The worker gets three tasks so
that one can run, one wait and one be finished, and two connections so that ids
come back; the session gets two of each for the same reasons. `AbortMinimum` is
10 in the code and 1 in the runs. `MaxSessions` bounds connections. In `Session`
cancel_all is not repeated once every task is done, which bounds the queues.

`OutputFiles` has no and two output files, so that
a task is given back at once, after another `get`, and after the last.

Three cases are outside the passing runs, and there the code does not have the
property, as another instance of the same module shows: with a request of zero
`NoLabelMix` fails (the test at `work_queue.c:2206` compares amounts with 0), and
with gpus `NotClogged` fails (`available_workers`, `work_queue.c:263`, does not
look at them), and with `work_queue_activate_worker_waiting` called while tasks are
on workers `NullOnlyWhenEmpty` and `FinishedIsFetched` fail. In the last the loop
of wait takes results but does not fetch outputs until enough workers are
connected (`work_queue.c:3865`); once `running_tasks` and `ready_list` are empty it
leaves (`work_queue.c:3858`) with tasks in `finished_tasks`, as in run `timed`. That
is against the purpose `work_queue.h:635` gives the call, to wait "before starting
to dispatch tasks"; `wait` has the call as described there, and `tables`, whose
properties do not depend on it, has it at any moment.

### Fairness

Safety runs assume none. `WorkQueue`'s `Fairness` says that the single thread
goes on inside a call, that messages which interrupt a transfer do not do so
for ever (reads have a timeout), and that the application calls wait while the
queue is not empty, as `work_queue.h` tells it to. `WorkerTable` assumes that a
loop goes on, and that the results loop, which every round of wait comes to, is
entered again and again; strongly, because other loops run in between. `WorkQueueWorker`'s `FairSpec` assumes that the worker's loop goes
on, that every process ends some time, and that the master, once told of
results, asks for them; strong fairness is needed for the last two because the
worker is at the stage in which it reaps or listens only again and again.
`Session`'s `SFairSpec` has no such assumption about the master: it is the
master's loop that goes on there, and the worker that reads what has arrived
(`link_usleep_mask` returns at once if the link is readable).

## 5. The proofs

`WorkQueueProofs` proves, for any set of tasks and workers, any requests,
offers and tuning allowed by `ConstantsOK`:

* `Inductive`: `IInv == TypeOK /\ OnePlace /\ MapConsistent /\ StagesOK` is an
  invariant; `TypeCorrect`, `OnePlaceAlways` and `MapConsistentAlways`
  are its parts;
* `Refinement`: `Spec => ImplementsTaskPool`.

None of the four conjuncts is inductive alone. That a task reaped from a worker
goes to a container it is not yet in needs `MapConsistent` (it was in
`running_tasks` or `finished_tasks`) and `OnePlace` (so it was nowhere else);
that `MapConsistent` survives the loss of a worker in the middle of a transfer
needs `StagesOK`, which says what each stage of the wait loop finds and is there
only for the induction. The proof has a lemma for each operation that several stages
share (`Reap`, `RemoveWorker`, `CancelAllTask`, the messages), one for each
stage, and `NextStep`, which joins them and at the same time establishes that
the step is a step of `TaskPool` or leaves it alone. `ListLemmas` has what is
needed of sequences without repetition: appending, prepending, concatenating,
removing and rotating.

`WorkQueueWaitProofs` builds on `IInv` and proves

* `ResultsAlwaysFresh`: `Spec => []NoStaleResult`, since every way out of a worker
  but the two that lead to `complete_list` clears `t->result`;
* `NeverClogged`: `NotClogged`, if every task asks for cores, memory or disk, or for
  nothing (`AsksForSome`, which leaves out the zero and gpu cases of section 4). It
  needs `Introduced`: a worker that has not named itself has reported no cores, so
  one that could take a task is one that `available_workers` counts;
* `NothingMeansEmpty`: `NullOnlyWhenEmpty`, if waits have no timeout, there is no
  process module, and worker waiting is activated before tasks are dispatched
  (`WaitsToTheEnd`). It needs `Named` (a worker with results has named itself, so
  `known_workers` is not 0 while there are any) and `Fetched`
  (outside the stages that read results there are none to fetch, and no worker is
  waited for while tasks are out).

`WorkQueueWorkerProofs` proves `StoredIsActiveAlways` and
`ResultsAnnouncedAlways`. The second needs what `ResultsAnnounced` says to be
extended to the other stages: whenever `results_to_be_sent_msg` is set the
master owes an answer, and between `poll` and `start` results may be
unannounced.

Only model-checked: the accounting (`ChargedExactly`, `NeverUndercharged`,
`NeverOvercommits`), which sums over sets, and so needs induction over data;
liveness and everything under fairness; `Session`; the operators of `HashTable`.

The assumptions are those named in the modules (`ConstantsOK`,
`WorkerConstants`, `TableConstants`); they only give the constants their types. `AsksForSome` and `WaitsToTheEnd` are
hypotheses of the two theorems that need them.

## 6. Running

`tlc -config WorkQueue_tables.cfg MCWorkQueue`, and likewise for the other
configurations, which are named after the module they instantiate;
`tlapm WorkQueueProofs.tla` and `tlapm WorkQueueWaitProofs.tla` (about twenty
minutes each from nothing),
`tlapm WorkQueueWorkerProofs.tla` and `tlapm ListLemmas.tla`.

## 7. Not modelled

* The bytes of files and messages, sockets, buffering, bandwidth limits, the
  resource monitor, logs and statistics (except the two counters that fast
  abort reads).
* In the worker: sandbox directories and links to files, a task whose output
  file cannot be created, foreman mode.
* `batch_job*.c`: wrappers around the commands of batch systems.
* `mpi_queue.c`: a separate system that cyque does not use.
* Chirp and its clients: a file system in the same tree, used by the queue only
  for third-party transfers.
* Authentication: no state of the queue depends on more than its outcome.
* `condor.go`: copies files and runs one command.
