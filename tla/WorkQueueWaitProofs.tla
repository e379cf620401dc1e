------------------------- MODULE WorkQueueWaitProofs -------------------------
(***************************************************************************)
(* More about WorkQueue, from the invariant that WorkQueueProofs           *)
(* establishes: what t->result says of a task, that start_tasks is not     *)
(* blocked by a task that fits nowhere, and when work_queue_wait comes     *)
(* back with nothing.                                                      *)
(***************************************************************************)
EXTENDS WorkQueueProofs

------------------------------------------------------------------------------
(* What t->result says.                                                     *)

LEMMA ForgetWorkerResults ==
  ASSUME IInv, NoStaleResult, NEW w \in worker_table, ForgetWorker(w)
  PROVE  NoStaleResult'
<1>1. \A t \in Task : result'[t] # {} => result[t] # {} /\ t \notin current_tasks[w]
  BY DEF ForgetWorker, ResultAfterCleanup
<1>2. finished_tasks' = finished_tasks \ current_tasks[w] /\ complete_list' = complete_list
  BY DEF ForgetWorker
<1> QED BY <1>1, <1>2 DEF NoStaleResult

\* The steps that end the work on a task, or take a flag of it down.
LEMMA CancelResults ==
  ASSUME IInv, NoStaleResult, NEW t \in Task, Cancel(t)
  PROVE  NoStaleResult'
<1>1. result' = [result EXCEPT ![t] = {}] /\ result \in [Task -> SUBSET Flag]
  BY DEF Cancel, IInv, TypeOK, TablesTypeOK
<1>2. \A u \in Task : result'[u] # {} => result[u] # {} /\ u # t
  BY <1>1
<1>3. finished_tasks \ {t} \subseteq finished_tasks' /\ Range(complete_list) \ {t} \subseteq Range(complete_list')
  <2>1. CASE UNCHANGED complete_list
    BY <2>1 DEF Cancel
  <2>2. CASE \E i \in DOMAIN complete_list :
               complete_list[i] = t /\ complete_list' = RemoveAt(complete_list, i)
    <3>1. PICK i \in DOMAIN complete_list :
            complete_list[i] = t /\ complete_list' = RemoveAt(complete_list, i)
      BY <2>2
    <3>2. complete_list \in Seq(Task) /\ IsInjective(complete_list)
      BY DEF IInv, TypeOK, TablesTypeOK, OnePlace
    <3>3. Range(complete_list') = Range(complete_list) \ {t}
      BY <3>1, <3>2, RemoveAtList, Zenon
    <3>4. finished_tasks \ {t} \subseteq finished_tasks'
      BY DEF Cancel
    <3> QED BY <3>3, <3>4
  <2> QED BY <2>1, <2>2 DEF Cancel
<1> QED BY <1>2, <1>3 DEF NoStaleResult

LEMMA ApplicationResults ==
  ASSUME IInv, NoStaleResult, Application
  PROVE  NoStaleResult'
<1> USE DEF IInv, TypeOK, TablesTypeOK
<1>1. CASE \E t \in Task : Submit(t)
  BY <1>1 DEF Submit, NoStaleResult
<1>2. CASE \E t \in Task : CancelByTaskid(t) \/ CancelByTasktag(t)
  BY <1>2, CancelResults DEF CancelByTaskid, CancelByTasktag
<1>3. CASE CancelAllTasks
  BY <1>3 DEF CancelAllTasks, NoStaleResult
<1>4. CASE ShutDownWorkers \/ ResetKeepTasks
  BY <1>4, ForgetWorkerResults DEF ShutDownWorkers, ResetKeepTasks, RemoveWorker
<1>5. CASE ResetAll
  <2>1. CASE \E w \in worker_table : ForgetWorker(w)
    BY <2>1, ForgetWorkerResults
  <2>2. CASE UNCHANGED <<finished_tasks, complete_list, result>>
    BY <2>2 DEF NoStaleResult
  <2> QED BY <1>5, <2>1, <2>2 DEF ResetAll
<1>6. CASE ActivateWorkerWaiting \/ \E timeout \in Timeouts : Wait(timeout)
  <2>1. UNCHANGED <<finished_tasks, complete_list, result>>
    BY <1>6 DEF ActivateWorkerWaiting, Wait, taskvars
  <2> QED BY <2>1 DEF NoStaleResult
<1> QED BY <1>1, <1>2, <1>3, <1>4, <1>5, <1>6 DEF Application

LEMMA TransferResults ==
  ASSUME IInv, NoStaleResult, SendInputs \/ \E t \in Task : FetchOutput(t)
  PROVE  NoStaleResult'
<1> USE DEF IInv, TypeOK, TablesTypeOK
<1>1. ASSUME NEW t \in running_tasks \cup finished_tasks, NEW F \in SUBSET Flag,
             complete_list' = Cons(t, complete_list), finished_tasks \ {t} \subseteq finished_tasks',
             result' = [result EXCEPT ![t] = @ \cup F]
      PROVE  NoStaleResult'
  <2>1. t \in Task /\ complete_list \in Seq(Task) /\ IsInjective(complete_list) /\ t \notin Range(complete_list)
    BY DEF OnePlace
  <2>2. Range(complete_list') = Range(complete_list) \cup {t}
    BY <1>1, <2>1, ConsList
  <2>3. \A u \in Task : u # t => result'[u] = result[u]
    BY <1>1
  <2> QED BY <1>1, <2>2, <2>3, Zenon DEF NoStaleResult
<1>2. CASE SendInputs
  <2>1. sending \in running_tasks /\ worker_task_map[sending] \in worker_table
    BY <1>2 DEF SendInputs, StagesOK, MapConsistent
  <2>2. CASE UNCHANGED <<taskvars, peervars, allocated, result>>
    BY <2>2 DEF NoStaleResult, taskvars
  <2>3. CASE RemoveWorker(worker_task_map[sending])
    BY <2>1, <2>3, ForgetWorkerResults DEF RemoveWorker
  <2>4. CASE /\ complete_list' = Cons(sending, complete_list) /\ finished_tasks' = finished_tasks
             /\ result' = [result EXCEPT ![sending] = @ \cup {"INPUT_MISSING"}]
    BY <1>1, <2>1, <2>4, Zenon DEF Flag
  <2> QED BY <1>2, <2>2, <2>3, <2>4 DEF SendInputs
<1>3. ASSUME NEW t \in Task, FetchOutput(t) PROVE NoStaleResult'
  <2>1. t \in finished_tasks /\ worker_task_map[t] \in worker_table
    BY <1>3 DEF FetchOutput, MapConsistent
  <2>2. CASE RemoveWorker(worker_task_map[t])
    BY <2>1, <2>2, ForgetWorkerResults DEF RemoveWorker
  <2>3. CASE ~RemoveWorker(worker_task_map[t])
    <3>1. /\ finished_tasks' = finished_tasks \ {t} /\ complete_list' = Cons(t, complete_list)
          /\ \E F \in SUBSET {"OUTPUT_MISSING"} : result' = [result EXCEPT ![t] = @ \cup F]
      BY <1>3, <2>3, Zenon DEF FetchOutput
    <3>2. PICK F \in SUBSET {"OUTPUT_MISSING"} : result' = [result EXCEPT ![t] = @ \cup F]
      BY <3>1, Zenon
    <3> QED BY <1>1, <2>1, <3>1, <3>2, Zenon DEF Flag
  <2> QED BY <2>2, <2>3
<1> QED BY <1>2, <1>3

LEMMA ResultsStep == ASSUME IInv, NoStaleResult, [Next]_vars PROVE NoStaleResult'
<1> USE DEF IInv, TypeOK, TablesTypeOK
<1>1. CASE UNCHANGED <<finished_tasks, complete_list, result>>
  BY <1>1 DEF NoStaleResult
<1>2. CASE \E w \in worker_table : \E t \in current_tasks[w] : CancelAllTask(w, t)
  BY <1>2 DEF CancelAllTask, NoStaleResult
<1>3. CASE \E w \in worker_table : RemoveWorker(w)
  BY <1>3, ForgetWorkerResults DEF RemoveWorker
<1>4. CASE WaitReturnsTask
  <2> DEFINE t == Head(complete_list)
  <2>1. complete_list \in Seq(Task) /\ IsInjective(complete_list) /\ complete_list # << >>
    BY <1>4 DEF WaitReturnsTask, OnePlace
  <2>2. t \in Task /\ Range(complete_list') = Range(complete_list) \ {t}
    BY <1>4, <2>1, TailList DEF WaitReturnsTask
  <2>3. result' = [result EXCEPT ![t] = {}] /\ finished_tasks' = finished_tasks
    BY <1>4 DEF WaitReturnsTask
  <2> HIDE DEF t
  <2>4. \A u \in Task : result'[u] # {} => result[u] # {} /\ u # t
    BY <2>2, <2>3
  <2> QED BY <2>2, <2>3, <2>4 DEF NoStaleResult
<1>5. ASSUME NEW w \in worker_table, ProcessAvailableResults(w), ~RemoveWorker(w) PROVE NoStaleResult'
  <2>1. PICK R \in SUBSET current_tasks[w] : \E F \in SUBSET R :
          /\ finished_tasks' = finished_tasks \cup R /\ UNCHANGED complete_list
          /\ result' = [t \in Task |-> IF t \in F THEN result[t] \cup {"STDOUT_MISSING"} ELSE result[t]]
    BY <1>5, Zenon DEF ProcessAvailableResults
  <2> QED BY <2>1 DEF NoStaleResult
<1>6. CASE \E w \in worker_table : HandleWorker(w) \/ RecvDuringTransfer(w) \/ AbortSlowWorker(w)
  <2>1. PICK w \in worker_table : RecvWorkerMsg(w) \/ RemoveWorker(w)
    BY <1>6, Zenon DEF HandleWorker, RecvDuringTransfer, AbortSlowWorker
  <2>2. CASE RecvWorkerMsg(w)
    <3>1. UNCHANGED <<finished_tasks, complete_list, result>>
      BY <2>2, Zenon DEF RecvWorkerMsg, taskvars
    <3> QED BY <3>1, <1>1
  <2> QED BY <1>3, <2>1, <2>2
<1>7. CASE RemoveUnresponsiveWorkers
  BY <1>1, <1>3, <1>7 DEF RemoveUnresponsiveWorkers, taskvars
<1>8. CASE CancelAllDone \/ WaitFindsNothing \/ PollLinks \/ PollDone \/ TransferDone \/ WaitAgain \/ WaitTimesOut
  <2>1. UNCHANGED <<finished_tasks, complete_list, result>>
    BY <1>8, Zenon DEF CancelAllDone, WaitFindsNothing, PollLinks, PollDone, TransferDone, WaitAgain,
                WaitTimesOut, taskvars
  <2> QED BY <1>1, <2>1
<1>9. CASE (\E w \in worker_table : CommitTask(w)) \/ NoWorkerFits
  <2>1. UNCHANGED <<finished_tasks, complete_list, result>>
    BY <1>9, Zenon DEF CommitTask, NoWorkerFits
  <2> QED BY <1>1, <2>1
<1>10. CASE UNCHANGED vars
  BY <1>1, <1>10 DEF vars, taskvars
<1>11. CASE Progress
  BY <1>2, <1>3, <1>4, <1>5, <1>6, <1>7, <1>8, <1>9, <1>11, TransferResults, Zenon DEF Progress
<1> QED BY <1>6, <1>10, <1>11, ApplicationResults, Zenon DEF Next

\* However often a task is sent again, what t->result says when work_queue_wait
\* returns it is about the attempt whose outputs were fetched: cleanup_worker and
\* the calls that cancel take the flags of an earlier attempt down.
THEOREM ResultsAlwaysFresh == Spec => []NoStaleResult
<1>1. Init => NoStaleResult
  BY DEF Init, NoStaleResult
<1>2. IInv /\ NoStaleResult /\ [Next]_vars => NoStaleResult'
  BY ResultsStep
<1> QED BY <1>1, <1>2, Inductive, PTL DEF Spec

------------------------------------------------------------------------------
(* A task at the head that fits nowhere.                                    *)

\* Every task that names resources asks for some of what available_workers
\* looks at (it does not look at gpus).
AsksForSome ==
  \A t \in Task : Unlabeled(t) \/ \E c \in {"cores", "disk", "memory"} : Request[t][c] > 0

\* Only a worker that has introduced itself has reported anything.
Introduced == \A w \in Worker : hostname[w] = "unknown" => resources[w]["cores"] = 0

LEMMA IntroducedStep == ASSUME IInv, Introduced, [Next]_vars PROVE Introduced'
<1> USE DEF IInv, TypeOK, TablesTypeOK
<1>1. CASE UNCHANGED <<hostname, resources>>
  BY <1>1 DEF Introduced
<1>2. ASSUME NEW w \in worker_table, ForgetWorker(w) PROVE Introduced'
  <2>1. \A v \in Worker : v # w => hostname'[v] = hostname[v] /\ resources'[v] = resources[v]
    BY <1>2 DEF ForgetWorker
  <2>2. resources'[w]["cores"] = 0
    BY <1>2 DEF ForgetWorker, NoResources, Category, Resource
  <2> SUFFICES ASSUME NEW v \in Worker, hostname'[v] = "unknown" PROVE resources'[v]["cores"] = 0
    BY Zenon DEF Introduced
  <2>3. CASE v = w
    BY <2>2, <2>3
  <2>4. CASE v # w
    BY <2>1, <2>4, Zenon DEF Introduced
  <2> QED BY <2>3, <2>4
<1>3. ASSUME NEW w \in worker_table, RecvWorkerMsg(w) PROVE Introduced'
  <2>1. CASE RecvWorkqueue(w)
    BY <2>1 DEF RecvWorkqueue, Introduced
  <2>2. CASE RecvStatus(w)
    BY <2>2 DEF RecvStatus, Introduced
  <2>3. CASE RecvAvailable(w) \/ RecvAlive(w)
    BY <1>1, <2>3 DEF RecvAvailable, RecvAlive
  <2>4. CASE RecvResource(w)
    <3>1. \A v \in Worker : v # w => resources'[v] = resources[v]
      BY <2>4 DEF RecvResource
    <3>2. hostname' = hostname /\ hostname[w] # "unknown"
      BY <2>4 DEF RecvResource
    <3> QED BY <3>1, <3>2, Zenon DEF Introduced
  <2> QED BY <1>3, <2>1, <2>2, <2>3, <2>4 DEF RecvWorkerMsg
<1>4. CASE Application
  <2>1. CASE \E t \in Task : Submit(t) \/ CancelByTaskid(t) \/ CancelByTasktag(t)
    BY <1>1, <2>1, Zenon DEF Submit, CancelByTaskid, CancelByTasktag, Cancel, peervars
  <2>2. CASE CancelAllTasks \/ ActivateWorkerWaiting \/ \E timeout \in Timeouts : Wait(timeout)
    BY <1>1, <2>2, Zenon DEF CancelAllTasks, ActivateWorkerWaiting, Wait, peervars
  <2>3. CASE ShutDownWorkers \/ ResetKeepTasks \/ ResetAll
    BY <1>1, <1>2, <2>3, Zenon DEF ShutDownWorkers, ResetKeepTasks, ResetAll, RemoveWorker, peervars
  <2> QED BY <1>4, <2>1, <2>2, <2>3, Zenon DEF Application
<1>5. CASE SendInputs \/ \E t \in Task : FetchOutput(t)
  <2>1. CASE SendInputs
    <3>1. worker_task_map[sending] \in worker_table
      BY <2>1 DEF SendInputs, StagesOK, MapConsistent
    <3> QED BY <1>1, <1>2, <2>1, <3>1, Zenon DEF SendInputs, RemoveWorker, peervars
  <2>2. ASSUME NEW t \in Task, FetchOutput(t) PROVE Introduced'
    <3>1. worker_task_map[t] \in worker_table
      BY <2>2 DEF FetchOutput, MapConsistent
    <3> QED BY <1>1, <1>2, <2>2, <3>1, Zenon DEF FetchOutput, RemoveWorker, peervars
  <2> QED BY <1>5, <2>1, <2>2
<1>6. CASE \E w \in worker_table : HandleWorker(w) \/ ProcessAvailableResults(w)
                                   \/ RecvDuringTransfer(w) \/ AbortSlowWorker(w)
  BY <1>1, <1>2, <1>3, <1>6, Zenon
     DEF HandleWorker, ProcessAvailableResults, RecvDuringTransfer, AbortSlowWorker, RemoveWorker
<1>7. CASE RemoveUnresponsiveWorkers
  BY <1>1, <1>2, <1>7, Zenon DEF RemoveUnresponsiveWorkers, RemoveWorker, peervars
<1>8. CASE (\E w \in worker_table : \E t \in current_tasks[w] : CancelAllTask(w, t))
           \/ (\E w \in worker_table : CommitTask(w)) \/ NoWorkerFits
  BY <1>1, <1>8, Zenon DEF CancelAllTask, CommitTask, NoWorkerFits, peervars
<1>9. CASE CancelAllDone \/ WaitReturnsTask \/ WaitFindsNothing \/ PollLinks \/ PollDone \/ TransferDone
           \/ WaitAgain \/ WaitTimesOut
  BY <1>1, <1>9, Zenon DEF CancelAllDone, WaitReturnsTask, WaitFindsNothing, PollLinks, PollDone, TransferDone,
                    WaitAgain, WaitTimesOut, peervars
<1>10. CASE UNCHANGED vars
  BY <1>1, <1>10 DEF vars, peervars
<1>11. CASE Progress
  BY <1>5, <1>6, <1>7, <1>8, <1>9, <1>11, Zenon DEF Progress
<1> QED BY <1>4, <1>6, <1>10, <1>11, Zenon DEF Next

\* A worker with cores on which a task fits is counted by available_workers.
LEMMA FitsIsAvailable ==
  ASSUME IInv, Introduced, AsksForSome, NEW w \in worker_table, NEW t \in Task,
         resources[w]["cores"] > 0, CheckWorkerAgainstTask(w, t)
  PROVE  IsAvailable(w)
<1> USE DEF IInv, TypeOK, TablesTypeOK
<1>1. w \in Worker /\ resources[w] \in [Category -> Nat] /\ allocated[w] \in [Charged -> Int]
  OBVIOUS
<1>2. hostname[w] # "unknown"
  BY <1>1 DEF Introduced
<1>0. AsynchronyMultiplier \in Nat /\ AsynchronyMultiplier >= 1 /\ AsynchronyModifier \in Nat
  BY ConstantsOK
<1>7. \A n, m \in Nat : n * m \in Nat
  OBVIOUS
<1>8. \A c \in Category : Overcommitted(w, c) \in Nat
  <2>1. \A c \in Category : resources[w][c] \in Nat /\ resources[w][c] * AsynchronyMultiplier \in Nat
    BY <1>0, <1>1, <1>7
  <2> QED BY <1>0, <2>1 DEF Overcommitted
<1>3. Overcommitted(w, "cores") > 0
  <2>1. resources[w]["cores"] \in Nat /\ resources[w]["cores"] >= 1
    BY <1>1 DEF Category, Resource
  <2>2. ASSUME NEW n \in Nat, NEW m \in Nat, n >= 1, m >= 1 PROVE n * m >= 1
    <3>1. n - 1 \in Nat /\ n * m = (n - 1) * m + m
      BY <2>2
    <3>2. (n - 1) * m \in Nat
      BY <1>7, <3>1
    <3>3. \A k \in Nat : k + m >= 1
      BY <2>2
    <3> QED BY <3>1, <3>2, <3>3, Zenon
  <2>3. resources[w]["cores"] * AsynchronyMultiplier \in Nat /\ resources[w]["cores"] * AsynchronyMultiplier >= 1
    BY <1>0, <1>7, <2>1, <2>2, Zenon
  <2> QED BY <1>0, <2>1, <2>3 DEF Overcommitted
<1>4. \A c \in Charged : allocated[w][c] \in Int
  BY <1>1
<1>5. CASE Unlabeled(t)
  <2>1. allocated[w]["cores"] <= 0 /\ allocated[w]["unlabeled"] + 1 <= Overcommitted(w, "workers")
    BY <1>5 DEF CheckWorkerAgainstTask, Resource
  <2>2. Overcommitted(w, "workers") \in Int /\ Overcommitted(w, "cores") \in Int
    BY <1>8 DEF Category, Resource
  <2>3. CASE allocated[w]["unlabeled"] > 0
    BY <1>2, <1>4, <2>1, <2>2, <2>3 DEF IsAvailable, Charged
  <2>4. CASE ~(allocated[w]["unlabeled"] > 0)
    <3>1. Overcommitted(w, "cores") > allocated[w]["cores"]
      BY <1>3, <1>4, <2>1, <2>2 DEF Charged, Resource
    <3> QED BY <1>2, <2>4, <3>1 DEF IsAvailable
  <2> QED BY <2>3, <2>4
<1>6. CASE ~Unlabeled(t)
  <2>1. PICK c \in {"cores", "disk", "memory"} : Request[t][c] > 0
    BY <1>6 DEF AsksForSome
  <2>2. allocated[w]["unlabeled"] <= 0 /\ allocated[w][c] + Charge(t)[c] <= Overcommitted(w, c)
    BY <1>6 DEF CheckWorkerAgainstTask, Resource
  <2>3. Charge(t)[c] = Request[t][c] /\ Request[t][c] \in Int
    <3>1. c \in Charged /\ c # "unlabeled" /\ c \in Resource
      BY DEF Charged, Resource
    <3>2. Charge(t)[c] = AtLeast0(Request[t][c])
      BY <3>1, Zenon DEF Charge
    <3>3. Request[t][c] \in Int
      BY <3>1, ConstantsOK
    <3> QED BY <2>1, <3>2, <3>3 DEF AtLeast0
  <2>4. Overcommitted(w, c) \in Int
    BY <1>8 DEF Category, Resource
  <2>5. allocated[w][c] \in Int /\ allocated[w]["unlabeled"] \in Int
    BY <1>4 DEF Charged, Resource
  <2>6. Overcommitted(w, c) > allocated[w][c]
    BY <2>1, <2>2, <2>3, <2>4, <2>5
  <2> QED BY <1>2, <2>2, <2>5, <2>6 DEF IsAvailable
<1> QED BY <1>5, <1>6

LEMMA HeadMoves ==
  ASSUME IInv, Introduced, AsksForSome, NoWorkerFits,
         NEW t \in Range(ready_list), NEW w \in worker_table,
         resources[w]["cores"] > 0, CheckWorkerAgainstTask(w, t)
  PROVE  ready_list' # ready_list
<1>1. ready_list \in Seq(Task) /\ IsInjective(ready_list) /\ ready_list # << >>
  BY DEF NoWorkerFits, IInv, TypeOK, TablesTypeOK, OnePlace, StagesOK
<1>2. t \in Task
  BY <1>1 DEF Range
<1>3. ready_list' = Append(Tail(ready_list), Head(ready_list))
  BY <1>2, FitsIsAvailable DEF NoWorkerFits
<1>4. t # Head(ready_list)
  BY DEF NoWorkerFits
<1>5. Len(ready_list) \in Nat /\ Len(ready_list) >= 2
  BY <1>1, <1>4 DEF Range
<1>6. Head(ready_list) = ready_list[1] /\ Append(Tail(ready_list), Head(ready_list))[1] = ready_list[2]
  BY <1>1, <1>5
<1>7. ready_list[1] # ready_list[2]
  BY <1>1, <1>5 DEF IsInjective
<1> QED BY <1>3, <1>6, <1>7, Zenon

\* Whatever the tasks behind it ask for, as long as that includes cores, memory or
\* disk, start_tasks does not leave a task that fits nowhere at the head while a
\* worker that could run one of them has reported its cores.
THEOREM NeverClogged == ASSUME AsksForSome PROVE Spec => NotClogged
<1>1. Init => Introduced
  BY DEF Init, Introduced, NoResources, Category, Resource
<1>2. IInv /\ Introduced /\ [Next]_vars => Introduced'
  BY IntroducedStep
<1>3. IInv /\ Introduced =>
        [(NoWorkerFits /\ \E t \in Range(ready_list), w \in worker_table :
             resources[w]["cores"] > 0 /\ CheckWorkerAgainstTask(w, t))
           => ready_list' # ready_list]_vars
  BY HeadMoves
<1> QED BY <1>1, <1>2, <1>3, Inductive, PTL DEF Spec, NotClogged

------------------------------------------------------------------------------
(* When work_queue_wait may say that there is nothing.                      *)

\* An application that waits without a timeout, has no process module and asks
\* for workers to be waited for only before it starts.
WaitsToTheEnd ==
  /\ IsFiniteSet(Worker) /\ ~ProcessModule
  /\ Timeouts \subseteq {"none"} /\ "activate_worker_waiting" \notin Calls

\* A worker that has results has said who it is.
Named ==
  /\ \A w \in workers_with_available_results : hostname[w] # "unknown"
  /\ \A t \in finished_tasks : hostname[worker_task_map[t]] # "unknown"

Between == {"app", "cancel_all", "loop", "pop", "abort"}

\* Results are fetched in the round in which they are received, for by the time a
\* task runs no workers are waited for any more.
Fetched ==
  /\ stoptime = "none" /\ Named
  /\ pc \in Between => finished_tasks = {}
  /\ pc \in Between \cup {"links"} /\ running_tasks \cup finished_tasks # {} => workers_to_wait = 0

LEMMA FetchedKept ==
  ASSUME Fetched, Named', stoptime' = stoptime,
         finished_tasks' \subseteq finished_tasks, running_tasks' \subseteq running_tasks,
         workers_to_wait' \in {workers_to_wait, 0},
         pc' \in Between => pc \in Between \/ finished_tasks = {},
         pc' \in Between \cup {"links"} => pc \in Between \cup {"links"} \/ workers_to_wait' = 0
  PROVE  Fetched'
<1>1. pc' \in Between => finished_tasks' = {}
  BY DEF Fetched
<1>2. pc' \in Between \cup {"links"} /\ running_tasks' \cup finished_tasks' # {} => workers_to_wait' = 0
  BY DEF Fetched
<1> QED BY <1>1, <1>2 DEF Fetched

LEMMA ForgetWorkerNamed ==
  ASSUME IInv, Named, NEW w \in worker_table, ForgetWorker(w)
  PROVE  Named' /\ finished_tasks' \subseteq finished_tasks /\ running_tasks' \subseteq running_tasks
<1> USE DEF IInv, TypeOK, TablesTypeOK
<1>1. \A v \in Worker : v # w => hostname'[v] = hostname[v]
  BY DEF ForgetWorker
<1>2. \A t \in Task : t \notin current_tasks[w] => worker_task_map'[t] = worker_task_map[t] /\ worker_task_map[t] # w
  BY DEF ForgetWorker, MapConsistent
<1>3. \A t \in finished_tasks : worker_task_map[t] \in Worker
  BY DEF MapConsistent
<1>4. /\ workers_with_available_results' = workers_with_available_results \ {w}
      /\ finished_tasks' = finished_tasks \ current_tasks[w] /\ running_tasks' \subseteq running_tasks
  BY DEF ForgetWorker, PendingAfterRemoval
<1>5. \A v \in workers_with_available_results' : hostname'[v] # "unknown"
  BY <1>1, <1>4 DEF Named
<1>6. \A t \in finished_tasks' : hostname'[worker_task_map'[t]] # "unknown"
  BY <1>1, <1>2, <1>3, <1>4 DEF Named
<1> QED BY <1>4, <1>5, <1>6 DEF Named

LEMMA RecvNamed ==
  ASSUME IInv, Named, NEW w \in worker_table, RecvWorkerMsg(w)
  PROVE  Named' /\ UNCHANGED <<finished_tasks, running_tasks>>
<1> USE DEF IInv, TypeOK, TablesTypeOK
<1>1. UNCHANGED <<finished_tasks, running_tasks, worker_task_map>>
  BY DEF RecvWorkerMsg, taskvars
<1>2. \A v \in Worker : hostname[v] # "unknown" => hostname'[v] # "unknown"
  BY DEF RecvWorkerMsg, RecvWorkqueue, RecvStatus, RecvAvailable, RecvResource, RecvAlive
<1>3. \A v \in workers_with_available_results' :
        v \in workers_with_available_results \/ (v = w /\ hostname[w] # "unknown")
  BY DEF RecvWorkerMsg, RecvWorkqueue, RecvStatus, RecvAvailable, RecvResource, RecvAlive
<1>4. \A t \in finished_tasks : worker_task_map[t] \in Worker
  BY DEF MapConsistent
<1> QED BY <1>1, <1>2, <1>3, <1>4, Zenon DEF Named

\* A task is taken from its worker.
LEMMA ReapNamed ==
  ASSUME IInv, Named, NEW t \in Task, UNCHANGED <<hostname, workers_with_available_results>>,
         worker_task_map' = [worker_task_map EXCEPT ![t] = NoWorker],
         finished_tasks' = finished_tasks \ {t}
  PROVE  Named'
<1>1. \A u \in finished_tasks' : worker_task_map'[u] = worker_task_map[u]
  BY DEF IInv, TypeOK, TablesTypeOK
<1> QED BY <1>1 DEF Named

LEMMA ApplicationFetched ==
  ASSUME WaitsToTheEnd, IInv, Fetched, Application
  PROVE  Fetched'
<1> USE DEF Between, IInv, TypeOK, TablesTypeOK
<1>0. Named
  BY DEF Fetched
<1>1. ASSUME NEW t \in Task, Submit(t) PROVE Fetched'
  <2>1. Named' /\ UNCHANGED <<finished_tasks, running_tasks, pc, stoptime, workers_to_wait>>
    BY <1>0, <1>1 DEF Submit, Named, peervars, loopvars, statvars
  <2> QED BY <2>1, FetchedKept
<1>2. ASSUME NEW t \in Task, Cancel(t) PROVE Fetched'
  <2>1. /\ UNCHANGED <<pc, stoptime, workers_to_wait, hostname, workers_with_available_results>>
        /\ finished_tasks' \subseteq finished_tasks /\ running_tasks' \subseteq running_tasks
    BY <1>2 DEF Cancel, Reap, loopvars, statvars, peervars
  <2>2. CASE UNCHANGED <<finished_tasks, worker_task_map>>
    BY <1>0, <2>1, <2>2, FetchedKept DEF Named
  <2>3. CASE ~UNCHANGED <<finished_tasks, worker_task_map>>
    <3>1. Reap(t) /\ finished_tasks' = finished_tasks \ {t}
      BY <1>2, <2>3, Zenon DEF Cancel
    <3>2. Named'
      BY <1>0, <2>1, <3>1, ReapNamed, Zenon DEF Reap
    <3> QED BY <2>1, <3>2, FetchedKept
  <2> QED BY <2>2, <2>3
<1>3. CASE CancelAllTasks
  <2>1. /\ Named' /\ UNCHANGED <<finished_tasks, running_tasks, stoptime, workers_to_wait>>
        /\ pc = "app" /\ pc' = "cancel_all"
    BY <1>0, <1>3 DEF CancelAllTasks, Named, statvars
  <2> QED BY <2>1, FetchedKept
<1>4. CASE ShutDownWorkers \/ ResetKeepTasks \/ ResetAll
  <2>1. UNCHANGED <<pc, stoptime, workers_to_wait>>
    BY <1>4 DEF ShutDownWorkers, ResetKeepTasks, ResetAll, loopvars, statvars
  <2>2. \/ \E w \in worker_table : ForgetWorker(w)
        \/ UNCHANGED <<running_tasks, finished_tasks, worker_task_map, peervars>>
    BY <1>4, Zenon DEF ShutDownWorkers, ResetKeepTasks, ResetAll, RemoveWorker
  <2>3. CASE \E w \in worker_table : ForgetWorker(w)
    BY <1>0, <2>1, <2>3, ForgetWorkerNamed, FetchedKept
  <2>4. CASE UNCHANGED <<running_tasks, finished_tasks, worker_task_map, peervars>>
    BY <1>0, <2>1, <2>4, FetchedKept DEF Named, peervars
  <2> QED BY <2>2, <2>3, <2>4
<1>5. ASSUME NEW timeout \in Timeouts, Wait(timeout) PROVE Fetched'
  <2>1. /\ UNCHANGED <<running_tasks, finished_tasks, worker_task_map, hostname,
                       workers_with_available_results, workers_to_wait>>
        /\ pc = "app" /\ pc' = "loop" /\ stoptime' = timeout
    BY <1>5 DEF Wait, taskvars, peervars, statvars
  <2>2. stoptime' = stoptime
    BY <2>1 DEF WaitsToTheEnd, Fetched
  <2> QED BY <1>0, <2>1, <2>2, FetchedKept DEF Named
<1>6. CASE ActivateWorkerWaiting
  <2>1. /\ UNCHANGED <<running_tasks, finished_tasks, worker_task_map, hostname,
                       workers_with_available_results, stoptime, pc>>
        /\ running_tasks \cup finished_tasks = {}
    BY <1>6 DEF WaitsToTheEnd, ActivateWorkerWaiting, taskvars, peervars, loopvars
  <2> QED BY <1>0, <2>1 DEF Fetched, Named
<1> QED BY <1>1, <1>2, <1>3, <1>4, <1>5, <1>6 DEF Application, CancelByTaskid, CancelByTasktag

LEMMA TransferFetched ==
  ASSUME IInv, Fetched, SendInputs \/ \E t \in Task : FetchOutput(t)
  PROVE  Fetched'
<1> USE DEF Between, IInv, TypeOK, TablesTypeOK
<1>0. Named /\ stoptime = "none"
  BY DEF Fetched
<1>1. CASE SendInputs
  <2>1. pc' \in {"receive", "start"} /\ stoptime' = stoptime /\ workers_to_wait' = workers_to_wait
    BY <1>0, <1>1 DEF SendInputs, TimeLeft, TimeOut, statvars
  <2>2. sending \in running_tasks /\ sending \in Task /\ worker_task_map[sending] \in worker_table
    BY <1>1 DEF SendInputs, StagesOK, MapConsistent
  <2>3. CASE UNCHANGED <<taskvars, peervars, allocated, result>>
    BY <1>0, <2>1, <2>3, FetchedKept DEF taskvars, peervars, Named
  <2>4. CASE Reap(sending) /\ UNCHANGED <<finished_tasks, peervars>>
    <3>1. finished_tasks' = finished_tasks \ {sending}
      BY <2>2, <2>4 DEF OnePlace
    <3>2. Named'
      BY <1>0, <2>2, <2>4, <3>1, ReapNamed, Zenon DEF Reap, peervars
    <3>3. running_tasks' \subseteq running_tasks
      BY <2>4 DEF Reap
    <3> QED BY <2>1, <2>4, <3>2, <3>3, FetchedKept
  <2>5. CASE RemoveWorker(worker_task_map[sending])
    BY <1>0, <2>1, <2>2, <2>5, ForgetWorkerNamed, FetchedKept DEF RemoveWorker
  <2> QED BY <1>1, <2>3, <2>4, <2>5, Zenon DEF SendInputs
<1>2. ASSUME NEW t \in Task, FetchOutput(t) PROVE Fetched'
  <2>1. pc = "receive" /\ UNCHANGED <<pc, stoptime, workers_to_wait>>
    BY <1>0, <1>2 DEF FetchOutput, TimeLeft, TimeOut
  <2>2. t \in finished_tasks /\ worker_task_map[t] \in worker_table
    BY <1>2 DEF FetchOutput, MapConsistent
  <2>3. CASE RemoveWorker(worker_task_map[t])
    BY <1>0, <2>1, <2>2, <2>3, ForgetWorkerNamed, FetchedKept DEF RemoveWorker
  <2>4. CASE ~RemoveWorker(worker_task_map[t])
    <3>1. Reap(t) /\ finished_tasks' = finished_tasks \ {t} /\ UNCHANGED peervars
      BY <1>2, <2>4, Zenon DEF FetchOutput
    <3>2. Named'
      BY <1>0, <3>1, ReapNamed, Zenon DEF Reap, peervars
    <3>3. running_tasks' \subseteq running_tasks /\ finished_tasks' \subseteq finished_tasks
      BY <3>1 DEF Reap
    <3> QED BY <2>1, <3>2, <3>3, FetchedKept
  <2> QED BY <2>3, <2>4
<1> QED BY <1>1, <1>2

\* The round of the loop in which results are received goes on to fetch them,
\* also if the results loop ends early.
LEMMA PollFetched ==
  ASSUME WaitsToTheEnd, IInv', Named', stoptime' = "none",
         (running_tasks \cup finished_tasks)' # {} => workers_to_wait' = 0,
         pc' = "links" \/ pc' = StageAfterPoll'
  PROVE  Fetched'
<1> USE DEF Between, IInv, TypeOK, TablesTypeOK
<1>1. CASE pc' = "links"
  BY <1>1 DEF Fetched
<1>2. CASE pc' = StageAfterPoll' /\ finished_tasks' = {}
  BY <1>2 DEF Fetched
<1>3. CASE pc' = StageAfterPoll' /\ finished_tasks' # {}
  <2>1. PICK t \in finished_tasks' : TRUE
    BY <1>3
  <2>2. worker_task_map'[t] \in Known'
    BY DEF Known, Named, MapConsistent
  <2>3. Cardinality(Known') \in Nat
    BY FS_Subset, FS_CardinalityType DEF Known, WaitsToTheEnd
  <2>4. workers_to_wait' = 0
    BY <1>3
  <2>5. pc' \in {"receive", "start"}
    BY <1>3, <2>2, <2>3, <2>4 DEF StageAfterPoll
  <2> QED BY <2>5 DEF Fetched
<1> QED BY <1>1, <1>2, <1>3

LEMMA ReceiveFetched ==
  ASSUME WaitsToTheEnd, IInv, Fetched,
         (\E w \in worker_table : ProcessAvailableResults(w)) \/ PollDone \/ TransferDone
  PROVE  Fetched'
<1> USE DEF Between, IInv, TypeOK, TablesTypeOK
<1>0. Named
  BY DEF Fetched
<1>1. ASSUME NEW w \in worker_table, ProcessAvailableResults(w) PROVE Fetched'
  <2>1. /\ pc = "links" /\ w \in workers_with_available_results
        /\ UNCHANGED <<stoptime, workers_to_wait>>
        /\ pc' = "links" \/ pc' = StageAfterPoll'
    BY <1>1, Zenon DEF ProcessAvailableResults, statvars
  <2>2. Named' /\ (running_tasks \cup finished_tasks)' \subseteq running_tasks \cup finished_tasks
    <3>1. CASE RemoveWorker(w)
      <4>1. Named' /\ finished_tasks' \subseteq finished_tasks /\ running_tasks' \subseteq running_tasks
        BY <1>0, <3>1, ForgetWorkerNamed DEF RemoveWorker
      <4> QED BY <4>1
    <3>2. CASE ~RemoveWorker(w)
      <4>1. PICK R \in SUBSET current_tasks[w] :
              /\ running_tasks' = running_tasks \ R /\ finished_tasks' = finished_tasks \cup R
              /\ workers_with_available_results' \subseteq workers_with_available_results
              /\ UNCHANGED <<worker_task_map, hostname>>
        BY <1>1, <3>2, Zenon DEF ProcessAvailableResults
      <4>2. \A t \in R : worker_task_map[t] = w
        BY DEF MapConsistent
      <4>3. Named'
        BY <1>0, <2>1, <4>1, <4>2 DEF Named
      <4>4. R \subseteq running_tasks \cup finished_tasks
        BY Sentinels DEF MapConsistent
      <4> QED BY <4>1, <4>3, <4>4
    <3> QED BY <3>1, <3>2
  <2>3. IInv'
    BY <1>1, ProcessAvailableResultsStep, Zenon
  <2>4. stoptime' = "none" /\ ((running_tasks \cup finished_tasks)' # {} => workers_to_wait' = 0)
    BY <2>1, <2>2 DEF Fetched
  <2> QED BY <2>1, <2>2, <2>3, <2>4, PollFetched, Zenon
<1>2. CASE PollDone
  <2>1. /\ UNCHANGED <<running_tasks, finished_tasks, worker_task_map, hostname,
                       workers_with_available_results, workers_to_wait, stoptime>>
        /\ UNCHANGED <<worker_table, ready_list>> /\ pc = "links" /\ pc' = StageAfterPoll
    BY <1>2 DEF PollDone, taskvars, peervars, statvars
  <2>2. Named' /\ pc' = StageAfterPoll'
    BY <1>0, <2>1 DEF Named, StageAfterPoll, Known
  <2>3. IInv'
    BY <1>2, LoopStep, Zenon
  <2>4. stoptime' = "none" /\ ((running_tasks \cup finished_tasks)' # {} => workers_to_wait' = 0)
    BY <2>1 DEF Fetched
  <2> QED BY <2>2, <2>3, <2>4, PollFetched, Zenon
<1>3. CASE TransferDone
  <2>1. /\ UNCHANGED <<running_tasks, finished_tasks, worker_task_map, hostname,
                       workers_with_available_results, stoptime>>
        /\ finished_tasks = {} /\ workers_to_wait' = 0
    BY <1>3 DEF TransferDone, taskvars, peervars
  <2> QED BY <1>0, <2>1, FetchedKept DEF Named
<1> QED BY <1>1, <1>2, <1>3

LEMMA FetchedStep ==
  ASSUME WaitsToTheEnd, IInv, Fetched, [Next]_vars PROVE Fetched'
<1> USE DEF Between, IInv, TypeOK, TablesTypeOK
<1>0. Named /\ stoptime = "none"
  BY DEF Fetched
<1>1. ASSUME UNCHANGED <<running_tasks, finished_tasks, worker_task_map, hostname,
                         workers_with_available_results, workers_to_wait>>,
             stoptime' = stoptime, pc' = pc \/ (pc \in Between /\ pc' \in Between \cup {"links"})
      PROVE  Fetched'
  BY <1>0, <1>1, FetchedKept DEF Named
<1>2. ASSUME NEW w \in worker_table, NEW t \in current_tasks[w], CancelAllTask(w, t) PROVE Fetched'
  <2>1. /\ UNCHANGED <<hostname, workers_with_available_results, pc, stoptime, workers_to_wait>>
        /\ worker_task_map' = [worker_task_map EXCEPT ![t] = NoWorker]
        /\ finished_tasks' = finished_tasks \ {t} /\ running_tasks' = running_tasks \ {t}
    BY <1>2, Zenon DEF CancelAllTask, peervars, loopvars, statvars
  <2>2. Named'
    BY <1>0, <2>1, ReapNamed, Zenon
  <2> QED BY <2>1, <2>2, FetchedKept
<1>3. CASE \E w \in worker_table : HandleWorker(w) \/ RecvDuringTransfer(w) \/ AbortSlowWorker(w)
  <2>1. PICK w \in worker_table : RecvWorkerMsg(w) \/ ForgetWorker(w)
    BY <1>3, Zenon DEF HandleWorker, RecvDuringTransfer, AbortSlowWorker, RemoveWorker
  <2>2. UNCHANGED <<pc, stoptime, workers_to_wait>>
    BY <1>3, Zenon DEF HandleWorker, RecvDuringTransfer, AbortSlowWorker, loopvars, statvars
  <2> QED BY <1>0, <2>1, <2>2, ForgetWorkerNamed, RecvNamed, FetchedKept
<1>4. CASE RemoveUnresponsiveWorkers
  <2>1. pc = "loop" /\ pc' = "pop" /\ UNCHANGED <<stoptime, workers_to_wait>>
    BY <1>4 DEF RemoveUnresponsiveWorkers, statvars
  <2>2. CASE \E w \in worker_table : RemoveWorker(w)
    BY <1>0, <2>1, <2>2, ForgetWorkerNamed, FetchedKept DEF RemoveWorker
  <2>3. CASE UNCHANGED <<taskvars, peervars>>
    BY <1>1, <2>1, <2>3 DEF taskvars, peervars
  <2> QED BY <1>4, <2>2, <2>3 DEF RemoveUnresponsiveWorkers
<1>5. CASE CancelAllDone \/ WaitReturnsTask \/ WaitFindsNothing \/ PollLinks \/ WaitAgain \/ WaitTimesOut
  <2>1. UNCHANGED <<running_tasks, finished_tasks, worker_task_map, hostname,
                    workers_with_available_results, workers_to_wait>>
    BY <1>5, Zenon DEF CancelAllDone, WaitReturnsTask, WaitFindsNothing, PollLinks, WaitAgain, WaitTimesOut,
                taskvars, peervars, statvars
  <2>2. stoptime' = stoptime /\ pc \in Between /\ pc' \in Between \cup {"links"}
    BY <1>0, <1>5 DEF CancelAllDone, WaitReturnsTask, WaitFindsNothing, PollLinks, WaitAgain, WaitTimesOut,
                      Return, TimeLeft
  <2> QED BY <1>1, <2>1, <2>2
<1>6. ASSUME NEW w \in worker_table, CommitTask(w) PROVE Fetched'
  <2> DEFINE t == Head(ready_list)
  <2>1. ready_list \in Seq(Task) /\ IsInjective(ready_list) /\ ready_list # << >>
    BY <1>6 DEF CommitTask, OnePlace, StagesOK
  <2>2. t \in Task /\ t \notin finished_tasks
    BY <2>1, TailList DEF OnePlace
  <2>3. /\ UNCHANGED <<finished_tasks, hostname, workers_with_available_results, stoptime>>
        /\ worker_task_map' = [worker_task_map EXCEPT ![t] = w] /\ pc' = "send"
    BY <1>6 DEF CommitTask, peervars
  <2> HIDE DEF t
  <2>4. \A u \in finished_tasks : worker_task_map'[u] = worker_task_map[u]
    BY <2>2, <2>3
  <2> QED BY <1>0, <2>3, <2>4 DEF Fetched, Named
<1>7. CASE NoWorkerFits
  <2>1. /\ UNCHANGED <<running_tasks, finished_tasks, worker_task_map, hostname,
                       workers_with_available_results, workers_to_wait, stoptime>>
        /\ pc' = "receive"
    BY <1>7 DEF NoWorkerFits, peervars, statvars
  <2> QED BY <1>0, <2>1, FetchedKept DEF Named
<1>8. CASE UNCHANGED vars
  <2>1. UNCHANGED <<running_tasks, finished_tasks, worker_task_map, hostname,
                    workers_with_available_results, workers_to_wait, stoptime, pc>>
    BY <1>8, Zenon DEF vars, taskvars, peervars, statvars, loopvars
  <2> QED BY <1>0, <2>1, FetchedKept DEF Named
<1>9. CASE Progress
  BY <1>2, <1>3, <1>4, <1>5, <1>6, <1>7, <1>9, TransferFetched, ReceiveFetched, Zenon DEF Progress
<1> QED BY <1>3, <1>8, <1>9, ApplicationFetched, Zenon DEF Next

\* work_queue_wait without a timeout gives NULL only if no task is left, though it
\* does not look at finished_tasks: in every round the results received are fetched
\* before the test.  A timeout (receive_tasks stops early), a process module or a
\* work_queue_activate_worker_waiting while tasks run can break that.
THEOREM NothingMeansEmpty == ASSUME WaitsToTheEnd PROVE Spec => NullOnlyWhenEmpty
<1>1. Init => Fetched
  BY DEF Init, Fetched, Named
<1>2. IInv /\ Fetched /\ [Next]_vars => Fetched'
  BY FetchedStep
<1>3. IInv /\ Fetched => [WaitFindsNothing => Held = {}]_vars
  <2> SUFFICES ASSUME IInv, Fetched, WaitFindsNothing PROVE Held = {}
    OBVIOUS
  <2>1. complete_list = << >> /\ ready_list = << >> /\ running_tasks = {} /\ pc = "pop"
    BY DEF WaitFindsNothing, WaitsToTheEnd
  <2>2. finished_tasks = {}
    BY <2>1 DEF Fetched, Between
  <2> QED BY <2>1, <2>2, EmptyList DEF Held
<1> QED BY <1>1, <1>2, <1>3, Inductive, PTL DEF Spec, NullOnlyWhenEmpty

=============================================================================
