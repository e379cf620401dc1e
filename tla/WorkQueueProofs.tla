--------------------------- MODULE WorkQueueProofs ---------------------------
(***************************************************************************)
(* Proofs about WorkQueue, for any number of tasks and workers, any        *)
(* requests and offers, and any choice of the calls the application makes. *)
(***************************************************************************)
EXTENDS WorkQueue, ListLemmas

\* What the stages of the wait loop rely on: start_tasks peeks at a head that
\* exists, start_one_task works on a task that is committed, and no link of
\* an earlier poll is left unhandled.  It carries the induction.
StagesOK ==
  /\ pc = "start" => ready_list # << >>
  /\ IF pc = "send" THEN sending \in running_tasks ELSE sending = NoTask
  /\ pc # "links" => polled = {}

IInv == TypeOK /\ OnePlace /\ MapConsistent /\ StagesOK

\* The part of IInv that a stage can only disturb through the tables.
Tables == TablesTypeOK /\ OnePlace /\ MapConsistent

------------------------------------------------------------------------------
(* What the operations shared by the stages do to the tables.               *)

LEMMA Sentinels == NoWorker \notin Worker /\ NoTask \notin Task
BY ConstantsOK

LEMMA ChargeType == \A t \in Task : Charge(t) \in [Charged -> Nat]
<1>1. \A n \in Int : AtLeast0(n) \in Nat
  BY DEF AtLeast0
<1>2. \A t \in Task, r \in Resource : Request[t][r] \in Int
  BY ConstantsOK
<1> QED BY <1>1, <1>2 DEF Charge, Charged

LEMMA ReleasedType ==
  ASSUME TablesTypeOK, NEW w \in Worker, NEW t \in Task
  PROVE  Released(w, t) \in [Charged -> Int]
<1>1. \A c \in Charged : allocated[w][c] \in Int /\ Charge(t)[c] \in Int
  BY ChargeType DEF TablesTypeOK
<1>2. \A n \in Int : AtLeast0(n) \in Int
  BY DEF AtLeast0
<1> QED BY <1>1, <1>2 DEF Released

\* Steps that leave the tables of tasks alone, and only add workers.
LEMMA TablesUnchanged ==
  ASSUME Tables, TablesTypeOK', UNCHANGED taskvars, worker_table \subseteq worker_table'
  PROVE  Tables'
BY DEF Tables, OnePlace, MapConsistent, taskvars

\* remove_worker, but for the ready list: every task of w leaves the tables.
LEMMA ForgetWorkerTables ==
  ASSUME Tables, NEW w \in worker_table, ForgetWorker(w)
  PROVE  /\ worker_table' \subseteq Worker
         /\ worker_table' = worker_table \ {w}
         /\ running_tasks' = running_tasks \ current_tasks[w]
         /\ finished_tasks' = finished_tasks \ current_tasks[w]
         /\ running_tasks' \subseteq Task /\ finished_tasks' \subseteq Task
         /\ current_tasks' \in [Worker -> SUBSET Task]
         /\ worker_task_map' \in [Task -> Worker \cup {NoWorker}]
         /\ workers_with_available_results' \subseteq worker_table'
         /\ hostname' \in [Worker -> {"unknown", "named", "QUEUE_STATUS"}]
         /\ resources' \in [Worker -> [Category -> Nat]]
         /\ allocated' \in [Worker -> [Charged -> Int]]
         /\ result' \in [Task -> SUBSET Flag]
         /\ complete_list' = complete_list
         /\ MapConsistent'
<1> USE DEF Tables, TablesTypeOK
<1>1. w \in Worker /\ current_tasks[w] \subseteq Task
  OBVIOUS
<1>2. running_tasks' = running_tasks \ current_tasks[w]
      /\ finished_tasks' = finished_tasks \ current_tasks[w]
      /\ worker_table' = worker_table \ {w}
      /\ complete_list' = complete_list
  BY DEF ForgetWorker
<1>3. current_tasks' \in [Worker -> SUBSET Task]
      /\ worker_task_map' \in [Task -> Worker \cup {NoWorker}]
  BY DEF ForgetWorker
<1>4. workers_with_available_results' \subseteq worker_table'
  BY DEF ForgetWorker, PendingAfterRemoval
<1>5. hostname' \in [Worker -> {"unknown", "named", "QUEUE_STATUS"}]
      /\ resources' \in [Worker -> [Category -> Nat]]
      /\ allocated' \in [Worker -> [Charged -> Int]]
  BY DEF ForgetWorker, NoResources, NoAllocation
<1>6. result' \in [Task -> SUBSET Flag]
  BY DEF ForgetWorker, ResultAfterCleanup
<1>7. MapConsistent'
  <2>1. \A t \in Task : worker_task_map'[t]
          = IF t \in current_tasks[w] THEN NoWorker ELSE worker_task_map[t]
    BY DEF ForgetWorker
  <2>2. \A t \in Task : t \in current_tasks[w] <=> worker_task_map[t] = w
    BY <1>1 DEF MapConsistent
  <2>3. \A v \in Worker : current_tasks'[v] = IF v = w THEN {} ELSE current_tasks[v]
    BY <1>1 DEF ForgetWorker
  <2>4. \A t \in Task : t \in (running_tasks \cup finished_tasks)'
                          <=> worker_task_map'[t] # NoWorker
    BY <1>2, <2>1 DEF MapConsistent
  <2>5. ASSUME NEW v \in Worker
        PROVE  current_tasks'[v] = {t \in Task : worker_task_map'[t] = v}
    <3>1. CASE v = w
      <4>1. \A t \in Task : worker_task_map'[t] # w
        BY <1>1, <2>1, <2>2, Sentinels, Zenon
      <4> QED BY <2>3, <3>1, <4>1
    <3>2. CASE v # w
      <4>1. current_tasks'[v] = {t \in Task : worker_task_map[t] = v}
        BY <2>3, <3>2 DEF MapConsistent
      <4>2. \A t \in Task : worker_task_map'[t] = v <=> worker_task_map[t] = v
        BY <2>1, <2>2, <3>2, Sentinels
      <4> QED BY <4>1, <4>2
    <3> QED BY <3>1, <3>2
  <2>6. \A t \in Task : worker_task_map'[t] # NoWorker
                          => worker_task_map'[t] \in worker_table'
    BY <1>2, <2>1, <2>2 DEF MapConsistent
  <2> QED BY <2>4, <2>5, <2>6 DEF MapConsistent
<1> QED BY <1>1, <1>2, <1>3, <1>4, <1>5, <1>6, <1>7

\* remove_worker: the tasks of w move from the tables to the ready list.
LEMMA RemoveWorkerTables ==
  ASSUME Tables, UNCHANGED histvars, NEW w \in worker_table, RemoveWorker(w)
  PROVE  /\ Tables'
         /\ worker_table' = worker_table \ {w}
         /\ running_tasks' = running_tasks \ current_tasks[w]
         /\ Range(ready_list') = current_tasks[w] \cup Range(ready_list)
         /\ Held' = Held
<1> USE DEF Tables
<1>1. PICK order \in Orders(current_tasks[w]) : ready_list' = order \o ready_list
  BY Zenon DEF RemoveWorker
<1>2. w \in Worker /\ current_tasks[w] \subseteq Task
  BY DEF TablesTypeOK
<1>3. order \in Seq(Task) /\ Range(order) = current_tasks[w] /\ IsInjective(order)
  <2>1. IsFiniteSet(current_tasks[w])
    BY <1>2, ConstantsOK, FS_Subset
  <2>2. order \in Seq(current_tasks[w]) /\ Range(order) = current_tasks[w]
        /\ IsInjective(order)
    BY <2>1, OrderList DEF Orders
  <2> QED BY <1>2, <2>2, SeqMonotonic
<1>4. current_tasks[w] \subseteq running_tasks \cup finished_tasks
  BY <1>2, Sentinels DEF MapConsistent
<1>5. ready_list \in Seq(Task) /\ complete_list \in Seq(Task)
      /\ IsInjective(ready_list) /\ IsInjective(complete_list)
  BY DEF TablesTypeOK, OnePlace
<1>6. Range(order) \cap Range(ready_list) = {}
  BY <1>3, <1>4 DEF OnePlace
<1>7. /\ ready_list' \in Seq(Task)
      /\ Range(ready_list') = current_tasks[w] \cup Range(ready_list)
      /\ IsInjective(ready_list')
  BY <1>1, <1>3, <1>5, <1>6, ConcatList
<1>8. ForgetWorker(w)
  BY DEF RemoveWorker
<1>9. TablesTypeOK' /\ MapConsistent'
  BY <1>5, <1>7, <1>8, ForgetWorkerTables DEF TablesTypeOK, histvars
<1>10. running_tasks' = running_tasks \ current_tasks[w]
       /\ finished_tasks' = finished_tasks \ current_tasks[w]
       /\ complete_list' = complete_list /\ worker_table' = worker_table \ {w}
  BY <1>8, ForgetWorkerTables
<1>11. OnePlace'
  BY <1>4, <1>5, <1>7, <1>10 DEF OnePlace
<1>12. Held' = Held
  BY <1>4, <1>7, <1>10 DEF Held
<1> QED BY <1>7, <1>9, <1>10, <1>11, <1>12

\* reap_task_from_worker and the removal from finished_tasks that follows it.
LEMMA ReapTables ==
  ASSUME Tables, NEW t \in running_tasks \cup finished_tasks, Reap(t),
         finished_tasks' = finished_tasks \ {t},
         UNCHANGED worker_table
  PROVE  /\ running_tasks' = running_tasks \ {t}
         /\ current_tasks' \in [Worker -> SUBSET Task]
         /\ worker_task_map' \in [Task -> Worker \cup {NoWorker}]
         /\ allocated' \in [Worker -> [Charged -> Int]]
         /\ MapConsistent'
<1> USE DEF Tables
<1> DEFINE w == worker_task_map[t]
<1>1. t \in Task /\ w \in Worker /\ w \in worker_table
  BY DEF TablesTypeOK, MapConsistent
<1>2. running_tasks' = running_tasks \ {t}
  BY DEF Reap
<1>3. current_tasks' \in [Worker -> SUBSET Task]
      /\ worker_task_map' \in [Task -> Worker \cup {NoWorker}]
  BY Zenon DEF Reap, TablesTypeOK
<1>4. allocated' \in [Worker -> [Charged -> Int]]
  BY <1>1, ReleasedType DEF Reap, TablesTypeOK
<1>5. \A u \in Task : worker_task_map'[u] = IF u = t THEN NoWorker ELSE worker_task_map[u]
  BY DEF Reap, TablesTypeOK
<1>6. \A v \in Worker : current_tasks'[v]
        = IF v = w THEN current_tasks[v] \ {t} ELSE current_tasks[v]
  BY Zenon DEF Reap, TablesTypeOK
<1> HIDE DEF w
<1>7. \A u \in Task : u \in (running_tasks \cup finished_tasks)'
                        <=> worker_task_map'[u] # NoWorker
  BY <1>2, <1>5 DEF MapConsistent
<1>8. ASSUME NEW v \in Worker
      PROVE  current_tasks'[v] = {u \in Task : worker_task_map'[u] = v}
  <2>1. current_tasks[v] = {u \in Task : worker_task_map[u] = v}
    BY DEF MapConsistent
  <2>2. v # NoWorker
    BY Sentinels
  <2> HIDE DEF Tables
  <2>3. CASE v = w
    <3>1. current_tasks'[v] = current_tasks[v] \ {t}
      BY <1>6, <2>3, Zenon
    <3> QED BY <1>5, <2>1, <2>2, <3>1
  <2>4. CASE v # w
    <3>1. current_tasks'[v] = current_tasks[v]
      BY <1>6, <2>4, Zenon
    <3>2. worker_task_map[t] # v
      BY <2>4 DEF w
    <3> QED BY <1>5, <2>1, <2>2, <3>1, <3>2
  <2> QED BY <2>3, <2>4, Zenon
<1>9. \A u \in Task : worker_task_map'[u] # NoWorker
                        => worker_task_map'[u] \in worker_table'
  BY <1>5 DEF MapConsistent
<1> QED BY <1>2, <1>3, <1>4, <1>7, <1>8, <1>9 DEF MapConsistent

\* The updates that recv_worker_msg consumes.
LEMMA RecvWorkerMsgTables ==
  ASSUME Tables, UNCHANGED histvars, NEW w \in worker_table, RecvWorkerMsg(w)
  PROVE  Tables' /\ UNCHANGED <<taskvars, worker_table>> /\ Held' = Held
<1> USE DEF Tables
<1>1. UNCHANGED <<taskvars, worker_table, allocated, result>>
  BY DEF RecvWorkerMsg
<1>2. /\ workers_with_available_results' \subseteq worker_table
      /\ hostname' \in [Worker -> {"unknown", "named", "QUEUE_STATUS"}]
      /\ resources' \in [Worker -> [Category -> Nat]]
  <2>1. CASE RecvWorkqueue(w)
    BY <2>1 DEF RecvWorkqueue, TablesTypeOK
  <2>2. CASE RecvStatus(w)
    BY <2>2 DEF RecvStatus, TablesTypeOK
  <2>3. CASE RecvAvailable(w)
    BY <2>3 DEF RecvAvailable, TablesTypeOK
  <2>4. CASE RecvResource(w)
    <3>1. PICK c \in Category : \E n \in Offer[c] :
            resources' = [resources EXCEPT ![w][c] = n]
      BY <2>4, Zenon DEF RecvResource
    <3>2. PICK n \in Offer[c] : resources' = [resources EXCEPT ![w][c] = n]
      BY <3>1, Zenon
    <3>3. n \in Nat
      BY ConstantsOK
    <3> QED BY <2>4, <3>2, <3>3, Zenon DEF RecvResource, TablesTypeOK
  <2>5. CASE RecvAlive(w)
    BY <2>5 DEF RecvAlive, TablesTypeOK
  <2> QED BY <2>1, <2>2, <2>3, <2>4, <2>5 DEF RecvWorkerMsg
<1>3. TablesTypeOK'
  BY <1>1, <1>2 DEF TablesTypeOK, taskvars, histvars
<1>4. Held' = Held
  BY <1>1 DEF Held, taskvars
<1> QED BY <1>1, <1>3, <1>4, TablesUnchanged DEF taskvars

------------------------------------------------------------------------------
(* Every step keeps IInv, and is a step of TaskPool or leaves it alone.     *)

PoolVars == <<Held, delivered, withdrawn>>
PoolStep == Pool!Next \/ UNCHANGED PoolVars

\* Steps of the wait loop that only read the tables.
LEMMA ReadOnlyStep ==
  ASSUME IInv, UNCHANGED <<taskvars, peervars, allocated, result, histvars>>
  PROVE  Tables' /\ PoolStep
<1>1. TablesTypeOK'
  BY DEF IInv, TypeOK, TablesTypeOK, taskvars, peervars, histvars
<1>2. Tables'
  BY <1>1, TablesUnchanged DEF IInv, TypeOK, Tables, peervars
<1>3. UNCHANGED PoolVars
  BY DEF PoolVars, Held, taskvars, histvars
<1> QED BY <1>2, <1>3 DEF PoolStep

LEMMA InitInv == Init => IInv
<1> SUFFICES ASSUME Init PROVE IInv
  OBVIOUS
<1>1. TablesTypeOK
  BY DEF Init, TablesTypeOK, NoResources, NoAllocation
<1>2. LoopTypeOK
  BY ConstantsOK DEF Init, LoopTypeOK
<1>3. OnePlace
  BY EmptyList DEF Init, OnePlace
<1>4. MapConsistent
  BY Sentinels DEF Init, MapConsistent
<1>5. StagesOK
  BY DEF Init, StagesOK
<1> QED BY <1>1, <1>2, <1>3, <1>4, <1>5 DEF IInv, TypeOK

LEMMA SubmitStep ==
  ASSUME IInv, NEW t \in Task, Submit(t)
  PROVE  IInv' /\ PoolStep
<1> USE DEF IInv, TypeOK, Tables
<1>1. ready_list \in Seq(Task) /\ IsInjective(ready_list) /\ t \notin Range(ready_list)
  BY DEF Submit, TablesTypeOK, OnePlace, Held
<1>2. /\ ready_list' \in Seq(Task)
      /\ Range(ready_list') = Range(ready_list) \cup {t}
      /\ IsInjective(ready_list')
  BY <1>1, AppendList, ConsList DEF Submit
<1>3. /\ UNCHANGED <<running_tasks, finished_tasks, complete_list, current_tasks,
                     worker_task_map, worker_table, delivered, withdrawn>>
      /\ t \notin Held \cup delivered \cup withdrawn
  BY DEF Submit, peervars, histvars
<1>4. TablesTypeOK'
  BY <1>2 DEF Submit, TablesTypeOK, peervars, histvars
<1>5. OnePlace'
  BY <1>2, <1>3 DEF OnePlace, Held
<1>6. MapConsistent'
  BY <1>3 DEF MapConsistent
<1>7. LoopTypeOK' /\ StagesOK'
  BY <1>3 DEF Submit, LoopTypeOK, StagesOK, statvars, loopvars
<1>8. Held' = Held \cup {t}
  BY <1>2, <1>3 DEF Held
<1>9. Pool!Submit(t)
  BY <1>3, <1>8 DEF Pool!Submit
<1> QED BY <1>4, <1>5, <1>6, <1>7, <1>9 DEF PoolStep, Pool!Next

LEMMA CancelStep ==
  ASSUME IInv, NEW t \in Task, pc = "app", Cancel(t)
  PROVE  IInv' /\ PoolStep
<1> USE DEF IInv, TypeOK, Tables
<1>1. /\ UNCHANGED <<worker_table, workers_with_available_results, hostname, resources>>
      /\ withdrawn' = withdrawn \cup {t} /\ delivered' = delivered
      /\ result' \in [Task -> SUBSET Flag]
  BY DEF Cancel, peervars, TablesTypeOK
<1>2. ready_list \in Seq(Task) /\ complete_list \in Seq(Task)
      /\ IsInjective(ready_list) /\ IsInjective(complete_list)
  BY DEF TablesTypeOK, OnePlace
<1>3. TablesTypeOK' /\ OnePlace' /\ MapConsistent' /\ Held' = Held \ {t} /\ t \in Held
  <2>1. CASE /\ t \in running_tasks \cup finished_tasks
             /\ Reap(t)
             /\ finished_tasks' = finished_tasks \ {t}
             /\ UNCHANGED <<ready_list, complete_list>>
    <3>1. /\ running_tasks' = running_tasks \ {t}
          /\ current_tasks' \in [Worker -> SUBSET Task]
          /\ worker_task_map' \in [Task -> Worker \cup {NoWorker}]
          /\ allocated' \in [Worker -> [Charged -> Int]]
          /\ MapConsistent'
      BY <1>1, <2>1, ReapTables
    <3>2. TablesTypeOK'
      BY <1>1, <2>1, <3>1 DEF TablesTypeOK
    <3>3. OnePlace' /\ Held' = Held \ {t} /\ t \in Held
      BY <2>1, <3>1 DEF OnePlace, Held
    <3> QED BY <3>1, <3>2, <3>3
  <2>2. CASE /\ \E i \in DOMAIN ready_list :
                  ready_list[i] = t /\ ready_list' = RemoveAt(ready_list, i)
             /\ UNCHANGED <<running_tasks, finished_tasks, complete_list, current_tasks,
                            worker_task_map, allocated>>
    <3>1. PICK i \in DOMAIN ready_list :
            ready_list[i] = t /\ ready_list' = RemoveAt(ready_list, i)
      BY <2>2
    <3>2. /\ ready_list' \in Seq(Task) /\ IsInjective(ready_list')
          /\ Range(ready_list') = Range(ready_list) \ {t} /\ t \in Range(ready_list)
      BY <1>2, <3>1, RemoveAtList, Zenon DEF Range
    <3>3. TablesTypeOK'
      BY <1>1, <2>2, <3>2 DEF TablesTypeOK
    <3>4. OnePlace' /\ Held' = Held \ {t} /\ t \in Held
      BY <2>2, <3>2 DEF OnePlace, Held
    <3>5. MapConsistent'
      BY <1>1, <2>2 DEF MapConsistent
    <3> QED BY <3>3, <3>4, <3>5
  <2>3. CASE /\ \E i \in DOMAIN complete_list :
                  complete_list[i] = t /\ complete_list' = RemoveAt(complete_list, i)
             /\ UNCHANGED <<ready_list, running_tasks, finished_tasks, current_tasks,
                            worker_task_map, allocated>>
    <3>1. PICK i \in DOMAIN complete_list :
            complete_list[i] = t /\ complete_list' = RemoveAt(complete_list, i)
      BY <2>3
    <3>2. /\ complete_list' \in Seq(Task) /\ IsInjective(complete_list')
          /\ Range(complete_list') = Range(complete_list) \ {t} /\ t \in Range(complete_list)
      BY <1>2, <3>1, RemoveAtList, Zenon DEF Range
    <3>3. TablesTypeOK'
      BY <1>1, <2>3, <3>2 DEF TablesTypeOK
    <3>4. OnePlace' /\ Held' = Held \ {t} /\ t \in Held
      BY <2>3, <3>2 DEF OnePlace, Held
    <3>5. MapConsistent'
      BY <1>1, <2>3 DEF MapConsistent
    <3> QED BY <3>3, <3>4, <3>5
  <2> QED BY <2>1, <2>2, <2>3 DEF Cancel
<1>4. LoopTypeOK' /\ StagesOK'
  BY <1>1 DEF Cancel, LoopTypeOK, StagesOK, statvars, loopvars
<1>5. Pool!Withdraw({t}) /\ {t} \in SUBSET Held
  BY <1>1, <1>3 DEF Pool!Withdraw
<1> QED BY <1>3, <1>4, <1>5 DEF PoolStep, Pool!Next

LEMMA CancelAllTasksStep ==
  ASSUME IInv, CancelAllTasks
  PROVE  IInv' /\ PoolStep
<1> USE DEF IInv, TypeOK, Tables
<1>1. /\ ready_list' = << >> /\ complete_list' = << >>
      /\ UNCHANGED <<running_tasks, finished_tasks, current_tasks, worker_task_map,
                     worker_table, delivered>>
      /\ withdrawn' = withdrawn \cup (Range(ready_list) \cup Range(complete_list))
  BY DEF CancelAllTasks
<1>2. Range(ready_list) \subseteq Task /\ Range(complete_list) \subseteq Task
  BY DEF TablesTypeOK, Range
<1>3. TablesTypeOK'
  BY <1>1, <1>2 DEF CancelAllTasks, TablesTypeOK
<1>4. OnePlace'
  BY <1>1, EmptyList DEF OnePlace
<1>5. MapConsistent'
  BY <1>1 DEF MapConsistent
<1>6. LoopTypeOK' /\ StagesOK'
  BY <1>1 DEF CancelAllTasks, LoopTypeOK, StagesOK, statvars
<1>7. Held' = Held \ (Range(ready_list) \cup Range(complete_list))
  BY <1>1, EmptyList DEF Held, OnePlace
<1>8. Pool!Withdraw(Range(ready_list) \cup Range(complete_list))
  BY <1>1, <1>7 DEF Pool!Withdraw, Held
<1>9. Range(ready_list) \cup Range(complete_list) \in SUBSET Held
  BY DEF Held
<1> QED BY <1>3, <1>4, <1>5, <1>6, <1>8, <1>9 DEF PoolStep, Pool!Next

LEMMA CancelAllTaskStep ==
  ASSUME IInv, NEW w \in worker_table, NEW t \in current_tasks[w], CancelAllTask(w, t)
  PROVE  IInv' /\ PoolStep
<1> USE DEF IInv, TypeOK, Tables
<1>1. w \in Worker /\ t \in Task /\ worker_task_map[t] = w
      /\ t \in running_tasks \cup finished_tasks
  BY Sentinels DEF TablesTypeOK, MapConsistent
<1>2. /\ UNCHANGED <<ready_list, complete_list, worker_table, delivered,
                     workers_with_available_results, hostname, resources>>
      /\ running_tasks' = running_tasks \ {t}
      /\ finished_tasks' = finished_tasks \ {t}
      /\ withdrawn' = withdrawn \cup {t}
  BY DEF CancelAllTask, peervars
<1>3. allocated' \in [Worker -> [Charged -> Int]]
  <2> DEFINE a == [c \in Charged |-> IF c = "unlabeled" THEN allocated[w][c]
                                     ELSE allocated[w][c] - Request[t][c]]
  <2>1. \A r \in Resource : Request[t][r] \in Int
    BY <1>1, ConstantsOK
  <2>2. a \in [Charged -> Int]
    BY <1>1, <2>1 DEF TablesTypeOK, Charged
  <2>3. allocated' = [allocated EXCEPT ![w] = a]
    BY DEF CancelAllTask
  <2> QED BY <2>2, <2>3 DEF TablesTypeOK
<1>4. TablesTypeOK'
  BY <1>1, <1>2, <1>3 DEF CancelAllTask, TablesTypeOK
<1>5. OnePlace' /\ Held' = Held \ {t} /\ t \in Held
  BY <1>1, <1>2 DEF OnePlace, Held
<1>6. MapConsistent'
  <2>1. \A u \in Task : worker_task_map'[u] = IF u = t THEN NoWorker ELSE worker_task_map[u]
    BY DEF CancelAllTask, TablesTypeOK
  <2>2. \A v \in Worker : current_tasks'[v]
          = IF v = w THEN current_tasks[v] \ {t} ELSE current_tasks[v]
    <3>1. current_tasks' = [current_tasks EXCEPT ![w] = @ \ {t}]
      BY Zenon DEF CancelAllTask
    <3> QED BY <3>1, Zenon DEF TablesTypeOK
  <2>3. \A u \in Task : u \in (running_tasks \cup finished_tasks)'
                          <=> worker_task_map'[u] # NoWorker
    BY <1>2, <2>1 DEF MapConsistent
  <2>4. ASSUME NEW v \in Worker
        PROVE  current_tasks'[v] = {u \in Task : worker_task_map'[u] = v}
    <3>1. current_tasks[v] = {u \in Task : worker_task_map[u] = v}
      BY DEF MapConsistent
    <3>2. v # NoWorker
      BY Sentinels
    <3> HIDE DEF IInv, TypeOK, Tables
    <3>3. CASE v = w
      <4>1. current_tasks'[v] = current_tasks[v] \ {t}
        BY <2>2, <3>3, Zenon
      <4> QED BY <2>1, <3>1, <3>2, <4>1
    <3>4. CASE v # w
      <4>1. current_tasks'[v] = current_tasks[v]
        BY <2>2, <3>4, Zenon
      <4>2. worker_task_map[t] # v
        BY <1>1, <3>4
      <4> QED BY <2>1, <3>1, <3>2, <4>1, <4>2
    <3> QED BY <3>3, <3>4, Zenon
  <2>5. \A u \in Task : worker_task_map'[u] # NoWorker
                          => worker_task_map'[u] \in worker_table'
    BY <1>2, <2>1 DEF MapConsistent
  <2> QED BY <2>3, <2>4, <2>5 DEF MapConsistent
<1>7. LoopTypeOK' /\ StagesOK'
  BY <1>2 DEF CancelAllTask, LoopTypeOK, StagesOK, statvars, loopvars
<1>8. Pool!Withdraw({t}) /\ {t} \in SUBSET Held
  BY <1>2, <1>5 DEF Pool!Withdraw
<1> QED BY <1>4, <1>5, <1>6, <1>7, <1>8, Zenon DEF PoolStep, Pool!Next

LEMMA ResetAllStep ==
  ASSUME IInv, ResetAll
  PROVE  IInv' /\ PoolStep
<1> USE DEF IInv, TypeOK, Tables
<1>1. ready_list' = << >> /\ delivered' = delivered
  BY DEF ResetAll
<1>2. Range(ready_list) \subseteq Task
  BY DEF TablesTypeOK, Range
<1>3. ASSUME NEW w \in worker_table, ForgetWorker(w),
             withdrawn' = withdrawn \cup Range(ready_list) \cup current_tasks[w]
      PROVE  IInv' /\ PoolStep
  <2>1. /\ worker_table' \subseteq Worker
        /\ worker_table' = worker_table \ {w}
        /\ running_tasks' = running_tasks \ current_tasks[w]
        /\ finished_tasks' = finished_tasks \ current_tasks[w]
        /\ complete_list' = complete_list
        /\ MapConsistent'
    BY <1>3, ForgetWorkerTables
  <2>2. current_tasks[w] \subseteq running_tasks \cup finished_tasks
        /\ current_tasks[w] \subseteq Task
    BY Sentinels DEF TablesTypeOK, MapConsistent
  <2>3. TablesTypeOK'
    BY <1>1, <1>2, <1>3, <2>2, ForgetWorkerTables DEF TablesTypeOK
  <2>4. OnePlace'
    BY <1>1, <2>1, EmptyList DEF OnePlace
  <2>5. LoopTypeOK' /\ StagesOK'
    BY <2>1 DEF ResetAll, LoopTypeOK, StagesOK, statvars, loopvars
  <2>6. Held' = Held \ (Range(ready_list) \cup current_tasks[w])
    BY <1>1, <2>1, <2>2, EmptyList DEF Held, OnePlace
  <2>7. Range(ready_list) \cup current_tasks[w] \in SUBSET Held
    BY <2>2 DEF Held
  <2>8. Pool!Withdraw(Range(ready_list) \cup current_tasks[w])
    BY <1>1, <1>3, <2>6, <2>7 DEF Pool!Withdraw
  <2> QED BY <2>1, <2>3, <2>4, <2>5, <2>7, <2>8 DEF PoolStep, Pool!Next
<1>4. ASSUME withdrawn' = withdrawn \cup Range(ready_list),
             UNCHANGED <<running_tasks, finished_tasks, complete_list, current_tasks,
                         worker_task_map, peervars, allocated, result>>
      PROVE  IInv' /\ PoolStep
  <2>1. TablesTypeOK'
    BY <1>1, <1>2, <1>4 DEF TablesTypeOK, peervars
  <2>2. OnePlace'
    BY <1>1, <1>4, EmptyList DEF OnePlace
  <2>3. MapConsistent'
    BY <1>4 DEF MapConsistent, peervars
  <2>4. LoopTypeOK' /\ StagesOK'
    BY <1>4 DEF ResetAll, LoopTypeOK, StagesOK, statvars, loopvars, peervars
  <2>5. Held' = Held \ Range(ready_list) /\ Range(ready_list) \in SUBSET Held
    BY <1>1, <1>4, EmptyList DEF Held, OnePlace
  <2>6. Pool!Withdraw(Range(ready_list))
    BY <1>1, <1>4, <2>5 DEF Pool!Withdraw
  <2> QED BY <2>1, <2>2, <2>3, <2>4, <2>5, <2>6 DEF PoolStep, Pool!Next
<1> QED BY <1>3, <1>4 DEF ResetAll

\* Steps whose only effect on the tables is to remove a worker.
LEMMA RemovalStep ==
  ASSUME IInv, UNCHANGED histvars, NEW w \in worker_table, RemoveWorker(w)
  PROVE  Tables' /\ PoolStep /\ worker_table' = worker_table \ {w}
<1>1. Tables
  BY DEF IInv, TypeOK, Tables
<1>2. Tables' /\ worker_table' = worker_table \ {w} /\ Held' = Held
  BY <1>1, RemoveWorkerTables
<1> QED BY <1>2 DEF PoolStep, PoolVars, histvars

\* work_queue_shut_down_workers, work_queue_reset and the waiting for workers.
LEMMA WorkerCallsStep ==
  ASSUME IInv, ShutDownWorkers \/ ResetKeepTasks \/ ActivateWorkerWaiting
  PROVE  IInv' /\ PoolStep
<1> USE DEF IInv, TypeOK, Tables
<1>1. CASE ShutDownWorkers \/ ResetKeepTasks
  <2>1. PICK w \in worker_table : RemoveWorker(w)
    BY <1>1 DEF ShutDownWorkers, ResetKeepTasks
  <2>2. pc = "app" /\ UNCHANGED <<statvars, loopvars, histvars>>
    BY <1>1 DEF ShutDownWorkers, ResetKeepTasks
  <2>3. Tables' /\ PoolStep /\ worker_table' = worker_table \ {w}
    BY <2>1, <2>2, RemovalStep
  <2>4. LoopTypeOK' /\ StagesOK'
    BY <2>2, <2>3 DEF LoopTypeOK, StagesOK, statvars, loopvars
  <2> QED BY <2>3, <2>4
<1>2. CASE ActivateWorkerWaiting
  <2>1. Tables' /\ PoolStep
    BY <1>2, ReadOnlyStep DEF ActivateWorkerWaiting
  <2>2. LoopTypeOK' /\ StagesOK'
    BY <1>2, ConstantsOK
    DEF ActivateWorkerWaiting, LoopTypeOK, StagesOK, loopvars, taskvars, peervars
  <2> QED BY <2>1, <2>2
<1> QED BY <1>1, <1>2

\* The steps of the wait loop that leave the tables alone.
LEMMA LoopStep ==
  ASSUME IInv,
         \/ CancelAllDone \/ (\E timeout \in Timeouts : Wait(timeout))
         \/ WaitFindsNothing \/ PollDone \/ TransferDone \/ WaitAgain \/ WaitTimesOut
  PROVE  IInv' /\ PoolStep
<1> USE DEF IInv, TypeOK, Tables
<1>1. UNCHANGED <<taskvars, peervars, allocated, result, histvars>>
  BY Zenon DEF CancelAllDone, Wait, WaitFindsNothing, PollDone, TransferDone, WaitAgain,
         WaitTimesOut
<1>2. Tables' /\ PoolStep
  BY <1>1, ReadOnlyStep
<1>3. Timeouts \subseteq {"none", "timed"}
  BY ConstantsOK
<1>4. LoopTypeOK' /\ StagesOK'
  <2>1. CASE CancelAllDone
    BY <1>1, <2>1, Zenon DEF CancelAllDone, LoopTypeOK, StagesOK, taskvars, peervars, statvars
  <2>2. CASE \E timeout \in Timeouts : Wait(timeout)
    BY <1>1, <1>3, <2>2 DEF Wait, LoopTypeOK, StagesOK, taskvars, peervars, statvars
  <2>3. CASE WaitFindsNothing
    BY <1>1, <2>3 DEF WaitFindsNothing, Return, LoopTypeOK, StagesOK, taskvars,
                      peervars, statvars
  <2>4. CASE PollDone
    BY <1>1, <2>4 DEF PollDone, StageAfterPoll, LoopTypeOK, StagesOK, taskvars, peervars, statvars
  <2>5. CASE TransferDone
    BY <1>1, <2>5 DEF TransferDone, LoopTypeOK, StagesOK, taskvars, peervars
  <2>6. CASE WaitAgain
    BY <1>1, <2>6 DEF WaitAgain, TimeLeft, LoopTypeOK, StagesOK, taskvars, peervars,
                      statvars
  <2>7. CASE WaitTimesOut
    BY <1>1, <2>7 DEF WaitTimesOut, Return, LoopTypeOK, StagesOK, taskvars, peervars,
                      statvars
  <2> QED BY <2>1, <2>2, <2>3, <2>4, <2>5, <2>6, <2>7
<1> QED BY <1>2, <1>4

LEMMA RemoveUnresponsiveStep ==
  ASSUME IInv, RemoveUnresponsiveWorkers
  PROVE  IInv' /\ PoolStep
<1> USE DEF IInv, TypeOK, Tables
<1>1. UNCHANGED histvars
  BY DEF RemoveUnresponsiveWorkers
<1>2. Tables' /\ PoolStep
  BY <1>1, RemovalStep, ReadOnlyStep DEF RemoveUnresponsiveWorkers
<1>3. LoopTypeOK' /\ StagesOK'
  BY DEF RemoveUnresponsiveWorkers, LoopTypeOK, StagesOK, statvars
<1> QED BY <1>2, <1>3

LEMMA WaitReturnsTaskStep ==
  ASSUME IInv, WaitReturnsTask
  PROVE  IInv' /\ PoolStep
<1> USE DEF IInv, TypeOK, Tables
<1> DEFINE t == Head(complete_list)
<1>1. complete_list \in Seq(Task) /\ IsInjective(complete_list) /\ complete_list # << >>
  BY DEF WaitReturnsTask, TablesTypeOK, OnePlace
<1>2. /\ t \in Range(complete_list) /\ t \in Task
      /\ complete_list' \in Seq(Task) /\ IsInjective(complete_list')
      /\ Range(complete_list') = Range(complete_list) \ {t}
  BY <1>1, TailList DEF WaitReturnsTask
<1>3. /\ UNCHANGED <<ready_list, running_tasks, finished_tasks, current_tasks,
                     worker_task_map, worker_table, withdrawn>>
      /\ delivered' = delivered \cup {t}
  BY DEF WaitReturnsTask, peervars
<1>4. TablesTypeOK'
  BY <1>2, <1>3 DEF WaitReturnsTask, TablesTypeOK, peervars
<1> HIDE DEF t
<1>5. OnePlace' /\ Held' = Held \ {t} /\ t \in Held
  BY <1>2, <1>3 DEF OnePlace, Held
<1>6. MapConsistent'
  BY <1>3 DEF MapConsistent
<1>7. LoopTypeOK' /\ StagesOK'
  BY <1>3 DEF WaitReturnsTask, Return, LoopTypeOK, StagesOK
<1>8. Pool!Deliver(t)
  BY <1>3, <1>5 DEF Pool!Deliver
<1> QED BY <1>2, <1>4, <1>5, <1>6, <1>7, <1>8 DEF PoolStep, Pool!Next

LEMMA PollLinksStep ==
  ASSUME IInv, PollLinks
  PROVE  IInv' /\ PoolStep
<1> USE DEF IInv, TypeOK, Tables
<1>1. worker_table \subseteq worker_table' /\ worker_table' \subseteq Worker
      /\ polled' \subseteq worker_table /\ UNCHANGED taskvars
  BY DEF PollLinks, TablesTypeOK
<1>2. TablesTypeOK'
  BY <1>1 DEF PollLinks, TablesTypeOK, taskvars, histvars
<1>3. Tables'
  BY <1>1, <1>2, TablesUnchanged
<1>4. PoolStep
  BY <1>1 DEF PollLinks, PoolStep, PoolVars, Held, taskvars, histvars
<1>5. LoopTypeOK' /\ StagesOK'
  BY <1>1 DEF PollLinks, LoopTypeOK, StagesOK, statvars, taskvars
<1> QED BY <1>3, <1>4, <1>5

\* handle_worker, the messages consumed elsewhere, and abort_slow_workers.
LEMMA LinkStep ==
  ASSUME IInv, NEW w \in worker_table,
         HandleWorker(w) \/ RecvDuringTransfer(w) \/ AbortSlowWorker(w)
  PROVE  IInv' /\ PoolStep
<1> USE DEF IInv, TypeOK, Tables
<1>1. UNCHANGED histvars /\ UNCHANGED statvars
  BY Zenon DEF HandleWorker, RecvDuringTransfer, AbortSlowWorker
<1>2. CASE HandleWorker(w)
  <2>1. CASE RecvWorkerMsg(w)
    <3>1. Tables' /\ UNCHANGED worker_table /\ Held' = Held
      BY <1>1, <2>1, RecvWorkerMsgTables
    <3>2. LoopTypeOK' /\ StagesOK'
      BY <1>1, <1>2, <3>1 DEF HandleWorker, LoopTypeOK, StagesOK, statvars
    <3> QED BY <1>1, <3>1, <3>2 DEF PoolStep, PoolVars, histvars
  <2>2. CASE RemoveWorker(w)
    <3>1. Tables' /\ PoolStep /\ worker_table' = worker_table \ {w}
      BY <1>1, <2>2, RemovalStep
    <3>2. LoopTypeOK' /\ StagesOK'
      BY <1>1, <1>2, <3>1 DEF HandleWorker, LoopTypeOK, StagesOK, statvars
    <3> QED BY <3>1, <3>2
  <2> QED BY <1>2, <2>1, <2>2 DEF HandleWorker
<1>3. CASE RecvDuringTransfer(w)
  <2>1. Tables' /\ UNCHANGED <<taskvars, worker_table>> /\ Held' = Held
    BY <1>1, <1>3, RecvWorkerMsgTables DEF RecvDuringTransfer
  <2>2. LoopTypeOK' /\ StagesOK'
    BY <1>1, <1>3, <2>1
    DEF RecvDuringTransfer, LoopTypeOK, StagesOK, statvars, loopvars, taskvars
  <2> QED BY <1>1, <2>1, <2>2 DEF PoolStep, PoolVars, histvars
<1>4. CASE AbortSlowWorker(w)
  <2>1. Tables' /\ PoolStep /\ worker_table' = worker_table \ {w}
    BY <1>1, <1>4, RemovalStep, Zenon DEF AbortSlowWorker
  <2>2. LoopTypeOK' /\ StagesOK'
    BY <1>1, <1>4, <2>1 DEF AbortSlowWorker, LoopTypeOK, StagesOK, statvars, loopvars
  <2> QED BY <2>1, <2>2
<1> QED BY <1>2, <1>3, <1>4

LEMMA ProcessAvailableResultsStep ==
  ASSUME IInv, NEW w \in worker_table, ProcessAvailableResults(w)
  PROVE  IInv' /\ PoolStep
<1> USE DEF IInv, TypeOK, Tables
<1>1. /\ UNCHANGED <<histvars, statvars, stoptime, polled, sending>>
      /\ pc = "links" /\ polled = {}
      /\ pc' = pc \/ pc' = StageAfterPoll'
  BY Zenon DEF ProcessAvailableResults
<1>2. LoopTypeOK' /\ StagesOK'
  BY <1>1 DEF StageAfterPoll, LoopTypeOK, StagesOK, statvars
<1>3. CASE RemoveWorker(w)
  BY <1>1, <1>2, <1>3, RemovalStep
<1>4. CASE ~RemoveWorker(w)
  <2>1. PICK R \in SUBSET current_tasks[w] : \E F \in SUBSET R :
          /\ running_tasks' = running_tasks \ R
          /\ finished_tasks' = finished_tasks \cup R
          /\ result' = [t \in Task |-> IF t \in F THEN result[t] \cup {"STDOUT_MISSING"}
                                                  ELSE result[t]]
          /\ workers_with_available_results' \subseteq workers_with_available_results
          /\ UNCHANGED <<ready_list, complete_list, current_tasks, worker_task_map,
                         worker_table, hostname, resources, allocated>>
    BY <1>4, Zenon DEF ProcessAvailableResults
  <2>2. R \subseteq running_tasks \cup finished_tasks /\ R \subseteq Task
    BY Sentinels DEF TablesTypeOK, MapConsistent
  <2>3. TablesTypeOK'
    BY <1>1, <2>1, <2>2 DEF TablesTypeOK, histvars, Flag
  <2>4. (running_tasks \cup finished_tasks)' = running_tasks \cup finished_tasks
    BY <2>1, <2>2
  <2>5. OnePlace' /\ Held' = Held
    BY <2>1, <2>2, <2>4, Zenon DEF OnePlace, Held
  <2>6. MapConsistent'
    BY <2>1, <2>4 DEF MapConsistent
  <2> QED BY <1>1, <1>2, <2>3, <2>5, <2>6, Zenon DEF PoolStep, PoolVars, histvars
<1> QED BY <1>3, <1>4

LEMMA CommitTaskStep ==
  ASSUME IInv, NEW w \in worker_table, CommitTask(w)
  PROVE  IInv' /\ PoolStep
<1> USE DEF IInv, TypeOK, Tables
<1> DEFINE t == Head(ready_list)
<1>1. ready_list \in Seq(Task) /\ IsInjective(ready_list) /\ ready_list # << >>
  BY DEF CommitTask, TablesTypeOK, OnePlace, StagesOK
<1>2. /\ t \in Range(ready_list) /\ t \in Task
      /\ ready_list' \in Seq(Task) /\ IsInjective(ready_list')
      /\ Range(ready_list') = Range(ready_list) \ {t}
  BY <1>1, TailList, Zenon DEF CommitTask
<1>3. /\ UNCHANGED <<finished_tasks, complete_list, worker_table, hostname, resources,
                     workers_with_available_results, result, delivered, withdrawn>>
      /\ running_tasks' = running_tasks \cup {t}
      /\ current_tasks' = [current_tasks EXCEPT ![w] = @ \cup {t}]
      /\ worker_task_map' = [worker_task_map EXCEPT ![t] = w]
      /\ pc' = "send" /\ sending' = t /\ UNCHANGED <<stoptime, polled, statvars>>
      /\ pc = "start"
  BY DEF CommitTask, peervars, histvars
<1>4. allocated' \in [Worker -> [Charged -> Int]]
  <2>1. \A c \in Charged : Charge(t)[c] \in Int /\ allocated[w][c] \in Int
    BY <1>2, ChargeType DEF TablesTypeOK
  <2>2. allocated' = [allocated EXCEPT ![w] =
                        [c \in Charged |-> allocated[w][c] + Charge(t)[c]]]
    BY DEF CommitTask
  <2> QED BY <2>1, <2>2 DEF TablesTypeOK
<1> HIDE DEF t
<1>5. /\ current_tasks' \in [Worker -> SUBSET Task]
      /\ \A v \in Worker : current_tasks'[v]
           = IF v = w THEN current_tasks[v] \cup {t} ELSE current_tasks[v]
  <2>1. current_tasks \in [Worker -> SUBSET Task] /\ w \in Worker
    BY DEF TablesTypeOK
  <2>2. current_tasks[w] \cup {t} \in SUBSET Task
    BY <1>2, <2>1
  <2>3. current_tasks' = [current_tasks EXCEPT ![w] = current_tasks[w] \cup {t}]
    BY <1>3
  <2> QED BY <2>1, <2>2, <2>3
<1>6. TablesTypeOK'
  BY <1>2, <1>3, <1>4, <1>5 DEF TablesTypeOK
<1>7. OnePlace' /\ Held' = Held
  BY <1>2, <1>3 DEF OnePlace, Held
<1>8. MapConsistent'
  <2>1. w \in Worker /\ w # NoWorker
    BY Sentinels DEF TablesTypeOK
  <2>2. \A u \in Task : worker_task_map'[u] = IF u = t THEN w ELSE worker_task_map[u]
    BY <1>3 DEF TablesTypeOK
  <2>3. t \notin running_tasks \cup finished_tasks
    BY <1>2 DEF OnePlace
  <2>4. worker_task_map[t] = NoWorker
    BY <1>2, <2>3 DEF MapConsistent
  <2>5. \A u \in Task : u \in (running_tasks \cup finished_tasks)'
                          <=> worker_task_map'[u] # NoWorker
    BY <1>3, <2>1, <2>2 DEF MapConsistent
  <2>6. ASSUME NEW v \in Worker
        PROVE  current_tasks'[v] = {u \in Task : worker_task_map'[u] = v}
    <3>1. current_tasks[v] = {u \in Task : worker_task_map[u] = v}
      BY DEF MapConsistent
    <3>2. v # NoWorker
      BY Sentinels
    <3>3. CASE v = w
      BY <1>2, <1>5, <2>2, <3>1, <3>3, Zenon
    <3>4. CASE v # w
      BY <1>2, <1>5, <2>2, <2>4, <3>1, <3>2, <3>4, Zenon
    <3> QED BY <3>3, <3>4
  <2>7. \A u \in Task : worker_task_map'[u] # NoWorker
                          => worker_task_map'[u] \in worker_table'
    BY <1>3, <2>2 DEF MapConsistent
  <2> QED BY <2>5, <2>6, <2>7 DEF MapConsistent
<1>9. LoopTypeOK' /\ StagesOK'
  BY <1>2, <1>3 DEF LoopTypeOK, StagesOK, statvars
<1> QED BY <1>3, <1>6, <1>7, <1>8, <1>9 DEF PoolStep, PoolVars

LEMMA NoWorkerFitsStep ==
  ASSUME IInv, NoWorkerFits
  PROVE  IInv' /\ PoolStep
<1> USE DEF IInv, TypeOK, Tables
<1>1. ready_list \in Seq(Task) /\ IsInjective(ready_list) /\ ready_list # << >>
  BY DEF NoWorkerFits, TablesTypeOK, OnePlace, StagesOK
<1> DEFINE u == Append(Tail(ready_list), Head(ready_list))
<1>3. u \in Seq(Task) /\ Range(u) = Range(ready_list) /\ IsInjective(u)
  BY <1>1, RotateList
<1>4. ready_list' \in Seq(Task) /\ Range(ready_list') = Range(ready_list)
      /\ IsInjective(ready_list')
  <2>1. ready_list' = u \/ ready_list' = ready_list
    BY DEF NoWorkerFits
  <2> HIDE DEF u
  <2> QED BY <1>1, <1>3, <2>1
<1>5. UNCHANGED <<running_tasks, finished_tasks, complete_list, current_tasks,
                  worker_task_map, peervars, allocated, result, statvars, stoptime,
                  polled, sending, histvars>>
      /\ pc' = "receive" /\ pc = "start"
  BY DEF NoWorkerFits
<1>6. TablesTypeOK'
  BY <1>4, <1>5 DEF TablesTypeOK, peervars, histvars
<1>7. OnePlace' /\ Held' = Held
  BY <1>4, <1>5 DEF OnePlace, Held
<1>8. MapConsistent'
  BY <1>5 DEF MapConsistent, peervars
<1>9. LoopTypeOK' /\ StagesOK'
  BY <1>5 DEF LoopTypeOK, StagesOK, statvars, peervars
<1> QED BY <1>5, <1>6, <1>7, <1>8, <1>9 DEF PoolStep, PoolVars, histvars

\* A task leaves its worker for the complete list.
LEMMA CompleteTables ==
  ASSUME Tables, UNCHANGED <<ready_list, peervars, histvars>>,
         NEW t \in running_tasks \cup finished_tasks, Reap(t),
         finished_tasks' = finished_tasks \ {t},
         complete_list' = Cons(t, complete_list),
         result' \in [Task -> SUBSET Flag]
  PROVE  Tables' /\ Held' = Held
<1> USE DEF Tables
<1>1. t \in Task /\ t \notin Range(ready_list) /\ t \notin Range(complete_list)
  BY DEF TablesTypeOK, OnePlace
<1>2. complete_list \in Seq(Task) /\ IsInjective(complete_list)
  BY DEF TablesTypeOK, OnePlace
<1>3. /\ complete_list' \in Seq(Task) /\ IsInjective(complete_list')
      /\ Range(complete_list') = Range(complete_list) \cup {t}
  BY <1>1, <1>2, ConsList
<1>4. UNCHANGED worker_table
  BY DEF peervars
<1>5. /\ running_tasks' = running_tasks \ {t}
      /\ current_tasks' \in [Worker -> SUBSET Task]
      /\ worker_task_map' \in [Task -> Worker \cup {NoWorker}]
      /\ allocated' \in [Worker -> [Charged -> Int]]
      /\ MapConsistent'
  BY <1>4, ReapTables
<1>6. TablesTypeOK'
  BY <1>3, <1>5 DEF TablesTypeOK, peervars, histvars
<1>7. OnePlace' /\ Held' = Held
  BY <1>1, <1>3, <1>5 DEF OnePlace, Held
<1> QED BY <1>5, <1>6, <1>7

LEMMA SendInputsStep ==
  ASSUME IInv, SendInputs
  PROVE  IInv' /\ PoolStep
<1> USE DEF IInv, TypeOK, Tables
<1> DEFINE t == sending
           w == worker_task_map[t]
<1>1. /\ pc = "send" /\ sending' = NoTask
      /\ UNCHANGED <<polled, statvars, histvars>> /\ polled = {}
      /\ \/ stoptime' = stoptime /\ pc' = IF ready_list' = << >> THEN "receive" ELSE "start"
         \/ stoptime' = "past" /\ pc' = "receive"
  BY DEF SendInputs, TimeLeft, TimeOut, StagesOK
<1>2. LoopTypeOK' /\ StagesOK'
  BY <1>1 DEF LoopTypeOK, StagesOK, statvars
<1>3. t \in running_tasks /\ t \in Task /\ w \in worker_table
  BY <1>1 DEF StagesOK, TablesTypeOK, MapConsistent
<1>4. Tables' /\ PoolStep
  <2>1. CASE UNCHANGED <<taskvars, peervars, allocated, result>>
    BY <1>1, <2>1, ReadOnlyStep
  <2>2. CASE /\ Reap(t)
             /\ complete_list' = Cons(t, complete_list)
             /\ result' = [result EXCEPT ![t] = @ \cup {"INPUT_MISSING"}]
             /\ UNCHANGED <<ready_list, finished_tasks, peervars>>
    <3>1. finished_tasks' = finished_tasks \ {t}
      BY <1>3, <2>2 DEF OnePlace
    <3>2. result' \in [Task -> SUBSET Flag]
      BY <1>3, <2>2 DEF TablesTypeOK, Flag
    <3>3. UNCHANGED <<ready_list, peervars, histvars>>
      BY <1>1, <2>2
    <3>4. Tables' /\ Held' = Held
      BY <1>3, <2>2, <3>1, <3>2, <3>3, CompleteTables
    <3> QED BY <1>1, <3>4 DEF PoolStep, PoolVars, histvars
  <2>3. CASE RemoveWorker(w)
    BY <1>1, <1>3, <2>3, RemovalStep
  <2> QED BY <2>1, <2>2, <2>3 DEF SendInputs
<1> QED BY <1>2, <1>4

LEMMA FetchOutputStep ==
  ASSUME IInv, NEW t \in Task, FetchOutput(t)
  PROVE  IInv' /\ PoolStep
<1> USE DEF IInv, TypeOK, Tables
<1> DEFINE w == worker_task_map[t]
<1>1. /\ pc = "receive" /\ t \in finished_tasks
      /\ UNCHANGED <<total_tasks_failed, polled, sending, histvars>>
      /\ total_tasks_complete' \in {total_tasks_complete, total_tasks_complete + 1}
      /\ \/ stoptime' = stoptime /\ UNCHANGED <<pc, workers_to_wait>>
         \/ stoptime' = "past" /\ pc' = "abort" /\ workers_to_wait' = 0
  BY DEF FetchOutput, TimeLeft, TimeOut
<1>2. polled = {} /\ sending = NoTask
  BY <1>1 DEF StagesOK
<1>3. LoopTypeOK' /\ StagesOK'
  BY <1>1, <1>2 DEF LoopTypeOK, StagesOK
<1>4. w \in worker_table
  BY <1>1 DEF MapConsistent
<1>5. Tables' /\ PoolStep
  <2>1. CASE RemoveWorker(w)
    BY <1>1, <1>4, <2>1, RemovalStep
  <2>2. CASE ~RemoveWorker(w)
    <3>1. /\ Reap(t)
          /\ finished_tasks' = finished_tasks \ {t}
          /\ complete_list' = Cons(t, complete_list)
          /\ \E F \in SUBSET {"OUTPUT_MISSING"} :
               result' = [result EXCEPT ![t] = @ \cup F]
          /\ UNCHANGED <<ready_list, peervars>>
      BY <2>2, Zenon DEF FetchOutput
    <3>2. result' \in [Task -> SUBSET Flag]
      <4>1. PICK F \in SUBSET {"OUTPUT_MISSING"} :
              result' = [result EXCEPT ![t] = result[t] \cup F]
        BY <3>1, Zenon
      <4>2. result \in [Task -> SUBSET Flag] /\ F \subseteq Flag
        BY DEF TablesTypeOK, Flag
      <4>3. result[t] \cup F \in SUBSET Flag
        BY <4>2, Zenon
      <4> QED BY <4>1, <4>2, <4>3
    <3>3. UNCHANGED <<ready_list, peervars, histvars>>
      BY <1>1, <3>1
    <3>4. Tables' /\ Held' = Held
      BY <1>1, <3>1, <3>2, <3>3, CompleteTables
    <3> QED BY <1>1, <3>4 DEF PoolStep, PoolVars, histvars
  <2> QED BY <2>1, <2>2
<1> QED BY <1>3, <1>5

------------------------------------------------------------------------------
(* The invariant is inductive, and what follows from it.                    *)

LEMMA ApplicationStep ==
  ASSUME IInv, Application
  PROVE  IInv' /\ PoolStep
<1>1. CASE \E t \in Task : Submit(t)
  BY <1>1, SubmitStep
<1>2. CASE \E t \in Task : CancelByTaskid(t) \/ CancelByTasktag(t)
  <2>1. PICK t \in Task : pc = "app" /\ Cancel(t)
    BY <1>2 DEF CancelByTaskid, CancelByTasktag
  <2> QED BY <2>1, CancelStep
<1>3. CASE CancelAllTasks
  BY <1>3, CancelAllTasksStep
<1>4. CASE ShutDownWorkers \/ ResetKeepTasks \/ ActivateWorkerWaiting
  BY <1>4, WorkerCallsStep
<1>5. CASE ResetAll
  BY <1>5, ResetAllStep
<1>6. CASE \E timeout \in Timeouts : Wait(timeout)
  BY <1>6, LoopStep
<1> QED BY <1>1, <1>2, <1>3, <1>4, <1>5, <1>6 DEF Application

LEMMA ProgressStep ==
  ASSUME IInv, Progress
  PROVE  IInv' /\ PoolStep
<1>1. CASE \E w \in worker_table : \E t \in current_tasks[w] : CancelAllTask(w, t)
  BY <1>1, CancelAllTaskStep
<1>2. CASE CancelAllDone \/ WaitFindsNothing \/ PollDone \/ TransferDone \/ WaitAgain
           \/ WaitTimesOut
  BY <1>2, LoopStep
<1>3. CASE RemoveUnresponsiveWorkers
  BY <1>3, RemoveUnresponsiveStep
<1>4. CASE WaitReturnsTask
  BY <1>4, WaitReturnsTaskStep
<1>5. CASE PollLinks
  BY <1>5, PollLinksStep
<1>6. CASE \E w \in worker_table : HandleWorker(w)
  BY <1>6, LinkStep
<1>7. CASE \E w \in worker_table : ProcessAvailableResults(w)
  BY <1>7, ProcessAvailableResultsStep
<1>8. CASE \E w \in worker_table : CommitTask(w)
  BY <1>8, CommitTaskStep
<1>9. CASE NoWorkerFits
  BY <1>9, NoWorkerFitsStep
<1>10. CASE SendInputs
  BY <1>10, SendInputsStep
<1>11. CASE \E t \in Task : FetchOutput(t)
  BY <1>11, FetchOutputStep
<1> QED BY <1>1, <1>2, <1>3, <1>4, <1>5, <1>6, <1>7, <1>8, <1>9, <1>10, <1>11, Zenon
        DEF Progress

LEMMA NextStep == IInv /\ [Next]_vars => IInv' /\ PoolStep
<1> SUFFICES ASSUME IInv, [Next]_vars PROVE IInv' /\ PoolStep
  OBVIOUS
<1>1. CASE Application
  BY <1>1, ApplicationStep
<1>2. CASE Progress
  BY <1>2, ProgressStep
<1>3. CASE \E w \in worker_table : RecvDuringTransfer(w) \/ AbortSlowWorker(w)
  BY <1>3, LinkStep
<1>4. CASE UNCHANGED vars
  <2>1. UNCHANGED <<taskvars, peervars, allocated, result, histvars>>
        /\ UNCHANGED <<statvars, loopvars>>
    BY <1>4 DEF vars
  <2>2. Tables' /\ PoolStep
    BY <2>1, ReadOnlyStep
  <2>3. LoopTypeOK' /\ StagesOK'
    BY <2>1 DEF IInv, TypeOK, LoopTypeOK, StagesOK, taskvars, peervars, statvars, loopvars
  <2> QED BY <2>2, <2>3 DEF IInv, TypeOK, Tables
<1> QED BY <1>1, <1>2, <1>3, <1>4 DEF Next

\* The tables and the stage of work_queue_wait stay consistent through every
\* call, message, failure and removal, whatever the tasks, workers and tuning.
THEOREM Inductive == Spec => []IInv
<1>1. Init => IInv
  BY InitInv
<1>2. IInv /\ [Next]_vars => IInv'
  BY NextStep
<1> QED BY <1>1, <1>2, PTL DEF Spec

\* Every variable keeps its type: a task on a list is one that was submitted, a
\* resource category is one of the struct's, a stage is one of wait's.
THEOREM TypeCorrect == Spec => []TypeOK
<1>1. IInv => TypeOK
  BY DEF IInv
<1> QED BY <1>1, Inductive, PTL

\* A task is on exactly one of ready_list, running_tasks, finished_tasks and
\* complete_list, and at most once on the two that are lists.
THEOREM OnePlaceAlways == Spec => []OnePlace
<1>1. IInv => OnePlace
  BY DEF IInv
<1> QED BY <1>1, Inductive, PTL

\* worker_task_map and the workers' current_tasks name the same assignments, so
\* the lookups in receive_tasks, cancel and handle_failure find a live worker.
THEOREM MapConsistentAlways == Spec => []MapConsistent
<1>1. IInv => MapConsistent
  BY DEF IInv
<1> QED BY <1>1, Inductive, PTL

\* The master implements TaskPool: a submitted task is handed back at most once
\* and is never forgotten before that.
THEOREM Refinement == Spec => ImplementsTaskPool
<1>1. Init => Pool!Init
  BY DEF Init, Pool!Init, Held, Range
<1>2. IInv /\ [Next]_vars => [Pool!Next]_Pool!vars
  BY NextStep DEF PoolStep, PoolVars, Pool!vars
<1> QED BY <1>1, <1>2, Inductive, PTL DEF Spec, ImplementsTaskPool, Pool!Spec
=============================================================================
