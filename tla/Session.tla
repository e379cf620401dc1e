------------------------------ MODULE Session ------------------------------
(***************************************************************************)
(* A master and a worker at the two ends of a link: WorkQueueWorker, with  *)
(* its messages now coming from the code in work_queue.c that sends them.  *)
(* Of the master there is what concerns this worker: which task was sent   *)
(* on which connection, which results were announced, and what the master  *)
(* is reading.  The worker may lose its connection and make another while  *)
(* the master still believes in the old one.                               *)
(*                                                                         *)
(* Links are reliable and ordered until one end closes them; what was sent *)
(* before can still be read, or be lost.  Messages that recv_worker_msg    *)
(* takes at any time and that carry no task (resource, alive) are left     *)
(* out, as are those the worker does not answer (put, unlink).             *)
(***************************************************************************)
EXTENDS WorkQueueWorker

CONSTANTS
  OutputFiles,    \* how many output files a task may have
  Outputs,        \* replies to get: sequences of "dir", "file" and "missing"
  DirFailures     \* may the master fail to create a directory

ASSUME /\ OutputFiles \subseteq Nat
       /\ Outputs \subseteq Seq({"dir", "file", "missing"}) /\ DirFailures \in BOOLEAN

VARIABLES
  place,      \* of a task: Ready, the connection it was sent on, or Done
  finished,   \* tasks in finished_tasks
  open,       \* connections in worker_table
  available,  \* connections in workers_with_available_results
  to_worker, to_master,   \* what is on each link
  reading     \* the answer the master waits for, and how many are left after it

mastervars  == <<place, finished, open, available, reading>>
sessionvars == <<vars, mastervars, to_worker, to_master>>

Connection == 1 .. MaxSessions
Ready      == 0
Done       == MaxSessions + 1
Idle       == [to |-> "none", s |-> 0, id |-> 0, left |-> 0]

SInit ==
  /\ Init
  /\ place = [id \in TaskId |-> Ready] /\ finished = {}
  /\ open = {} /\ available = {}
  /\ to_worker = [s \in Connection |-> << >>]
  /\ to_master = [s \in Connection |-> << >>]
  /\ reading = Idle

Connected(s) == session = s /\ pc \in {"poll", "tasks", "start"}
At(s)        == {id \in TaskId : place[id] = s}

\* What is sent to an end that is gone, or left on a link that is closed, is lost.
Tell(s, m)   == to_worker' = IF Connected(s) THEN [to_worker EXCEPT ![s] = Append(@, m)]
                             ELSE to_worker
Answer(ms)   == to_master' = IF session \in open THEN [to_master EXCEPT ![session] = @ \o ms]
                             ELSE to_master
Take(s)      == to_master' = [to_master EXCEPT ![s] = Tail(@)]

------------------------------------------------------------------------------
(* The master, between two reads                                            *)

\* A task whose input file is missing is given back without having been sent.
start_one_task(s, id) ==
  /\ reading = Idle /\ s \in open /\ place[id] = Ready
  /\ \/ place' = [place EXCEPT ![id] = s] /\ Tell(s, [m |-> "task", id |-> id])
     \/ place' = [place EXCEPT ![id] = Done] /\ UNCHANGED to_worker
  /\ UNCHANGED <<vars, finished, open, available, reading, to_master>>

\* Slip: the worker stays in workers_with_available_results.
RemoveWorkerStaysAvailable(s) ==
  /\ open' = open \ {s} /\ UNCHANGED available
  /\ place' = [id \in TaskId |-> IF place[id] = s THEN Ready ELSE place[id]]
  /\ finished' = finished \ At(s)
  /\ reading' = Idle
  /\ to_master' = [to_master EXCEPT ![s] = << >>]
  /\ UNCHANGED vars

\* cleanup_worker: the tasks of the worker are to be run again.
remove_worker(s) ==
  /\ open' = open \ {s} /\ available' = available \ {s}
  /\ place' = [id \in TaskId |-> IF place[id] = s THEN Ready ELSE place[id]]
  /\ finished' = finished \ At(s)
  /\ reading' = Idle
  /\ to_master' = [to_master EXCEPT ![s] = << >>]
  /\ UNCHANGED vars

\* recv_worker_msg, wherever it is called from, takes an announcement.
RecvAvailable(s) ==
  /\ s \in open /\ (reading = Idle \/ reading.s = s)
  /\ to_master[s] # << >> /\ Head(to_master[s]).m = "available_results"
  /\ available' = available \cup {s} /\ Take(s)
  /\ UNCHANGED <<vars, place, finished, open, reading, to_worker>>

\* The link is closed at the other end, a read or write takes too long, or the
\* message at hand is not one that is expected here.
LinkFails(s) ==
  /\ s \in open /\ (reading = Idle \/ reading.s = s)
  /\ remove_worker(s)
  /\ UNCHANGED to_worker

cancel_running_task(id) ==
  /\ reading = Idle /\ place[id] \in Connection
  /\ place' = [place EXCEPT ![id] = Done] /\ finished' = finished \ {id}
  /\ Tell(place[id], [m |-> "kill", id |-> id])
  /\ UNCHANGED <<vars, open, available, reading, to_master>>

\* Slip: current_tasks of the worker is kept.
CancelAllKeepsTasks ==
  /\ reading = Idle /\ \E id \in TaskId : place[id] # Done
  /\ available' = {}
  /\ to_worker' = [s \in Connection |-> IF s \in open /\ Connected(s)
                     THEN Append(to_worker[s], [m |-> "kill_all"]) ELSE to_worker[s]]
  /\ UNCHANGED <<vars, place, finished, open, reading, to_master>>

\* Bound: not called again once every task is done, which would only repeat kill -1.
cancel_all_tasks ==
  /\ reading = Idle /\ \E id \in TaskId : place[id] # Done
  /\ place' = [id \in TaskId |-> Done] /\ finished' = {} /\ available' = {}
  /\ to_worker' = [s \in Connection |-> IF s \in open /\ Connected(s)
                     THEN Append(to_worker[s], [m |-> "kill_all"]) ELSE to_worker[s]]
  /\ UNCHANGED <<vars, open, reading, to_master>>

------------------------------------------------------------------------------
(* The master, waiting for an answer                                        *)

\* process_available_results
AskForResults(s) ==
  /\ reading = Idle /\ s \in available
  /\ Tell(s, [m |-> "send_results"])
  /\ reading' = [Idle EXCEPT !.to = "results", !.s = s]
  /\ UNCHANGED <<vars, place, finished, open, available, to_master>>

Reading(to, s) ==
  /\ reading.to = to /\ reading.s = s
  /\ to_master[s] # << >> /\ Take(s)

\* A result is credited to the task if the task is in w->current_tasks.
process_result(s, r) == finished' = IF place[r.id] = s THEN finished \cup {r.id} ELSE finished

\* Slip: the worker is asked again in the next round.
ResultsReadStays(s) == reading' = Idle /\ UNCHANGED available

\* Forgotten only now, with whatever it announced while its results were read.
ResultsRead(s) == reading' = Idle /\ available' = available \ {s}

ReadResults(s) ==
  /\ Reading("results", s)
  /\ LET r == Head(to_master[s])
     IN  \/ r.m = "result" /\ process_result(s, r) /\ UNCHANGED <<available, reading>>
         \/ r.m = "end" /\ ResultsRead(s) /\ UNCHANGED finished
  /\ UNCHANGED <<vars, place, open, to_worker>>

GetNext(s, id, left) ==
  /\ Tell(s, [m |-> "get", id |-> id])
  /\ reading' = [to |-> "get", s |-> s, id |-> id, left |-> left - 1]
  /\ UNCHANGED <<place, finished>>

\* The task is given back, and its directory no longer needed.
OutputDone(s, id) ==
  /\ place' = [place EXCEPT ![id] = Done]
  /\ finished' = finished \ {id}
  /\ Tell(s, [m |-> "kill", id |-> id])
  /\ reading' = Idle

\* get_output_files: one file after another, then kill.
GetOutputs(s, id, left) ==
  /\ IF left > 0 THEN GetNext(s, id, left) ELSE OutputDone(s, id)
  /\ UNCHANGED <<vars, open, available>>

\* fetch_output_from_worker
AskForOutput(s, id) ==
  /\ reading = Idle /\ id \in finished /\ place[id] = s
  /\ \E n \in OutputFiles : GetOutputs(s, id, n)
  /\ UNCHANGED to_master

\* Slip: a missing file ends the read.
OutputEndsIfMissing(r) == r.m \in {"missing", "end"}

\* get_file_or_directory: a file that cannot be stored is skipped, a directory
\* that cannot be created ends the read.
OutputEnds(r) == r.m = "end" \/ (r.m = "dir" /\ DirFailures)

ReadOutput(s) ==
  /\ Reading("get", s)
  /\ LET r == Head(to_master[s])
     IN  \/ r.m \in {"dir", "file", "missing"} /\ UNCHANGED <<vars, mastervars, to_worker>>
         \/ OutputEnds(r) /\ GetOutputs(s, reading.id, reading.left)

------------------------------------------------------------------------------
(* The worker                                                               *)

Connect ==
  /\ connect_master
  /\ open' = open \cup {session'}
  /\ UNCHANGED <<place, finished, available, reading, to_worker, to_master>>

\* The answer to send_results, in the order of the table.
Results ==
  [i \in DOMAIN SetToSeq(results_to_be_sent) |->
     LET ti == SetToSeq(results_to_be_sent)[i]
     IN  [m |-> "result", id |-> ti.id, session |-> ti.session]]

End == << [m |-> "end"] >>

\* Slip: no "end" after "missing".
OutputUnended(out) == [i \in DOMAIN out |-> [m |-> out[i]]]
                        \o (IF "missing" \in Range(out) THEN << >> ELSE End)

\* do_get
Output(out) == [i \in DOMAIN out |-> [m |-> out[i]]] \o End

Handle(msg) ==
  \/ msg.m = "task" /\ do_task(msg.id) /\ UNCHANGED to_master
  \/ msg.m = "kill" /\ do_kill(msg.id) /\ UNCHANGED to_master
  \/ msg.m = "kill_all" /\ KillAll /\ ok' = ok /\ announced' = announced /\ UNCHANGED to_master
  \/ /\ msg.m = "send_results" /\ report_tasks /\ announced' = announced - 1
     /\ Answer(Results \o End)
  \/ /\ msg.m = "get" /\ OtherMessage /\ ok' = ok
     /\ \E out \in Outputs : Answer(Output(out))

handle_master ==
  /\ pc = "poll" /\ to_worker[session] # << >>
  /\ Handle(Head(to_worker[session]))
  /\ to_worker' = [to_worker EXCEPT ![session] = Tail(@)]
  /\ UNCHANGED mastervars

\* The master has closed the link; what it sent last may be lost.
LinkLost ==
  /\ session \notin open
  /\ OtherMessage /\ ok' = FALSE
  /\ UNCHANGED <<mastervars, to_worker, to_master>>

Announce ==
  /\ AvailableResults
  /\ IF announced' > announced THEN Answer(<< [m |-> "available_results"] >>)
     ELSE UNCHANGED to_master
  /\ UNCHANGED <<mastervars, to_worker>>

OwnStep ==
  /\ \/ Quiet \/ start_task \/ PassOver \/ EndRound
  /\ UNCHANGED <<mastervars, to_worker, to_master>>

TaskEnds ==
  /\ \E ti \in active_tasks : handle_tasks(ti)
  /\ UNCHANGED <<mastervars, to_worker, to_master>>

Hangup ==
  /\ Disconnect \/ Volatile
  /\ to_worker' = [to_worker EXCEPT ![session] = << >>]
  /\ UNCHANGED <<mastervars, to_master>>

------------------------------------------------------------------------------
MasterReads ==
  \E s \in Connection : RecvAvailable(s) \/ AskForResults(s) \/ ReadResults(s) \/ ReadOutput(s)

SNext ==
  \/ \E s \in Connection, id \in TaskId : start_one_task(s, id) \/ AskForOutput(s, id)
  \/ \E id \in TaskId : cancel_running_task(id)
  \/ cancel_all_tasks
  \/ MasterReads
  \/ \E s \in Connection : LinkFails(s)
  \/ Connect \/ handle_master \/ LinkLost \/ Announce \/ OwnStep \/ TaskEnds \/ Hangup

SSpec == SInit /\ [][SNext]_sessionvars

\* Both loops go on; the master notices when the other end of a link is gone.
SFairSpec ==
  /\ SSpec
  /\ WF_sessionvars(MasterReads)
  /\ WF_sessionvars(\E s \in Connection : ~Connected(s) /\ to_master[s] = << >> /\ LinkFails(s))
  /\ WF_sessionvars(OwnStep \/ (Disconnect /\ Hangup)) /\ WF_sessionvars(Announce)
  /\ SF_sessionvars(handle_master) /\ SF_sessionvars(LinkLost)

------------------------------------------------------------------------------
(* Properties                                                               *)

STypeOK ==
  /\ place \in [TaskId -> {Ready, Done} \cup Connection]
  /\ finished \subseteq {id \in TaskId : place[id] \in open}
  /\ open \subseteq 1 .. session /\ available \subseteq open
  /\ reading = Idle \/ reading.s \in open

\* The worker module takes for granted that an id is sent once on a connection,
\* killed only after it was sent, and that results are asked for only when some
\* were announced.  The master keeps to that.
WorkerAccepts ==
  pc = "poll" /\ to_worker[session] # << >> =>
    LET msg == Head(to_worker[session])
    IN  /\ msg.m = "task" => msg.id \notin received
        /\ msg.m = "kill" => msg.id \in received
        /\ msg.m = "send_results" => announced > 0

\* The master never meets a message that it takes for invalid: process_available_results,
\* get_file_or_directory and handle_worker each find what they wait for.
InStep ==
  \A s \in open : to_master[s] # << >> =>
    Head(to_master[s]).m \in
      {"available_results"} \cup
      (IF reading.s # s THEN {}
       ELSE IF reading.to = "results" THEN {"result", "end"}
       ELSE {"dir", "file", "missing", "end"})

Under(ms, kind, id) == \E i \in DOMAIN ms : ms[i].m = kind /\ ms[i].id = id

\* A task that the master takes for running is somewhere: on its way, on one of
\* the lists of the worker, or its result is on its way back.
TaskAccounted ==
  \A id \in TaskId : Connected(place[id]) /\ place[id] \in open /\ ok /\ id \notin finished =>
    \/ Under(to_worker[session], "task", id)
    \/ \E i \in DOMAIN waiting_tasks : waiting_tasks[i].id = id
    \/ \E ti \in active_tasks \cup results_to_be_sent : ti.id = id
    \/ Under(to_master[session], "result", id)

\* Results that the worker holds will be asked for: the announcement is under
\* way, noted by the master, or already answered by a request; or kill -1, which
\* drops them, is under way.  The master forgets what it noted when it has read
\* "end", and on cancel_all; the worker forgets what it said when it has sent its
\* results, and on kill -1.
ResultsWillBeAsked ==
  pc = "poll" /\ session \in open /\ results_to_be_sent # {} =>
    \/ \E i \in DOMAIN to_master[session] : to_master[session][i].m = "available_results"
    \/ session \in available
    \/ \E i \in DOMAIN to_worker[session] : to_worker[session][i].m \in {"send_results", "kill_all"}

\* Whatever the master waits for, it gets, or it loses the link.
MasterGetsAnswer == reading # Idle ~> reading = Idle

\* What a comment in disconnect_master says: old tasks are not returned to a new
\* master.  A result is credited only to the task whose run it is.
CreditedToItsRun ==
  [][\A s \in Connection : ReadResults(s) /\ Head(to_master[s]).m = "result"
        /\ finished' # finished => Head(to_master[s]).session = s]_sessionvars
=============================================================================
