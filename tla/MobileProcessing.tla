-------------------------- MODULE MobileProcessing --------------------------
(***************************************************************************)
(* Analysis, chord and lyrics jobs on Android: their admission             *)
(* (mobile_backend/audio.rs, lyrics.rs), the one queue that executes them  *)
(* (processing_queue.rs), the rows of the jobs table (storage.rs) and the  *)
(* publication of a result.                                                *)
(*                                                                         *)
(* The threads are: a submission, which holds PROCESSING_ADMISSION to its  *)
(* end; the drain and the watch thread of each generation of the queue;    *)
(* and cancel commands.  A step of this module is one critical section of  *)
(* the queue's mutex, or one statement or transaction of the database; the *)
(* mutex is held across the wait for the service to start.                 *)
(*                                                                         *)
(* The service is known by the specification Protection only.              *)
(***************************************************************************)
EXTENDS Naturals, Sequences, FiniteSets, Functions

CONSTANTS
  Jobs,         \* job identifiers, each submitted at most once
  Targets,      \* pairs of a project and a kind of result
  TargetOf,     \* what a job computes
  Projects,
  ProjectOf,    \* the project of a target
  NoJob,
  MaxCancels,   \* bound: how many jobs a cancel command is sent for
  MaxEdits,     \* bound: how often a saved result is edited
  MaxCrashes,   \* bound: how often the app dies
  MaxUnreported \* bound: for how many jobs the database fails at the end

ASSUME MobileAssumption ==
  /\ IsFiniteSet(Jobs) /\ NoJob \notin Jobs
  /\ TargetOf \in [Jobs -> Targets]
  /\ ProjectOf \in [Targets -> Projects]
  /\ MaxCancels \in Nat /\ MaxEdits \in Nat /\ MaxCrashes \in Nat /\ MaxUnreported \in Nat

VARIABLES
  status,           \* the status column
  cancelRequested,  \* the cancel_requested column
  expected,         \* payload result_revision: the result at submission
  revision,         \* the saved result of a target, as a version
  gone,             \* the deleted projects
  unreported,       \* history: jobs whose end could not be written
  app,              \* "closed", then "open" when the database was opened
  crashes,
  spc,              \* the submission of each job
  admission,        \* the holder of PROCESSING_ADMISSION, {} when free
  cpc,              \* the cancel command of each job
  tokens,           \* AUDIO_JOB_CANCELLATIONS: the jobs whose flag is set
  mutex,            \* the submission that holds the queue's mutex, waiting
  waiting, active, running, failed, generation,   \* State of the queue
  dpc, djob,        \* the drain thread of each generation, and its task
  watching,         \* the generations whose watch thread is alive
  broke,            \* history: the protection ended by itself
  protection, cpu   \* of Protection

jobs    == <<status, cancelRequested, expected, revision, gone, unreported>>
submits == <<spc, admission, mutex>>
queue   == <<waiting, active, running, failed, generation>>
drains  == <<dpc, djob, watching>>
guard   == <<broke, protection, cpu>>
vars == <<jobs, app, crashes, submits, cpc, tokens, queue, drains, guard>>

Guard == INSTANCE Protection

Active      == {"pending", "running"}
Terminal    == {"completed", "failed", "cancelled"}
Generations == 1..Cardinality(Jobs)

Init ==
  /\ status = [j \in Jobs |-> "none"]
  /\ cancelRequested = [j \in Jobs |-> FALSE]
  /\ expected = [j \in Jobs |-> 0]
  /\ revision = [t \in Targets |-> 0]
  /\ gone = {} /\ unreported = {}
  /\ app = "closed" /\ crashes = 0
  /\ spc = [j \in Jobs |-> "idle"]
  /\ admission = {} /\ mutex = {}
  /\ cpc = [j \in Jobs |-> "idle"]
  /\ tokens = {}
  /\ waiting = <<>> /\ active = NoJob
  /\ running = FALSE /\ failed = FALSE /\ generation = 0
  /\ dpc = [g \in Generations |-> "off"]
  /\ djob = [g \in Generations |-> NoJob]
  /\ watching = {}
  /\ broke = FALSE
  /\ Guard!Init

-----------------------------------------------------------------------------
(* The rows.                                                               *)

(* fail_running_job and the other updates of an end: only of an active row.*)
Ended(J, end) ==
  [j \in Jobs |-> IF j \in J /\ status[j] \in Active THEN end ELSE status[j]]

(* The ends of jobs J are written; an error of the database is ignored. *)
EndRows(J, end) ==
  \E K \in SUBSET J :
    /\ Cardinality(unreported \union K) <= MaxUnreported
    /\ status' = Ended(J \ K, end)
    /\ unreported' = unreported \union K

(* The fail closures, which open the database first. *)
FailRows(J) == EndRows(J, "failed")

-----------------------------------------------------------------------------
(* The queue's stop_failed.                                                *)

Task(j) == {j} \ {NoJob}

(* Bug: the active task is cancelled whether or not there is one. *)
StopFailedCancels(current) ==
  /\ failed' = TRUE
  /\ waiting' = <<>>
  /\ FailRows(Range(waiting) \union Task(current))
  /\ tokens' = tokens \union {current}
  /\ Guard!Stop

(* Bug: the waiting tasks are dropped without being failed. *)
StopFailedDrops(current) ==
  /\ failed' = TRUE
  /\ waiting' = <<>>
  /\ FailRows(Task(current))
  /\ tokens' = tokens \union Task(current)
  /\ Guard!Stop

(* Bug: the active task is failed but not told to stop. *)
StopFailedQuiet(current) ==
  /\ failed' = TRUE
  /\ waiting' = <<>>
  /\ FailRows(Range(waiting) \union Task(current))
  /\ UNCHANGED tokens
  /\ Guard!Stop

(* The waiting tasks fail; the current one fails and is told to stop.      *)
StopFailed(current) ==
  /\ failed' = TRUE
  /\ waiting' = <<>>
  /\ FailRows(Range(waiting) \union Task(current))
  /\ tokens' = tokens \union Task(current)
  /\ Guard!Stop

-----------------------------------------------------------------------------
(* Submissions.                                                            *)

Leave(j) == spc' = [spc EXCEPT ![j] = "done"] /\ admission' = admission \ {j}

HasActiveJob(t) == \E k \in Jobs : TargetOf[k] = t /\ status[k] \in Active

(* Bug: the admission lock is let go after the look for an active job. *)
SubmitUnlocked(j) ==
  /\ app = "open" /\ spc[j] = "idle"
  /\ ~HasActiveJob(TargetOf[j])
  /\ spc' = [spc EXCEPT ![j] = "create"]
  /\ UNCHANGED <<jobs, app, crashes, admission, mutex, cpc, tokens, queue,
                 drains, guard>>

(* mobile_submit_analyze and its siblings take the admission lock and look *)
(* for the project and for an active job of the same target; a request may *)
(* also be refused or need no work.                                        *)
Submit(j) ==
  /\ app = "open" /\ spc[j] = "idle" /\ admission = {}
  /\ \/ Leave(j)
     \/ /\ ProjectOf[TargetOf[j]] \notin gone
        /\ ~HasActiveJob(TargetOf[j])
        /\ spc' = [spc EXCEPT ![j] = "create"] /\ admission' = {j}
  /\ UNCHANGED <<jobs, app, crashes, mutex, cpc, tokens, queue, drains, guard>>

(* The transaction that creates the pending row with the revision of the   *)
(* saved result.                                                           *)
Create(j) ==
  /\ spc[j] = "create"
  /\ status' = [status EXCEPT ![j] = "pending"]
  /\ expected' = [expected EXCEPT ![j] = revision[TargetOf[j]]]
  /\ spc' = [spc EXCEPT ![j] = "enqueue"]
  /\ UNCHANGED <<cancelRequested, revision, gone, unreported, app, crashes,
                 admission, mutex, cpc, tokens, queue, drains, guard>>

(* ProcessingQueue::submit when the queue runs: the task waits, or is      *)
(* refused while a failed generation unwinds.                              *)
EnqueueRunning(j) ==
  /\ spc[j] = "enqueue" /\ mutex = {} /\ running
  /\ IF failed
     THEN FailRows({j}) /\ UNCHANGED waiting
     ELSE waiting' = Append(waiting, j) /\ UNCHANGED <<status, unreported>>
  /\ Leave(j)
  /\ UNCHANGED <<cancelRequested, expected, revision, gone, app, crashes, mutex,
                 cpc, tokens, active, running, failed, generation, drains,
                 guard>>

(* ...and when it does not: the service is asked to start, or refuses.     *)
EnqueueStart(j) ==
  /\ spc[j] = "enqueue" /\ mutex = {} /\ ~running
  /\ \/ /\ Guard!Start /\ broke' = FALSE
        /\ mutex' = {j} /\ spc' = [spc EXCEPT ![j] = "starting"]
        /\ UNCHANGED <<status, unreported, admission>>
     \/ /\ FailRows({j}) /\ Leave(j)
        /\ Guard!Stop /\ UNCHANGED <<broke, mutex>>
  /\ UNCHANGED <<cancelRequested, expected, revision, gone, app, crashes, cpc,
                 tokens, queue, drains>>

(* start() has returned: Ok starts a generation, an error fails the task.  *)
EnqueueStarted(j) ==
  /\ spc[j] = "starting" /\ protection # "starting"
  /\ \/ /\ protection = "on"
        /\ failed' = FALSE /\ running' = TRUE
        /\ generation' = generation + 1
        /\ waiting' = Append(waiting, j)
        /\ dpc' = [dpc EXCEPT ![generation'] = "drain"]
        /\ watching' = watching \union {generation'}
        /\ UNCHANGED <<status, unreported, protection, cpu>>
     \/ /\ protection = "off"
        /\ FailRows({j}) /\ Guard!Stop
        /\ UNCHANGED <<waiting, running, failed, generation, dpc, watching>>
  /\ Leave(j) /\ mutex' = {}
  /\ UNCHANGED <<cancelRequested, expected, revision, gone, app, crashes, cpc,
                 tokens, active, djob, broke>>

-----------------------------------------------------------------------------
(* The watch thread of a generation.                                       *)

(* Bug: the generation is over as soon as its service is. *)
WatchEndsRun(g) ==
  /\ g \in watching /\ mutex = {}
  /\ running /\ generation = g /\ ~failed /\ protection # "on"
  /\ StopFailed(active)
  /\ running' = FALSE
  /\ watching' = watching \ {g}
  /\ UNCHANGED <<cancelRequested, expected, revision, gone, app, crashes, submits,
                 cpc, active, generation, dpc, djob, broke>>

Watch(g) ==
  /\ g \in watching /\ mutex = {}
  /\ \/ /\ ~running \/ generation # g \/ failed
        /\ watching' = watching \ {g}
        /\ UNCHANGED <<status, unreported, waiting, failed, tokens,
                       protection, cpu>>
     \/ /\ running /\ generation = g /\ ~failed /\ protection # "on"
        /\ StopFailed(active)
        /\ watching' = watching \ {g}
  /\ UNCHANGED <<cancelRequested, expected, revision, gone, app, crashes, submits,
                 cpc, active, running, generation, dpc, djob, broke>>

-----------------------------------------------------------------------------
(* The drain thread of a generation.                                       *)

(* Bug: the service is stopped after the mutex was let go. *)
DrainEmptyUnlocked(g) ==
  /\ \/ /\ dpc[g] = "drain" /\ mutex = {} /\ waiting = <<>>
        /\ active' = NoJob /\ running' = FALSE
        /\ dpc' = [dpc EXCEPT ![g] = "stop"]
        /\ UNCHANGED <<protection, cpu>>
     \/ /\ dpc[g] = "stop"
        /\ Guard!Stop
        /\ dpc' = [dpc EXCEPT ![g] = "off"]
        /\ UNCHANGED <<active, running>>
  /\ UNCHANGED <<jobs, app, crashes, submits, cpc, tokens, waiting, failed,
                 generation, djob, watching, broke>>

(* No task waits: the service stops under the mutex and the thread ends.   *)
DrainEmpty(g) ==
  /\ dpc[g] = "drain" /\ mutex = {} /\ waiting = <<>>
  /\ Guard!Stop
  /\ active' = NoJob /\ running' = FALSE
  /\ dpc' = [dpc EXCEPT ![g] = "off"]
  /\ UNCHANGED <<jobs, app, crashes, submits, cpc, tokens, waiting, failed,
                 generation, djob, watching, broke>>

(* The next task becomes the active one and the CPU is held awake for it.  *)
DrainPop(g) ==
  /\ dpc[g] = "drain" /\ mutex = {} /\ waiting # <<>>
  /\ LET j == Head(waiting)
     IN \/ /\ Guard!SetActive(TRUE)
           /\ waiting' = Tail(waiting)
           /\ active' = j
           /\ djob' = [djob EXCEPT ![g] = j]
           /\ dpc' = [dpc EXCEPT ![g] = "dequeue"]
           /\ UNCHANGED <<status, unreported, tokens, failed, broke>>
        \/ /\ StopFailed(j)
           /\ broke' = TRUE
           /\ active' = NoJob
           /\ UNCHANGED <<djob, dpc>>
  /\ UNCHANGED <<cancelRequested, expected, revision, gone, app, crashes, submits,
                 cpc, running, generation, watching>>

(* dequeue_processing_job: a pending row that is not cancelled is running  *)
(* now; any other is skipped.  The database may fail, too.                 *)
Dequeue(g) ==
  /\ dpc[g] = "dequeue"
  /\ LET j == djob[g]
     IN \/ /\ status[j] = "pending" /\ ~cancelRequested[j]
           /\ status' = [status EXCEPT ![j] = "running"]
           /\ dpc' = [dpc EXCEPT ![g] = "work"]
           /\ UNCHANGED unreported
        \/ /\ status[j] # "pending" \/ cancelRequested[j]
           /\ dpc' = [dpc EXCEPT ![g] = "over"]
           /\ UNCHANGED <<status, unreported>>
        \/ FailRows({j}) /\ dpc' = [dpc EXCEPT ![g] = "over"]
  /\ UNCHANGED <<cancelRequested, expected, revision, gone, app, crashes, submits,
                 cpc, tokens, queue, djob, watching, guard>>

CancelSeen(j) == cancelRequested[j] \/ status[j] = "cancelled"

(* The native work ends with a result, or by an error, a cancellation or a *)
(* panic; it looks at the token and at the row while it lasts.  To beat     *)
(* tracking, a row that cannot be read is one of a cancelled job.          *)
Work(g) ==
  /\ dpc[g] = "work"
  /\ LET j == djob[g]
     IN \/ dpc' = [dpc EXCEPT ![g] = "publish"] /\ UNCHANGED <<status, unreported>>
        \/ dpc' = [dpc EXCEPT ![g] = "settle"] /\ UNCHANGED <<status, unreported>>
        \/ /\ j \in tokens \/ CancelSeen(j)
           /\ dpc' = [dpc EXCEPT ![g] = "cancelled"]
           /\ UNCHANGED <<status, unreported>>
        \/ /\ \E end \in {"failed", "cancelled"} : EndRows({j}, end)
           /\ dpc' = [dpc EXCEPT ![g] = "over"]
  /\ UNCHANGED <<cancelRequested, expected, revision, gone, app, crashes, submits,
                 cpc, tokens, queue, djob, watching, guard>>

Live(j) == status[j] = "running" /\ ~cancelRequested[j]

(* Bug: the saved result is not compared with the one at submission. *)
PublishAnyRevision(g) ==
  /\ dpc[g] = "publish"
  /\ LET j == djob[g]
     IN \/ /\ ProjectOf[TargetOf[j]] \notin gone /\ Live(j)
           /\ status' = [status EXCEPT ![j] = "completed"]
           /\ revision' = [revision EXCEPT ![TargetOf[j]] = @ + 1]
           /\ dpc' = [dpc EXCEPT ![g] = "over"]
        \/ dpc' = [dpc EXCEPT ![g] = "settle"] /\ UNCHANGED <<status, revision>>
  /\ UNCHANGED <<cancelRequested, expected, gone, unreported, app, crashes,
                 submits, cpc, tokens, queue, djob, watching, guard>>

(* Bug: the row is not looked at again before it is completed. *)
PublishCancelled(g) ==
  /\ dpc[g] = "publish"
  /\ LET j == djob[g]
     IN /\ expected[j] = revision[TargetOf[j]]
        /\ ProjectOf[TargetOf[j]] \notin gone
        /\ status' = [status EXCEPT ![j] = "completed"]
        /\ revision' = [revision EXCEPT ![TargetOf[j]] = @ + 1]
  /\ dpc' = [dpc EXCEPT ![g] = "over"]
  /\ UNCHANGED <<cancelRequested, expected, gone, unreported, app, crashes,
                 submits, cpc, tokens, queue, djob, watching, guard>>

(* store_chord_timeline, store_analysis_result, finish_lyrics_job: one     *)
(* transaction checks the revision, the source and the row, writes the     *)
(* result (unless the user's edits are to be kept) and completes the job.  *)
(* It may also end in any other error.                                     *)
Publish(g) ==
  /\ dpc[g] = "publish"
  /\ LET j == djob[g]
         t == TargetOf[j]
     IN \/ /\ expected[j] = revision[t] /\ ProjectOf[t] \notin gone /\ Live(j)
           /\ status' = [status EXCEPT ![j] = "completed"]
           /\ \/ revision' = [revision EXCEPT ![t] = @ + 1]
              \/ UNCHANGED revision
           /\ dpc' = [dpc EXCEPT ![g] = "over"]
        \/ /\ ~Live(j) \/ j \in tokens
           /\ dpc' = [dpc EXCEPT ![g] = "cancelled"]
           /\ UNCHANGED <<status, revision>>
        \/ dpc' = [dpc EXCEPT ![g] = "settle"] /\ UNCHANGED <<status, revision>>
  /\ UNCHANGED <<cancelRequested, expected, gone, unreported, app, crashes,
                 submits, cpc, tokens, queue, djob, watching, guard>>

(* After an error chords and analysis ask whether a cancel was requested;  *)
(* the lyrics do not, and an error of the question counts as no. *)
Settle(g) ==
  /\ dpc[g] = "settle"
  /\ \/ CancelSeen(djob[g]) /\ dpc' = [dpc EXCEPT ![g] = "cancelled"]
     \/ dpc' = [dpc EXCEPT ![g] = "fail"]
  /\ UNCHANGED <<jobs, app, crashes, submits, cpc, tokens, queue, djob,
                 watching, guard>>

(* The row is written as cancelled if it is active or cancelled already.   *)
(* An error of the statement is ignored, and the lyrics leave the row to   *)
(* whoever cancelled them. *)
EndCancelled(g) ==
  /\ dpc[g] = "cancelled"
  /\ status' \in {Ended({djob[g]}, "cancelled"), status}
  /\ UNCHANGED unreported
  /\ dpc' = [dpc EXCEPT ![g] = "over"]
  /\ UNCHANGED <<cancelRequested, expected, revision, gone, app, crashes,
                 submits, cpc, tokens, queue, djob, watching, guard>>

EndFailed(g) ==
  /\ dpc[g] = "fail"
  /\ FailRows({djob[g]})
  /\ dpc' = [dpc EXCEPT ![g] = "over"]
  /\ UNCHANGED <<cancelRequested, expected, revision, gone, app, crashes, submits,
                 cpc, tokens, queue, djob, watching, guard>>

(* The guard of the task drops its token. *)
DropToken(g) ==
  /\ dpc[g] = "over"
  /\ tokens' = tokens \ {djob[g]}
  /\ dpc' = [dpc EXCEPT ![g] = "finish"]
  /\ UNCHANGED <<jobs, app, crashes, submits, cpc, queue, djob, watching,
                 guard>>

(* Bug: the CPU is not let go between two tasks. *)
FinishKeepsCpu(g) ==
  /\ dpc[g] = "finish" /\ mutex = {}
  /\ active' = NoJob
  /\ dpc' = [dpc EXCEPT ![g] = "drain"]
  /\ djob' = [djob EXCEPT ![g] = NoJob]
  /\ UNCHANGED <<jobs, app, crashes, submits, cpc, tokens, waiting, running,
                 failed, generation, watching, guard>>

(* The CPU is let go under the mutex, unless the generation has failed.    *)
Finish(g) ==
  /\ dpc[g] = "finish" /\ mutex = {}
  /\ active' = NoJob
  /\ dpc' = [dpc EXCEPT ![g] = "drain"]
  /\ djob' = [djob EXCEPT ![g] = NoJob]
  /\ \/ /\ IF failed THEN UNCHANGED <<protection, cpu>>
                     ELSE Guard!SetActive(FALSE)
        /\ UNCHANGED <<status, unreported, waiting, failed, tokens, broke>>
     \/ ~failed /\ StopFailed(NoJob) /\ broke' = TRUE
  /\ UNCHANGED <<cancelRequested, expected, revision, gone, app, crashes,
                 submits, cpc, running, generation, watching>>

-----------------------------------------------------------------------------
(* Cancel commands, edits, deletions, and the life of the app.             *)

(* mobile_cancel_job ends the row if it is active... *)
Cancel(j) ==
  /\ app = "open" /\ cpc[j] = "idle" /\ status[j] \in Active \union Terminal
  /\ Cardinality({k \in Jobs : cpc[k] # "idle"}) < MaxCancels
  /\ status' = Ended({j}, "cancelled")
  /\ cancelRequested' = [cancelRequested EXCEPT ![j] = @ \/ status[j] \in Active]
  /\ cpc' = [cpc EXCEPT ![j] = "signal"]
  /\ UNCHANGED <<expected, revision, gone, unreported, app, crashes, submits,
                 tokens, queue, drains, guard>>

(* ...and then tells the native work to stop, whatever has become of it.   *)
CancelSignal(j) ==
  /\ cpc[j] = "signal"
  /\ tokens' = tokens \union {j}
  /\ cpc' = [cpc EXCEPT ![j] = "done"]
  /\ UNCHANGED <<jobs, app, crashes, submits, queue, drains, guard>>

(* The user or a sync changes a saved result. *)
Edit(t) ==
  /\ app = "open" /\ ProjectOf[t] \notin gone
  /\ revision[t] < MaxEdits
  /\ revision' = [revision EXCEPT ![t] = @ + 1]
  /\ UNCHANGED <<status, cancelRequested, expected, gone, unreported, app,
                 crashes, submits, cpc, tokens, queue, drains, guard>>

(* mobile_delete_project deletes the rows of its jobs, too. *)
DeleteProject(p) ==
  /\ app = "open" /\ p \notin gone
  /\ gone' = gone \union {p}
  /\ status' = [j \in Jobs |->
                  IF ProjectOf[TargetOf[j]] = p /\ status[j] # "none"
                  THEN "deleted" ELSE status[j]]
  /\ UNCHANGED <<cancelRequested, expected, revision, unreported, app,
                 crashes, submits, cpc, tokens, queue, drains, guard>>

(* The process dies at any time; only the database survives. *)
Die ==
  /\ app = "open" /\ crashes < MaxCrashes
  /\ app' = "closed" /\ crashes' = crashes + 1
  /\ spc' = [j \in Jobs |-> IF spc[j] = "idle" THEN "idle" ELSE "done"]
  /\ cpc' = [j \in Jobs |-> IF cpc[j] = "idle" THEN "idle" ELSE "done"]
  /\ admission' = {} /\ mutex' = {} /\ tokens' = {}
  /\ waiting' = <<>> /\ active' = NoJob
  /\ running' = FALSE /\ failed' = FALSE
  /\ dpc' = [g \in Generations |-> "off"]
  /\ djob' = [g \in Generations |-> NoJob]
  /\ watching' = {}
  /\ broke' = FALSE /\ Guard!Stop
  /\ UNCHANGED <<jobs, generation>>

(* mark_interrupted_jobs_on_first_open, before the database is used. *)
Open ==
  /\ app = "closed"
  /\ app' = "open"
  /\ status' = Ended(Jobs, "failed")
  /\ UNCHANGED <<cancelRequested, expected, revision, gone, unreported,
                 crashes, submits, cpc, tokens, queue, drains, guard>>

(* The service acknowledges its start; it may fail at any time. *)
ServiceStarts ==
  /\ Guard!Acknowledge
  /\ UNCHANGED <<jobs, app, crashes, submits, cpc, tokens, queue, drains,
                 broke>>

ServiceFails ==
  /\ Guard!Fail /\ broke' = TRUE
  /\ UNCHANGED <<jobs, app, crashes, submits, cpc, tokens, queue, drains>>

-----------------------------------------------------------------------------
SubmitStep(j) ==
  \/ Submit(j)
  \/ Create(j)
  \/ EnqueueRunning(j)
  \/ EnqueueStart(j)
  \/ EnqueueStarted(j)

DrainStep(g) ==
  \/ DrainEmpty(g)
  \/ DrainPop(g)
  \/ Dequeue(g)
  \/ Publish(g)
  \/ Settle(g)
  \/ EndCancelled(g)
  \/ EndFailed(g)
  \/ DropToken(g)
  \/ Finish(g)

Next ==
  \/ \E j \in Jobs : SubmitStep(j) \/ Cancel(j) \/ CancelSignal(j)
  \/ \E g \in Generations : DrainStep(g) \/ Work(g) \/ Watch(g)
  \/ \E t \in Targets : Edit(t)
  \/ \E p \in Projects : DeleteProject(p)
  \/ Die
  \/ Open
  \/ ServiceStarts
  \/ ServiceFails

Spec == Init /\ [][Next]_vars

(* Threads that can run do run, and start() answers within its ten seconds. *)
(* Native work need not end. *)
Fairness ==
  /\ \A j \in Jobs : /\ WF_vars(spc[j] # "idle" /\ SubmitStep(j))
                      /\ WF_vars(CancelSignal(j))
  /\ \A g \in Generations : WF_vars(DrainStep(g)) /\ WF_vars(Watch(g))
  /\ WF_vars(ServiceStarts)

FairSpec == Spec /\ Fairness
-----------------------------------------------------------------------------
(* Properties.                                                             *)

Executing == {"dequeue", "work", "publish", "settle", "cancelled", "fail",
              "over", "finish"}
RowStates == Active \union Terminal \union {"none", "deleted"}

RowsType ==
  /\ status \in [Jobs -> RowStates]
  /\ cancelRequested \in [Jobs -> BOOLEAN]
  /\ expected \in [Jobs -> Nat]
  /\ revision \in [Targets -> Nat]
  /\ gone \subseteq Projects
  /\ unreported \subseteq Jobs
  /\ app \in {"closed", "open"} /\ crashes \in Nat

SubmitsType ==
  /\ spc \in [Jobs -> {"idle", "create", "enqueue", "starting", "done"}]
  /\ admission \subseteq Jobs /\ mutex \subseteq Jobs
  /\ cpc \in [Jobs -> {"idle", "signal", "done"}]
  /\ tokens \subseteq Jobs

QueueType ==
  /\ waiting \in Seq(Jobs)
  /\ active \in Jobs \union {NoJob}
  /\ {running, failed, broke, cpu} \subseteq BOOLEAN
  /\ generation \in 0..Cardinality(Jobs)
  /\ dpc \in [Generations -> {"off", "drain"} \union Executing]
  /\ djob \in [Generations -> Jobs \union {NoJob}]
  /\ watching \subseteq Generations
  /\ protection \in {"off", "starting", "on"}

(* Types of the rows, of the queue's state and of its threads. *)
TypeOK == RowsType /\ SubmitsType /\ QueueType

(* A target has at most one pending or running job: the look for one and   *)
(* the creation of the next are under one lock, also while a cancelled job *)
(* of the target still executes.                                           *)
OneActivePerTarget ==
  \A j, k \in Jobs :
    j # k /\ TargetOf[j] = TargetOf[k]
      => ~(status[j] \in Active /\ status[k] \in Active)

(* A queue that runs and has not failed has its service, or the service    *)
(* ended by itself: the stop of a drained queue cannot take the service of *)
(* a submission that came just then.                                       *)
ServiceKept == running /\ ~failed => protection = "on" \/ broke

(* The CPU is held awake exactly for the task that executes, as long as    *)
(* the service lives, and a queue at rest holds no service.                *)
CpuFollowsWork ==
  /\ cpu => active # NoJob
  /\ active # NoJob /\ protection = "on" => cpu
  /\ ~running /\ mutex = {} => protection = "off"

(* The compute slot is kept until the cleanup of the task returns: there   *)
(* is one drain thread, of the current generation, even when the           *)
(* generation has failed; no two tasks execute.                            *)
OneDrain == \A g \in Generations : dpc[g] # "off" => running /\ generation = g

(* No job is forgotten: an active row is in the queue, executes, or is     *)
(* about to be enqueued, unless the database refused its end.              *)
JobsAccounted ==
  app = "open" =>
    \A j \in Jobs : status[j] \in Active =>
      \/ j \in Range(waiting)
      \/ \E g \in Generations : djob[g] = j /\ dpc[g] \in Executing \ {"over", "finish"}
      \/ spc[j] \in {"enqueue", "starting"}
      \/ j \in unreported

(* A job that has ended stays as it is: a failure of the service, a cancel *)
(* and the end of the work race for the row, and the first one wins.       *)
TerminalStable ==
  [][\A j \in Jobs :
       status[j] \in Terminal => status'[j] \in {status[j], "deleted"}]_vars

(* An older job does not overwrite newer work: a job that completes does   *)
(* so on the saved result it was submitted with, in a project that exists. *)
NewerWorkKept ==
  [][\A j \in Jobs :
       status[j] # "completed" /\ status'[j] = "completed" =>
         /\ expected[j] = revision[TargetOf[j]]
         /\ ProjectOf[TargetOf[j]] \notin gone]_vars

(* When the service ends by itself the executing work is told to stop,     *)
(* although it may never end by itself.                                    *)
FailureSignalled ==
  \A j \in Jobs : (broke /\ active = j) ~> (j \in tokens \/ active # j)

(* Every job ends, when native work does, unless the app or its database   *)
(* goes away. *)
JobsEnd ==
  (\A g \in Generations : WF_vars(Work(g))) =>
    \A j \in Jobs :
      status[j] \in Active ~>
        (status[j] \notin Active \/ j \in unreported \/ app = "closed")
=============================================================================
