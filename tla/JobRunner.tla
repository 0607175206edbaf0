----------------------------- MODULE JobRunner ------------------------------
(***************************************************************************)
(* The desktop backend's job runner: apps/backend/app/services/jobs.py     *)
(* (InProcessJobRunner and the functions that create jobs), started and    *)
(* stopped by the lifespan of apps/backend/app/main.py.                    *)
(*                                                                         *)
(* Three kinds of threads work on the jobs table of one SQLite database:   *)
(*   - request threads that create jobs and then put them in the queue;    *)
(*   - request threads that cancel a job or delete a project;              *)
(*   - the one worker thread, which takes jobs from the in-memory queue.   *)
(* Every thread opens a session, reads a row in a statement of its own and *)
(* writes it back later: what it read may be stale when it writes.  A step *)
(* of this module is one such read, or one commit, of one thread.          *)
(*                                                                         *)
(* The rows survive a crash of the server; the queue, the threads and the  *)
(* requests in progress do not.                                            *)
(***************************************************************************)
EXTENDS Naturals, Sequences, FiniteSets, Functions

CONSTANTS
  Jobs,          \* job identifiers
  Projects,      \* project identifiers
  Requests,      \* requests that create jobs, each made at most once
  Cancels,       \* cancel requests, each made at most once
  Bulk,          \* the requests that are bulk requests
  Conversions,   \* the bulk requests of type convert_audio
  Plan,          \* Plan[r]: the commits of request r, each a sequence of jobs
  ProjectOf,     \* the project of a job
  TypeOf,        \* the type of a job
  ProcJobs,      \* jobs whose handler runs a child process and polls cancel
  MaxCrashes,    \* bound: how often the server goes down
  NoJob,         \* the worker's job while it has none
  Poison         \* the None that stop() puts in the queue

PlannedBy(r) ==
  UNION {{Plan[r][g][i] : i \in DOMAIN Plan[r][g]} : g \in DOMAIN Plan[r]}

ASSUME JobsAssumption ==
  /\ IsFiniteSet(Jobs)
  /\ NoJob \notin Jobs
  /\ Poison \notin Jobs
  /\ ProcJobs \subseteq Jobs
  /\ ProjectOf \in [Jobs -> Projects]
  /\ MaxCrashes \in Nat

(* A job is created by one request, in one place of its plan; only a bulk  *)
(* request commits more than once.                                         *)
ASSUME PlanAssumption ==
  /\ Conversions \subseteq Bulk /\ Bulk \subseteq Requests
  /\ Plan \in [Requests -> Seq(Seq(Jobs) \ {<<>>}) \ {<<>>}]
  /\ \A r \in Requests \ Bulk : Len(Plan[r]) = 1
  /\ \A r \in Requests : \A g, h \in DOMAIN Plan[r] :
       \A i \in DOMAIN Plan[r][g] : \A k \in DOMAIN Plan[r][h] :
         Plan[r][g][i] = Plan[r][h][k] => g = h /\ i = k
  /\ \A r, q \in Requests : r # q => PlannedBy(r) \intersect PlannedBy(q) = {}

(* convert_audio jobs are created by conversion requests alone. *)
ASSUME TypeAssumption ==
  \A r \in Requests : \A j \in PlannedBy(r) :
    (TypeOf[j] = "convert_audio") <=> (r \in Conversions)

VARIABLES
  status,           \* the status column; "none" before, "deleted" after the row
  cancelRequested,  \* the cancel_requested column
  createdAt,        \* the created_at column: when the row was created
  gone,             \* the deleted projects
  server,           \* the life of the server process
  queue,            \* InProcessJobRunner._queue
  wpc, wjob,        \* the worker thread and the job it has taken
  wtarget,          \* the status the worker is about to write
  proc,             \* the child process of the handler
  registered,       \* whether it is in _active_processes
  rpc, rgroup,      \* the creating requests and the commit each is at
  created,          \* jobs a request has committed and not yet enqueued
  convLock,         \* holder of _CONVERSION_BATCH_CREATION_LOCK, {} when free
  cpc, cjob, cseen, \* the cancel requests: job, and the status they read
  crashes,          \* how often the server went down
  ran               \* history: the jobs whose handler was started

rows     == <<status, cancelRequested, createdAt, gone>>
worker   == <<wpc, wjob, wtarget, proc, registered>>
requests == <<rpc, rgroup, created, convLock>>
cancels  == <<cpc, cjob, cseen>>
vars == <<rows, server, queue, worker, requests, cancels, crashes, ran>>

Active   == {"pending", "running"}
Terminal == {"completed", "failed", "cancelled"}
Absent   == {"none", "deleted"}

(* The worker has written running for its job and not yet written its end. *)
Owning    == {"begin", "handle", "spawned", "wait", "after", "finish",
              "settle", "update"}
(* The handler of the job is executing. *)
Executing == {"handle", "spawned", "wait", "after"}

Exists(j) == status[j] \notin Absent

(* is_cancel_requested: no, for a row that is gone. *)
IsCancelRequested(j) == Exists(j) /\ cancelRequested[j]

Init ==
  /\ status = [j \in Jobs |-> "none"]
  /\ cancelRequested = [j \in Jobs |-> FALSE]
  /\ createdAt = [j \in Jobs |-> 0]
  /\ gone = {}
  /\ server = "down"
  /\ queue = <<>>
  /\ wpc = "off" /\ wjob = NoJob /\ wtarget = "none"
  /\ proc = "none" /\ registered = FALSE
  /\ rpc = [r \in Requests |-> "idle"]
  /\ rgroup = [r \in Requests |-> 1]
  /\ created = [r \in Requests |-> <<>>]
  /\ convLock = {}
  /\ cpc = [c \in Cancels |-> "idle"]
  /\ cjob = [c \in Cancels |-> NoJob]
  /\ cseen = [c \in Cancels |-> "none"]
  /\ crashes = 0
  /\ ran = {}

-----------------------------------------------------------------------------
(* Requests that create jobs.                                              *)

RowsUnchanged == UNCHANGED <<status, cancelRequested, createdAt>>

HasActiveConversionBatch ==
  \E j \in Jobs : TypeOf[j] = "convert_audio" /\ status[j] \in Active

HasActiveProjectJob(j) ==
  \E k \in Jobs : /\ ProjectOf[k] = ProjectOf[j]
                  /\ TypeOf[k] = TypeOf[j]
                  /\ status[k] \in Active

(* Bug: the creation lock is not taken. *)
ArrivesWithoutLock(r) ==
  /\ server = "up" /\ rpc[r] = "idle"
  /\ rpc' = [rpc EXCEPT ![r] = IF r \in Conversions THEN "batch" ELSE "check"]
  /\ UNCHANGED <<rows, server, queue, worker, rgroup, created, convLock,
                 cancels, crashes, ran>>

(* A request arrives; a conversion takes the creation lock. *)
RequestArrives(r) ==
  /\ server = "up" /\ rpc[r] = "idle"
  /\ \/ /\ r \in Conversions
        /\ convLock = {}
        /\ convLock' = {r}
        /\ rpc' = [rpc EXCEPT ![r] = "batch"]
     \/ /\ r \notin Conversions
        /\ rpc' = [rpc EXCEPT ![r] = "check"]
        /\ UNCHANGED convLock
  /\ UNCHANGED <<rows, server, queue, worker, rgroup, created, cancels,
                 crashes, ran>>

(* The request ends; a conversion leaves the lock. *)
Return(r) ==
  /\ rpc' = [rpc EXCEPT ![r] = "done"]
  /\ convLock' = convLock \ {r}

(* A conversion is refused while a conversion job is pending or running. *)
CheckBatch(r) ==
  /\ server = "up" /\ rpc[r] = "batch"
  /\ \/ HasActiveConversionBatch /\ Return(r)
     \/ /\ ~HasActiveConversionBatch
        /\ rpc' = [rpc EXCEPT ![r] = "check"]
        /\ UNCHANGED convLock
  /\ UNCHANGED <<rows, server, queue, worker, rgroup, created, cancels,
                 crashes, ran>>

(* The next commit of the request, or the enqueueing when none is left. *)
NextGroup(r) ==
  /\ rgroup' = [rgroup EXCEPT ![r] = @ + 1]
  /\ rpc' = [rpc EXCEPT ![r] =
               IF rgroup[r] < Len(Plan[r]) THEN "check" ELSE "enqueue"]

(* The guards of one commit.  A bulk request skips a project that has an   *)
(* active job of its type, or is locked, or has nothing to do; the other   *)
(* requests fail when the project is gone or locked.                       *)
CheckGroup(r) ==
  /\ server = "up" /\ rpc[r] = "check"
  /\ LET j == Plan[r][rgroup[r]][1]
     IN \/ /\ r \in Bulk /\ ~HasActiveProjectJob(j)
           /\ rpc' = [rpc EXCEPT ![r] = "commit"]
           /\ UNCHANGED <<rgroup, convLock>>
        \/ r \in Bulk /\ NextGroup(r) /\ UNCHANGED convLock
        \/ /\ r \notin Bulk /\ ProjectOf[j] \notin gone
           /\ rpc' = [rpc EXCEPT ![r] = "commit"]
           /\ UNCHANGED <<rgroup, convLock>>
        \/ r \notin Bulk /\ Return(r) /\ UNCHANGED rgroup
  /\ UNCHANGED <<rows, server, queue, worker, created, cancels, crashes, ran>>

(* create_job and the commit: pending rows, in the order they were made.   *)
(* They are noted in created at once, the code notes them after Refresh.   *)
CommitGroup(r) ==
  /\ server = "up" /\ rpc[r] = "commit"
  /\ LET g   == Plan[r][rgroup[r]]
         now == Cardinality({j \in Jobs : status[j] # "none"})
     IN /\ status' = [j \in Jobs |->
                        IF j \in Range(g) THEN "pending" ELSE status[j]]
        /\ createdAt' = [j \in Jobs |->
                           IF j \in Range(g)
                           THEN now + (CHOOSE i \in DOMAIN g : g[i] = j)
                           ELSE createdAt[j]]
        /\ created' = [created EXCEPT ![r] = @ \o g]
  /\ rpc' = [rpc EXCEPT ![r] = "refresh"]
  /\ UNCHANGED <<cancelRequested, gone, server, queue, worker, rgroup,
                 convLock, cancels, crashes, ran>>

(* The rows are read back, which fails when one is gone by now. *)
Refresh(r) ==
  /\ server = "up" /\ rpc[r] = "refresh"
  /\ \A j \in Range(Plan[r][rgroup[r]]) : Exists(j)
  /\ NextGroup(r)
  /\ UNCHANGED <<rows, server, queue, worker, created, convLock, cancels,
                 crashes, ran>>

(* The jobs are enqueued one by one, after the last commit. *)
Enqueue(r) ==
  /\ server = "up" /\ rpc[r] = "enqueue"
  /\ \/ /\ created[r] # <<>>
        /\ queue' = Append(queue, Head(created[r]))
        /\ created' = [created EXCEPT ![r] = Tail(@)]
        /\ UNCHANGED <<rpc, convLock>>
     \/ created[r] = <<>> /\ Return(r) /\ UNCHANGED <<queue, created>>
  /\ UNCHANGED <<rows, server, worker, rgroup, cancels, crashes, ran>>

(* Any other error than an AppError ends the request where it stands: a    *)
(* statement or a commit fails, a row to read back is gone, and in a bulk  *)
(* request, whose rollbacks expire what it has loaded, any use of a        *)
(* project or job that is gone.  The jobs in created are never enqueued.   *)
Abort(r) ==
  /\ server = "up"
  /\ \/ rpc[r] \in {"batch", "check", "commit", "refresh"}
     \/ r \in Bulk /\ rpc[r] = "enqueue"
  /\ rpc' = [rpc EXCEPT ![r] = "aborted"]
  /\ convLock' = convLock \ {r}
  /\ UNCHANGED <<rows, server, queue, worker, rgroup, created, cancels,
                 crashes, ran>>

-----------------------------------------------------------------------------
(* Requests that cancel a job, and the deletion of a project.              *)

(* cancel() reads the row. *)
CancelRead(c) ==
  /\ server = "up" /\ cpc[c] = "idle"
  /\ \E j \in Jobs :
       /\ Exists(j)
       /\ cjob' = [cjob EXCEPT ![c] = j]
       /\ cseen' = [cseen EXCEPT ![c] = status[j]]
  /\ cpc' = [cpc EXCEPT ![c] = "write"]
  /\ UNCHANGED <<rows, server, queue, worker, requests, crashes, ran>>

(* Bug: only the flag is set; the worker is left to notice it. *)
CancelSetsFlagOnly(c) ==
  /\ server = "up" /\ cpc[c] = "write"
  /\ cancelRequested' = [cancelRequested EXCEPT ![cjob[c]] = TRUE]
  /\ cpc' = [cpc EXCEPT ![c] = "terminate"]
  /\ UNCHANGED <<status, createdAt, gone, server, queue, worker, requests,
                 cjob, cseen, crashes, ran>>

(* Bug: a job is cancelled whatever status was read. *)
CancelAnyStatus(c) ==
  /\ server = "up" /\ cpc[c] = "write" /\ Exists(cjob[c])
  /\ cancelRequested' = [cancelRequested EXCEPT ![cjob[c]] = TRUE]
  /\ status' = [status EXCEPT ![cjob[c]] = "cancelled"]
  /\ cpc' = [cpc EXCEPT ![c] = "terminate"]
  /\ UNCHANGED <<createdAt, gone, server, queue, worker, requests, cjob,
                 cseen, crashes, ran>>

(* cancel() commits what it decided on the row it read. *)
CancelWrite(c) ==
  /\ server = "up" /\ cpc[c] = "write"
  /\ IF Exists(cjob[c])
     THEN /\ cancelRequested' = [cancelRequested EXCEPT ![cjob[c]] = TRUE]
          /\ status' = [status EXCEPT ![cjob[c]] =
                          IF cseen[c] = "pending" THEN "cancelled" ELSE @]
          /\ cpc' = [cpc EXCEPT ![c] = "terminate"]
     ELSE /\ cpc' = [cpc EXCEPT ![c] = "done"]
          /\ UNCHANGED <<status, cancelRequested>>
  /\ UNCHANGED <<createdAt, gone, server, queue, worker, requests, cjob,
                 cseen, crashes, ran>>

(* _terminate_registered_process kills the process of the job, if it is    *)
(* registered by now.                                                      *)
CancelTerminate(c) ==
  /\ server = "up" /\ cpc[c] = "terminate"
  /\ proc' = IF registered /\ wjob = cjob[c] /\ proc = "alive"
             THEN "killed" ELSE proc
  /\ cpc' = [cpc EXCEPT ![c] = "done"]
  /\ UNCHANGED <<rows, server, queue, wpc, wjob, wtarget, registered,
                 requests, cjob, cseen, crashes, ran>>

(* delete_project: the rows of its jobs go with the project. *)
DeleteProject(p) ==
  /\ server = "up" /\ p \notin gone
  /\ gone' = gone \union {p}
  /\ status' = [j \in Jobs |->
                  IF ProjectOf[j] = p /\ Exists(j) THEN "deleted" ELSE status[j]]
  /\ UNCHANGED <<cancelRequested, createdAt, server, queue, worker, requests,
                 cancels, crashes, ran>>

-----------------------------------------------------------------------------
(* The worker thread.                                                      *)

Others == <<server, requests, cancels, crashes>>

(* _worker: the loop tests the stop event before it waits for the queue. *)
WorkerLoop ==
  /\ wpc = "loop"
  /\ wpc' = IF server = "stopping" THEN "exited" ELSE "get"
  /\ UNCHANGED <<rows, queue, wjob, wtarget, proc, registered, Others, ran>>

(* Bug: the poison is taken for a job. *)
GetIgnoresPoison ==
  /\ wpc = "get" /\ queue # <<>>
  /\ queue' = Tail(queue)
  /\ wpc' = "read" /\ wjob' = Head(queue)
  /\ UNCHANGED <<rows, wtarget, proc, registered, Others, ran>>

WorkerGet ==
  /\ wpc = "get" /\ queue # <<>>
  /\ queue' = Tail(queue)
  /\ IF Head(queue) = Poison
     THEN wpc' = "exited" /\ UNCHANGED wjob
     ELSE wpc' = "read" /\ wjob' = Head(queue)
  /\ UNCHANGED <<rows, wtarget, proc, registered, Others, ran>>

(* _execute_job reads the row and drops a job that is gone or cancelled. *)
WorkerRead ==
  /\ wpc = "read"
  /\ IF ~Exists(wjob) \/ status[wjob] = "cancelled"
     THEN wpc' = "loop" /\ wjob' = NoJob
     ELSE wpc' = "start" /\ UNCHANGED wjob
  /\ UNCHANGED <<rows, queue, wtarget, proc, registered, Others, ran>>

(* It commits running.  When the row was deleted since the read, the       *)
(* update matches no row and the error, outside the try, ends the thread.  *)
WorkerStart ==
  /\ wpc = "start"
  /\ IF Exists(wjob)
     THEN /\ status' = [status EXCEPT ![wjob] = "running"]
          /\ wpc' = "begin" /\ UNCHANGED wjob
     ELSE wpc' = "dead" /\ wjob' = NoJob /\ UNCHANGED status
  /\ UNCHANGED <<cancelRequested, createdAt, gone, queue, wtarget, proc,
                 registered, Others, ran>>

(* It reads the row again, then the project, then the cancel flag, and     *)
(* calls the handler.  The project may be gone or locked by a sync.        *)
WorkerBegin ==
  /\ wpc = "begin"
  /\ \/ /\ ~Exists(wjob)
        /\ wpc' = "loop" /\ wjob' = NoJob /\ UNCHANGED <<wtarget, ran>>
     \/ /\ Exists(wjob)
        /\ wpc' = "settle" /\ UNCHANGED <<wjob, wtarget, ran>>
     \/ /\ Exists(wjob) /\ ProjectOf[wjob] \notin gone
        /\ cancelRequested[wjob]
        /\ wpc' = "update" /\ wtarget' = "cancelled" /\ UNCHANGED <<wjob, ran>>
     \/ /\ Exists(wjob) /\ ProjectOf[wjob] \notin gone
        /\ ~cancelRequested[wjob]
        /\ wpc' = "handle" /\ ran' = ran \union {wjob}
        /\ UNCHANGED <<wjob, wtarget>>
  /\ UNCHANGED <<rows, queue, proc, registered, Others>>

(* A handler without a child process does its work or raises. *)
HandleDirect ==
  /\ wpc = "handle" /\ wjob \notin ProcJobs
  /\ wpc' \in {"finish", "settle"}
  /\ UNCHANGED <<rows, queue, wjob, wtarget, proc, registered, Others, ran>>

(* A handler with a child process creates it, or fails to... *)
HandleSpawn ==
  /\ wpc = "handle" /\ wjob \in ProcJobs
  /\ \/ wpc' = "spawned" /\ proc' = "alive"
     \/ wpc' = "settle" /\ UNCHANGED proc
  /\ UNCHANGED <<rows, queue, wjob, wtarget, registered, Others, ran>>

(* ...and only then registers it. *)
HandleRegister ==
  /\ wpc = "spawned"
  /\ wpc' = "wait" /\ registered' = TRUE
  /\ UNCHANGED <<rows, queue, wjob, wtarget, proc, Others, ran>>

(* The child process ends by itself. *)
ProcessExits ==
  /\ proc = "alive"
  /\ proc' = "exited"
  /\ UNCHANGED <<rows, queue, wpc, wjob, wtarget, registered, Others, ran>>

(* Bug: the loop only waits for the process and trusts cancel() to kill it. *)
PollIgnoresCancel ==
  /\ wpc = "wait"
  /\ \/ proc = "exited" /\ wpc' = "after"
     \/ proc = "killed" /\ wpc' = "settle"
  /\ proc' = "none" /\ registered' = FALSE
  /\ UNCHANGED <<rows, queue, wjob, wtarget, Others, ran>>

(* The polling loop: the process has ended, or the flag is set, or the     *)
(* loop goes on.  A process that was killed has a non-zero return code.    *)
HandlePoll ==
  /\ wpc = "wait"
  /\ \/ /\ proc = "exited" /\ wpc' = "after"
        /\ UNCHANGED wtarget
     \/ /\ proc = "killed" /\ wpc' = "settle"
        /\ UNCHANGED wtarget
     \/ /\ proc = "alive" /\ IsCancelRequested(wjob)
        /\ wpc' = "update" /\ wtarget' = "cancelled"
  /\ proc' = "none" /\ registered' = FALSE
  /\ UNCHANGED <<rows, queue, wjob, Others, ran>>

(* A report of progress raises while the process runs, as its commit fails *)
(* or the row is gone: the handler ends, and kills or leaves its process.  *)
ReportRaises ==
  /\ wpc = "wait" /\ proc = "alive"
  /\ wpc' = "settle"
  /\ proc' = "none" /\ registered' = FALSE
  /\ UNCHANGED <<rows, queue, wjob, wtarget, Others, ran>>

(* After the process: its return code, the last look at the flag, and the  *)
(* rest of the handler.                                                    *)
HandleAfter ==
  /\ wpc = "after"
  /\ \/ wpc' = "settle" /\ UNCHANGED wtarget
     \/ /\ IsCancelRequested(wjob)
        /\ wpc' = "update" /\ wtarget' = "cancelled"
     \/ ~IsCancelRequested(wjob) /\ wpc' = "finish" /\ UNCHANGED wtarget
  /\ UNCHANGED <<rows, queue, wjob, proc, registered, Others, ran>>

(* completed is committed whatever the row says by now; on a deleted row   *)
(* the commit raises inside the try.                                       *)
WorkerFinish ==
  /\ wpc = "finish"
  /\ IF Exists(wjob)
     THEN /\ status' = [status EXCEPT ![wjob] = "completed"]
          /\ wpc' = "loop" /\ wjob' = NoJob
     ELSE wpc' = "settle" /\ UNCHANGED <<status, wjob>>
  /\ UNCHANGED <<cancelRequested, createdAt, gone, queue, wtarget, proc,
                 registered, Others, ran>>

(* The except clauses: an error after a cancel request is a cancellation. *)
WorkerSettle ==
  /\ wpc = "settle"
  /\ IF Exists(wjob)
     THEN /\ wtarget' = IF cancelRequested[wjob] THEN "cancelled" ELSE "failed"
          /\ wpc' = "update" /\ UNCHANGED wjob
     ELSE wpc' = "loop" /\ wjob' = NoJob /\ UNCHANGED wtarget
  /\ UNCHANGED <<rows, queue, proc, registered, Others, ran>>

(* update_job commits the outcome.  A row deleted before update_job reads  *)
(* it is skipped; one deleted between its read and its commit ends the     *)
(* thread, as no try encloses the except clauses.                          *)
WorkerUpdate ==
  /\ wpc = "update"
  /\ \/ /\ Exists(wjob)
        /\ status' = [status EXCEPT ![wjob] = wtarget]
        /\ wpc' = "loop"
     \/ ~Exists(wjob) /\ wpc' \in {"loop", "dead"} /\ UNCHANGED status
  /\ wjob' = NoJob /\ wtarget' = "none"
  /\ UNCHANGED <<cancelRequested, createdAt, gone, queue, proc, registered,
                 Others, ran>>

-----------------------------------------------------------------------------
(* The life of the server.                                                 *)

(* stop(): the stop event, the poison, and the registered processes.  The  *)
(* web server has let the requests in progress end before.                 *)
Stop ==
  /\ server = "up"
  /\ \A r \in Requests : rpc[r] \in {"idle", "done", "aborted"}
  /\ \A c \in Cancels : cpc[c] \in {"idle", "done"}
  /\ server' = "stopping"
  /\ queue' = Append(queue, Poison)
  /\ proc' = IF registered /\ proc = "alive" THEN "killed" ELSE proc
  /\ UNCHANGED <<rows, wpc, wjob, wtarget, registered, requests, cancels,
                 crashes, ran>>

(* The process ends: killed at any time, or after stop(), which waits two  *)
(* seconds for the worker and no longer.  Requests in progress are lost.   *)
GoDown ==
  /\ server # "down"
  /\ crashes < MaxCrashes
  /\ crashes' = crashes + 1
  /\ server' = "down"
  /\ queue' = <<>>
  /\ wpc' = "off" /\ wjob' = NoJob /\ wtarget' = "none"
  /\ proc' = "none" /\ registered' = FALSE
  /\ rpc' = [r \in Requests |-> IF rpc[r] = "idle" THEN "idle" ELSE "done"]
  /\ created' = [r \in Requests |-> <<>>]
  /\ convLock' = {}
  /\ cpc' = [c \in Cancels |-> IF cpc[c] = "idle" THEN "idle" ELSE "done"]
  /\ UNCHANGED <<rows, rgroup, cjob, cseen, ran>>

(* Bug: interrupted jobs are left as they are. *)
RecoverNothing ==
  /\ server = "down"
  /\ server' = "recovered"
  /\ UNCHANGED <<rows, queue, worker, requests, cancels, crashes, ran>>

(* Bug: interrupted jobs are retried. *)
RecoverAsPending ==
  /\ server = "down"
  /\ server' = "recovered"
  /\ status' = [j \in Jobs |->
                  IF status[j] = "running" THEN "pending" ELSE status[j]]
  /\ UNCHANGED <<cancelRequested, createdAt, gone, queue, worker, requests,
                 cancels, crashes, ran>>

(* recover_running_jobs, before the runner starts. *)
RecoverRunning ==
  /\ server = "down"
  /\ server' = "recovered"
  /\ status' = [j \in Jobs |->
                  IF status[j] = "running" THEN "failed" ELSE status[j]]
  /\ UNCHANGED <<cancelRequested, createdAt, gone, queue, worker, requests,
                 cancels, crashes, ran>>

(* Bug: the pending jobs in no particular order. *)
PendingInAnyOrder(q) ==
  /\ Range(q) = {j \in Jobs : status[j] = "pending"}
  /\ IsInjective(q)

(* The pending jobs, each once, by creation time. *)
PendingInOrder(q) ==
  /\ Range(q) = {j \in Jobs : status[j] = "pending"}
  /\ IsInjective(q)
  /\ \A i, k \in DOMAIN q : i < k => createdAt[q[i]] <= createdAt[q[k]]

(* Bug: pending jobs are not re-enqueued. *)
StartWithEmptyQueue ==
  /\ server = "recovered"
  /\ server' = "up"
  /\ wpc' = "loop"
  /\ UNCHANGED <<rows, queue, wjob, wtarget, proc, registered, requests,
                 cancels, crashes, ran>>

(* start(): the worker thread and recover_pending_jobs.  No request is     *)
(* served before start() returns, so its puts are one step.                *)
Start ==
  /\ server = "recovered"
  /\ server' = "up"
  /\ wpc' = "loop"
  /\ \E n \in 0..Cardinality(Jobs) : \E q \in [1..n -> Jobs] :
       PendingInOrder(q) /\ queue' = q
  /\ UNCHANGED <<rows, wjob, wtarget, proc, registered, requests, cancels,
                 crashes, ran>>

-----------------------------------------------------------------------------
RequestStep(r) ==
  \/ RequestArrives(r)
  \/ CheckBatch(r)
  \/ CheckGroup(r)
  \/ CommitGroup(r)
  \/ Refresh(r)
  \/ Enqueue(r)
  \/ Abort(r)

CancelStep(c) ==
  \/ CancelRead(c)
  \/ CancelWrite(c)
  \/ CancelTerminate(c)

HandlerStep ==
  \/ HandleDirect
  \/ HandleSpawn
  \/ HandleRegister
  \/ HandlePoll
  \/ HandleAfter

WorkerStep ==
  \/ WorkerLoop
  \/ WorkerGet
  \/ WorkerRead
  \/ WorkerStart
  \/ WorkerBegin
  \/ HandlerStep
  \/ WorkerFinish
  \/ WorkerSettle
  \/ WorkerUpdate

ServerStep ==
  \/ Stop
  \/ GoDown
  \/ RecoverRunning
  \/ Start

Next ==
  \/ \E r \in Requests : RequestStep(r)
  \/ \E c \in Cancels : CancelStep(c)
  \/ \E p \in Projects : DeleteProject(p)
  \/ WorkerStep
  \/ ReportRaises
  \/ ProcessExits
  \/ ServerStep

(* Threads that can run do run, and the server, once down, is started. The *)
(* user need not make any request and a child process need not ever end.   *)
RequestProgress(r) == rpc[r] # "idle" /\ RequestStep(r)
CancelProgress(c)  == cpc[c] # "idle" /\ CancelStep(c)

Fairness ==
  /\ \A r \in Requests : WF_vars(RequestProgress(r))
  /\ \A c \in Cancels : WF_vars(CancelProgress(c))
  /\ WF_vars(WorkerStep)
  /\ WF_vars(RecoverRunning)
  /\ WF_vars(Start)

Spec == Init /\ [][Next]_vars
FairSpec == Spec /\ Fairness
-----------------------------------------------------------------------------
(* Properties.                                                             *)

WorkerPCs == {"off", "loop", "get", "read", "start", "exited", "dead"} \union Owning
Statuses  == Active \union Terminal \union Absent

RowsType ==
  /\ status \in [Jobs -> Statuses]
  /\ cancelRequested \in [Jobs -> BOOLEAN]
  /\ createdAt \in [Jobs -> Nat]
  /\ gone \subseteq Projects
  /\ ran \subseteq Jobs

ServerType ==
  /\ server \in {"down", "recovered", "up", "stopping"}
  /\ queue \in Seq(Jobs \union {Poison})
  /\ crashes \in 0..MaxCrashes

WorkerType ==
  /\ wpc \in WorkerPCs
  /\ wjob \in Jobs \union {NoJob}
  /\ wtarget \in {"none", "cancelled", "failed"}
  /\ proc \in {"none", "alive", "exited", "killed"}
  /\ registered \in BOOLEAN

RequestsType ==
  /\ rpc \in [Requests -> {"idle", "batch", "check", "commit", "refresh",
                            "enqueue", "done", "aborted"}]
  /\ rgroup \in [Requests -> Nat \ {0}]
  /\ created \in [Requests -> Seq(Jobs)]
  /\ convLock \subseteq Requests

CancelsType ==
  /\ cpc \in [Cancels -> {"idle", "write", "terminate", "done"}]
  /\ cjob \in [Cancels -> Jobs \union {NoJob}]
  /\ cseen \in [Cancels -> Statuses]

(* Types of the variables: the columns of jobs, the runner's fields and    *)
(* the program counters of its threads.                                    *)
TypeOK == RowsType /\ ServerType /\ WorkerType /\ RequestsType /\ CancelsType

(* The jobs that an aborted request committed and did not enqueue. *)
Stranded(j) == \E r \in Requests : rpc[r] = "aborted" /\ j \in Range(created[r])

(* A job is forgotten only by a request that an error ended: while the     *)
(* server runs, a pending row is in the queue, or about to be put there by *)
(* the request that created it, or in the worker's hands, or was committed *)
(* by a request that was aborted since this start.  It relates the commit  *)
(* of a row, the later put, the worker's take and the re-enqueueing after  *)
(* a restart, which finds the forgotten ones too.                          *)
PendingAccounted ==
  server = "up" =>
    \A j \in Jobs : status[j] = "pending" =>
      \/ j \in Range(queue)
      \/ \E r \in Requests : /\ j \in Range(created[r])
                               /\ rpc[r] \in {"check", "commit", "refresh",
                                             "enqueue"}
      \/ wjob = j /\ wpc \in {"read", "start"}
      \/ Stranded(j)

(* A row says running only while the worker is at work on that very job,   *)
(* from the recovery of interrupted jobs on: no row is left running by a   *)
(* crash, a race with a cancellation or a failing handler, and no two rows *)
(* are running.                                                            *)
RunningOwned ==
  server # "down" =>
    \A j \in Jobs : status[j] = "running" => wjob = j /\ wpc \in Owning

(* A job with a committed cancel request is not waiting any more: a cancel *)
(* that saw the row pending has ended it, and nothing makes it pending     *)
(* again, whatever the worker and other cancels read before.               *)
CancelledNotPending ==
  \A j \in Jobs : cancelRequested[j] => status[j] # "pending"

(* The jobs of one request start in the order it made them (an import      *)
(* makes stems before chords, which use them), also when a restart has     *)
(* rebuilt the queue from the rows.                                        *)
StartOrder ==
  \A r \in Requests : \A g, h \in DOMAIN Plan[r] :
    \A i \in DOMAIN Plan[r][g] : \A k \in DOMAIN Plan[r][h] :
      (g < h \/ (g = h /\ i < k)) /\ Plan[r][h][k] \in ran
        => status[Plan[r][g][i]] # "pending"

(* Conversions of two requests are never active together, unless one was   *)
(* cancelled: the check and the creation are one critical section and the  *)
(* worker cannot revive a job of an older batch.                           *)
ConversionsDisjoint ==
  \A r, q \in Conversions :
    r # q => ~ \E j \in PlannedBy(r), k \in PlannedBy(q) :
                 /\ status[j] \in Active /\ ~cancelRequested[j]
                 /\ status[k] \in Active /\ ~cancelRequested[k]

(* A finished job stays as it is until its row is deleted, but for two     *)
(* races: a cancel that read the row as pending writes late, or the worker *)
(* had taken the job from the queue before it was cancelled.               *)
TerminalStable ==
  [][\A j \in Jobs :
       status[j] \in Terminal /\ status'[j] \notin {status[j], "deleted"}
         => \/ wjob = j
            \/ \E c \in Cancels :
                 cjob[c] = j /\ cpc[c] = "write" /\ cseen[c] = "pending"]_vars

(* Handlers run one at a time and no job's handler is started twice, not   *)
(* even after a crash: the runner implements JobExecution.                 *)
Execution == INSTANCE JobExecution WITH
  accepted  <- {j \in Jobs : status[j] # "none"},
  started   <- ran,
  executing <- IF wpc \in Executing THEN {wjob} ELSE {}

AtMostOnce == Execution!Spec

(* A test of the runner is named "cancelled pending job does not execute": *)
(* no handler executes for a job whose row says cancelled.                 *)
CancelledPendingJobDoesNotExecute ==
  wpc \in Executing => status[wjob] # "cancelled"

(* While the server lives and the worker thread with it, a job that waits  *)
(* or runs ends, also over restarts, if no child process hangs for ever,   *)
(* unless an aborted request leaves it out of the queue.                   *)
Stopped == server = "stopping" \/ wpc = "dead"
JobsEnd ==
  WF_vars(ProcessExits) =>
    \A j \in Jobs :
      status[j] \in Active ~> (status[j] \notin Active \/ Stopped \/ Stranded(j))

(* A cancellation takes effect although the child process of the handler   *)
(* may never end by itself: the kill or the polling loop ends it, whether  *)
(* or not the process was registered when the cancel looked for it.        *)
CancelTakesEffect ==
  \A j \in Jobs :
    (cancelRequested[j] /\ status[j] \in Active)
      ~> (status[j] \notin Active \/ Stopped)
=============================================================================
