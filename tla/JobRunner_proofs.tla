-------------------------- MODULE JobRunner_proofs --------------------------
(***************************************************************************)
(* Proofs about JobRunner for any number of jobs, requests, cancels and    *)
(* crashes.  The invariant below follows a job from the request that made  *)
(* it, through the queue, to the worker: it is in one place at a time, and *)
(* its handler was not started before the worker lets go of it.            *)
(***************************************************************************)
EXTENDS JobRunner, ListLemmas, FiniteSetTheorems

(* A job that was created and whose handler was not started. *)
Fresh(j) == status[j] # "none" /\ j \notin ran

(* The queue holds fresh jobs, each once, and the poison at the end only.  *)
QueueInv ==
  /\ IsInjective(queue)
  /\ \A j \in Range(queue) : j # Poison => Fresh(j) /\ j # wjob
  /\ Poison \in Range(queue) => server = "stopping"

(* So do the lists of jobs that requests are yet to enqueue. *)
CreatedInv ==
  \A r \in Requests :
    /\ IsInjective(created[r])
    /\ \A j \in Range(created[r]) :
         /\ j \in PlannedBy(r)
         /\ Fresh(j)
         /\ j \notin Range(queue)
         /\ j # wjob

(* The commits a request has still to make are of jobs that do not exist;  *)
(* the one that is being read back is made.                                *)
Working == {"idle", "batch", "check", "commit", "refresh"}

FirstLeft(r) == IF rpc[r] = "refresh" THEN rgroup[r] + 1 ELSE rgroup[r]

PlanInv ==
  \A r \in Requests :
    rpc[r] \in Working =>
      /\ rgroup[r] \in DOMAIN Plan[r]
      /\ r \notin Bulk /\ rpc[r] # "refresh" => created[r] = <<>>
      /\ \A g \in DOMAIN Plan[r] : g >= FirstLeft(r) =>
           \A i \in DOMAIN Plan[r][g] : status[Plan[r][g][i]] = "none"

Holding == Owning \union {"read", "start"}

WorkerInv ==
  /\ wpc \in Holding => wjob \in Jobs /\ status[wjob] # "none"
  /\ wpc \notin Holding => wjob = NoJob
  /\ wpc \in Owning => status[wjob] # "pending"
  /\ wpc \in {"read", "start", "begin"} => wjob \notin ran
  /\ wpc = "update" => wtarget \in {"cancelled", "failed"}

RanInv == \A j \in ran : status[j] \notin {"none", "pending"}

(* A cancel that did not read pending can rely on it. *)
CancelInv ==
  /\ \A c \in Cancels : cpc[c] = "write" =>
       /\ cjob[c] \in Jobs /\ status[cjob[c]] # "none"
       /\ cseen[c] # "pending" => status[cjob[c]] # "pending"
  /\ \A j \in Jobs : status[j] = "none" => ~cancelRequested[j]

DownInv ==
  server \in {"down", "recovered"} =>
    /\ queue = <<>> /\ wpc = "off"
    /\ \A r \in Requests : created[r] = <<>> /\ rpc[r] \in {"idle", "done"}

IInv ==
  /\ TypeOK
  /\ QueueInv
  /\ CreatedInv
  /\ PlanInv
  /\ WorkerInv
  /\ RanInv
  /\ CancelInv
  /\ DownInv
  /\ RunningOwned
  /\ CancelledNotPending
-----------------------------------------------------------------------------
(* Types.                                                                  *)

(* A commit of a request is a non-empty list of jobs of its plan. *)
LEMMA PlanTypes ==
  ASSUME NEW r \in Requests
  PROVE  /\ Len(Plan[r]) \in Nat \ {0} /\ DOMAIN Plan[r] = 1..Len(Plan[r])
         /\ \A g \in DOMAIN Plan[r] :
              /\ Plan[r][g] \in Seq(Jobs) /\ Plan[r][g] # <<>>
              /\ 1 \in DOMAIN Plan[r][g]
              /\ DOMAIN Plan[r][g] \subseteq Nat
  BY PlanAssumption

(* Every step keeps the types of the variables. *)
LEMMA TypeStep ==
  ASSUME TypeOK, WorkerInv, CancelInv, PlanInv, [Next]_vars
  PROVE  TypeOK'
<1> USE DEF TypeOK, rows, worker, requests, cancels, Others
<1>a. /\ \A x \in {"pending", "running", "completed", "failed", "cancelled",
                  "none", "deleted"} : x \in Statuses
      /\ \A x \in {"off", "loop", "get", "read", "start", "exited", "dead",
                  "begin", "handle", "spawned", "wait", "after", "finish",
                  "settle", "update"} : x \in WorkerPCs
  BY DEF WorkerPCs, Owning, Statuses, Active, Terminal, Absent
<1>1. ASSUME NEW r \in Requests, RequestArrives(r) PROVE TypeOK'
  BY <1>1, <1>a DEF RequestArrives, Return, RowsType, ServerType, WorkerType,
     RequestsType, CancelsType
<1>2. ASSUME NEW r \in Requests, CheckBatch(r) PROVE TypeOK'
  BY <1>2, <1>a DEF CheckBatch, Return, RowsType, ServerType, WorkerType,
     RequestsType, CancelsType
<1>3. ASSUME NEW r \in Requests, CheckGroup(r) PROVE TypeOK'
  <2>1. RequestsType'
    <3>1. CASE UNCHANGED rgroup
      BY <1>3, <3>1 DEF CheckGroup, Return, NextGroup, RequestsType
    <3>2. CASE NextGroup(r) /\ UNCHANGED convLock
      BY <1>3, <3>2 DEF CheckGroup, NextGroup, RequestsType
    <3> QED BY <1>3, <3>1, <3>2 DEF CheckGroup
  <2> QED BY <1>3, <2>1 DEF CheckGroup, RowsType, ServerType, WorkerType,
       CancelsType
<1>4. ASSUME NEW r \in Requests, CommitGroup(r) PROVE TypeOK'
  <2> DEFINE g   == Plan[r][rgroup[r]]
             now == Cardinality({j \in Jobs : status[j] # "none"})
  <2>1. g \in Seq(Jobs) /\ Len(g) \in Nat /\ DOMAIN g = 1..Len(g)
    BY <1>4, PlanTypes DEF CommitGroup, PlanInv, Working, RequestsType
  <2>2. now \in Nat
    BY JobsAssumption, FS_Subset, FS_CardinalityType,
       {j \in Jobs : status[j] # "none"} \subseteq Jobs
  <2>3. ASSUME NEW j \in Range(g)
        PROVE  now + (CHOOSE i \in DOMAIN g : g[i] = j) \in Nat
    BY <2>1, <2>2 DEF Range
  <2>4. created[r] \o g \in Seq(Jobs)
    BY <2>1, ConcatProperties DEF RequestsType
  <2> HIDE DEF g, now
  <2>5. createdAt' = [j \in Jobs |-> IF j \in Range(g)
                        THEN now + (CHOOSE i \in DOMAIN g : g[i] = j)
                        ELSE createdAt[j]]
    BY <1>4 DEF CommitGroup, g, now
  <2>6. createdAt' \in [Jobs -> Nat]
    BY <2>3, <2>5 DEF RowsType
  <2>7. status' \in [Jobs -> Statuses]
    BY <1>4, <1>a DEF CommitGroup, RowsType
  <2>8. created' \in [Requests -> Seq(Jobs)]
    BY <1>4, <2>4 DEF CommitGroup, g, RequestsType
  <2>9. RowsType'
    BY <1>4, <2>6, <2>7 DEF CommitGroup, RowsType
  <2>10. RequestsType'
    BY <1>4, <2>8 DEF CommitGroup, RequestsType
  <2> QED BY <1>4, <2>9, <2>10 DEF CommitGroup, ServerType, WorkerType,
       CancelsType
<1>5. ASSUME NEW r \in Requests, Enqueue(r) PROVE TypeOK'
  <2>1. CASE created[r] # <<>>
    <3>1. /\ Head(created[r]) \in Jobs /\ Tail(created[r]) \in Seq(Jobs)
      BY <2>1, TailList DEF RequestsType
    <3>2. queue' = Append(queue, Head(created[r]))
      BY <1>5, <2>1 DEF Enqueue
    <3>3. queue' \in Seq(Jobs \union {Poison})
      BY <3>1, <3>2, AppendProperties DEF ServerType
    <3>4. created' \in [Requests -> Seq(Jobs)]
      BY <1>5, <2>1, <3>1 DEF Enqueue, RequestsType
    <3> QED BY <1>5, <2>1, <3>3, <3>4 DEF Enqueue, RowsType, ServerType, WorkerType,
       RequestsType, CancelsType
  <2>2. CASE created[r] = <<>>
    BY <1>5, <2>2 DEF Enqueue, Return, RowsType, ServerType, WorkerType,
       RequestsType, CancelsType
  <2> QED BY <2>1, <2>2
<1>6. ASSUME NEW c \in Cancels, CancelRead(c) PROVE TypeOK'
  BY <1>6, <1>a DEF CancelRead, RowsType, ServerType, WorkerType,
     RequestsType, CancelsType
<1>7. ASSUME NEW c \in Cancels, CancelWrite(c) PROVE TypeOK'
  <2>1. cjob[c] \in Jobs
    BY <1>7 DEF CancelWrite, CancelInv
  <2>2. RowsType'
    BY <1>7, <1>a, <2>1 DEF CancelWrite, RowsType
  <2>3. CancelsType'
    BY <1>7 DEF CancelWrite, CancelsType
  <2> QED BY <1>7, <2>2, <2>3 DEF CancelWrite, ServerType, WorkerType,
       RequestsType
<1>8. ASSUME NEW c \in Cancels, CancelTerminate(c) PROVE TypeOK'
  BY <1>8, <1>a DEF CancelTerminate, RowsType, ServerType, WorkerType,
     RequestsType, CancelsType
<1>9. ASSUME NEW p \in Projects, DeleteProject(p) PROVE TypeOK'
  BY <1>9, <1>a DEF DeleteProject, RowsType, ServerType, WorkerType,
     RequestsType, CancelsType
<1>10. CASE WorkerLoop
  BY <1>10, <1>a DEF WorkerLoop, RowsType, ServerType, WorkerType,
     RequestsType, CancelsType
<1>11. CASE WorkerGet
  BY <1>11, <1>a DEF WorkerGet, WorkerInv, Holding, Exists, RowsType,
     ServerType, WorkerType, RequestsType, CancelsType
<1>12. CASE WorkerRead
  BY <1>12, <1>a DEF WorkerRead, RowsType, ServerType, WorkerType,
     RequestsType, CancelsType
<1>13. CASE WorkerStart
  BY <1>13, <1>a DEF WorkerStart, WorkerInv, Holding, Exists, RowsType,
     ServerType, WorkerType, RequestsType, CancelsType
<1>14. CASE WorkerBegin
  <2>1. wjob \in Jobs
    BY <1>14 DEF WorkerBegin, WorkerInv, Holding, Owning
  <2>2. RowsType'
    BY <1>14, <2>1 DEF WorkerBegin, RowsType
  <2>3. WorkerType'
    BY <1>14, <1>a DEF WorkerBegin, WorkerType
  <2> QED BY <1>14, <2>2, <2>3 DEF WorkerBegin, ServerType, RequestsType,
       CancelsType
<1>15. CASE HandleDirect
  BY <1>15, <1>a DEF HandleDirect, RowsType, ServerType, WorkerType,
     RequestsType, CancelsType
<1>16. CASE HandleSpawn
  BY <1>16, <1>a DEF HandleSpawn, RowsType, ServerType, WorkerType,
     RequestsType, CancelsType
<1>17. CASE HandleRegister
  BY <1>17, <1>a DEF HandleRegister, RowsType, ServerType, WorkerType,
     RequestsType, CancelsType
<1>18. CASE HandlePoll
  BY <1>18, <1>a DEF HandlePoll, RowsType, ServerType, WorkerType,
     RequestsType, CancelsType
<1>19. CASE HandleAfter
  BY <1>19, <1>a DEF HandleAfter, RowsType, ServerType, WorkerType,
     RequestsType, CancelsType
<1>20. CASE WorkerFinish
  BY <1>20, <1>a DEF WorkerFinish, WorkerInv, Holding, Exists, RowsType,
     ServerType, WorkerType, RequestsType, CancelsType
<1>21. CASE WorkerSettle
  BY <1>21, <1>a DEF WorkerSettle, RowsType, ServerType, WorkerType,
     RequestsType, CancelsType
<1>22. CASE WorkerUpdate
  <2>1. wjob \in Jobs /\ wtarget \in {"cancelled", "failed"}
    BY <1>22 DEF WorkerUpdate, WorkerInv, Holding, Owning
  <2>2. RowsType'
    BY <1>22, <1>a, <2>1 DEF WorkerUpdate, RowsType
  <2>3. WorkerType'
    BY <1>22, <1>a DEF WorkerUpdate, WorkerType
  <2> QED BY <1>22, <2>2, <2>3 DEF WorkerUpdate, ServerType, RequestsType,
       CancelsType
<1>23. CASE ProcessExits
  BY <1>23, <1>a DEF ProcessExits, RowsType, ServerType, WorkerType,
     RequestsType, CancelsType
<1>24. CASE Stop
  BY <1>24, <1>a DEF Stop, RowsType, ServerType, WorkerType, RequestsType,
     CancelsType
<1>25. CASE GoDown
  <2>1. RequestsType' /\ CancelsType'
    BY <1>25 DEF GoDown, RequestsType, CancelsType
  <2>2. ServerType'
    BY <1>25, JobsAssumption DEF GoDown, ServerType
  <2> QED BY <1>25, <1>a, <2>1, <2>2 DEF GoDown, RowsType, WorkerType
<1>26. CASE RecoverRunning
  BY <1>26, <1>a DEF RecoverRunning, RowsType, ServerType, WorkerType,
     RequestsType, CancelsType
<1>27. CASE Start
  BY <1>27, <1>a DEF Start, RowsType, ServerType, WorkerType, RequestsType,
     CancelsType
<1>28. CASE UNCHANGED vars
  BY <1>28 DEF vars, RowsType, ServerType, WorkerType, RequestsType,
     CancelsType
<1>29. ASSUME NEW r \in Requests, Refresh(r) PROVE TypeOK'
  BY <1>29 DEF Refresh, NextGroup, RowsType, ServerType, WorkerType,
     RequestsType, CancelsType
<1>30. ASSUME NEW r \in Requests, Abort(r) PROVE TypeOK'
  BY <1>30 DEF Abort, RowsType, ServerType, WorkerType, RequestsType,
     CancelsType
<1>31. CASE ReportRaises
  BY <1>31, <1>a DEF ReportRaises, RowsType, ServerType, WorkerType,
     RequestsType, CancelsType
<1> QED
  BY <1>1, <1>2, <1>3, <1>4, <1>5, <1>6, <1>7, <1>8, <1>9, <1>10, <1>11,
     <1>12, <1>13, <1>14, <1>15, <1>16, <1>17, <1>18, <1>19, <1>20, <1>21,
     <1>22, <1>23, <1>24, <1>25, <1>26, <1>27, <1>28, <1>29, <1>30, <1>31
     DEF Next, RequestStep, CancelStep, WorkerStep, HandlerStep, ServerStep

-----------------------------------------------------------------------------
(* What one step may do to the rows, to the worker and to the lists.       *)

(* A row, once there, does not become pending again; only the worker makes *)
(* it running; a cancel flag stays and is set on rows that are no longer   *)
(* pending after the step; a handler starts for the worker's own job.      *)
LEMMA RowStep ==
  ASSUME TypeOK, WorkerInv, CancelInv, PlanInv, [Next]_vars,
         NEW j \in Jobs
  PROVE  /\ status[j] # "none" => status'[j] # "none"
         /\ status'[j] = "pending" =>
              status[j] = "pending" \/ (status[j] = "none" /\ ~cancelRequested'[j])
         /\ status'[j] = "running" =>
              status[j] = "running" \/ (WorkerStart /\ j = wjob)
         /\ cancelRequested'[j] =>
              cancelRequested[j] \/ (status[j] # "none" /\ status'[j] # "pending")
         /\ j \in ran => j \in ran'
         /\ j \in ran' => j \in ran \/ (WorkerBegin /\ j = wjob /\ wpc' = "handle")
<1> USE DEF TypeOK, RowsType, rows, worker, requests, cancels, Others
<1>1. ASSUME NEW r \in Requests, CommitGroup(r)
      PROVE  /\ status' = [k \in Jobs |-> IF k \in Range(Plan[r][rgroup[r]])
                                          THEN "pending" ELSE status[k]]
             /\ \A k \in Range(Plan[r][rgroup[r]]) : status[k] = "none"
             /\ UNCHANGED <<cancelRequested, ran>>
  <2>1. rgroup[r] \in DOMAIN Plan[r]
    BY <1>1 DEF CommitGroup, PlanInv, Working
  <2>2. rgroup[r] >= rgroup[r]
    BY DEF RequestsType
  <2>3. rpc[r] \in Working /\ FirstLeft(r) = rgroup[r]
    BY <1>1 DEF CommitGroup, Working, FirstLeft
  <2>4. \A i \in DOMAIN Plan[r][rgroup[r]] : status[Plan[r][rgroup[r]][i]] = "none"
    BY <2>1, <2>2, <2>3 DEF PlanInv
  <2>5. \A k \in Range(Plan[r][rgroup[r]]) : status[k] = "none"
    BY <2>4 DEF Range
  <2> QED BY <1>1, <2>5 DEF CommitGroup
<1>2. ASSUME NEW c \in Cancels, CancelWrite(c)
      PROVE  /\ cjob[c] \in Jobs /\ status[cjob[c]] # "none"
             /\ cseen[c] # "pending" => status[cjob[c]] # "pending"
  BY <1>2 DEF CancelWrite, CancelInv
<1>3. ASSUME wpc \in Owning \union {"start"} PROVE wjob \in Jobs
  BY <1>3 DEF WorkerInv, Holding
<1>4. CASE \E r \in Requests : CommitGroup(r)
  BY <1>1, <1>4 DEF CancelInv
<1>5. CASE \E c \in Cancels : CancelWrite(c)
  BY <1>2, <1>5 DEF CancelWrite, Exists, Absent
<1>6. CASE \E p \in Projects : DeleteProject(p)
  BY <1>6 DEF DeleteProject
<1>7. CASE WorkerStart
  BY <1>7 DEF WorkerStart
<1>8. CASE WorkerBegin
  BY <1>8 DEF WorkerBegin
<1>9. CASE WorkerFinish
  BY <1>9 DEF WorkerFinish
<1>10. CASE WorkerUpdate
  BY <1>10 DEF WorkerUpdate, WorkerInv
<1>11. CASE RecoverRunning
  BY <1>11 DEF RecoverRunning
<1>12. CASE UNCHANGED <<status, cancelRequested, ran>>
  BY <1>12
<1>13. \/ \E r \in Requests : CommitGroup(r)
       \/ \E c \in Cancels : CancelWrite(c)
       \/ \E p \in Projects : DeleteProject(p)
       \/ WorkerStart \/ WorkerBegin \/ WorkerFinish \/ WorkerUpdate
       \/ RecoverRunning
       \/ UNCHANGED <<status, cancelRequested, ran>>
  BY DEF Next, RequestStep, CancelStep, WorkerStep, HandlerStep, ServerStep,
         vars, RequestArrives, CheckBatch, CheckGroup, Refresh, Enqueue, Abort, CancelRead,
         CancelTerminate, WorkerLoop, WorkerGet, WorkerRead, HandleDirect,
         HandleSpawn, HandleRegister, HandlePoll, HandleAfter, WorkerSettle,
         ReportRaises, ProcessExits, Stop, GoDown, Start
<1> QED
  BY <1>4, <1>5, <1>6, <1>7, <1>8, <1>9, <1>10, <1>11, <1>12, <1>13

(* Rows appear by a commit of the request that planned them only.          *)
LEMMA NewRowStep ==
  ASSUME TypeOK, WorkerInv, CancelInv, PlanInv, [Next]_vars,
         NEW j \in Jobs, status[j] = "none", status'[j] # "none"
  PROVE  \E r \in Requests : CommitGroup(r) /\ j \in Range(Plan[r][rgroup[r]])
<1> USE DEF TypeOK, RowsType, rows, worker, requests, cancels, Others
<1>1. ASSUME NEW c \in Cancels, CancelWrite(c) PROVE FALSE
  BY <1>1 DEF CancelWrite, CancelInv, Exists
<1>2. CASE WorkerStart \/ WorkerFinish \/ WorkerUpdate
  BY <1>2 DEF WorkerStart, WorkerFinish, WorkerUpdate, WorkerInv, Holding,
     Owning
<1>3. CASE (\E p \in Projects : DeleteProject(p)) \/ RecoverRunning
  BY <1>3 DEF DeleteProject, RecoverRunning, Exists, Absent
<1>4. ASSUME NEW r \in Requests, CommitGroup(r)
      PROVE  j \in Range(Plan[r][rgroup[r]])
  BY <1>4 DEF CommitGroup
<1>5. \/ \E r \in Requests : CommitGroup(r)
      \/ \E c \in Cancels : CancelWrite(c)
      \/ (\E p \in Projects : DeleteProject(p)) \/ RecoverRunning
      \/ WorkerStart \/ WorkerFinish \/ WorkerUpdate
  BY DEF Next, RequestStep, CancelStep, WorkerStep, HandlerStep, ServerStep,
         vars, RequestArrives, CheckBatch, CheckGroup, Refresh, Enqueue, Abort, CancelRead,
         CancelTerminate, WorkerLoop, WorkerGet, WorkerRead, WorkerBegin,
         HandleDirect, HandleSpawn, HandleRegister, HandlePoll, HandleAfter,
         WorkerSettle, ReportRaises, ProcessExits, Stop, GoDown, Start
<1> QED BY <1>1, <1>2, <1>3, <1>4, <1>5

(* The lists and the worker's job change in few ways. *)
LEMMA ListStep ==
  ASSUME [Next]_vars
  PROVE  \/ WorkerGet
         \/ \E r \in Requests : CommitGroup(r)
         \/ \E r \in Requests : Enqueue(r) /\ created[r] # <<>>
         \/ Stop
         \/ GoDown
         \/ Start
         \/ /\ UNCHANGED <<queue, created>>
            /\ wjob' \in {wjob, NoJob}
            /\ server' = server \/ RecoverRunning
BY DEF Next, RequestStep, CancelStep, WorkerStep, HandlerStep, ServerStep,
       vars, rows, worker, requests, cancels, Others, RequestArrives,
       CheckBatch, CheckGroup, Refresh, Enqueue, Abort, CancelRead, CancelWrite,
       CancelTerminate, DeleteProject, WorkerLoop, WorkerRead, WorkerStart,
       WorkerBegin, HandleDirect, HandleSpawn, HandleRegister, HandlePoll,
       HandleAfter, WorkerFinish, WorkerSettle, WorkerUpdate, ReportRaises, ProcessExits,
       RecoverRunning
-----------------------------------------------------------------------------
(* The invariant, part by part.                                            *)

(* The worker's job exists, and its handler was not started before.        *)
LEMMA WorkerInvStep ==
  ASSUME IInv, [Next]_vars, TypeOK'
  PROVE  WorkerInv'
<1> USE DEF IInv, Holding, Owning
<1>1. ASSUME NEW j \in Jobs
      PROVE  /\ status[j] # "none" => status'[j] # "none"
             /\ status[j] \notin {"none", "pending"} => status'[j] # "pending"
             /\ j \in ran' => j \in ran \/ (WorkerBegin /\ j = wjob /\ wpc' = "handle")
  BY RowStep
<1>2. CASE WorkerGet
  <2>1. /\ Head(queue) \in Range(queue)
        /\ queue # <<>> /\ Head(queue) \in Jobs \union {Poison}
    BY <1>2, TailList DEF WorkerGet, TypeOK, ServerType
  <2>2. CASE Head(queue) = Poison
    BY <1>2, <2>2 DEF WorkerGet, WorkerInv
  <2>3. CASE Head(queue) # Poison
    <3>1. Fresh(Head(queue)) /\ Head(queue) \in Jobs
      BY <2>1, <2>3 DEF QueueInv
    <3> QED BY <1>2, <2>3, <3>1 DEF WorkerGet, WorkerInv, Fresh, rows, Others
  <2> QED BY <2>2, <2>3
<1>3. CASE WorkerRead
  BY <1>1, <1>3 DEF WorkerRead, WorkerInv, rows, Others
<1>4. CASE WorkerStart
  BY <1>1, <1>4 DEF WorkerStart, WorkerInv, Exists, Absent, TypeOK, RowsType
<1>5. CASE WorkerBegin
  BY <1>1, <1>5 DEF WorkerBegin, WorkerInv, rows, Others
<1>6. CASE HandlerStep \/ ReportRaises
  BY <1>1, <1>6 DEF HandlerStep, HandleDirect, HandleSpawn, HandleRegister,
     HandlePoll, HandleAfter, ReportRaises, WorkerInv, rows, Others
<1>7. CASE WorkerFinish \/ WorkerSettle \/ WorkerUpdate
  BY <1>1, <1>7 DEF WorkerFinish, WorkerSettle, WorkerUpdate, WorkerInv, rows,
     Others
<1>8. CASE WorkerLoop
  BY <1>8 DEF WorkerLoop, WorkerInv, rows
<1>9. CASE GoDown \/ Start
  BY <1>9 DEF GoDown, Start, WorkerInv, DownInv
<1>10. CASE UNCHANGED <<wpc, wjob, wtarget, ran>>
  BY <1>1, <1>10 DEF WorkerInv
<1>11. \/ WorkerGet \/ WorkerRead \/ WorkerStart \/ WorkerBegin \/ HandlerStep
       \/ ReportRaises \/ WorkerFinish \/ WorkerSettle \/ WorkerUpdate \/ WorkerLoop
       \/ GoDown \/ Start
       \/ UNCHANGED <<wpc, wjob, wtarget, ran>>
  BY DEF Next, RequestStep, CancelStep, WorkerStep, ServerStep, vars, rows,
     worker, requests, cancels, RequestArrives, CheckBatch, CheckGroup,
     CommitGroup, Refresh, Enqueue, Abort, CancelRead, CancelWrite, CancelTerminate,
     DeleteProject, ProcessExits, Stop, RecoverRunning
<1> QED
  BY <1>2, <1>3, <1>4, <1>5, <1>6, <1>7, <1>8, <1>9, <1>10, <1>11

(* A job whose handler was started is never again one that waits.          *)
LEMMA RanInvStep ==
  ASSUME IInv, [Next]_vars, TypeOK'
  PROVE  RanInv'
<1> SUFFICES ASSUME NEW j \in ran'
             PROVE  status'[j] \notin {"none", "pending"}
  BY DEF RanInv
<1>1. j \in Jobs
  BY DEF TypeOK, RowsType
<1>2. CASE j \in ran
  BY <1>1, <1>2, RowStep DEF IInv, RanInv
<1>3. CASE j \notin ran
  BY <1>1, <1>3, RowStep DEF IInv, WorkerInv, WorkerBegin, Holding, Owning,
     rows
<1> QED BY <1>2, <1>3

(* What a cancel has read as not pending stays so.                         *)
LEMMA CancelInvStep ==
  ASSUME IInv, [Next]_vars, TypeOK'
  PROVE  CancelInv'
<1>1. ASSUME NEW j \in Jobs
      PROVE  /\ status[j] # "none" => status'[j] # "none"
             /\ status[j] \notin {"none", "pending"} => status'[j] # "pending"
             /\ status'[j] = "none" => ~cancelRequested'[j]
  BY RowStep DEF IInv, CancelInv, TypeOK, RowsType
<1>2. ASSUME NEW c \in Cancels, cpc'[c] = "write"
      PROVE  /\ cjob'[c] \in Jobs /\ status'[cjob'[c]] # "none"
             /\ cseen'[c] # "pending" => status'[cjob'[c]] # "pending"
  <2>1. CASE CancelRead(c)
    BY <1>1, <2>1 DEF CancelRead, rows, IInv, TypeOK, RowsType, CancelsType,
       Exists, Absent
  <2>2. CASE cpc[c] = "write" /\ cjob'[c] = cjob[c] /\ cseen'[c] = cseen[c]
    BY <1>1, <2>2 DEF IInv, CancelInv
  <2>3. CASE \E d \in Cancels : d # c /\ CancelStep(d)
    BY <1>2, <2>2, <2>3 DEF CancelStep, CancelRead, CancelWrite,
       CancelTerminate, IInv, TypeOK, CancelsType
  <2>4. CASE CancelWrite(c) \/ CancelTerminate(c)
    BY <1>2, <2>4 DEF CancelWrite, CancelTerminate, IInv, TypeOK, CancelsType
  <2>5. CASE GoDown
    BY <1>2, <2>5 DEF GoDown
  <2>6. CASE UNCHANGED cancels
    BY <1>2, <2>2, <2>6 DEF cancels
  <2>7. \/ \E d \in Cancels : CancelStep(d)
        \/ GoDown \/ UNCHANGED cancels
    BY DEF Next, RequestStep, WorkerStep, HandlerStep, ServerStep, vars,
       Others,
       RequestArrives, CheckBatch, CheckGroup, CommitGroup, Refresh, Enqueue, Abort,
       DeleteProject, WorkerLoop, WorkerGet, WorkerRead, WorkerStart,
       WorkerBegin, HandleDirect, HandleSpawn, HandleRegister, HandlePoll,
       HandleAfter, WorkerFinish, WorkerSettle, WorkerUpdate, ReportRaises, ProcessExits,
       Stop, RecoverRunning, Start
  <2> QED BY <2>1, <2>3, <2>4, <2>5, <2>6, <2>7 DEF CancelStep
<1> QED BY <1>1, <1>2 DEF CancelInv

(* The commits still to be made are of jobs that do not exist yet.         *)
LEMMA PlanInvStep ==
  ASSUME IInv, [Next]_vars, TypeOK'
  PROVE  PlanInv'
<1> SUFFICES ASSUME NEW q \in Requests, rpc'[q] \in Working
             PROVE  /\ rgroup'[q] \in DOMAIN Plan[q]
                    /\ q \notin Bulk /\ rpc'[q] # "refresh" => created'[q] = <<>>
                    /\ \A g \in DOMAIN Plan[q] : g >= FirstLeft(q)' =>
                         \A i \in DOMAIN Plan[q][g] : status'[Plan[q][g][i]] = "none"
  BY DEF PlanInv
<1> USE DEF IInv, TypeOK
<1>1. /\ Len(Plan[q]) \in Nat \ {0} /\ DOMAIN Plan[q] = 1..Len(Plan[q])
      /\ q \notin Bulk => Len(Plan[q]) = 1
      /\ \A g \in DOMAIN Plan[q] : \A i \in DOMAIN Plan[q][g] :
           Plan[q][g][i] \in Jobs /\ Plan[q][g][i] \in PlannedBy(q)
  BY PlanTypes, PlanAssumption DEF PlannedBy
<1>2. /\ rgroup[q] \in Nat \ {0} /\ rgroup'[q] \in Nat \ {0}
      /\ FirstLeft(q) \in Nat \ {0} /\ FirstLeft(q)' \in Nat \ {0}
  BY DEF RequestsType, FirstLeft
<1>3. /\ rpc[q] \in Working
      /\ FirstLeft(q)' >= FirstLeft(q)
      /\ rgroup'[q] \in {rgroup[q], rgroup[q] + 1}
      /\ rgroup'[q] # rgroup[q] => rgroup[q] < Len(Plan[q])
      /\ \/ rpc[q] = "refresh" /\ rgroup'[q] = rgroup[q] + 1
         \/ rpc[q] = "refresh" /\ rpc'[q] = "refresh"
         \/ CommitGroup(q)
         \/ rpc[q] # "refresh" /\ created'[q] \in {created[q], <<>>}
  <2>1. CASE \E r \in Requests : r # q /\ RequestStep(r)
    <3>1. rpc'[q] = rpc[q] /\ rgroup'[q] = rgroup[q] /\ created'[q] = created[q]
      BY <2>1 DEF RequestStep, RequestArrives, CheckBatch, CheckGroup,
         CommitGroup, Refresh, Enqueue, Abort, Return, NextGroup, RequestsType
    <3> QED BY <1>2, <3>1 DEF FirstLeft
  <2>2. CASE RequestArrives(q) \/ CheckBatch(q) \/ Enqueue(q) \/ Abort(q)
    BY <1>2, <2>2 DEF RequestArrives, CheckBatch, Enqueue, Abort, Return,
       RequestsType, FirstLeft, Working
  <2>3. CASE CheckGroup(q)
    BY <1>2, <2>3 DEF CheckGroup, Return, NextGroup, RequestsType, FirstLeft,
       Working
  <2>4. CASE CommitGroup(q)
    BY <1>2, <2>4 DEF CommitGroup, RequestsType, FirstLeft, Working
  <2>5. CASE Refresh(q)
    BY <1>2, <2>5 DEF Refresh, NextGroup, RequestsType, FirstLeft, Working
  <2>6. CASE GoDown
    BY <1>2, <2>6 DEF GoDown, RequestsType, FirstLeft, Working
  <2>7. CASE UNCHANGED requests
    BY <1>2, <2>7 DEF requests, FirstLeft
  <2>8. (\E r \in Requests : RequestStep(r)) \/ GoDown \/ UNCHANGED requests
    BY DEF Next, CancelStep, WorkerStep, HandlerStep, ServerStep, vars,
       Others, CancelRead, CancelWrite, CancelTerminate, DeleteProject,
       WorkerLoop, WorkerGet, WorkerRead, WorkerStart, WorkerBegin,
       HandleDirect, HandleSpawn, HandleRegister, HandlePoll, HandleAfter,
       WorkerFinish, WorkerSettle, WorkerUpdate, ReportRaises, ProcessExits,
       Stop, RecoverRunning, Start
  <2> QED BY <2>1, <2>2, <2>3, <2>4, <2>5, <2>6, <2>7, <2>8 DEF RequestStep
<1>4. /\ rgroup[q] \in DOMAIN Plan[q]
      /\ q \notin Bulk /\ rpc[q] # "refresh" => created[q] = <<>>
      /\ \A g \in DOMAIN Plan[q] : g >= FirstLeft(q) =>
           \A i \in DOMAIN Plan[q][g] : status[Plan[q][g][i]] = "none"
  BY <1>3 DEF PlanInv
<1>5. rgroup'[q] \in DOMAIN Plan[q]
  BY <1>1, <1>2, <1>3, <1>4
<1>6. q \notin Bulk /\ rpc'[q] # "refresh" => created'[q] = <<>>
  <2> SUFFICES ASSUME q \notin Bulk, rpc'[q] # "refresh"
               PROVE  created'[q] = <<>>
    OBVIOUS
  <2>1. rgroup'[q] = rgroup[q]
    <3>1. Len(Plan[q]) = 1
      BY <1>1
    <3>2. ~(rgroup[q] < Len(Plan[q]))
      BY <1>2, <3>1
    <3> QED BY <1>3, <3>2
  <2>2. ~CommitGroup(q)
    BY DEF CommitGroup, RequestsType
  <2> QED BY <1>2, <1>3, <1>4, <2>1, <2>2
<1>7. ASSUME NEW g \in DOMAIN Plan[q], g >= FirstLeft(q)',
             NEW i \in DOMAIN Plan[q][g]
      PROVE  status'[Plan[q][g][i]] = "none"
  <2>1. /\ Plan[q][g][i] \in Jobs /\ Plan[q][g][i] \in PlannedBy(q)
        /\ status[Plan[q][g][i]] = "none"
    BY <1>1, <1>2, <1>3, <1>4, <1>7
  <2>2. ASSUME NEW r \in Requests, CommitGroup(r)
        PROVE  Plan[q][g][i] \notin Range(Plan[r][rgroup[r]])
    <3>1. rgroup[r] \in DOMAIN Plan[r]
      BY <2>2 DEF CommitGroup, PlanInv, Working
    <3>2. CASE r = q
      <4>1. FirstLeft(q)' = rgroup[q] + 1
        BY <2>2, <3>2 DEF CommitGroup, RequestsType, FirstLeft
      <4>2. g # rgroup[q]
        BY <1>1, <1>2, <1>7, <4>1
      <4> QED BY <3>1, <3>2, <4>2, PlanAssumption DEF Range
    <3>3. CASE r # q
      <4>1. Range(Plan[r][rgroup[r]]) \subseteq PlannedBy(r)
        BY <3>1 DEF Range, PlannedBy
      <4> QED BY <2>1, <3>3, <4>1, PlanAssumption
    <3> QED BY <3>2, <3>3
  <2> QED BY <2>1, <2>2, NewRowStep
<1> QED BY <1>5, <1>6, <1>7

(* A list that changes does so by one of the named steps; all others leave *)
(* both kinds of lists, and the jobs in them fresh.                        *)
LEMMA FreshStep ==
  ASSUME IInv, [Next]_vars,
         NEW j \in Jobs, Fresh(j), j # wjob
  PROVE  Fresh(j)'
BY RowStep DEF IInv, Fresh

(* The queue and the requests' lists keep each job once, in one place.     *)
LEMMA ListInvStep ==
  ASSUME IInv, [Next]_vars, TypeOK'
  PROVE  QueueInv' /\ CreatedInv'
<1> USE DEF IInv, TypeOK
<1>1. /\ queue \in Seq(Jobs \union {Poison}) /\ NoJob \notin Jobs
      /\ Poison \notin Jobs
      /\ \A r \in Requests : created[r] \in Seq(Jobs)
      /\ \A r \in Requests : Range(created[r]) \subseteq Jobs
      /\ Range(queue) \subseteq Jobs \union {Poison}
  BY JobsAssumption, RangeOfSeq DEF ServerType, RequestsType
<1>2. ASSUME NEW j \in Jobs, Fresh(j), j # wjob PROVE Fresh(j)'
  BY <1>2, FreshStep
<1>3. CASE WorkerGet
  <2>1. /\ Head(queue) \in Jobs \union {Poison}
        /\ Range(queue) = Range(Tail(queue)) \union {Head(queue)}
        /\ IsInjective(Tail(queue)) /\ Head(queue) \notin Range(Tail(queue))
    BY <1>1, <1>3, TailList DEF WorkerGet, QueueInv
  <2>2. /\ queue' = Tail(queue) /\ UNCHANGED <<created, status, ran, server>>
        /\ wjob' \in {wjob, Head(queue)}
    BY <1>3 DEF WorkerGet, rows, Others, requests
  <2>3. QueueInv'
    BY <1>1, <2>1, <2>2 DEF QueueInv, Fresh
  <2>4. CreatedInv'
    BY <1>1, <2>1, <2>2 DEF CreatedInv, Fresh
  <2> QED BY <2>3, <2>4
<1>4. ASSUME NEW r \in Requests, CommitGroup(r)
      PROVE  QueueInv' /\ CreatedInv'
  <2> DEFINE g == Plan[r][rgroup[r]]
  <2>1. rgroup[r] \in DOMAIN Plan[r] /\ rgroup[r] >= rgroup[r]
    <3>1. rpc[r] = "commit"
      BY <1>4 DEF CommitGroup
    <3> QED BY <3>1 DEF PlanInv, Working, RequestsType
  <2>2. /\ g \in Seq(Jobs) /\ DOMAIN g = 1..Len(g) /\ Len(g) \in Nat
        /\ Range(g) \subseteq Jobs
    BY <2>1, PlanTypes, RangeOfSeq
  <2>3. \A j \in Range(g) : status[j] = "none" /\ j \in PlannedBy(r)
    <3>1. rpc[r] = "commit"
      BY <1>4 DEF CommitGroup
    <3> QED BY <2>1, <3>1 DEF PlanInv, Working, FirstLeft, Range, PlannedBy
  <2>4. IsInjective(g)
    BY <2>1, PlanAssumption DEF IsInjective
  <2>5. /\ created' = [created EXCEPT ![r] = created[r] \o g]
        /\ UNCHANGED <<queue, wjob, server, ran>>
        /\ status' = [j \in Jobs |-> IF j \in Range(g) THEN "pending" ELSE status[j]]
    BY <1>4 DEF CommitGroup, worker
  <2> HIDE DEF g
  <2>6. /\ Range(created[r]) \intersect Range(g) = {}
        /\ Range(created[r] \o g) = Range(created[r]) \union Range(g)
        /\ IsInjective(created[r] \o g)
    <3>1. Range(created[r]) \intersect Range(g) = {}
      BY <2>3 DEF CreatedInv, Fresh
    <3> QED BY <1>1, <2>2, <2>4, <3>1, ConcatList DEF CreatedInv
  <2>7. QueueInv'
    BY <1>1, <1>2, <2>5 DEF QueueInv
  <2>8. ASSUME NEW j \in Range(g)
        PROVE  /\ Fresh(j)' /\ j \notin Range(queue) /\ j # wjob
               /\ j \in PlannedBy(r)
    <3>1. j \in Jobs /\ status[j] = "none" /\ j # Poison
      BY <1>1, <2>2, <2>3
    <3>2. j \notin ran
      BY <3>1 DEF RanInv
    <3>3. j \notin Range(queue)
      BY <3>1 DEF QueueInv, Fresh
    <3>4. j # wjob
      BY <1>1, <3>1 DEF WorkerInv
    <3> QED BY <2>3, <2>5, <3>1, <3>2, <3>3, <3>4 DEF Fresh
  <2>9. CreatedInv'
    <3> SUFFICES ASSUME NEW q \in Requests
                 PROVE  /\ IsInjective(created'[q])
                        /\ \A j \in Range(created'[q]) :
                             /\ j \in PlannedBy(q) /\ Fresh(j)'
                             /\ j \notin Range(queue') /\ j # wjob'
      BY DEF CreatedInv
    <3>1. CASE q = r
      <4>1. created'[q] = created[r] \o g
        BY <2>5, <3>1 DEF RequestsType
      <4> QED BY <1>1, <1>2, <2>5, <2>6, <2>8, <3>1, <4>1 DEF CreatedInv
    <3>2. CASE q # r
      <4>1. created'[q] = created[q]
        BY <2>5, <3>2 DEF RequestsType
      <4> QED BY <1>1, <1>2, <2>5, <4>1 DEF CreatedInv
    <3> QED BY <3>1, <3>2
  <2> QED BY <2>7, <2>9
<1>5. ASSUME NEW r \in Requests, Enqueue(r), created[r] # <<>>
      PROVE  QueueInv' /\ CreatedInv'
  <2> DEFINE h == Head(created[r])
             t == Tail(created[r])
  <2>1. /\ queue' = Append(queue, h) /\ created' = [created EXCEPT ![r] = t]
        /\ UNCHANGED <<status, ran, wjob, server>> /\ server = "up"
    BY <1>5 DEF Enqueue, rows, worker
  <2>2. /\ h \in Jobs /\ t \in Seq(Jobs)
        /\ Range(created[r]) = Range(t) \union {h}
        /\ IsInjective(t) /\ h \notin Range(t)
    BY <1>1, <1>5, TailList DEF CreatedInv
  <2>3. /\ h \in PlannedBy(r) /\ Fresh(h) /\ h \notin Range(queue) /\ h # wjob
    BY <2>2 DEF CreatedInv
  <2>4. /\ Range(Append(queue, h)) = Range(queue) \union {h}
        /\ IsInjective(Append(queue, h))
    BY <1>1, <2>2, <2>3, AppendList DEF QueueInv
  <2> HIDE DEF h, t
  <2>5. QueueInv'
    BY <1>1, <2>1, <2>2, <2>3, <2>4 DEF QueueInv, Fresh
  <2>6. ASSUME NEW q \in Requests, NEW j \in Range(created'[q])
        PROVE  /\ IsInjective(created'[q])
               /\ j \in PlannedBy(q) /\ Fresh(j)
               /\ j \notin Range(queue) /\ j # wjob /\ j # h
    <3>1. CASE q = r
      <4>1. created'[q] = t
        BY <2>1, <3>1 DEF RequestsType
      <4> QED BY <2>2, <2>6, <3>1, <4>1 DEF CreatedInv
    <3>2. CASE q # r
      <4>1. created'[q] = created[q]
        BY <2>1, <3>2 DEF RequestsType
      <4>2. j \in PlannedBy(q) /\ h \in PlannedBy(r)
        BY <2>3, <2>6, <4>1 DEF CreatedInv
      <4> QED BY <2>6, <3>2, <4>1, <4>2, PlanAssumption DEF CreatedInv
    <3> QED BY <3>1, <3>2
  <2>7. ASSUME NEW q \in Requests PROVE IsInjective(created'[q])
    BY <2>1, <2>2 DEF CreatedInv, RequestsType
  <2>8. CreatedInv'
    BY <2>1, <2>4, <2>6, <2>7 DEF CreatedInv, Fresh
  <2> QED BY <2>5, <2>8
<1>6. CASE Stop
  <2>1. /\ queue' = Append(queue, Poison) /\ server' = "stopping" /\ server = "up"
        /\ UNCHANGED <<status, ran, wjob, created>>
    BY <1>6 DEF Stop, rows, requests
  <2>2. /\ Range(queue') = Range(queue) \union {Poison}
        /\ IsInjective(queue')
    BY <1>1, <2>1, AppendList DEF QueueInv
  <2> QED BY <1>1, <2>1, <2>2 DEF QueueInv, CreatedInv, Fresh
<1>7. CASE GoDown
  <2>1. queue' = <<>> /\ \A r \in Requests : created'[r] = <<>>
    BY <1>7 DEF GoDown
  <2> QED BY <2>1, EmptyList DEF QueueInv, CreatedInv
<1>8. CASE Start
  <2>1. /\ Range(queue') = {j \in Jobs : status[j] = "pending"}
        /\ IsInjective(queue')
        /\ UNCHANGED <<status, ran, wjob, created>>
    BY <1>8 DEF Start, PendingInOrder, rows, requests
  <2>2. wjob = NoJob /\ \A r \in Requests : created[r] = <<>>
    BY <1>8 DEF Start, DownInv, WorkerInv, Holding, Owning
  <2>3. QueueInv'
    BY <1>1, <2>1, <2>2 DEF QueueInv, Fresh, RanInv
  <2>4. CreatedInv'
    BY <2>1, <2>2, EmptyList DEF CreatedInv
  <2> QED BY <2>3, <2>4
<1>9. CASE /\ UNCHANGED <<queue, created>>
           /\ wjob' \in {wjob, NoJob}
           /\ server' = server \/ RecoverRunning
  <2>1. QueueInv'
    <3>1. CASE server' = server
      BY <1>1, <1>2, <1>9, <3>1 DEF QueueInv
    <3>2. CASE RecoverRunning
      BY <1>9, <3>2, EmptyList DEF RecoverRunning, DownInv, QueueInv
    <3> QED BY <1>9, <3>1, <3>2
  <2>2. CreatedInv'
    BY <1>1, <1>2, <1>9 DEF CreatedInv
  <2> QED BY <2>1, <2>2
<1> QED BY <1>3, <1>4, <1>5, <1>6, <1>7, <1>8, <1>9, ListStep

(* A server that is down has no queue, no worker and no request.           *)
LEMMA DownInvStep ==
  ASSUME IInv, [Next]_vars, TypeOK'
  PROVE  DownInv'
<1> USE DEF IInv, TypeOK
<1>1. CASE GoDown
  BY <1>1 DEF GoDown, DownInv, RequestsType
<1>2. CASE RecoverRunning
  BY <1>2 DEF RecoverRunning, DownInv, worker, requests
<1>3. CASE server \in {"down", "recovered"} /\ ~GoDown /\ ~RecoverRunning /\ ~Start
  <2>1. /\ queue = <<>> /\ wpc = "off"
        /\ \A r \in Requests : created[r] = <<>> /\ rpc[r] \in {"idle", "done"}
    BY <1>3 DEF DownInv
  <2>2. ~WorkerStep /\ ~ReportRaises
    BY <2>1 DEF ReportRaises, WorkerStep, HandlerStep, WorkerLoop, WorkerGet, WorkerRead,
       WorkerStart, WorkerBegin, HandleDirect, HandleSpawn, HandleRegister,
       HandlePoll, HandleAfter, WorkerFinish, WorkerSettle, WorkerUpdate
  <2>3. \A r \in Requests : ~RequestStep(r)
    BY <1>3 DEF RequestStep, RequestArrives, CheckBatch, CheckGroup,
       CommitGroup, Refresh, Enqueue, Abort
  <2>4. \A c \in Cancels : ~CancelStep(c)
    BY <1>3 DEF CancelStep, CancelRead, CancelWrite, CancelTerminate
  <2>5. (\A p \in Projects : ~DeleteProject(p)) /\ ~Stop
    BY <1>3 DEF DeleteProject, Stop
  <2>6. ProcessExits \/ UNCHANGED vars
    BY <1>3, <2>2, <2>3, <2>4, <2>5 DEF Next, ServerStep
  <2>7. UNCHANGED <<queue, wpc, created, rpc>>
    BY <2>6 DEF ProcessExits, vars, worker, requests, Others
  <2> QED BY <2>1, <2>7 DEF DownInv
<1>4. CASE Start
  BY <1>4 DEF Start, DownInv
<1>5. CASE server \notin {"down", "recovered"} /\ ~GoDown /\ ~RecoverRunning /\ ~Start
  BY <1>5 DEF Next, RequestStep, CancelStep, WorkerStep, HandlerStep,
     ServerStep, vars, Others, RequestArrives, CheckBatch, CheckGroup,
     CommitGroup, Refresh, Enqueue, Abort, CancelRead, CancelWrite, CancelTerminate,
     DeleteProject, WorkerLoop, WorkerGet, WorkerRead, WorkerStart,
     WorkerBegin, HandleDirect, HandleSpawn, HandleRegister, HandlePoll,
     HandleAfter, WorkerFinish, WorkerSettle, WorkerUpdate, ReportRaises, ProcessExits,
     Stop, DownInv
<1> QED BY <1>1, <1>2, <1>3, <1>4, <1>5

(* How the worker lets go of a job: it has written the row's end, or the   *)
(* row is gone, or the server is.                                          *)
LEMMA WorkerLetsGo ==
  ASSUME IInv, [Next]_vars, TypeOK', wpc \in Owning
  PROVE  \/ wjob' = wjob /\ wpc' \in Owning
         \/ status'[wjob] # "running"
         \/ server' = "down"
<1> USE DEF IInv, TypeOK
<1>1. wjob \in Jobs
  BY DEF WorkerInv, Holding
<1>2. CASE WorkerBegin
  BY <1>2 DEF WorkerBegin, Owning, Exists, Absent, rows
<1>3. CASE HandlerStep \/ ReportRaises
  BY <1>3 DEF HandlerStep, HandleDirect, HandleSpawn, HandleRegister,
     HandlePoll, HandleAfter, ReportRaises, Owning
<1>4. CASE WorkerFinish \/ WorkerSettle \/ WorkerUpdate
  BY <1>1, <1>4 DEF WorkerFinish, WorkerSettle, WorkerUpdate, Owning, Exists,
     Absent, RowsType, rows, WorkerInv
<1>5. CASE UNCHANGED <<wjob, wpc>>
  BY <1>5
<1>6. CASE GoDown
  BY <1>6 DEF GoDown
<1>7. \/ WorkerBegin \/ HandlerStep \/ ReportRaises \/ WorkerFinish
      \/ WorkerSettle \/ WorkerUpdate \/ GoDown \/ UNCHANGED <<wjob, wpc>>
  <2>1. wpc \notin {"loop", "get", "read", "start"} /\ server \notin {"down", "recovered"}
    BY DEF Owning, DownInv
  <2> QED
    BY <2>1 DEF Next, RequestStep, CancelStep, WorkerStep, ServerStep, vars,
       worker, RequestArrives, CheckBatch, CheckGroup, CommitGroup, Refresh, Enqueue, Abort,
       CancelRead, CancelWrite, CancelTerminate, DeleteProject, WorkerLoop,
       WorkerGet, WorkerRead, WorkerStart, ProcessExits, Stop, RecoverRunning,
       Start
<1> QED BY <1>2, <1>3, <1>4, <1>5, <1>6, <1>7

(* A handler starts in WorkerBegin only; until it ends the worker keeps    *)
(* its job.                                                                *)
LEMMA HandlerEnds ==
  ASSUME IInv, [Next]_vars, ~(WorkerBegin /\ wpc' = "handle")
  PROVE  wpc' \in Executing => wpc \in Executing /\ wjob' = wjob
<1>1. CASE WorkerStep
  BY <1>1 DEF WorkerStep, HandlerStep, WorkerLoop, WorkerGet, WorkerRead,
     WorkerStart, WorkerBegin, HandleDirect, HandleSpawn, HandleRegister,
     HandlePoll, HandleAfter, WorkerFinish, WorkerSettle, WorkerUpdate,
     Executing
<1>2. CASE ~WorkerStep
  <2>1. UNCHANGED <<wpc, wjob>> \/ wpc' \in {"off", "loop", "settle"}
    BY <1>2 DEF Next, RequestStep, CancelStep, ServerStep, vars, worker,
       Others, RequestArrives, CheckBatch, CheckGroup, CommitGroup, Refresh, Enqueue, Abort,
       CancelRead, CancelWrite, CancelTerminate, DeleteProject, ReportRaises, ProcessExits,
       Stop, GoDown, RecoverRunning, Start
  <2> QED BY <2>1 DEF Executing
<1> QED BY <1>1, <1>2

(* No row says running but the one the worker is at work on.               *)
LEMMA RunningOwnedStep ==
  ASSUME IInv, [Next]_vars, TypeOK'
  PROVE  RunningOwned'
<1> SUFFICES ASSUME server' # "down", NEW j \in Jobs, status'[j] = "running"
             PROVE  wjob' = j /\ wpc' \in Owning
  BY DEF RunningOwned
<1> USE DEF IInv, TypeOK
<1>1. CASE status[j] # "running"
  <2>1. WorkerStart /\ j = wjob
    BY <1>1, RowStep
  <2> QED BY <1>1, <2>1 DEF WorkerStart, Owning
<1>2. CASE status[j] = "running" /\ server # "down"
  BY <1>2, WorkerLetsGo DEF RunningOwned
<1>3. CASE server = "down"
  <2>1. RecoverRunning \/ server' = "down"
    BY <1>3 DEF Next, RequestStep, CancelStep, WorkerStep, HandlerStep,
       ServerStep, vars, Others, DownInv, RequestArrives, CheckBatch,
       CheckGroup, CommitGroup, Refresh, Enqueue, Abort, CancelRead, CancelWrite,
       CancelTerminate, DeleteProject, WorkerLoop, WorkerGet, WorkerRead,
       WorkerStart, WorkerBegin, HandleDirect, HandleSpawn, HandleRegister,
       HandlePoll, HandleAfter, WorkerFinish, WorkerSettle, WorkerUpdate,
       ReportRaises, ProcessExits, Stop, GoDown, Start
  <2> QED BY <2>1 DEF RecoverRunning
<1> QED BY <1>1, <1>2, <1>3

(* A cancelled job does not wait.                                          *)
LEMMA CancelledNotPendingStep ==
  ASSUME IInv, [Next]_vars, TypeOK'
  PROVE  CancelledNotPending'
BY RowStep DEF IInv, CancelledNotPending

-----------------------------------------------------------------------------
(* Theorems.                                                               *)

(* The invariant holds at first. *)
LEMMA InitInv == Init => IInv
<1> SUFFICES ASSUME Init PROVE IInv
  OBVIOUS
<1> USE DEF Init
<1>1. TypeOK
  <2>1. RowsType
    BY DEF RowsType, Statuses, Absent
  <2>2. ServerType
    BY JobsAssumption DEF ServerType
  <2>3. WorkerType
    BY DEF WorkerType, WorkerPCs
  <2>4. RequestsType
    BY DEF RequestsType
  <2>5. CancelsType
    BY DEF CancelsType, Statuses, Absent
  <2> QED BY <2>1, <2>2, <2>3, <2>4, <2>5 DEF TypeOK
<1>2. QueueInv /\ CreatedInv
  BY EmptyList DEF QueueInv, CreatedInv
<1>3. PlanInv
  BY PlanTypes, PlanAssumption DEF PlanInv
<1>4. /\ WorkerInv /\ RanInv /\ CancelInv /\ DownInv
      /\ RunningOwned /\ CancelledNotPending
  BY DEF WorkerInv, Holding, Owning, RanInv, CancelInv, DownInv,
     RunningOwned, CancelledNotPending
<1> QED BY <1>1, <1>2, <1>3, <1>4 DEF IInv

(* Every step keeps it. *)
LEMMA StepInv ==
  ASSUME IInv, [Next]_vars
  PROVE  IInv'
<1>1. TypeOK'
  BY TypeStep DEF IInv
<1> QED
  BY <1>1, WorkerInvStep, RanInvStep, CancelInvStep, PlanInvStep,
     ListInvStep, DownInvStep, RunningOwnedStep, CancelledNotPendingStep
  DEF IInv

(* The invariant is inductive. *)
LEMMA Inductive == Spec => []IInv
BY InitInv, StepInv, PTL DEF Spec

(* The columns, lists and program counters have their types: in particular *)
(* the worker never takes the poison of stop() for a job.                  *)
THEOREM TypeCorrect == Spec => []TypeOK
BY Inductive, PTL DEF IInv

(* From the recovery on, a row says running only while the worker is at    *)
(* work on that job.                                                       *)
THEOREM RunningIsOwned == Spec => []RunningOwned
BY Inductive, PTL DEF IInv

(* A committed cancel request leaves no job pending.                       *)
THEOREM CancelledIsNotPending == Spec => []CancelledNotPending
BY Inductive, PTL DEF IInv

(* The runner implements JobExecution: handlers run for created jobs, one  *)
(* at a time, and none is started twice, whatever crashes and restarts do. *)
THEOREM ExecutesAtMostOnce == Spec => AtMostOnce
<1>1. Init => Execution!Init
  BY DEF Init, Execution!Init, Executing
<1>2. IInv /\ IInv' /\ [Next]_vars => [Execution!Next]_(Execution!vars)
  <2> SUFFICES ASSUME IInv, IInv', [Next]_vars
               PROVE  [Execution!Next]_(Execution!vars)
    OBVIOUS
  <2> DEFINE acc == {j \in Jobs : status[j] # "none"}
             exe == IF wpc \in Executing THEN {wjob} ELSE {}
  <2>1. acc \subseteq acc'
    BY RowStep DEF IInv
  <2>2. CASE WorkerBegin /\ wpc' = "handle"
    <3>1. /\ wjob \in acc \ ran /\ exe = {} /\ exe' = {wjob} /\ acc' = acc
          /\ ran' = ran \union {wjob}
      BY <2>2 DEF WorkerBegin, Executing, IInv, WorkerInv, Holding, Owning,
         rows
    <3> QED BY <3>1 DEF Execution!Next, Execution!Begin
  <2>3. CASE ~(WorkerBegin /\ wpc' = "handle")
    <3>1. ran' = ran
      BY <2>3, RowStep DEF IInv, TypeOK, RowsType
    <3>2. exe' \in {exe, {}}
      BY <2>3, HandlerEnds DEF Executing
    <3>3. acc' = acc \/ exe' = exe
      <4>1. CASE \E r \in Requests : CommitGroup(r)
        BY <4>1 DEF CommitGroup, worker
      <4>2. CASE ~ \E r \in Requests : CommitGroup(r)
        BY <2>1, <4>2, NewRowStep DEF IInv
      <4> QED BY <4>1, <4>2
    <3>4. CASE exe' = exe
      <4> DEFINE J == acc' \ acc
      <4>1. /\ J \in SUBSET Jobs /\ J \subseteq Jobs \ acc
            /\ acc' = acc \union J
        BY <2>1
      <4> HIDE DEF J
      <4>2. \E K \in SUBSET Jobs : Execution!Accept(K)
        BY <3>1, <3>4, <4>1 DEF Execution!Accept
      <4> QED BY <4>2 DEF Execution!Next
    <3>5. CASE exe' # exe
      BY <3>1, <3>2, <3>3, <3>5 DEF Execution!Next, Execution!End
    <3> QED BY <3>4, <3>5
  <2> QED BY <2>2, <2>3
<1> QED
  BY <1>1, <1>2, Inductive, PTL DEF Spec, AtMostOnce, Execution!Spec
=============================================================================
