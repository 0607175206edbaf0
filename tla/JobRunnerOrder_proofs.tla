----------------------- MODULE JobRunnerOrder_proofs ------------------------
(***************************************************************************)
(* More about JobRunner, on top of the invariant of JobRunner_proofs:      *)
(* where a pending job waits, in which order jobs start, how a finished    *)
(* row can still change, and why two conversion batches never run          *)
(* together.                                                               *)
(***************************************************************************)
EXTENDS JobRunner_proofs

(* The rows of jobs that the runner is yet to start. *)
Waiting == {"pending", "cancelled", "deleted"}

(* A request leaves jobs to enqueue only while it goes on, or aborted. *)
ReqInv ==
  \A r \in Requests :
    created[r] # <<>> =>
      rpc[r] \in {"check", "commit", "refresh", "enqueue", "aborted"}

(* A job on its way to the worker has not been started, so it is pending,  *)
(* or a cancel or a deletion has ended it.                                 *)
WaitInv ==
  /\ \A j \in Range(queue) : j # Poison => status[j] \in Waiting
  /\ \A r \in Requests : \A j \in Range(created[r]) : status[j] \in Waiting
  /\ wpc \in {"read", "start"} => status[wjob] \in Waiting

(* A row says cancelled only after a cancel request was committed. *)
FlagInv ==
  /\ \A j \in Jobs : status[j] = "cancelled" => cancelRequested[j]
  /\ wpc = "update" /\ wtarget = "cancelled" => cancelRequested[wjob]

(* An active job that is not being cancelled. *)
Live(j) == status[j] \in Active /\ ~cancelRequested[j]

(* A conversion request holds the lock from its check to its end, and from *)
(* the check to its last commit no other conversion has a live job.        *)
LockInv ==
  \A r \in Conversions :
    /\ rpc[r] \in {"batch", "check", "commit", "refresh", "enqueue"} =>
         convLock = {r}
    /\ rpc[r] \in {"check", "commit", "refresh"} =>
         \A q \in Conversions \ {r} : \A k \in PlannedBy(q) : ~Live(k)

(* The plan of request r has job a before job b. *)
Earlier(r, a, b) ==
  \E g, h \in DOMAIN Plan[r] :
    \E i \in DOMAIN Plan[r][g], k \in DOMAIN Plan[r][h] :
      /\ g < h \/ (g = h /\ i < k)
      /\ a = Plan[r][g][i] /\ b = Plan[r][h][k]

Made == {j \in Jobs : status[j] # "none"}

(* The times of creation count the rows, and follow the plan. *)
CreatedAtInv ==
  /\ \A j \in Made : createdAt[j] <= Cardinality(Made)
  /\ \A r \in Requests : \A a, b \in Made :
       Earlier(r, a, b) => createdAt[a] < createdAt[b]

(* A pending job is ahead of the later jobs of its request, wherever each  *)
(* of them is: in the worker's hands, in the queue, or still to be put.    *)
OrderInv ==
  \A r \in Requests : \A a, b \in PlannedBy(r) :
    Earlier(r, a, b) /\ status[a] = "pending" =>
      /\ b \notin ran /\ b # wjob
      /\ b \in Range(queue) => wjob = a \/ Precedes(queue, a, b)
      /\ b \in Range(created[r]) =>
           wjob = a \/ a \in Range(queue) \/ Precedes(created[r], a, b)

LifeInv ==
  /\ IInv
  /\ ReqInv
  /\ WaitInv
  /\ FlagInv
  /\ PendingAccounted
  /\ LockInv
  /\ ConversionsDisjoint
  /\ CreatedAtInv
  /\ OrderInv
-----------------------------------------------------------------------------
(* What one step may do to a row, and who does it.                         *)

(* Besides its creation and its deletion, a row is changed by a cancel     *)
(* that read pending, by the worker whose job it is, and by the recovery.  *)
LEMMA RowFate ==
  ASSUME IInv, [Next]_vars, NEW j \in Jobs
  PROVE  /\ cancelRequested[j] => cancelRequested'[j]
         /\ \/ status'[j] \in {status[j], "deleted"}
            \/ status[j] = "none" /\ status'[j] = "pending"
            \/ /\ status'[j] = "cancelled" /\ cancelRequested'[j]
               /\ \E c \in Cancels : cjob[c] = j /\ cpc[c] = "write" /\ cseen[c] = "pending"
            \/ WorkerStart /\ wjob = j /\ Exists(j) /\ status'[j] = "running"
            \/ WorkerFinish /\ wjob = j /\ status'[j] = "completed"
            \/ WorkerUpdate /\ wjob = j /\ status'[j] = wtarget
            \/ RecoverRunning /\ status[j] = "running" /\ status'[j] = "failed"
<1> USE DEF IInv, TypeOK, RowsType, rows, worker, requests, cancels, Others
<1>4. ASSUME NEW r \in Requests, CommitGroup(r)
      PROVE  /\ UNCHANGED cancelRequested
             /\ status'[j] = status[j] \/ (status[j] = "none" /\ status'[j] = "pending")
  <2>1. rpc[r] = "commit"
    BY <1>4 DEF CommitGroup
  <2>2. rgroup[r] \in DOMAIN Plan[r] /\ rgroup[r] >= rgroup[r]
    BY <2>1 DEF PlanInv, Working, RequestsType
  <2>3. \A k \in Range(Plan[r][rgroup[r]]) : status[k] = "none"
    BY <2>1, <2>2 DEF PlanInv, Working, FirstLeft, Range
  <2> QED BY <1>4, <2>3 DEF CommitGroup
<1>5. CASE \E c \in Cancels : CancelWrite(c)
  BY <1>5 DEF CancelWrite
<1>6. CASE \E p \in Projects : DeleteProject(p)
  BY <1>6 DEF DeleteProject
<1>7. CASE WorkerStart
  BY <1>7 DEF WorkerStart
<1>8. CASE WorkerFinish
  BY <1>8 DEF WorkerFinish
<1>9. CASE WorkerUpdate
  BY <1>9 DEF WorkerUpdate
<1>10. CASE RecoverRunning
  BY <1>10 DEF RecoverRunning
<1>11. CASE UNCHANGED <<status, cancelRequested>>
  BY <1>11
<1>12. \/ \E r \in Requests : CommitGroup(r)
       \/ \E c \in Cancels : CancelWrite(c)
       \/ \E p \in Projects : DeleteProject(p)
       \/ WorkerStart \/ WorkerFinish \/ WorkerUpdate \/ RecoverRunning
       \/ UNCHANGED <<status, cancelRequested>>
  BY DEF Next, RequestStep, CancelStep, WorkerStep, HandlerStep, ServerStep,
         vars, RequestArrives, CheckBatch, CheckGroup, Refresh, Enqueue, Abort, CancelRead,
         CancelTerminate, WorkerLoop, WorkerGet, WorkerRead, WorkerBegin,
         HandleDirect, HandleSpawn, HandleRegister, HandlePoll, HandleAfter,
         WorkerSettle, ReportRaises, ProcessExits, Stop, GoDown, Start
<1> QED BY <1>4, <1>5, <1>6, <1>7, <1>8, <1>9, <1>10, <1>11, <1>12

(* The worker has a job to read or to start because it took it from the    *)
(* queue; and it puts down a pending one only by starting it.              *)
LEMMA TakeStep ==
  ASSUME IInv, [Next]_vars
  PROVE  /\ wpc' \in {"read", "start"} =>
              \/ WorkerGet /\ Head(queue) # Poison
              \/ wpc \in {"read", "start"} /\ wjob' = wjob /\ ~WorkerStart
         /\ wpc \in {"read", "start"} =>
              \/ wjob' = wjob /\ wpc' \in {"read", "start"}
              \/ server' = "down"
              \/ WorkerRead /\ status[wjob] # "pending"
              \/ WorkerStart
<1>1. CASE WorkerStep
  BY <1>1 DEF WorkerStep, HandlerStep, WorkerLoop, WorkerGet, WorkerRead,
     WorkerStart, WorkerBegin, HandleDirect, HandleSpawn, HandleRegister,
     HandlePoll, HandleAfter, WorkerFinish, WorkerSettle, WorkerUpdate,
     Exists, Absent
<1>2. CASE GoDown
  BY <1>2 DEF GoDown
<1>3. CASE Start
  BY <1>3 DEF Start, IInv, DownInv
<1>4. CASE UNCHANGED <<wpc, wjob>>
  <2>1. ~WorkerStart
    BY <1>4 DEF WorkerStart
  <2> QED BY <1>4, <2>1
<1>5. CASE ReportRaises
  BY <1>5 DEF ReportRaises
<1> QED
  BY <1>1, <1>2, <1>3, <1>4, <1>5
     DEF Next, RequestStep, CancelStep, ServerStep, vars, worker, Others,
         RequestArrives, CheckBatch, CheckGroup, CommitGroup, Refresh, Enqueue, Abort,
         CancelRead, CancelWrite, CancelTerminate, DeleteProject, ProcessExits,
         Stop, RecoverRunning

(* A job that waits goes on waiting until the worker starts it.            *)
LEMMA WaitingStep ==
  ASSUME IInv, [Next]_vars, NEW j \in Jobs, status[j] \in Waiting,
         j # wjob \/ wpc \in {"read", "start"}
  PROVE  status'[j] \in Waiting \/ (WorkerStart /\ wjob = j)
<1>1. WorkerFinish \/ WorkerUpdate => wjob # j
  BY DEF WorkerFinish, WorkerUpdate
<1> QED BY <1>1, RowFate DEF Waiting

-----------------------------------------------------------------------------
(* The parts of the invariant.                                             *)

(* A request that returns, or is refused, has nothing left to enqueue.     *)
LEMMA ReqStep ==
  ASSUME IInv, ReqInv, [Next]_vars
  PROVE  ReqInv'
<1> SUFFICES ASSUME NEW r \in Requests, created'[r] # <<>>
             PROVE  rpc'[r] \in {"check", "commit", "refresh", "enqueue", "aborted"}
  BY DEF ReqInv
<1> USE DEF IInv, TypeOK, RequestsType
<1>1. CASE RequestArrives(r) \/ CheckBatch(r)
  BY <1>1 DEF RequestArrives, CheckBatch, ReqInv
<1>2. CASE CheckGroup(r)
  BY <1>2 DEF CheckGroup, NextGroup, Return, PlanInv, Working
<1>3. CASE CommitGroup(r) \/ Refresh(r) \/ Abort(r)
  BY <1>3 DEF CommitGroup, Refresh, Abort, NextGroup
<1>4. CASE Enqueue(r)
  BY <1>4 DEF Enqueue, Return
<1>5. CASE \E q \in Requests : q # r /\ RequestStep(q)
  BY <1>5 DEF RequestStep, RequestArrives, CheckBatch, CheckGroup, CommitGroup,
     Refresh, Enqueue, Abort, NextGroup, Return, ReqInv
<1>6. CASE GoDown
  BY <1>6 DEF GoDown
<1>7. CASE UNCHANGED <<created, rpc>>
  BY <1>7 DEF ReqInv
<1> QED
  BY <1>1, <1>2, <1>3, <1>4, <1>5, <1>6, <1>7
     DEF Next, RequestStep, CancelStep, WorkerStep, HandlerStep, ServerStep,
         ReportRaises, vars, requests, Others, CancelRead, CancelWrite, CancelTerminate,
         DeleteProject, WorkerLoop, WorkerGet, WorkerRead, WorkerStart,
         WorkerBegin, HandleDirect, HandleSpawn, HandleRegister, HandlePoll,
         HandleAfter, WorkerFinish, WorkerSettle, WorkerUpdate, ReportRaises, ProcessExits,
         Stop, RecoverRunning, Start

(* The elements of the lists after a step: taken from the head of one      *)
(* list, put at the end of the next, or new.                               *)
LEMMA ElementStep ==
  ASSUME IInv, [Next]_vars
  PROVE  /\ \A j \in Range(queue') :
              \/ j \in Range(queue) \/ j = Poison
              \/ \E r \in Requests : j \in Range(created[r])
              \/ status'[j] = "pending"
         /\ \A r \in Requests : \A j \in Range(created'[r]) :
              \/ j \in Range(created[r])
              \/ status'[j] = "pending"
         /\ \A j \in Range(queue) :
              \/ j \in Range(queue') \/ j = wjob' \/ server' = "down"
              \/ j = Poison
         /\ \A r \in Requests : \A j \in Range(created[r]) :
              \/ j \in Range(created'[r]) \/ j \in Range(queue')
              \/ server' = "down"
<1> USE DEF IInv, TypeOK
<1>1. /\ queue \in Seq(Jobs \union {Poison})
      /\ \A r \in Requests : created[r] \in Seq(Jobs)
  BY DEF ServerType, RequestsType
<1>2. CASE WorkerGet
  <2>1. /\ queue # <<>> /\ queue' = Tail(queue) /\ created' = created
        /\ Head(queue) = Poison \/ wjob' = Head(queue)
    BY <1>2 DEF WorkerGet, Others, requests
  <2>2. Range(queue) = Range(Tail(queue)) \union {Head(queue)}
    BY <1>1, <2>1, TailList
  <2> QED BY <2>1, <2>2
<1>3. ASSUME NEW r \in Requests, CommitGroup(r)
      PROVE  /\ queue' = queue
             /\ \A q \in Requests : \A j \in Range(created'[q]) :
                  j \in Range(created[q]) \/ status'[j] = "pending"
             /\ \A q \in Requests : Range(created[q]) \subseteq Range(created'[q])
  <2> DEFINE g == Plan[r][rgroup[r]]
  <2>1. rpc[r] = "commit"
    BY <1>3 DEF CommitGroup
  <2>2. rgroup[r] \in DOMAIN Plan[r]
    BY <2>1 DEF PlanInv, Working
  <2>3. g \in Seq(Jobs) /\ Range(g) \subseteq Jobs
    BY <2>2, PlanTypes, RangeOfSeq
  <2>4. /\ created' = [created EXCEPT ![r] = created[r] \o g]
        /\ status' = [j \in Jobs |-> IF j \in Range(g) THEN "pending" ELSE status[j]]
        /\ queue' = queue
    BY <1>3 DEF CommitGroup
  <2>5. Range(created[r] \o g) = Range(created[r]) \union Range(g)
    BY <1>1, <2>3, ConcatList
  <2> HIDE DEF g
  <2>6. \A q \in Requests : created'[q] = IF q = r THEN created[r] \o g ELSE created[q]
    BY <2>4 DEF RequestsType
  <2> QED BY <2>3, <2>4, <2>5, <2>6
<1>4. CASE \E r \in Requests : CommitGroup(r)
  BY <1>3, <1>4
<1>5. ASSUME NEW r \in Requests, Enqueue(r), created[r] # <<>>
      PROVE  /\ Range(queue') = Range(queue) \union {Head(created[r])}
             /\ Range(created[r]) = Range(created'[r]) \union {Head(created[r])}
             /\ \A q \in Requests \ {r} : created'[q] = created[q]
  <2>1. /\ queue' = Append(queue, Head(created[r]))
        /\ created' = [created EXCEPT ![r] = Tail(@)]
    BY <1>5 DEF Enqueue
  <2>2. /\ Head(created[r]) \in Jobs
        /\ Range(created[r]) = Range(Tail(created[r])) \union {Head(created[r])}
    BY <1>1, <1>5, TailList
  <2>3. Range(queue') = Range(queue) \union {Head(created[r])}
    BY <1>1, <2>1, <2>2, AppendList
  <2> QED BY <2>1, <2>2, <2>3 DEF RequestsType
<1>6. CASE \E r \in Requests : Enqueue(r) /\ created[r] # <<>>
  <2>1. PICK r \in Requests : Enqueue(r) /\ created[r] # <<>>
    BY <1>6
  <2>2. Range(queue') = Range(queue) \union {Head(created[r])}
    BY <1>5, <2>1
  <2>3. Range(created[r]) = Range(created'[r]) \union {Head(created[r])}
    BY <1>5, <2>1
  <2>4. \A q \in Requests \ {r} : created'[q] = created[q]
    BY <1>5, <2>1
  <2> QED BY <2>2, <2>3, <2>4
<1>7. CASE Stop
  <2>1. queue' = Append(queue, Poison) /\ created' = created
    BY <1>7 DEF Stop, requests
  <2>2. Range(queue') = Range(queue) \union {Poison}
    BY <1>1, <2>1, AppendList
  <2> QED BY <2>1, <2>2
<1>8. CASE GoDown
  <2>1. /\ queue' = <<>> /\ server' = "down"
        /\ \A r \in Requests : created'[r] = <<>>
    BY <1>8 DEF GoDown
  <2> QED BY <2>1, EmptyList
<1>9. CASE Start
  <2>1. /\ Range(queue') = {j \in Jobs : status[j] = "pending"}
        /\ status' = status /\ created' = created
    BY <1>9 DEF Start, PendingInOrder, rows, requests
  <2>2. queue = <<>>
    BY <1>9 DEF Start, DownInv
  <2> QED BY <2>1, <2>2, EmptyList
<1>10. CASE UNCHANGED <<queue, created>>
  BY <1>10
<1> QED BY <1>2, <1>4, <1>6, <1>7, <1>8, <1>9, <1>10, ListStep

(* Jobs on their way to the worker are not started by anyone else.         *)
LEMMA WaitStep ==
  ASSUME IInv, WaitInv, [Next]_vars, TypeOK'
  PROVE  WaitInv'
<1>1. /\ queue \in Seq(Jobs \union {Poison}) /\ Range(queue) \subseteq Jobs \union {Poison}
      /\ \A r \in Requests : Range(created[r]) \subseteq Jobs
      /\ NoJob \notin Jobs
  BY JobsAssumption, RangeOfSeq DEF IInv, TypeOK, ServerType, RequestsType
<1>2. ASSUME NEW j \in Jobs, status[j] \in Waiting, j # wjob
      PROVE  status'[j] \in Waiting
  BY <1>2, WaitingStep
<1>3. ASSUME NEW j \in Range(queue), j # Poison PROVE status'[j] \in Waiting
  BY <1>1, <1>2, <1>3 DEF IInv, QueueInv, WaitInv
<1>4. ASSUME NEW r \in Requests, NEW j \in Range(created[r])
      PROVE  status'[j] \in Waiting
  BY <1>1, <1>2, <1>4 DEF IInv, CreatedInv, WaitInv
<1>5. "pending" \in Waiting
  BY DEF Waiting
<1>6. wpc' \in {"read", "start"} => status'[wjob'] \in Waiting
  <2>1. CASE WorkerGet /\ Head(queue) # Poison
    <3>1. queue # <<>> /\ wjob' = Head(queue)
      BY <2>1 DEF WorkerGet
    <3>2. Head(queue) \in Range(queue)
      BY <1>1, <3>1, TailList
    <3> QED BY <1>3, <2>1, <3>1, <3>2
  <2>2. CASE wpc \in {"read", "start"} /\ wjob' = wjob /\ ~WorkerStart
    <3>1. wjob \in Jobs /\ status[wjob] \in Waiting
      BY <2>2 DEF IInv, WorkerInv, Holding, WaitInv
    <3> QED BY <2>2, <3>1, WaitingStep
  <2> QED BY <2>1, <2>2, TakeStep
<1> QED BY <1>3, <1>4, <1>5, <1>6, ElementStep DEF WaitInv

(* The worker writes cancelled only for a job with a cancel request. *)
LEMMA FlagStep ==
  ASSUME IInv, FlagInv, [Next]_vars
  PROVE  FlagInv'
<1>1. ASSUME NEW j \in Jobs, status'[j] = "cancelled" PROVE cancelRequested'[j]
  <2>1. WorkerUpdate => wpc = "update"
    BY DEF WorkerUpdate
  <2> QED BY <1>1, <2>1, RowFate DEF FlagInv
<1>2. ASSUME wpc' = "update", wtarget' = "cancelled" PROVE cancelRequested'[wjob']
  <2>1. CASE WorkerBegin \/ HandlePoll \/ HandleAfter \/ WorkerSettle
    BY <1>2, <2>1 DEF WorkerBegin, HandlePoll, HandleAfter, WorkerSettle,
       IsCancelRequested, rows
  <2>2. CASE UNCHANGED <<wpc, wjob, wtarget>>
    <3>1. wjob \in Jobs
      BY <1>2, <2>2 DEF IInv, WorkerInv, Holding, Owning
    <3> QED BY <1>2, <2>2, <3>1, RowFate DEF FlagInv
  <2> QED
    BY <1>2, <2>1, <2>2
       DEF Next, RequestStep, CancelStep, WorkerStep, HandlerStep, ServerStep,
           vars, worker, Others, RequestArrives, CheckBatch, CheckGroup,
           CommitGroup, Refresh, Enqueue, Abort, CancelRead, CancelWrite, CancelTerminate,
           DeleteProject, WorkerLoop, WorkerGet, WorkerRead, WorkerStart,
           HandleDirect, HandleSpawn, HandleRegister, WorkerFinish,
           WorkerUpdate, ReportRaises, ProcessExits, Stop, GoDown, RecoverRunning, Start
<1> QED BY <1>1, <1>2 DEF FlagInv

(* No step drops a pending job. *)
LEMMA AccountedStep ==
  ASSUME LifeInv, [Next]_vars, TypeOK', ReqInv', WorkerInv'
  PROVE  PendingAccounted'
<1> SUFFICES ASSUME server' = "up", NEW j \in Jobs, status'[j] = "pending"
             PROVE  \/ j \in Range(queue')
                    \/ \E r \in Requests : j \in Range(created'[r])
                    \/ wjob' = j /\ wpc' \in {"read", "start"}
  <2>1. ASSUME NEW r \in Requests, NEW j \in Range(created'[r])
        PROVE  rpc'[r] \in {"check", "commit", "refresh", "enqueue", "aborted"}
    <3>1. created'[r] # <<>>
      BY <2>1, EmptyList
    <3> QED BY <3>1 DEF ReqInv
  <2> QED BY <2>1 DEF PendingAccounted, Stranded
<1> USE DEF LifeInv, IInv
<1>2. j # Poison
  BY JobsAssumption
<1>3. CASE Start
  BY <1>3 DEF Start, PendingInOrder, rows
<1>4. CASE status[j] = "none"
  <2>1. PICK r \in Requests : CommitGroup(r) /\ j \in Range(Plan[r][rgroup[r]])
    BY <1>4, NewRowStep DEF TypeOK
  <2>2. rpc[r] = "commit"
    BY <2>1 DEF CommitGroup
  <2>3. /\ Plan[r][rgroup[r]] \in Seq(Jobs) /\ created[r] \in Seq(Jobs)
        /\ created'[r] = created[r] \o Plan[r][rgroup[r]]
    BY <2>1, <2>2, PlanTypes DEF CommitGroup, PlanInv, Working, TypeOK,
       RequestsType
  <2>4. j \in Range(created'[r])
    BY <2>1, <2>3, ConcatList
  <2> QED BY <2>4
<1>5. CASE status[j] = "pending" /\ server = "up"
  <2>1. CASE j \in Range(queue)
    <3>1. j \in Range(queue') \/ j = wjob'
      BY <1>2, <2>1, ElementStep
    <3>2. CASE j = wjob'
      <4>1. wpc' \in {"read", "start"}
        BY <3>2, JobsAssumption DEF WorkerInv, Holding
      <4> QED BY <3>2, <4>1
    <3> QED BY <3>1, <3>2
  <2>2. CASE \E r \in Requests : j \in Range(created[r])
    BY <2>2, ElementStep
  <2>3. CASE wjob = j /\ wpc \in {"read", "start"}
    <3>1. ~WorkerStart
      BY <1>5, <2>3 DEF WorkerStart, Exists, Absent, TypeOK, RowsType
    <3> QED BY <1>5, <2>3, <3>1, TakeStep
  <2> QED BY <1>5, <2>1, <2>2, <2>3 DEF PendingAccounted, Stranded
<1>6. server = "up" \/ Start
  BY DEF Next, RequestStep, CancelStep, WorkerStep, HandlerStep, ServerStep,
         vars, Others, RequestArrives, CheckBatch, CheckGroup, CommitGroup,
         Refresh, Enqueue, Abort, CancelRead, CancelWrite, CancelTerminate, DeleteProject,
         WorkerLoop, WorkerGet, WorkerRead, WorkerStart, WorkerBegin,
         HandleDirect, HandleSpawn, HandleRegister, HandlePoll, HandleAfter,
         WorkerFinish, WorkerSettle, WorkerUpdate, ReportRaises, ProcessExits, Stop, GoDown,
         RecoverRunning, DownInv
<1>7. status[j] \in {"none", "pending"}
  BY RowStep
<1> QED BY <1>3, <1>4, <1>5, <1>6, <1>7

-----------------------------------------------------------------------------
(* Conversions.                                                            *)

(* The jobs of a plan are jobs. *)
LEMMA PlannedJobs ==
  ASSUME NEW r \in Requests PROVE PlannedBy(r) \subseteq Jobs
BY PlanTypes DEF PlannedBy

(* What a commit does. *)
LEMMA CommitStep ==
  ASSUME IInv, NEW r \in Requests, CommitGroup(r),
         NEW g, g = Plan[r][rgroup[r]]
  PROVE  /\ server = "up" /\ rpc[r] = "commit" /\ rgroup[r] \in DOMAIN Plan[r]
         /\ g \in Seq(Jobs) /\ IsInjective(g)
         /\ Range(g) \subseteq PlannedBy(r) /\ Range(g) \subseteq Jobs
         /\ \A j \in Range(g) : status[j] = "none"
         /\ status' = [j \in Jobs |-> IF j \in Range(g) THEN "pending" ELSE status[j]]
         /\ \A q \in Requests :
              created'[q] = IF q = r THEN created[r] \o g ELSE created[q]
         /\ UNCHANGED <<queue, wpc, wjob, ran, cancelRequested>>
<1> USE DEF IInv, TypeOK, RequestsType
<1>1. server = "up" /\ rpc[r] = "commit"
  BY DEF CommitGroup
<1>2. rgroup[r] \in DOMAIN Plan[r] /\ rgroup[r] >= rgroup[r]
  BY <1>1 DEF PlanInv, Working
<1>3. g \in Seq(Jobs) /\ Range(g) \subseteq Jobs
  BY <1>2, PlanTypes, RangeOfSeq
<1>4. IsInjective(g)
  BY <1>2, PlanAssumption DEF IsInjective
<1>5. Range(g) \subseteq PlannedBy(r)
  BY <1>2 DEF Range, PlannedBy
<1>6. \A j \in Range(g) : status[j] = "none"
  BY <1>1, <1>2 DEF PlanInv, Working, FirstLeft, Range
<1>7. /\ created' = [created EXCEPT ![r] = @ \o g]
      /\ status' = [j \in Jobs |-> IF j \in Range(g) THEN "pending" ELSE status[j]]
      /\ UNCHANGED <<queue, wpc, wjob, ran, cancelRequested>>
  BY DEF CommitGroup, worker
<1>8. \A q \in Requests :
        created'[q] = IF q = r THEN created[r] \o g ELSE created[q]
  BY <1>7
<1> HIDE DEF IInv
<1> QED BY <1>1, <1>2, <1>3, <1>4, <1>5, <1>6, <1>7, <1>8

(* A job becomes live by its creation only: the worker does not revive a   *)
(* job whose cancellation it has not seen.                                 *)
LEMMA LiveStep ==
  ASSUME IInv, WaitInv, FlagInv, [Next]_vars, NEW k \in Jobs, Live(k)'
  PROVE  Live(k) \/ \E r \in Requests : CommitGroup(r) /\ k \in PlannedBy(r)
<1>1. status'[k] \in Active /\ ~cancelRequested'[k] /\ ~cancelRequested[k]
  BY RowFate DEF Live
<1>2. CASE status[k] = "none"
  <2>1. status'[k] # "none"
    BY <1>1 DEF Active
  <2> QED BY <1>2, <2>1, NewRowStep, CommitStep DEF IInv
<1>3. CASE WorkerStart /\ wjob = k /\ Exists(k)
  <2>1. status[k] \in Waiting \ Absent
    BY <1>3 DEF WorkerStart, WaitInv, Exists
  <2> QED BY <1>1, <2>1 DEF Waiting, Absent, FlagInv, Live, Active
<1>4. CASE WorkerUpdate /\ wjob = k /\ status'[k] = wtarget
  BY <1>1, <1>4 DEF WorkerUpdate, IInv, WorkerInv, Active
<1>5. CASE status'[k] = status[k]
  BY <1>1, <1>5 DEF Live
<1> QED BY <1>1, <1>2, <1>3, <1>4, <1>5, RowFate DEF Active

(* The request of a conversion keeps the lock, and no other conversion     *)
(* gets a live job meanwhile.                                              *)
LEMMA LockStep ==
  ASSUME LifeInv, [Next]_vars
  PROVE  LockInv'
<1> DEFINE Busy == {"batch", "check", "commit", "refresh", "enqueue"}
           Creating == {"check", "commit", "refresh"}
<1> SUFFICES ASSUME NEW r \in Conversions
             PROVE  /\ rpc'[r] \in Busy => convLock' = {r}
                    /\ rpc'[r] \in Creating =>
                         \A q \in Conversions \ {r} : \A k \in PlannedBy(q) : ~Live(k)'
  BY DEF LockInv
<1> USE DEF LifeInv, IInv, TypeOK, RequestsType
<1>1. r \in Requests /\ r \in Bulk
  BY PlanAssumption
<1>2. rpc[r] \in Busy => convLock = {r}
  BY DEF LockInv
<1>3. /\ rpc'[r] \in Busy => convLock' = {r}
      /\ rpc'[r] \in Creating =>
           \/ rpc[r] \in Creating
           \/ CheckBatch(r) /\ ~HasActiveConversionBatch
  <2>1. CASE RequestArrives(r)
    BY <1>1, <2>1 DEF RequestArrives
  <2>2. CASE CheckBatch(r) \/ Enqueue(r)
    BY <1>1, <1>2, <2>2 DEF CheckBatch, Enqueue, Return
  <2>3. CASE CheckGroup(r) \/ CommitGroup(r) \/ Refresh(r) \/ Abort(r)
    BY <1>1, <1>2, <2>3 DEF CheckGroup, CommitGroup, Refresh, Abort, NextGroup
  <2>4. ASSUME NEW q \in Requests, q # r, RequestStep(q)
        PROVE  rpc'[r] = rpc[r] /\ (convLock = {r} => convLock' = {r})
    BY <1>1, <2>4 DEF RequestStep, RequestArrives, CheckBatch, CheckGroup,
       CommitGroup, Refresh, Enqueue, Abort, NextGroup, Return
  <2>5. CASE \E q \in Requests : q # r /\ RequestStep(q)
    BY <1>2, <2>4, <2>5
  <2>6. CASE GoDown
    BY <1>1, <2>6 DEF GoDown
  <2>7. CASE UNCHANGED <<rpc, convLock>>
    BY <1>2, <2>7
  <2> QED
    BY <1>1, <2>1, <2>2, <2>3, <2>5, <2>6, <2>7
       DEF Next, RequestStep, CancelStep, WorkerStep, HandlerStep, ServerStep,
           ReportRaises, vars, requests, Others, CancelRead, CancelWrite, CancelTerminate,
           DeleteProject, WorkerLoop, WorkerGet, WorkerRead, WorkerStart,
           WorkerBegin, HandleDirect, HandleSpawn, HandleRegister, HandlePoll,
           HandleAfter, WorkerFinish, WorkerSettle, WorkerUpdate, ReportRaises, ProcessExits,
           Stop, RecoverRunning, Start
<1>4. ASSUME rpc'[r] \in Creating,
             NEW q \in Conversions \ {r}, NEW k \in PlannedBy(q)
      PROVE  ~Live(k)'
  <2>1. q \in Requests /\ k \in Jobs
    BY PlanAssumption, PlannedJobs
  <2>2. CASE rpc[r] \in Creating
    <3>1. ~Live(k) /\ convLock = {r}
      BY <1>2, <1>4, <2>2 DEF LockInv
    <3>2. ASSUME NEW p \in Requests, CommitGroup(p), k \in PlannedBy(p)
          PROVE  FALSE
      <4>1. p = q
        BY <1>4, <2>1, <3>2, PlanAssumption
      <4>2. convLock = {q}
        BY <3>2, <4>1 DEF CommitGroup, LockInv
      <4> QED BY <1>4, <3>1, <4>2
    <3> QED BY <2>1, <3>1, <3>2, LiveStep
  <2>3. CASE CheckBatch(r) /\ ~HasActiveConversionBatch
    <3>1. TypeOf[k] = "convert_audio"
      BY <1>4, <2>1, TypeAssumption
    <3>2. status[k] \notin Active /\ status' = status
      BY <2>1, <2>3, <3>1 DEF CheckBatch, HasActiveConversionBatch, rows
    <3> QED BY <3>2 DEF Live
  <2> QED BY <1>3, <1>4, <2>2, <2>3
<1> QED BY <1>3, <1>4

(* Live jobs of two conversions do not meet. *)
LEMMA DisjointStep ==
  ASSUME LifeInv, [Next]_vars
  PROVE  ConversionsDisjoint'
<1> SUFFICES ASSUME NEW r \in Conversions, NEW q \in Conversions, r # q,
                    NEW j \in PlannedBy(r), NEW k \in PlannedBy(q),
                    Live(j)', Live(k)'
             PROVE  FALSE
  BY DEF ConversionsDisjoint, Live
<1>1. /\ r \in Requests /\ q \in Requests /\ j \in Jobs /\ k \in Jobs
  BY PlanAssumption, PlannedJobs
<1>2. ~(Live(j) /\ Live(k))
  BY DEF LifeInv, ConversionsDisjoint, Live
<1>3. ASSUME NEW p \in Requests, CommitGroup(p), j \in PlannedBy(p)
      PROVE  CommitGroup(r) /\ convLock = {r} /\ ~Live(k)
  <2>1. p = r
    BY <1>1, <1>3, PlanAssumption
  <2> QED BY <1>3, <2>1 DEF CommitGroup, LifeInv, LockInv
<1>4. ASSUME NEW p \in Requests, CommitGroup(p), k \in PlannedBy(p)
      PROVE  CommitGroup(q) /\ convLock = {q} /\ ~Live(j)
  <2>1. p = q
    BY <1>1, <1>4, PlanAssumption
  <2> QED BY <1>4, <2>1 DEF CommitGroup, LifeInv, LockInv
<1>5. \/ Live(j)
      \/ CommitGroup(r) /\ convLock = {r} /\ ~Live(k)
  BY <1>1, <1>3, LiveStep DEF LifeInv
<1>6. \/ Live(k)
      \/ CommitGroup(q) /\ convLock = {q} /\ ~Live(j)
  BY <1>1, <1>4, LiveStep DEF LifeInv
<1> QED BY <1>2, <1>5, <1>6

-----------------------------------------------------------------------------
(* The order of the jobs of a request.                                     *)

(* What a commit creates has no later job before it, and comes in the      *)
(* order of the plan.                                                      *)
LEMMA LaterIsNew ==
  ASSUME IInv, NEW r \in Requests, CommitGroup(r),
         NEW g, g = Plan[r][rgroup[r]],
         NEW a \in Range(g), NEW b, Earlier(r, a, b)
  PROVE  /\ status[b] = "none"
         /\ b \in Range(g) => Precedes(g, a, b)
<1>1. rpc[r] = "commit" /\ rgroup[r] \in DOMAIN Plan[r]
  BY CommitStep
<1>2. PICK m \in DOMAIN Plan[r], h \in DOMAIN Plan[r] :
        \E i \in DOMAIN Plan[r][m], k \in DOMAIN Plan[r][h] :
          /\ m < h \/ (m = h /\ i < k)
          /\ a = Plan[r][m][i] /\ b = Plan[r][h][k]
  BY DEF Earlier
<1>3. PICK i \in DOMAIN Plan[r][m], k \in DOMAIN Plan[r][h] :
          /\ m < h \/ (m = h /\ i < k)
          /\ a = Plan[r][m][i] /\ b = Plan[r][h][k]
  BY <1>2
<1>4. m = rgroup[r]
  <2>1. PICK x \in DOMAIN g : g[x] = a
    BY DEF Range
  <2> QED BY <1>1, <1>3, <2>1, PlanAssumption
<1>5. h >= rgroup[r]
  BY <1>1, <1>3, <1>4, PlanTypes
<1>6. status[b] = "none"
  BY <1>1, <1>3, <1>5 DEF IInv, PlanInv, Working, FirstLeft
<1>7. ASSUME b \in Range(g) PROVE i < k /\ i \in DOMAIN g /\ k \in DOMAIN g /\ g[k] = b
  <2>1. PICK x \in DOMAIN g : g[x] = b
    BY <1>7 DEF Range
  <2>2. h = rgroup[r]
    BY <1>1, <1>3, <2>1, PlanAssumption
  <2> QED BY <1>1, <1>3, <1>4, <2>2, PlanTypes
<1>8. b \in Range(g) => Precedes(g, a, b)
  BY <1>3, <1>4, <1>7 DEF Precedes
<1> QED BY <1>6, <1>8

(* Rows are created later than those before them. *)
LEMMA CreatedAtStep ==
  ASSUME IInv, CreatedAtInv, [Next]_vars
  PROVE  CreatedAtInv'
<1>1. /\ IsFiniteSet(Made) /\ Cardinality(Made) \in Nat
      /\ Made \subseteq Jobs
  BY JobsAssumption, FS_Subset, FS_CardinalityType DEF Made
<1>2. ASSUME NEW r \in Requests, CommitGroup(r) PROVE CreatedAtInv'
  <2> DEFINE g   == Plan[r][rgroup[r]]
             now == Cardinality(Made)
             at(j) == CHOOSE i \in DOMAIN g : g[i] = j
  <2>1. /\ g \in Seq(Jobs) /\ IsInjective(g) /\ Range(g) \subseteq Jobs
        /\ \A j \in Range(g) : status[j] = "none"
        /\ status' = [j \in Jobs |-> IF j \in Range(g) THEN "pending" ELSE status[j]]
    BY <1>2, CommitStep
  <2>2. createdAt' = [j \in Jobs |-> IF j \in Range(g) THEN now + at(j) ELSE createdAt[j]]
    BY <1>2 DEF CommitGroup, Made
  <2>3. ASSUME NEW a \in Range(g), NEW b \in Jobs, Earlier(r, a, b)
        PROVE  /\ status[b] = "none"
               /\ b \in Range(g) => Precedes(g, a, b)
    BY <1>2, <2>3, LaterIsNew
  <2>4. Range(g) \subseteq PlannedBy(r)
    BY <1>2, CommitStep
  <2> HIDE DEF g
  <2>5. Len(g) \in Nat /\ DOMAIN g = 1..Len(g)
    BY <2>1
  <2>6. \A i \in DOMAIN g : g[i] \in Range(g) /\ at(g[i]) = i
    BY <2>1 DEF Range, IsInjective
  <2>7. \A j \in Range(g) : at(j) \in 1..Len(g)
    BY <2>5 DEF Range
  <2>8. Made' = Made \union Range(g) /\ Made \intersect Range(g) = {}
    BY <2>1 DEF Made
  <2>9. Cardinality(Made') >= now + Len(g) /\ Cardinality(Made') \in Nat
    <3>1. g \in Injection(1..Len(g), Range(g))
      BY <2>1, <2>5 DEF Injection, Range
    <3>2. IsFiniteSet(Range(g))
      BY <2>1, JobsAssumption, FS_Subset
    <3>3. IsFiniteSet(1..Len(g)) /\ Cardinality(1..Len(g)) = Len(g)
      <4>1. 1 \in Int /\ Len(g) \in Int
        BY <2>5
      <4>2. /\ IsFiniteSet(1..Len(g))
            /\ Cardinality(1..Len(g)) = IF 1 > Len(g) THEN 0 ELSE Len(g) - 1 + 1
        BY <4>1, FS_Interval
      <4> QED BY <2>5, <4>2
    <3>4. Len(g) <= Cardinality(Range(g)) /\ Cardinality(Range(g)) \in Nat
      BY <3>1, <3>2, <3>3, FS_Injection, FS_CardinalityType
    <3>5. Cardinality(Made \intersect Range(g)) = 0
      BY <2>8, FS_EmptySet
    <3>6. Cardinality(Made') = now + Cardinality(Range(g))
      <4>1. Cardinality(Made \union Range(g))
              = Cardinality(Made) + Cardinality(Range(g)) - Cardinality(Made \intersect Range(g))
        BY <1>1, <3>2, FS_Union
      <4> QED BY <1>1, <2>8, <3>4, <3>5, <4>1
    <3> QED BY <1>1, <2>5, <3>4, <3>6
  <2> HIDE DEF now, at
  <2>10. now \in Nat /\ \A j \in Made : createdAt[j] <= now /\ createdAt[j] \in Nat
    BY <1>1 DEF CreatedAtInv, now, IInv, TypeOK, RowsType
  <2>11. ASSUME NEW j \in Made' PROVE createdAt'[j] <= Cardinality(Made')
    <3>1. CASE j \in Range(g)
      BY <2>1, <2>2, <2>5, <2>7, <2>9, <2>10, <3>1
    <3>2. CASE j \in Made /\ j \notin Range(g)
      BY <1>1, <2>2, <2>5, <2>9, <2>10, <3>2
    <3> QED BY <2>8, <2>11, <3>1, <3>2
  <2>12. ASSUME NEW q \in Requests, NEW a \in Made', NEW b \in Made', Earlier(q, a, b)
         PROVE  createdAt'[a] < createdAt'[b]
    <3>1. a \in Jobs /\ b \in Jobs
      BY <1>1, <2>1, <2>8, <2>12
    <3>2. CASE a \notin Range(g) /\ b \notin Range(g)
      BY <2>2, <2>8, <2>12, <3>1, <3>2 DEF CreatedAtInv
    <3>3. CASE a \notin Range(g) /\ b \in Range(g)
      <4>1. createdAt[a] <= now /\ createdAt[a] \in Nat
        BY <2>8, <2>10, <2>12, <3>3
      <4>2. createdAt'[a] = createdAt[a] /\ createdAt'[b] = now + at(b)
        BY <2>2, <3>1, <3>3
      <4>3. at(b) \in 1..Len(g)
        BY <2>7, <3>3
      <4> QED BY <2>5, <2>10, <4>1, <4>2, <4>3
    <3>4. CASE a \in Range(g)
      <4>1. q = r
        <5>1. a \in PlannedBy(q)
          BY <2>12 DEF Earlier, PlannedBy
        <5> QED BY <2>4, <3>4, <5>1, PlanAssumption
      <4>2. b \in Range(g)
        <5>1. status[b] = "none"
          BY <2>3, <2>12, <3>1, <3>4, <4>1
        <5> QED BY <2>8, <2>12, <5>1 DEF Made
      <4>3. PICK i \in DOMAIN g, k \in DOMAIN g : i < k /\ g[i] = a /\ g[k] = b
        BY <2>3, <2>12, <3>1, <3>4, <4>1, <4>2 DEF Precedes
      <4>4. createdAt'[a] = now + i /\ createdAt'[b] = now + k
        BY <2>2, <2>6, <3>1, <3>4, <4>2, <4>3
      <4> QED BY <2>5, <2>10, <4>3, <4>4
    <3> QED BY <3>2, <3>3, <3>4
  <2> HIDE DEF CreatedAtInv
  <2> QED BY <2>11, <2>12 DEF CreatedAtInv
<1>3. CASE ~ \E r \in Requests : CommitGroup(r)
  <2>1. \A j \in Jobs : status[j] # "none" <=> status'[j] # "none"
    BY <1>3, RowStep, NewRowStep DEF IInv
  <2>2. Made' = Made
    BY <2>1 DEF Made
  <2>3. createdAt' = createdAt
    BY <1>3 DEF Next, RequestStep, CancelStep, WorkerStep, HandlerStep,
       ServerStep, vars, rows, Others, RequestArrives, CheckBatch, CheckGroup,
       Refresh, Enqueue, Abort, CancelRead, CancelWrite, CancelTerminate, DeleteProject,
       WorkerLoop, WorkerGet, WorkerRead, WorkerStart, WorkerBegin,
       HandleDirect, HandleSpawn, HandleRegister, HandlePoll, HandleAfter,
       WorkerFinish, WorkerSettle, WorkerUpdate, ReportRaises, ProcessExits, Stop, GoDown,
       RecoverRunning, Start
  <2> QED BY <2>2, <2>3 DEF CreatedAtInv
<1> QED BY <1>2, <1>3

(* The worker keeps a pending job in its hands until the job is running.   *)
LEMMA HeldStep ==
  ASSUME IInv, [Next]_vars, NEW j \in Jobs, wjob = j,
         status[j] = "pending", status'[j] = "pending", server' # "down"
  PROVE  wjob' = j
<1>1. wpc \in {"read", "start"}
  BY JobsAssumption DEF IInv, WorkerInv, Holding
<1>2. ~WorkerStart
  BY DEF WorkerStart, Exists, Absent, IInv, TypeOK, RowsType
<1> QED BY <1>1, <1>2, TakeStep

(* No step takes a job past a pending one that comes before it in the plan *)
(* of their request.                                                       *)
LEMMA OrderStep ==
  ASSUME LifeInv, [Next]_vars, TypeOK', DownInv'
  PROVE  OrderInv'
<1> SUFFICES ASSUME NEW r \in Requests, NEW a \in PlannedBy(r), NEW b \in PlannedBy(r),
                    Earlier(r, a, b), status'[a] = "pending"
             PROVE  /\ b \notin ran' /\ b # wjob'
                    /\ b \in Range(queue') => wjob' = a \/ Precedes(queue', a, b)
                    /\ b \in Range(created'[r]) =>
                         \/ wjob' = a \/ a \in Range(queue')
                         \/ Precedes(created'[r], a, b)
  BY DEF OrderInv, Earlier
<1> USE DEF LifeInv, IInv
<1>1. /\ a \in Jobs /\ b \in Jobs /\ NoJob \notin Jobs /\ Poison \notin Jobs
      /\ queue \in Seq(Jobs \union {Poison})
      /\ \A q \in Requests : created[q] \in Seq(Jobs)
      /\ \A q \in Requests \ {r} : a \notin PlannedBy(q) /\ b \notin PlannedBy(q)
  BY PlannedJobs, JobsAssumption, PlanAssumption DEF TypeOK, ServerType, RequestsType
<1>2. server' = "down" => queue' = <<>> /\ created'[r] = <<>>
  BY DEF DownInv
<1>3. CASE status[a] = "none"
  <2>1. PICK q \in Requests : CommitGroup(q) /\ a \in Range(Plan[q][rgroup[q]])
    BY <1>1, <1>3, NewRowStep
  <2>2. q = r
    BY <1>1, <2>1, CommitStep
  <2> DEFINE g == Plan[r][rgroup[r]]
  <2>3. /\ g \in Seq(Jobs) /\ created'[r] = created[r] \o g
        /\ UNCHANGED <<queue, wjob, ran>>
    BY <2>1, <2>2, CommitStep
  <2>4. status[b] = "none" /\ (b \in Range(g) => Precedes(g, a, b))
    BY <2>1, <2>2, LaterIsNew
  <2> HIDE DEF g
  <2>5. b \notin ran /\ b # wjob /\ b \notin Range(queue) /\ b \notin Range(created[r])
    BY <1>1, <2>4 DEF RanInv, WorkerInv, QueueInv, CreatedInv, Fresh
  <2>6. ASSUME b \in Range(created'[r]) PROVE Precedes(created'[r], a, b)
    <3>1. b \in Range(g)
      BY <1>1, <2>3, <2>5, <2>6, ConcatList
    <3> QED BY <1>1, <2>3, <2>4, <3>1, ConcatOrder
  <2> QED BY <2>3, <2>5, <2>6
<1>4. CASE status[a] = "pending"
  <2>1. /\ b \notin ran /\ b # wjob
        /\ b \in Range(queue) => wjob = a \/ Precedes(queue, a, b)
        /\ b \in Range(created[r]) =>
             wjob = a \/ a \in Range(queue) \/ Precedes(created[r], a, b)
    BY <1>4 DEF OrderInv
  <2>2. b \notin ran'
    BY <1>1, <2>1, RowStep
  <2>3. wjob = a => wjob' = a \/ server' = "down"
    BY <1>1, <1>4, HeldStep
  <2>4. a \in Range(queue) => a \in Range(queue') \/ wjob' = a \/ server' = "down"
    BY <1>1, ElementStep
  <2>5. ASSUME NEW q \in Requests, a \in Range(created[q]) \/ b \in Range(created[q])
        PROVE  q = r
    BY <1>1, <2>5 DEF CreatedInv
  <2>6. CASE WorkerGet
    <3>1. /\ queue # <<>> /\ queue' = Tail(queue) /\ created' = created
          /\ wjob' = IF Head(queue) = Poison THEN wjob ELSE Head(queue)
          /\ wjob = NoJob
      BY <2>6 DEF WorkerGet, Others, requests, WorkerInv, Holding, Owning
    <3>2. /\ Range(queue) = Range(Tail(queue)) \union {Head(queue)}
          /\ Head(queue) \notin Range(Tail(queue))
      BY <1>1, <3>1, TailList DEF QueueInv
    <3>3. Precedes(queue, a, b) =>
            b \in Range(Tail(queue)) /\ (a = Head(queue) \/ Precedes(Tail(queue), a, b))
      BY <1>1, <3>1, TailOrder
    <3>4. b # wjob'
      BY <1>1, <2>1, <3>1, <3>2, <3>3
    <3> QED BY <1>1, <1>2, <2>1, <2>2, <2>4, <3>1, <3>2, <3>3, <3>4
  <2>7. CASE \E q \in Requests : CommitGroup(q)
    <3>1. PICK q \in Requests : CommitGroup(q)
      BY <2>7
    <3> DEFINE g == Plan[q][rgroup[q]]
    <3>2. /\ g \in Seq(Jobs) /\ UNCHANGED <<queue, wjob>> /\ server = "up"
          /\ created'[r] = IF r = q THEN created[r] \o g ELSE created[r]
          /\ g = Plan[q][rgroup[q]]
      BY <3>1, CommitStep
    <3> HIDE DEF g
    <3>3. CASE b \in Range(created[r])
      BY <1>1, <2>1, <2>2, <3>2, <3>3, ConcatOrder
    <3>4. CASE b \notin Range(created[r]) /\ b \in Range(created'[r])
      <4>1. q = r /\ b \in Range(g)
        BY <1>1, <3>2, <3>4, ConcatList
      <4>2. a \in Range(queue) \/ a \in Range(created[r]) \/ wjob = a
        BY <1>1, <1>4, <2>5, <3>2 DEF PendingAccounted, Stranded
      <4> QED BY <1>1, <2>1, <2>2, <3>2, <4>1, <4>2, ConcatOrder
    <3> QED BY <2>1, <2>2, <3>2, <3>3, <3>4
  <2>8. CASE \E q \in Requests : Enqueue(q) /\ created[q] # <<>>
    <3>1. PICK q \in Requests : Enqueue(q) /\ created[q] # <<>>
      BY <2>8
    <3> DEFINE e == Head(created[q])
    <3>2. /\ queue' = Append(queue, e) /\ wjob' = wjob
          /\ created' = [created EXCEPT ![q] = Tail(@)]
      BY <3>1 DEF Enqueue, worker
    <3>3. /\ e \in Jobs /\ Tail(created[q]) \in Seq(Jobs)
          /\ Range(created[q]) = Range(Tail(created[q])) \union {e}
          /\ e \notin Range(Tail(created[q]))
      BY <1>1, <3>1, TailList DEF CreatedInv
    <3>4. /\ Precedes(created[q], a, b) =>
               b \in Range(Tail(created[q])) /\ (a = e \/ Precedes(Tail(created[q]), a, b))
      BY <1>1, <3>1, TailOrder
    <3> HIDE DEF e
    <3>5. /\ Range(queue') = Range(queue) \union {e}
          /\ Precedes(queue, a, b) => Precedes(queue', a, b)
          /\ a \in Range(queue) => Precedes(queue', a, e)
      BY <1>1, <3>2, <3>3, AppendList, AppendOrder
    <3>6. created'[r] = IF q = r THEN Tail(created[q]) ELSE created[r]
      BY <3>2 DEF TypeOK, RequestsType
    <3>7. b \in Range(queue') => wjob' = a \/ Precedes(queue', a, b)
      <4>1. CASE b \in Range(queue)
        BY <2>1, <3>2, <3>5, <4>1
      <4>2. CASE b = e
        <5>1. q = r /\ b \in Range(created[r])
          BY <2>5, <3>3, <4>2
        <5> QED BY <2>1, <3>2, <3>3, <3>4, <3>5, <4>2, <5>1
      <4> QED BY <3>5, <4>1, <4>2
    <3>8. b \in Range(created'[r]) =>
             wjob' = a \/ a \in Range(queue') \/ Precedes(created'[r], a, b)
      BY <2>1, <3>2, <3>3, <3>4, <3>5, <3>6
    <3> QED BY <2>1, <2>2, <3>2, <3>7, <3>8
  <2>9. CASE Stop
    <3>1. queue' = Append(queue, Poison) /\ created' = created /\ wjob' = wjob
      BY <2>9 DEF Stop, requests
    <3>2. /\ Range(queue') = Range(queue) \union {Poison}
          /\ Precedes(queue, a, b) => Precedes(queue', a, b)
      BY <1>1, <3>1, AppendList, AppendOrder
    <3> QED BY <1>1, <2>1, <2>2, <3>1, <3>2
  <2>10. CASE GoDown
    <3>1. server' = "down" /\ wjob' = NoJob
      BY <2>10 DEF GoDown
    <3> QED BY <1>1, <1>2, <2>2, <3>1, EmptyList
  <2>11. CASE Start
    <3>1. /\ PendingInOrder(queue') /\ wjob' = wjob
          /\ created' = created /\ created[r] = <<>>
          /\ \E n \in Nat : queue' \in [1..n -> Jobs]
      <4>1. server = "recovered" /\ wjob' = wjob /\ created' = created
        BY <2>11 DEF Start, requests
      <4>2. created[r] = <<>>
        BY <4>1 DEF DownInv
      <4>3. IsFiniteSet(Jobs) /\ Cardinality(Jobs) \in Nat
        BY JobsAssumption, FS_CardinalityType
      <4> QED BY <2>11, <4>1, <4>2, <4>3 DEF Start
    <3>2. ASSUME b \in Range(queue') PROVE Precedes(queue', a, b)
      <4>1. Range(queue') = {j \in Jobs : status[j] = "pending"}
        BY <3>1 DEF PendingInOrder
      <4>2. PICK i \in DOMAIN queue', k \in DOMAIN queue' : queue'[i] = a /\ queue'[k] = b
        BY <1>1, <1>4, <3>2, <4>1 DEF Range
      <4>3. createdAt[a] < createdAt[b] /\ createdAt[a] \in Nat /\ createdAt[b] \in Nat
        <5>1. a \in Made /\ b \in Made
          BY <1>1, <1>4, <3>2, <4>1 DEF Made
        <5> QED BY <1>1, <5>1 DEF CreatedAtInv, TypeOK, RowsType
      <4>4. ~(k < i) /\ k # i
        <5>1. k < i => createdAt[b] <= createdAt[a]
          BY <3>1, <4>2 DEF PendingInOrder
        <5> QED BY <4>2, <4>3, <5>1
      <4>5. i \in Nat /\ k \in Nat
        BY <3>1
      <4>6. i < k
        BY <4>4, <4>5
      <4> QED BY <4>2, <4>6 DEF Precedes
    <3> QED BY <2>1, <2>2, <3>1, <3>2, EmptyList
  <2>12. CASE UNCHANGED <<queue, created>> /\ wjob' \in {wjob, NoJob}
    BY <1>1, <1>2, <2>1, <2>2, <2>3, <2>12, EmptyList
  <2> QED BY <2>6, <2>7, <2>8, <2>9, <2>10, <2>11, <2>12, ListStep
<1>5. status[a] \in {"none", "pending"}
  BY <1>1, RowStep
<1> QED BY <1>3, <1>4, <1>5

-----------------------------------------------------------------------------
(* Theorems.                                                               *)

(* The invariant is inductive. *)
LEMMA LifeInductive == Spec => []LifeInv
<1>1. Init => LifeInv
  <2> SUFFICES ASSUME Init, IInv PROVE LifeInv
    BY InitInv
  <2>1. /\ \A j \in Jobs : status[j] = "none"
        /\ \A r \in Requests : created[r] = <<>> /\ rpc[r] = "idle"
        /\ queue = <<>> /\ wpc = "off" /\ server = "down"
    BY DEF Init
  <2>2. ReqInv /\ WaitInv /\ FlagInv /\ PendingAccounted
    BY <2>1, EmptyList DEF ReqInv, WaitInv, FlagInv, PendingAccounted
  <2>3. LockInv /\ ConversionsDisjoint
    BY <2>1, PlanAssumption, PlannedJobs DEF LockInv, ConversionsDisjoint, Active
  <2>4. CreatedAtInv /\ OrderInv
    BY <2>1, PlannedJobs DEF CreatedAtInv, OrderInv, Made
  <2> QED BY <2>2, <2>3, <2>4 DEF LifeInv
<1>2. LifeInv /\ [Next]_vars => LifeInv'
  <2> SUFFICES ASSUME LifeInv, [Next]_vars PROVE LifeInv'
    OBVIOUS
  <2>1. IInv'
    BY StepInv DEF LifeInv
  <2>2. TypeOK' /\ WorkerInv' /\ DownInv'
    BY <2>1 DEF IInv
  <2>3. ReqInv' /\ WaitInv' /\ FlagInv'
    BY <2>2, ReqStep, WaitStep, FlagStep DEF LifeInv
  <2>4. PendingAccounted'
    BY <2>2, <2>3, AccountedStep
  <2>5. LockInv' /\ ConversionsDisjoint' /\ CreatedAtInv' /\ OrderInv'
    BY <2>2, LockStep, DisjointStep, CreatedAtStep, OrderStep DEF LifeInv
  <2> QED BY <2>1, <2>3, <2>4, <2>5 DEF LifeInv
<1> QED BY <1>1, <1>2, PTL DEF Spec

(* While the server is up a pending job is in the queue, in the list of    *)
(* the request that created it, or in the worker's hands, unless an error  *)
(* has ended that request before it enqueued the job.                      *)
THEOREM NoJobForgotten == Spec => []PendingAccounted
<1>1. LifeInv => PendingAccounted
  BY DEF LifeInv
<1> QED BY <1>1, LifeInductive, PTL

(* The jobs of a request start in the order of its plan, over restarts.    *)
THEOREM StartsInOrder == Spec => []StartOrder
<1>1. LifeInv => StartOrder
  <2> SUFFICES ASSUME LifeInv, NEW r \in Requests,
                      NEW g \in DOMAIN Plan[r], NEW h \in DOMAIN Plan[r],
                      NEW i \in DOMAIN Plan[r][g], NEW k \in DOMAIN Plan[r][h],
                      g < h \/ (g = h /\ i < k), Plan[r][h][k] \in ran
               PROVE  status[Plan[r][g][i]] # "pending"
    BY DEF StartOrder
  <2>1. /\ Earlier(r, Plan[r][g][i], Plan[r][h][k])
        /\ Plan[r][g][i] \in PlannedBy(r) /\ Plan[r][h][k] \in PlannedBy(r)
    BY DEF Earlier, PlannedBy
  <2> QED BY <2>1 DEF LifeInv, OrderInv
<1> QED BY <1>1, LifeInductive, PTL

(* Two conversion batches are never active together, cancelled jobs aside. *)
THEOREM OneConversionAtATime == Spec => []ConversionsDisjoint
<1>1. LifeInv => ConversionsDisjoint
  BY DEF LifeInv
<1> QED BY <1>1, LifeInductive, PTL

(* A finished row changes in the two named races only. *)
THEOREM FinishedRowsStay == Spec => TerminalStable
<1>1. IInv /\ [Next]_vars =>
        [\A j \in Jobs :
           status[j] \in Terminal /\ status'[j] \notin {status[j], "deleted"}
             => \/ wjob = j
                \/ \E c \in Cancels :
                     cjob[c] = j /\ cpc[c] = "write" /\ cseen[c] = "pending"]_vars
  BY RowFate DEF Terminal
<1> QED BY <1>1, Inductive, PTL DEF Spec, TerminalStable
=============================================================================
