----------------------- MODULE MobileProcessing_proofs -----------------------
(***************************************************************************)
(* Proofs about MobileProcessing for any number of jobs, targets, cancels, *)
(* edits and deaths of the process.  Two arguments meet: a submission is   *)
(* alone from its look for an active job to its end, and the queue starts  *)
(* a generation only when no other one is left.                            *)
(***************************************************************************)
EXTENDS MobileProcessing, ListLemmas, FiniteSetTheorems

(* What the proofs need of TypeOK. *)
Typed ==
  /\ status \in [Jobs -> RowStates]
  /\ spc \in [Jobs -> {"idle", "create", "enqueue", "starting", "done"}]
  /\ admission \subseteq Jobs /\ mutex \subseteq Jobs
  /\ active \in Jobs \union {NoJob}
  /\ running \in BOOLEAN /\ failed \in BOOLEAN
  /\ dpc \in [Generations -> {"off", "drain"} \union Executing]
  /\ waiting \in Seq(Jobs)
  /\ protection \in {"off", "starting", "on"}

Busy == {"create", "enqueue", "starting"}

(* A submission under way holds the admission; a job has no row before its *)
(* creation, and none of its target is active when it is created.          *)
AdmissionInv ==
  /\ \A j \in Jobs : spc[j] \in Busy => admission = {j}
  /\ \A j \in Jobs : spc[j] \in {"idle", "create"} => status[j] = "none"
  /\ \A j \in Jobs : spc[j] = "create" => ~HasActiveJob(TargetOf[j])

(* The mutex is held by the submission that waits for the service, while   *)
(* no generation runs; the service is there for a generation, or is being  *)
(* started, and a generation that failed has let it go.                    *)
QueueInv ==
  /\ \A j \in Jobs : spc[j] = "starting" <=> mutex = {j}
  /\ mutex # {} => ~running
  /\ protection = "starting" => mutex # {}
  /\ ~running => active = NoJob
  /\ running /\ failed => protection = "off" /\ ~cpu
  /\ cpu => protection = "on"

IInv ==
  /\ Typed
  /\ AdmissionInv
  /\ OneActivePerTarget
  /\ QueueInv
  /\ OneDrain
  /\ ServiceKept
  /\ CpuFollowsWork
-----------------------------------------------------------------------------
(* What a step does to the rows.                                           *)

(* Ends are written to active rows and to no other. *)
LEMMA EndRowsMoves ==
  ASSUME status \in [Jobs -> RowStates], NEW J, NEW end \in {"failed", "cancelled"},
         EndRows(J, end)
  PROVE  /\ status' \in [Jobs -> RowStates]
         /\ \A j \in Jobs : \/ status'[j] = status[j]
                            \/ status[j] \in Active /\ status'[j] = end
<1>1. PICK K \in SUBSET J : status' = Ended(J \ K, end)
  BY DEF EndRows
<1>2. end \in RowStates
  BY DEF RowStates, Terminal
<1> QED BY <1>1, <1>2 DEF Ended

(* The drain thread between taking a task and finishing it. *)
Inner(g) ==
  \/ Dequeue(g)
  \/ Work(g)
  \/ Publish(g)
  \/ Settle(g)
  \/ EndCancelled(g)
  \/ EndFailed(g)
  \/ DropToken(g)

(* It changes rows and its own place, and nothing of the queue. *)
LEMMA InnerStep ==
  ASSUME Typed, NEW g \in Generations, Inner(g)
  PROVE  /\ dpc[g] \in Executing
         /\ \E x \in Executing : dpc' = [dpc EXCEPT ![g] = x]
         /\ UNCHANGED <<submits, queue, guard, djob, watching>>
<1>1. \A x \in {"dequeue", "work", "publish", "settle", "cancelled", "fail", "over", "finish"} :
        x \in Executing
  BY DEF Executing
<1>2. CASE Dequeue(g) BY <1>1, <1>2 DEF Dequeue
<1>3. CASE Work(g) BY <1>1, <1>3 DEF Work
<1>4. CASE Publish(g) BY <1>1, <1>4 DEF Publish
<1>5. CASE Settle(g) BY <1>1, <1>5 DEF Settle
<1>6. CASE EndCancelled(g) BY <1>1, <1>6 DEF EndCancelled
<1>7. CASE EndFailed(g) BY <1>1, <1>7 DEF EndFailed
<1>8. CASE DropToken(g) BY <1>1, <1>8 DEF DropToken
<1> QED BY <1>2, <1>3, <1>4, <1>5, <1>6, <1>7, <1>8 DEF Inner

(* The drain thread that took the job is about to work on it. *)
Starts(j) ==
  /\ \E g \in Generations : djob[g] = j /\ dpc[g] = "dequeue" /\ dpc'[g] = "work"
  /\ UNCHANGED djob

(* The saved result is the one that the job was submitted with. *)
Current(j) ==
  expected[j] = revision[TargetOf[j]] /\ ProjectOf[TargetOf[j]] \notin gone

(* A row stays, is ended while it is active, goes with its project, starts, *)
(* completes, or is created. *)
Moves(j, old, new) ==
  \/ new = old
  \/ old \in Active /\ new \in {"failed", "cancelled"}
  \/ old # "none" /\ new = "deleted"
  \/ old = "pending" /\ new = "running" /\ Starts(j)
  \/ old = "running" /\ new = "completed" /\ Current(j)
  \/ spc[j] = "create" /\ spc'[j] = "enqueue" /\ new = "pending"

(* Every step moves a row along these moves, or not at all. *)
LEMMA RowStep ==
  ASSUME Typed, [Next]_vars
  PROVE  /\ status' \in [Jobs -> RowStates]
         /\ \A j \in Jobs : Moves(j, status[j], status'[j])
<1> DEFINE Goal == /\ status' \in [Jobs -> RowStates]
                   /\ \A j \in Jobs : Moves(j, status[j], status'[j])
<1>0. status \in [Jobs -> RowStates]
  BY DEF Typed
<1>a. \A x \in {"pending", "running", "completed", "failed", "cancelled", "none", "deleted"} :
        x \in RowStates
  BY DEF RowStates, Active, Terminal
<1>b. ASSUME UNCHANGED status PROVE Goal
  BY <1>0, <1>b DEF Moves
<1>f. ASSUME NEW J, NEW end \in {"failed", "cancelled"}, EndRows(J, end) PROVE Goal
  BY <1>0, <1>f, EndRowsMoves DEF Moves
<1>c. ASSUME NEW J, FailRows(J) PROVE Goal
  BY <1>c, <1>f DEF FailRows
<1>d. ASSUME NEW J, NEW end \in {"failed", "cancelled"}, status' = Ended(J, end) PROVE Goal
  BY <1>0, <1>a, <1>d DEF Ended, Moves
<1>1. ASSUME NEW j \in Jobs, Submit(j) \/ CancelSignal(j) PROVE Goal
  BY <1>1, <1>b DEF Submit, CancelSignal, jobs
<1>2. ASSUME NEW j \in Jobs, Create(j) PROVE Goal
  <2>1. status' = [status EXCEPT ![j] = "pending"]
    BY <1>2 DEF Create
  <2>2. spc[j] = "create" /\ spc'[j] = "enqueue"
    BY <1>2 DEF Create, Typed
  <2> QED BY <1>0, <1>a, <2>1, <2>2 DEF Moves
<1>3. ASSUME NEW j \in Jobs, EnqueueRunning(j) PROVE Goal
  BY <1>3, <1>b, <1>c DEF EnqueueRunning
<1>4. ASSUME NEW j \in Jobs, EnqueueStart(j) PROVE Goal
  BY <1>4, <1>b, <1>c DEF EnqueueStart
<1>5. ASSUME NEW j \in Jobs, EnqueueStarted(j) PROVE Goal
  BY <1>5, <1>b, <1>c DEF EnqueueStarted
<1>6. ASSUME NEW j \in Jobs, Cancel(j) PROVE Goal
  BY <1>6, <1>d DEF Cancel
<1>7. ASSUME NEW g \in Generations, DrainEmpty(g) PROVE Goal
  BY <1>7, <1>b DEF DrainEmpty, jobs
<1>8. ASSUME NEW g \in Generations, DrainPop(g) PROVE Goal
  BY <1>8, <1>b, <1>c DEF DrainPop, StopFailed
<1>9. ASSUME NEW g \in Generations, Dequeue(g) PROVE Goal
  <2>1. CASE /\ status[djob[g]] = "pending"
             /\ status' = [status EXCEPT ![djob[g]] = "running"]
             /\ dpc' = [dpc EXCEPT ![g] = "work"]
    <3>1. Starts(djob[g])
      BY <1>9, <2>1 DEF Dequeue, Starts, Typed
    <3> QED BY <1>0, <1>a, <2>1, <3>1 DEF Moves
  <2> QED BY <1>9, <1>b, <1>c, <2>1 DEF Dequeue
<1>10. ASSUME NEW g \in Generations, Work(g) PROVE Goal
  BY <1>10, <1>b, <1>f DEF Work
<1>11. ASSUME NEW g \in Generations, Publish(g) PROVE Goal
  <2>1. CASE /\ status[djob[g]] = "running" /\ Current(djob[g])
             /\ status' = [status EXCEPT ![djob[g]] = "completed"]
    BY <1>0, <1>a, <2>1 DEF Moves
  <2> QED BY <1>11, <1>b, <2>1 DEF Publish, Live, Current
<1>12. ASSUME NEW g \in Generations, Settle(g) \/ DropToken(g) PROVE Goal
  BY <1>12, <1>b DEF Settle, DropToken, jobs
<1>13. ASSUME NEW g \in Generations, EndCancelled(g) PROVE Goal
  BY <1>13, <1>b, <1>d DEF EndCancelled
<1>14. ASSUME NEW g \in Generations, EndFailed(g) PROVE Goal
  BY <1>14, <1>c DEF EndFailed
<1>15. ASSUME NEW g \in Generations, Finish(g) PROVE Goal
  BY <1>15, <1>b, <1>c DEF Finish, StopFailed
<1>16. ASSUME NEW g \in Generations, Watch(g) PROVE Goal
  BY <1>16, <1>b, <1>c DEF Watch, StopFailed
<1>17. ASSUME NEW t \in Targets, Edit(t) PROVE Goal
  BY <1>17, <1>b DEF Edit
<1>18. ASSUME NEW q \in Projects, DeleteProject(q) PROVE Goal
  <2>1. status' = [j \in Jobs |-> IF ProjectOf[TargetOf[j]] = q /\ status[j] # "none"
                                   THEN "deleted" ELSE status[j]]
    BY <1>18 DEF DeleteProject
  <2> QED BY <1>0, <1>a, <2>1 DEF Moves
<1>19. ASSUME Open PROVE Goal
  BY <1>19, <1>d DEF Open
<1>20. ASSUME Die \/ ServiceStarts \/ ServiceFails \/ UNCHANGED vars PROVE Goal
  BY <1>20, <1>b DEF Die, ServiceStarts, ServiceFails, vars, jobs
<1>e. SUFFICES Goal
  OBVIOUS
<1> HIDE DEF Goal
<1>21. ASSUME NEW j \in Jobs, SubmitStep(j) PROVE Goal
  BY <1>21, <1>1, <1>2, <1>3, <1>4, <1>5 DEF SubmitStep
<1>22. ASSUME NEW g \in Generations, DrainStep(g) PROVE Goal
  BY <1>22, <1>7, <1>8, <1>9, <1>11, <1>12, <1>13, <1>14, <1>15 DEF DrainStep
<1>23. CASE \E j \in Jobs : SubmitStep(j) \/ Cancel(j) \/ CancelSignal(j)
  BY <1>23, <1>1, <1>6, <1>21
<1>24. CASE \E g \in Generations : DrainStep(g) \/ Work(g) \/ Watch(g)
  BY <1>24, <1>10, <1>16, <1>22
<1>25. CASE \/ \E t \in Targets : Edit(t)
            \/ \E q \in Projects : DeleteProject(q)
  BY <1>25, <1>17, <1>18
<1> QED
  BY <1>19, <1>20, <1>23, <1>24, <1>25 DEF Next
-----------------------------------------------------------------------------
(* Submissions.                                                            *)

(* Only a submission's own steps and a death of the process move one. *)
LEMMA SubmitsStep ==
  ASSUME [Next]_vars
  PROVE  \/ \E j \in Jobs : SubmitStep(j)
         \/ Die
         \/ UNCHANGED submits
<1>1. ASSUME NEW g \in Generations, DrainStep(g) PROVE UNCHANGED submits
  BY <1>1 DEF DrainStep, DrainEmpty, DrainPop, Dequeue, Publish, Settle,
     EndCancelled, EndFailed, DropToken, Finish, submits
<1>2. ASSUME NEW g \in Generations, Work(g) \/ Watch(g) PROVE UNCHANGED submits
  BY <1>2 DEF Work, Watch, submits
<1>3. ASSUME NEW j \in Jobs, Cancel(j) \/ CancelSignal(j) PROVE UNCHANGED submits
  BY <1>3 DEF Cancel, CancelSignal, submits
<1>4. ASSUME NEW t \in Targets, Edit(t) PROVE UNCHANGED submits
  BY <1>4 DEF Edit, submits
<1>5. ASSUME NEW q \in Projects, DeleteProject(q) PROVE UNCHANGED submits
  BY <1>5 DEF DeleteProject, submits
<1>6. ASSUME Open \/ ServiceStarts \/ ServiceFails \/ UNCHANGED vars
      PROVE  UNCHANGED submits
  BY <1>6 DEF Open, ServiceStarts, ServiceFails, vars, submits
<1> QED
  BY <1>1, <1>2, <1>3, <1>4, <1>5, <1>6 DEF Next

(* A row that no submission creates gains no job: it stays without one, or *)
(* is active only if it was. *)
LEMMA RowsShrink ==
  ASSUME Typed, [Next]_vars, NEW j \in Jobs,
         ~(spc[j] = "create" /\ spc'[j] = "enqueue")
  PROVE  /\ status[j] = "none" => status'[j] = "none"
         /\ status'[j] \in Active => status[j] \in Active
BY RowStep DEF Moves, Active

(* The submission under the admission lock is the only one. *)
LEMMA AdmissionStep ==
  ASSUME Typed, AdmissionInv, [Next]_vars
  PROVE  AdmissionInv'
<1> DEFINE Quiet(j) == ~(spc[j] = "create" /\ spc'[j] = "enqueue")
<1>0. spc \in [Jobs -> {"idle", "create", "enqueue", "starting", "done"}]
  BY DEF Typed
<1>a. ASSUME \A j \in Jobs : Quiet(j)
      PROVE  /\ \A j \in Jobs : status[j] = "none" => status'[j] = "none"
             /\ \A t : HasActiveJob(t)' => HasActiveJob(t)
  BY <1>a, RowsShrink DEF HasActiveJob
<1>b. ASSUME \A j \in Jobs : Quiet(j),
             \A j \in Jobs : spc'[j] \in {"idle", "create"} => spc[j] = spc'[j],
             \A j \in Jobs : spc'[j] \in Busy => admission' = {j}
      PROVE  AdmissionInv'
  BY <1>a, <1>b DEF AdmissionInv
<1>1. CASE UNCHANGED submits
  BY <1>0, <1>1, <1>b DEF submits, AdmissionInv
<1>2. CASE Die
  BY <1>0, <1>2, <1>b DEF Die, AdmissionInv, Busy
<1>3. ASSUME NEW j \in Jobs, Submit(j) PROVE AdmissionInv'
  <2>1. UNCHANGED status
    BY <1>3 DEF Submit, jobs
  <2>2. \A k \in Jobs : spc[k] \notin Busy
    BY <1>3 DEF Submit, AdmissionInv
  <2>3. CASE Leave(j)
    BY <1>0, <1>3, <2>1, <2>2, <2>3 DEF Leave, AdmissionInv, HasActiveJob, Busy
  <2>4. CASE /\ ~HasActiveJob(TargetOf[j])
             /\ spc' = [spc EXCEPT ![j] = "create"] /\ admission' = {j}
    BY <1>0, <1>3, <2>1, <2>2, <2>4 DEF Submit, AdmissionInv, HasActiveJob, Busy
  <2> QED BY <1>3, <2>3, <2>4 DEF Submit
<1>4. ASSUME NEW j \in Jobs, Create(j) PROVE AdmissionInv'
  <2>1. /\ spc[j] = "create" /\ admission = {j} /\ admission' = {j}
        /\ spc' = [spc EXCEPT ![j] = "enqueue"]
        /\ status' = [status EXCEPT ![j] = "pending"]
    BY <1>4 DEF Create, AdmissionInv, Busy
  <2>2. \A k \in Jobs \ {j} : spc[k] \notin Busy
    BY <2>1 DEF AdmissionInv
  <2> QED BY <1>0, <2>1, <2>2 DEF AdmissionInv, Busy, Typed
<1>5. ASSUME NEW j \in Jobs, EnqueueRunning(j) \/ EnqueueStart(j) \/ EnqueueStarted(j)
      PROVE  AdmissionInv'
  <2>1. /\ spc[j] \in {"enqueue", "starting"}
        /\ \/ spc' = [spc EXCEPT ![j] = "done"]
           \/ /\ spc' = [spc EXCEPT ![j] = "starting"]
              /\ UNCHANGED admission
    BY <1>5 DEF EnqueueRunning, EnqueueStart, EnqueueStarted, Leave
  <2>2. \A k \in Jobs \ {j} : spc[k] \notin Busy
    BY <2>1 DEF AdmissionInv, Busy
  <2>3. admission = {j}
    BY <2>1 DEF AdmissionInv, Busy
  <2> QED BY <1>0, <2>1, <2>2, <2>3, <1>b DEF Busy
<1> HIDE DEF Quiet
<1>6. ASSUME NEW j \in Jobs, SubmitStep(j) PROVE AdmissionInv'
  BY <1>6, <1>3, <1>4, <1>5 DEF SubmitStep
<1> QED BY <1>1, <1>2, <1>6, SubmitsStep

(* A row becomes active only by its creation, and then no other one of its *)
(* target is. *)
LEMMA OneActiveStep ==
  ASSUME Typed, AdmissionInv, OneActivePerTarget, [Next]_vars
  PROVE  OneActivePerTarget'
<1> SUFFICES ASSUME NEW j \in Jobs, NEW k \in Jobs, j # k,
                    TargetOf[j] = TargetOf[k],
                    status'[j] \in Active, status'[k] \in Active
             PROVE  FALSE
  BY DEF OneActivePerTarget
<1>1. ASSUME NEW i \in Jobs, spc[i] = "create", spc'[i] = "enqueue"
      PROVE  /\ ~HasActiveJob(TargetOf[i])
             /\ \A l \in Jobs \ {i} : spc[l] # "create"
  BY <1>1 DEF AdmissionInv, Busy
<1> QED BY <1>1, RowsShrink DEF OneActivePerTarget, HasActiveJob
-----------------------------------------------------------------------------
(* The queue.                                                              *)

(* The conjuncts of Typed that the queue and the service keep. *)
QueueTyped ==
  /\ active \in Jobs \union {NoJob}
  /\ running \in BOOLEAN /\ failed \in BOOLEAN
  /\ dpc \in [Generations -> {"off", "drain"} \union Executing]
  /\ waiting \in Seq(Jobs)
  /\ protection \in {"off", "starting", "on"}

QueueKept == QueueTyped /\ QueueInv /\ OneDrain /\ ServiceKept /\ CpuFollowsWork

(* A submission stays at one of its lines, and the locks hold jobs. *)
LEMMA SubmitsTyped ==
  ASSUME Typed, [Next]_vars
  PROVE  /\ spc' \in [Jobs -> {"idle", "create", "enqueue", "starting", "done"}]
         /\ admission' \subseteq Jobs /\ mutex' \subseteq Jobs
<1> DEFINE Goal == /\ spc' \in [Jobs -> {"idle", "create", "enqueue", "starting", "done"}]
                   /\ admission' \subseteq Jobs /\ mutex' \subseteq Jobs
<1>e. SUFFICES Goal
  OBVIOUS
<1>1. ASSUME NEW j \in Jobs, Submit(j) PROVE Goal
  BY <1>1 DEF Submit, Leave, Typed
<1>2. ASSUME NEW j \in Jobs, Create(j) PROVE Goal
  BY <1>2 DEF Create, Typed
<1>3. ASSUME NEW j \in Jobs, EnqueueRunning(j) PROVE Goal
  BY <1>3 DEF EnqueueRunning, Leave, Typed
<1>4. ASSUME NEW j \in Jobs, EnqueueStart(j) PROVE Goal
  BY <1>4 DEF EnqueueStart, Leave, Typed
<1>5. ASSUME NEW j \in Jobs, EnqueueStarted(j) PROVE Goal
  BY <1>5 DEF EnqueueStarted, Leave, Typed
<1>6. ASSUME Die \/ UNCHANGED submits PROVE Goal
  BY <1>6 DEF Die, submits, Typed
<1> HIDE DEF Goal
<1>7. ASSUME NEW j \in Jobs, SubmitStep(j) PROVE Goal
  BY <1>7, <1>1, <1>2, <1>3, <1>4, <1>5 DEF SubmitStep
<1> QED BY <1>6, <1>7, SubmitsStep

(* The queue and the service stay as they are. *)
LEMMA QueueQuiet ==
  ASSUME Typed, QueueKept, UNCHANGED <<mutex, queue, dpc, guard>>,
         \A j \in Jobs : spc'[j] = "starting" <=> spc[j] = "starting"
  PROVE  QueueKept'
BY DEF QueueKept, QueueTyped, QueueInv, OneDrain, ServiceKept, CpuFollowsWork,
   queue, guard

(* A submission enqueues its task. *)
LEMMA SubmitQueue ==
  ASSUME Typed, AdmissionInv, QueueKept, NEW j \in Jobs, SubmitStep(j)
  PROVE  QueueKept'
<1>1. CASE Submit(j)
  BY <1>1, QueueQuiet DEF Submit, Leave, Typed, drains
<1>2. CASE Create(j)
  BY <1>2, QueueQuiet DEF Create, Typed, drains
<1>3. CASE EnqueueRunning(j)
  <2>1. waiting' \in Seq(Jobs)
    BY <1>3 DEF EnqueueRunning, Typed
  <2> QED
    BY <1>3, <2>1 DEF EnqueueRunning, Leave, Typed, QueueKept, QueueTyped,
       QueueInv, OneDrain, ServiceKept, CpuFollowsWork, drains, guard
<1>4. CASE EnqueueStart(j)
  <2>1. /\ spc[j] = "enqueue" /\ mutex = {} /\ ~running /\ protection = "off" /\ ~cpu
        /\ \A k \in Jobs : spc[k] # "starting"
        /\ UNCHANGED queue /\ UNCHANGED dpc
    BY <1>4 DEF EnqueueStart, QueueKept, QueueInv, CpuFollowsWork, drains
  <2>2. CASE /\ Guard!Start /\ mutex' = {j}
             /\ spc' = [spc EXCEPT ![j] = "starting"]
    <3>1. protection' = "starting" /\ UNCHANGED cpu
      BY <2>1, <2>2 DEF Guard!Start
    <3>2. \A k \in Jobs : spc'[k] = "starting" <=> k = j
      BY <2>1, <2>2 DEF Typed
    <3> QED
      BY <2>1, <2>2, <3>1, <3>2 DEF QueueKept, QueueTyped, QueueInv, OneDrain,
         ServiceKept, CpuFollowsWork, queue
  <2>3. CASE Guard!Stop /\ Leave(j) /\ UNCHANGED mutex
    <3>1. protection' = "off" /\ ~cpu'
      BY <2>3 DEF Guard!Stop
    <3>2. \A k \in Jobs : spc'[k] # "starting"
      BY <2>1, <2>3 DEF Typed, Leave
    <3> QED
      BY <2>1, <2>3, <3>1, <3>2 DEF QueueKept, QueueTyped, QueueInv, OneDrain,
         ServiceKept, CpuFollowsWork, queue
  <2> QED BY <1>4, <2>2, <2>3 DEF EnqueueStart
<1>5. CASE EnqueueStarted(j)
  <2>1. waiting' \in Seq(Jobs)
    BY <1>5 DEF EnqueueStarted, Typed
  <2>2. /\ \A g \in Generations : dpc[g] = "off"
        /\ mutex = {j} /\ ~running /\ active = NoJob /\ active' = NoJob /\ ~cpu
    BY <1>5 DEF EnqueueStarted, QueueKept, QueueInv, OneDrain, CpuFollowsWork
  <2>3. mutex' = {} /\ \A k \in Jobs : spc'[k] # "starting"
    BY <1>5, <2>2 DEF EnqueueStarted, Leave, Typed, QueueKept, QueueInv
  <2>4. CASE /\ protection = "on" /\ failed' = FALSE /\ running' = TRUE
             /\ generation' = generation + 1
             /\ dpc' = [dpc EXCEPT ![generation'] = "drain"]
             /\ UNCHANGED <<protection, cpu>>
    <3>1. \A g \in Generations : dpc'[g] # "off" => g = generation'
      BY <2>2, <2>4 DEF Typed
    <3>2. dpc' \in [Generations -> {"off", "drain"} \union Executing]
      BY <2>4 DEF Typed
    <3> QED
      BY <2>1, <2>2, <2>3, <2>4, <3>1, <3>2 DEF QueueKept, QueueTyped, QueueInv,
         OneDrain, ServiceKept, CpuFollowsWork
  <2>5. CASE Guard!Stop /\ UNCHANGED <<waiting, running, failed, generation, dpc>>
    <3>1. protection' = "off" /\ ~cpu'
      BY <2>5 DEF Guard!Stop
    <3> QED
      BY <2>1, <2>2, <2>3, <2>5, <3>1 DEF QueueKept, QueueTyped, QueueInv,
         OneDrain, ServiceKept, CpuFollowsWork
  <2> QED BY <1>5, <2>4, <2>5 DEF EnqueueStarted
<1> QED BY <1>1, <1>2, <1>3, <1>4, <1>5 DEF SubmitStep

(* The drain thread of the running generation works on it. *)
LEMMA DrainQueue ==
  ASSUME Typed, QueueKept, NEW g \in Generations,
         DrainStep(g) \/ Work(g)
  PROVE  QueueKept'
<1>1. CASE Inner(g)
  BY <1>1, InnerStep DEF Typed, QueueKept, QueueTyped, QueueInv, OneDrain,
     ServiceKept, CpuFollowsWork, submits, queue, guard, Executing
<1>2. CASE DrainEmpty(g)
  BY <1>2 DEF DrainEmpty, Guard!Stop, Typed, QueueKept, QueueTyped, QueueInv,
     OneDrain, ServiceKept, CpuFollowsWork, submits
<1>3. CASE DrainPop(g)
  <2>1. Head(waiting) \in Jobs /\ Tail(waiting) \in Seq(Jobs) /\ <<>> \in Seq(Jobs)
    BY <1>3 DEF DrainPop, Typed
  <2>2. Head(waiting) # NoJob
    BY <2>1, MobileAssumption DEF MobileAssumption
  <2>3. "dequeue" \in Executing
    BY DEF Executing
  <2>4. running /\ generation = g /\ mutex = {}
    BY <1>3 DEF DrainPop, QueueKept, OneDrain
  <2>5. CASE /\ Guard!SetActive(TRUE) /\ waiting' = Tail(waiting)
             /\ active' = Head(waiting)
             /\ dpc' = [dpc EXCEPT ![g] = "dequeue"]
             /\ UNCHANGED <<failed, broke>>
    <3>1. protection = "on" /\ protection' = "on" /\ cpu' = TRUE /\ ~failed
      BY <2>4, <2>5 DEF Guard!SetActive, QueueKept, QueueInv
    <3> QED
      BY <1>3, <2>1, <2>2, <2>3, <2>4, <2>5, <3>1 DEF DrainPop, Typed, QueueKept,
         QueueTyped, QueueInv, OneDrain, ServiceKept, CpuFollowsWork, submits
  <2>6. CASE StopFailed(Head(waiting)) /\ active' = NoJob /\ UNCHANGED dpc
    <3>1. failed' = TRUE /\ waiting' = <<>> /\ protection' = "off" /\ cpu' = FALSE
      BY <2>6 DEF StopFailed, Guard!Stop
    <3> QED
      BY <1>3, <2>1, <2>4, <2>6, <3>1 DEF DrainPop, Typed, QueueKept,
         QueueTyped, QueueInv, OneDrain, ServiceKept, CpuFollowsWork, submits
  <2> QED BY <1>3, <2>5, <2>6 DEF DrainPop
<1>4. CASE Finish(g)
  <2>1. /\ running /\ generation = g /\ mutex = {} /\ active' = NoJob
        /\ dpc' = [dpc EXCEPT ![g] = "drain"] /\ <<>> \in Seq(Jobs)
    BY <1>4 DEF Finish, QueueKept, OneDrain
  <2>2. CASE /\ IF failed THEN UNCHANGED <<protection, cpu>>
                           ELSE Guard!SetActive(FALSE)
             /\ UNCHANGED <<waiting, failed, broke>>
    <3>1. IF failed THEN protection' = "off" /\ cpu' = FALSE
                    ELSE protection' = "on" /\ cpu' = FALSE
      BY <2>1, <2>2 DEF Guard!SetActive, QueueKept, QueueTyped, QueueInv
    <3> QED
      BY <1>4, <2>1, <2>2, <3>1 DEF Finish, Typed, QueueKept, QueueTyped,
         QueueInv, OneDrain, ServiceKept, CpuFollowsWork, submits
  <2>3. CASE StopFailed(NoJob)
    <3>1. failed' = TRUE /\ waiting' = <<>> /\ protection' = "off" /\ cpu' = FALSE
      BY <2>3 DEF StopFailed, Guard!Stop
    <3> QED
      BY <1>4, <2>1, <2>3, <3>1 DEF Finish, Typed, QueueKept, QueueTyped,
         QueueInv, OneDrain, ServiceKept, CpuFollowsWork, submits
  <2> QED BY <1>4, <2>2, <2>3 DEF Finish
<1> QED
  BY <1>1, <1>2, <1>3, <1>4 DEF DrainStep, Inner

(* Every step keeps the facts about the queue and its one consumer. *)
LEMMA QueueStep ==
  ASSUME Typed, AdmissionInv, QueueKept, [Next]_vars
  PROVE  QueueKept'
<1>1. ASSUME NEW g \in Generations, Watch(g) PROVE QueueKept'
  <2>1. CASE UNCHANGED <<waiting, failed, protection, cpu>>
    BY <1>1, <2>1, QueueQuiet DEF Watch, submits, queue, guard
  <2>2. CASE StopFailed(active) /\ running /\ mutex = {}
    <3>1. failed' = TRUE /\ waiting' = <<>> /\ protection' = "off" /\ cpu' = FALSE
      BY <2>2 DEF StopFailed, Guard!Stop
    <3>2. <<>> \in Seq(Jobs)
      OBVIOUS
    <3> QED
      BY <1>1, <2>2, <3>1, <3>2 DEF Watch, QueueKept, QueueTyped, QueueInv,
         OneDrain, ServiceKept, CpuFollowsWork, submits
  <2> QED BY <1>1, <2>1, <2>2 DEF Watch
<1>2. ASSUME NEW j \in Jobs, Cancel(j) \/ CancelSignal(j) PROVE QueueKept'
  BY <1>2, QueueQuiet DEF Cancel, CancelSignal, submits, drains
<1>3. ASSUME NEW t \in Targets, Edit(t) PROVE QueueKept'
  BY <1>3, QueueQuiet DEF Edit, submits, drains
<1>4. ASSUME NEW q \in Projects, DeleteProject(q) PROVE QueueKept'
  BY <1>4, QueueQuiet DEF DeleteProject, submits, drains
<1>5. ASSUME Open \/ UNCHANGED vars PROVE QueueKept'
  BY <1>5, QueueQuiet DEF Open, vars, submits, drains
<1>6. ASSUME Die PROVE QueueKept'
  <2>1. <<>> \in Seq(Jobs)
    OBVIOUS
  <2> QED
    BY <1>6, <2>1 DEF Die, Guard!Stop, Typed, QueueKept, QueueTyped, QueueInv,
       OneDrain, ServiceKept, CpuFollowsWork
<1>7. ASSUME ServiceStarts \/ ServiceFails PROVE QueueKept'
  BY <1>7 DEF ServiceStarts, ServiceFails, Guard!Acknowledge, Guard!Fail,
     QueueKept, QueueTyped, QueueInv, OneDrain, ServiceKept, CpuFollowsWork,
     submits, queue, drains
<1>8. CASE \E j \in Jobs : SubmitStep(j) \/ Cancel(j) \/ CancelSignal(j)
  BY <1>8, <1>2, SubmitQueue
<1>9. CASE \E g \in Generations : DrainStep(g) \/ Work(g) \/ Watch(g)
  BY <1>9, <1>1, DrainQueue
<1>10. CASE \/ \E t \in Targets : Edit(t)
            \/ \E q \in Projects : DeleteProject(q)
  BY <1>10, <1>3, <1>4
<1> QED
  BY <1>5, <1>6, <1>7, <1>8, <1>9, <1>10 DEF Next
-----------------------------------------------------------------------------
(* The theorems.                                                           *)

(* The invariant holds at the start and after every step. *)
LEMMA InitInv == Init => IInv
<1> SUFFICES ASSUME Init PROVE IInv
  OBVIOUS
<1>1. \A j \in Jobs : status[j] = "none" /\ spc[j] = "idle"
  BY DEF Init
<1>2. "none" \in RowStates /\ "none" \notin Active
  BY DEF RowStates, Active
<1>3. Typed
  <2>1. waiting \in Seq(Jobs)
    BY DEF Init
  <2> QED BY <1>2, <2>1 DEF Init, Guard!Init, Typed
<1>4. AdmissionInv /\ OneActivePerTarget
  BY <1>1, <1>2 DEF AdmissionInv, OneActivePerTarget, Busy
<1>5. QueueInv /\ OneDrain /\ ServiceKept /\ CpuFollowsWork
  BY <1>1 DEF Init, Guard!Init, QueueInv, OneDrain, ServiceKept, CpuFollowsWork
<1> QED BY <1>3, <1>4, <1>5 DEF IInv

(* Every step keeps the invariant. *)
LEMMA NextInv == IInv /\ [Next]_vars => IInv'
<1> SUFFICES ASSUME IInv, [Next]_vars
             PROVE  IInv'
  OBVIOUS
<1>1. Typed /\ AdmissionInv /\ OneActivePerTarget /\ QueueKept
  BY DEF IInv, QueueKept, QueueTyped, Typed
<1>2. AdmissionInv' /\ OneActivePerTarget'
  BY <1>1, AdmissionStep, OneActiveStep
<1>3. QueueKept'
  BY <1>1, QueueStep
<1>4. Typed'
  BY <1>1, <1>3, RowStep, SubmitsTyped DEF Typed, QueueKept, QueueTyped
<1> QED BY <1>2, <1>3, <1>4 DEF IInv, QueueKept

(* The invariant holds in every reachable state. *)
LEMMA Inductive == Spec => []IInv
BY InitInv, NextInv, PTL DEF Spec

(* Two jobs of one target are never pending or running together: the look  *)
(* for one and the creation are under one lock (mobile_backend/audio.rs).  *)
THEOREM OneActive == Spec => []OneActivePerTarget
<1>1. IInv => OneActivePerTarget
  BY DEF IInv
<1> QED BY <1>1, Inductive, PTL

(* The queue has one executing thread, of the generation that runs: a      *)
(* failed one keeps its slot until its task has been cleaned up            *)
(* (mobile_backend/processing_queue.rs).                                   *)
THEOREM OneExecutor == Spec => []OneDrain
<1>1. IInv => OneDrain
  BY DEF IInv
<1> QED BY <1>1, Inductive, PTL

(* The queue that runs has its service, unless that ended by itself: the   *)
(* stop of a drained queue does not take the service of a new submission.  *)
THEOREM ServiceStays == Spec => []ServiceKept
<1>1. IInv => ServiceKept
  BY DEF IInv
<1> QED BY <1>1, Inductive, PTL

(* The CPU is held for the executing task and no longer, and a queue at    *)
(* rest holds no service.                                                  *)
THEOREM ServiceForWork == Spec => []CpuFollowsWork
<1>1. IInv => CpuFollowsWork
  BY DEF IInv
<1> QED BY <1>1, Inductive, PTL

(* The end of a job is its end, whoever else wants to write the row.       *)
THEOREM EndsAreFinal == Spec => TerminalStable
<1>1. IInv /\ [Next]_vars
        => [\A j \in Jobs :
              status[j] \in Terminal => status'[j] \in {status[j], "deleted"}]_vars
  <2> SUFFICES ASSUME IInv, [Next]_vars, NEW j \in Jobs, status[j] \in Terminal
               PROVE  status'[j] \in {status[j], "deleted"}
    OBVIOUS
  <2>1. Moves(j, status[j], status'[j])
    BY RowStep DEF IInv
  <2>2. spc[j] # "create"
    BY DEF IInv, AdmissionInv, Terminal
  <2> QED BY <2>1, <2>2 DEF Moves, Terminal, Active
<1> QED BY <1>1, Inductive, PTL DEF Spec, TerminalStable

(* A job that completes was submitted with the result it replaces, in a    *)
(* project that is still there (store_chord_timeline and its siblings).    *)
THEOREM CompletesOnItsResult == Spec => NewerWorkKept
<1>1. IInv /\ [Next]_vars
        => [\A j \in Jobs :
              status[j] # "completed" /\ status'[j] = "completed" =>
                /\ expected[j] = revision[TargetOf[j]]
                /\ ProjectOf[TargetOf[j]] \notin gone]_vars
  <2> SUFFICES ASSUME IInv, [Next]_vars, NEW j \in Jobs,
                      status[j] # "completed", status'[j] = "completed"
               PROVE  Current(j)
    BY DEF Current
  <2>1. Moves(j, status[j], status'[j])
    BY RowStep DEF IInv
  <2> QED BY <2>1 DEF Moves
<1> QED BY <1>1, Inductive, PTL DEF Spec, NewerWorkKept

-----------------------------------------------------------------------------
(* Every job is accounted for.  A row that is still active when its task   *)
(* is dropped would be forgotten; so whatever drops a task, or lets it end *)
(* as cancelled, must have seen or written the end of its row.             *)

(* The submission of the job has created its row. *)
Submitted(j) == spc[j] \notin {"idle", "create"}

Past == Terminal \union {"deleted"}

(* The row has ended, or the database refused that. *)
Settled(j) == status[j] \notin Active \/ j \in unreported

(* The drain thread has started the job and not yet ended it. *)
Handling == {"work", "publish", "settle", "cancelled", "fail"}

(* What the proofs of this part need of TypeOK, besides Typed. *)
TasksTyped ==
  /\ unreported \subseteq Jobs /\ tokens \subseteq Jobs
  /\ djob \in [Generations -> Jobs \union {NoJob}]
  /\ cancelRequested \in [Jobs -> BOOLEAN]
  /\ cpc \in [Jobs -> {"idle", "signal", "done"}]

(* A cancel command ends the row before it tells the native work. *)
AskedInv ==
  \A j \in Jobs : cancelRequested[j] \/ cpc[j] # "idle" => status[j] \in Past

(* Work is told to stop only when its row is settled. *)
TokenInv == \A j \in tokens : Submitted(j) /\ Settled(j)

(* The queue and its threads have jobs whose row was created. *)
TaskInv ==
  /\ \A j \in Range(waiting) \union Task(active) : Submitted(j)
  /\ \A g \in Generations :
       dpc[g] \in Executing => djob[g] \in Jobs /\ Submitted(djob[g])

(* A job that was dequeued is pending no more, and one that ends as        *)
(* cancelled is settled. *)
EndInv ==
  \A g \in Generations :
    /\ dpc[g] \in Executing \ {"dequeue"}
         => status[djob[g]] # "pending" \/ djob[g] \in unreported
    /\ dpc[g] = "cancelled" => Settled(djob[g])

(* A running row belongs to a drain thread that handles it. *)
RunInv ==
  app = "open" =>
    \A j \in Jobs : status[j] = "running" =>
      \/ j \in unreported
      \/ \E g \in Generations : djob[g] = j /\ dpc[g] \in Handling

Accounts ==
  /\ TasksTyped
  /\ AskedInv
  /\ TokenInv
  /\ TaskInv
  /\ EndInv
  /\ RunInv
  /\ JobsAccounted

(* Ends that are written settle the rows they are written for. *)
LEMMA EndRowsSettle ==
  ASSUME Typed, TasksTyped, NEW J \in SUBSET Jobs, NEW end \in {"failed", "cancelled"},
         EndRows(J, end)
  PROVE  /\ unreported \subseteq unreported' /\ unreported' \subseteq Jobs
         /\ \A j \in J : Settled(j)'
         /\ \A j \in Jobs \ J : status'[j] = status[j]
<1>1. PICK K \in SUBSET J : /\ status' = Ended(J \ K, end)
                            /\ unreported' = unreported \union K
  BY DEF EndRows
<1>2. end \notin Active
  BY DEF Active
<1>3. \A j \in Jobs : status'[j] = IF j \in J \ K /\ status[j] \in Active
                                   THEN end ELSE status[j]
  BY <1>1 DEF Ended
<1> QED BY <1>1, <1>2, <1>3 DEF Settled, TasksTyped

(* The fail closures settle the rows they are called for. *)
LEMMA FailRowsSettle ==
  ASSUME Typed, TasksTyped, NEW J \in SUBSET Jobs, FailRows(J)
  PROVE  /\ unreported \subseteq unreported' /\ unreported' \subseteq Jobs
         /\ \A j \in J : Settled(j)'
         /\ \A j \in Jobs \ J : status'[j] = status[j]
BY EndRowsSettle DEF FailRows

(* The tasks that the queue drops when it fails are jobs. *)
LEMMA DroppedJobs ==
  ASSUME Typed, NEW c \in Jobs \union {NoJob}
  PROVE  Range(waiting) \union Task(c) \in SUBSET Jobs
BY DEF Typed, Range, Task

(* The end of a job that could not be written is remembered. *)
LEMMA UnreportedStep ==
  ASSUME Typed, Accounts, [Next]_vars
  PROVE  unreported \subseteq unreported' /\ unreported' \subseteq Jobs
<1> DEFINE Goal == unreported \subseteq unreported' /\ unreported' \subseteq Jobs
<1>a. ASSUME UNCHANGED unreported PROVE Goal
  BY <1>a DEF Accounts, TasksTyped
<1>f. ASSUME NEW J \in SUBSET Jobs, NEW end \in {"failed", "cancelled"}, EndRows(J, end)
      PROVE  Goal
  BY <1>f, EndRowsSettle DEF Accounts
<1>b. ASSUME NEW J \in SUBSET Jobs, FailRows(J) PROVE Goal
  BY <1>b, <1>f DEF FailRows
<1>c. ASSUME NEW c \in Jobs \union {NoJob}, StopFailed(c) PROVE Goal
  BY <1>b, <1>c, DroppedJobs DEF StopFailed
<1>d. ASSUME NEW g \in Generations, dpc[g] \in Executing PROVE {djob[g]} \in SUBSET Jobs
  BY <1>d DEF Accounts, TaskInv
<1>e. SUFFICES Goal
  OBVIOUS
<1> HIDE DEF Goal
<1>1. ASSUME NEW j \in Jobs, SubmitStep(j) PROVE Goal
  BY <1>1, <1>a, <1>b DEF SubmitStep, Submit, Create, EnqueueRunning,
     EnqueueStart, EnqueueStarted, jobs
<1>2. ASSUME NEW j \in Jobs, Cancel(j) \/ CancelSignal(j) PROVE Goal
  BY <1>2, <1>a DEF Cancel, CancelSignal, jobs
<1>3. ASSUME NEW g \in Generations, Inner(g) PROVE Goal
  <2>1. dpc[g] \in Executing
    BY <1>3, InnerStep
  <2>2. \/ UNCHANGED unreported
        \/ \E end \in {"failed", "cancelled"} : EndRows({djob[g]}, end)
    BY <1>3 DEF Inner, Dequeue, Work, Publish, Settle, EndCancelled, EndFailed,
       DropToken, jobs, FailRows
  <2> QED BY <2>1, <2>2, <1>a, <1>f, <1>d
<1>4. ASSUME NEW g \in Generations,
             DrainEmpty(g) \/ DrainPop(g) \/ Finish(g) \/ Watch(g)
      PROVE  Goal
  <2>1. DrainPop(g) => Head(waiting) \in Jobs
    BY DEF DrainPop, Typed
  <2>2. \/ UNCHANGED unreported
        \/ StopFailed(NoJob) \/ StopFailed(active)
        \/ Head(waiting) \in Jobs /\ StopFailed(Head(waiting))
    BY <1>4, <2>1 DEF DrainEmpty, DrainPop, Finish, Watch, jobs
  <2> QED BY <2>2, <1>a, <1>c DEF Typed
<1>5. ASSUME NEW t \in Targets, Edit(t) PROVE Goal
  BY <1>5, <1>a DEF Edit
<1>6. ASSUME NEW q \in Projects, DeleteProject(q) PROVE Goal
  BY <1>6, <1>a DEF DeleteProject
<1>7. ASSUME Die \/ Open \/ ServiceStarts \/ ServiceFails \/ UNCHANGED vars PROVE Goal
  BY <1>7, <1>a DEF Die, Open, ServiceStarts, ServiceFails, vars, jobs
<1> QED
  BY <1>1, <1>2, <1>3, <1>4, <1>5, <1>6, <1>7 DEF Next, DrainStep, Inner

(* Nothing takes back what a submitted job has reached. *)
LEMMA Onward ==
  ASSUME Typed, AdmissionInv, Accounts, [Next]_vars, NEW j \in Jobs
  PROVE  /\ Submitted(j) => /\ Submitted(j)'
                            /\ status[j] \notin Active => status'[j] \notin Active
                            /\ status[j] # "pending" => status'[j] # "pending"
                            /\ Settled(j) => Settled(j)'
         /\ status[j] \in Past => Submitted(j) /\ status'[j] \in Past
<1>1. Submitted(j) => Submitted(j)'
  <2>1. ASSUME NEW k \in Jobs, SubmitStep(k), Submitted(j) PROVE Submitted(j)'
    BY <2>1 DEF SubmitStep, Submit, Create, EnqueueRunning, EnqueueStart,
       EnqueueStarted, Leave, Submitted, Typed
  <2>2. ASSUME Die \/ UNCHANGED submits, Submitted(j) PROVE Submitted(j)'
    BY <2>2 DEF Die, submits, Submitted
  <2> QED BY <2>1, <2>2, SubmitsStep
<1>2. Submitted(j) => ~(spc[j] = "create" /\ spc'[j] = "enqueue")
  BY DEF Submitted
<1>3. Moves(j, status[j], status'[j])
  BY RowStep
<1>4. unreported \subseteq unreported'
  BY UnreportedStep
<1>5. status[j] \in Past => Submitted(j)
  BY DEF Past, Terminal, Submitted, AdmissionInv
<1> QED
  BY <1>1, <1>2, <1>3, <1>4, <1>5 DEF Moves, Active, Past, Terminal, Settled

(* The steps that move a task: all others leave the queue, its threads and *)
(* the submissions alone. *)
LEMMA TaskSteps ==
  ASSUME [Next]_vars
  PROVE  \/ \E j \in Jobs : SubmitStep(j)
         \/ \E g \in Generations :
              Inner(g) \/ DrainEmpty(g) \/ DrainPop(g) \/ Finish(g) \/ Watch(g)
         \/ Die
         \/ Open
         \/ UNCHANGED <<app, spc, waiting, active, dpc, djob>>
<1> DEFINE Goal == UNCHANGED <<app, spc, waiting, active, dpc, djob>>
<1> USE DEF submits, queue, drains
<1>1. ASSUME NEW j \in Jobs, Cancel(j) \/ CancelSignal(j) PROVE Goal
  BY <1>1 DEF Cancel, CancelSignal
<1>2. ASSUME NEW t \in Targets, Edit(t) PROVE Goal
  BY <1>2 DEF Edit
<1>3. ASSUME NEW q \in Projects, DeleteProject(q) PROVE Goal
  BY <1>3 DEF DeleteProject
<1>4. ASSUME ServiceStarts \/ ServiceFails \/ UNCHANGED vars PROVE Goal
  BY <1>4 DEF ServiceStarts, ServiceFails, vars
<1> HIDE DEF Goal
<1>5. [Next]_vars => \/ \E j \in Jobs : SubmitStep(j)
                     \/ \E g \in Generations :
                          Inner(g) \/ DrainEmpty(g) \/ DrainPop(g) \/ Finish(g) \/ Watch(g)
                     \/ Die \/ Open \/ Goal
  BY <1>1, <1>2, <1>3, <1>4 DEF Next, DrainStep, Inner
<1> QED BY <1>5 DEF Goal

(* The app opens and dies in steps of its own. *)
LEMMA AppStep ==
  ASSUME [Next]_vars
  PROVE  Open \/ Die \/ UNCHANGED app
<1>1. ASSUME NEW j \in Jobs, SubmitStep(j) PROVE UNCHANGED app
  BY <1>1 DEF SubmitStep, Submit, Create, EnqueueRunning, EnqueueStart, EnqueueStarted
<1>2. ASSUME NEW g \in Generations, Inner(g) PROVE UNCHANGED app
  BY <1>2 DEF Inner, Dequeue, Work, Publish, Settle, EndCancelled, EndFailed, DropToken
<1>3. ASSUME NEW g \in Generations,
             DrainEmpty(g) \/ DrainPop(g) \/ Finish(g) \/ Watch(g)
      PROVE  UNCHANGED app
  BY <1>3 DEF DrainEmpty, DrainPop, Finish, Watch
<1> QED BY <1>1, <1>2, <1>3, TaskSteps

(* A cancel that was asked for has met a row that is past its end. *)
LEMMA AskedStep ==
  ASSUME Typed, AdmissionInv, Accounts, [Next]_vars
  PROVE  AskedInv'
<1> DEFINE Quiet == \A j \in Jobs : cancelRequested'[j] \/ cpc'[j] # "idle" =>
                                     cancelRequested[j] \/ cpc[j] # "idle"
<1>a. ASSUME Quiet PROVE AskedInv'
  <2>1. \A j \in Jobs : status[j] \in Past => status'[j] \in Past
    BY Onward
  <2> QED BY <1>a, <2>1 DEF Accounts, AskedInv, Past
<1>b. ASSUME UNCHANGED <<cancelRequested, cpc>> PROVE Quiet
  BY <1>b
<1>1. ASSUME NEW j \in Jobs, Cancel(j) PROVE AskedInv'
  <2>1. /\ status[j] \in Active \union Terminal /\ status' = Ended({j}, "cancelled")
        /\ cancelRequested' = [cancelRequested EXCEPT ![j] = @ \/ status[j] \in Active]
        /\ cpc' = [cpc EXCEPT ![j] = "signal"]
    BY <1>1 DEF Cancel
  <2>2. status'[j] \in Past
    BY <2>1 DEF Ended, Past, Terminal
  <2>3. \A k \in Jobs \ {j} : /\ status'[k] = status[k] /\ cpc'[k] = cpc[k]
                               /\ cancelRequested'[k] = cancelRequested[k]
    BY <2>1 DEF Ended, Accounts, TasksTyped
  <2> QED BY <2>2, <2>3 DEF Accounts, AskedInv, Past
<1>2. ASSUME NEW j \in Jobs, CancelSignal(j) PROVE Quiet
  BY <1>2 DEF CancelSignal, Accounts, TasksTyped, jobs
<1>3. ASSUME Die PROVE Quiet
  BY <1>3 DEF Die, Accounts, TasksTyped, jobs
<1>4. ASSUME NEW j \in Jobs, SubmitStep(j) PROVE UNCHANGED <<cancelRequested, cpc>>
  BY <1>4 DEF SubmitStep, Submit, Create, EnqueueRunning, EnqueueStart,
     EnqueueStarted, jobs
<1>5. ASSUME NEW g \in Generations, DrainStep(g) \/ Work(g) \/ Watch(g)
      PROVE  UNCHANGED <<cancelRequested, cpc>>
  BY <1>5 DEF DrainStep, DrainEmpty, DrainPop, Dequeue, Publish, Settle,
     EndCancelled, EndFailed, DropToken, Finish, Work, Watch, jobs
<1>6. ASSUME NEW t \in Targets, Edit(t) PROVE UNCHANGED <<cancelRequested, cpc>>
  BY <1>6 DEF Edit
<1>7. ASSUME NEW q \in Projects, DeleteProject(q)
      PROVE  UNCHANGED <<cancelRequested, cpc>>
  BY <1>7 DEF DeleteProject
<1>8. ASSUME Open \/ ServiceStarts \/ ServiceFails \/ UNCHANGED vars
      PROVE  UNCHANGED <<cancelRequested, cpc>>
  BY <1>8 DEF Open, ServiceStarts, ServiceFails, vars, jobs
<1> HIDE DEF Quiet
<1> QED
  BY <1>a, <1>b, <1>1, <1>2, <1>3, <1>4, <1>5, <1>6, <1>7, <1>8 DEF Next

(* Work is told to stop by a cancel or by a queue that has settled it. *)
LEMMA TokenStep ==
  ASSUME Typed, AdmissionInv, Accounts, [Next]_vars
  PROVE  TokenInv' /\ tokens' \subseteq Jobs
<1> DEFINE Goal == TokenInv' /\ tokens' \subseteq Jobs
<1>0. tokens \subseteq Jobs /\ TokenInv
  BY DEF Accounts, TasksTyped
<1>a. ASSUME NEW T \in SUBSET Jobs, tokens' \subseteq tokens \union T,
             \A j \in T : Submitted(j)' /\ Settled(j)'
      PROVE  Goal
  <2>1. \A j \in tokens : Submitted(j)' /\ Settled(j)'
    BY <1>0, Onward DEF TokenInv
  <2>2. \A j \in tokens' : Submitted(j)' /\ Settled(j)'
    BY <1>a, <2>1
  <2> QED BY <1>0, <1>a, <2>2 DEF TokenInv, Submitted, Settled
<1>b. ASSUME tokens' \subseteq tokens PROVE Goal
  <2>1. tokens' \subseteq tokens \union {}
    BY <1>b
  <2>2. {} \in SUBSET Jobs /\ \A j \in {} : Submitted(j)' /\ Settled(j)'
    OBVIOUS
  <2> QED BY <1>a, <2>1, <2>2
<1>c. ASSUME NEW c \in Task(active) \union Range(waiting) \union {NoJob}, StopFailed(c)
      PROVE  Goal
  <2>1. /\ c \in Jobs \union {NoJob} /\ Task(c) \in SUBSET Jobs
        /\ \A j \in Task(c) : Submitted(j)
    BY DEF Typed, Range, Task, Accounts, TaskInv
  <2>2. \A j \in Task(c) : Settled(j)'
    BY <1>c, <2>1, DroppedJobs, FailRowsSettle DEF StopFailed, Accounts
  <2>3. tokens' = tokens \union Task(c)
    BY <1>c DEF StopFailed
  <2>4. \A j \in Task(c) : Submitted(j)'
    BY <2>1, Onward
  <2> QED BY <1>a, <2>1, <2>2, <2>3, <2>4
<1>d. SUFFICES Goal
  OBVIOUS
<1> HIDE DEF Goal
<1>1. ASSUME NEW j \in Jobs, CancelSignal(j) PROVE Goal
  <2>1. status[j] \in Past /\ tokens' = tokens \union {j}
    BY <1>1 DEF CancelSignal, Accounts, AskedInv
  <2>2. Submitted(j) /\ status'[j] \in Past
    BY <2>1, Onward
  <2>3. Submitted(j)' /\ Settled(j)'
    BY <2>2, Onward DEF Past, Terminal, Active, Settled
  <2>4. /\ {j} \in SUBSET Jobs /\ tokens' \subseteq tokens \union {j}
        /\ \A k \in {j} : Submitted(k)' /\ Settled(k)'
    BY <2>1, <2>3
  <2> QED BY <1>a, <2>4
<1>2. ASSUME NEW g \in Generations,
             DrainEmpty(g) \/ DrainPop(g) \/ Finish(g) \/ Watch(g)
      PROVE  Goal
  <2>1. DrainPop(g) => Head(waiting) \in Range(waiting)
    BY TailList DEF DrainPop, Typed
  <2>2. \/ UNCHANGED tokens
        \/ \E c \in Task(active) \union Range(waiting) \union {NoJob} : StopFailed(c)
    BY <1>2, <2>1 DEF DrainEmpty, DrainPop, Finish, Watch, Task
  <2> QED BY <2>2, <1>b, <1>c
<1>3. ASSUME NEW g \in Generations, Inner(g) PROVE Goal
  BY <1>3, <1>b DEF Inner, Dequeue, Work, Publish, Settle, EndCancelled,
     EndFailed, DropToken
<1>4. ASSUME NEW j \in Jobs, SubmitStep(j) \/ Cancel(j) PROVE Goal
  BY <1>4, <1>b DEF SubmitStep, Submit, Create, EnqueueRunning, EnqueueStart,
     EnqueueStarted, Cancel
<1>5. ASSUME NEW t \in Targets, Edit(t) PROVE Goal
  BY <1>5, <1>b DEF Edit
<1>6. ASSUME NEW q \in Projects, DeleteProject(q) PROVE Goal
  BY <1>6, <1>b DEF DeleteProject
<1>7. ASSUME Die \/ Open \/ ServiceStarts \/ ServiceFails \/ UNCHANGED vars PROVE Goal
  BY <1>7, <1>b DEF Die, Open, ServiceStarts, ServiceFails, vars
<1> QED
  BY <1>1, <1>2, <1>3, <1>4, <1>5, <1>6, <1>7 DEF Next, DrainStep, Inner

(* The queue is handed created jobs, and hands them on. *)
LEMMA TaskStep ==
  ASSUME Typed, AdmissionInv, Accounts, [Next]_vars
  PROVE  TaskInv' /\ djob' \in [Generations -> Jobs \union {NoJob}]
<1> DEFINE Goal == TaskInv' /\ djob' \in [Generations -> Jobs \union {NoJob}]
<1>0. /\ TaskInv /\ djob \in [Generations -> Jobs \union {NoJob}]
      /\ dpc \in [Generations -> {"off", "drain"} \union Executing]
      /\ waiting \in Seq(Jobs) /\ active \in Jobs \union {NoJob}
      /\ {"off", "drain"} \intersect Executing = {}
  BY DEF Typed, Accounts, TasksTyped, Executing
<1>a. \A j \in Jobs : Submitted(j) => Submitted(j)'
  BY Onward
<1>b. ASSUME \A j \in (Range(waiting) \union Task(active))' : j \in Jobs /\ Submitted(j)',
             djob' \in [Generations -> Jobs \union {NoJob}],
             \A g \in Generations :
               dpc'[g] \in Executing => djob'[g] \in Jobs /\ Submitted(djob[g])'
      PROVE  Goal
  BY <1>b DEF TaskInv, Submitted
<1>c. ASSUME \A j \in (Range(waiting) \union Task(active))' :
               j \in Range(waiting) \union Task(active) \/ (j \in Jobs /\ Submitted(j)'),
             UNCHANGED djob,
             \A g \in Generations : dpc'[g] \in Executing => dpc[g] \in Executing
      PROVE  Goal
  <2>1. Range(waiting) \union Task(active) \subseteq Jobs
    BY <1>0 DEF Range, Task
  <2>2. \A g \in Generations :
          dpc'[g] \in Executing => djob'[g] \in Jobs /\ Submitted(djob[g])'
    BY <1>0, <1>a, <1>c DEF TaskInv, Submitted
  <2>3. \A j \in (Range(waiting) \union Task(active))' : j \in Jobs /\ Submitted(j)'
    BY <1>0, <1>a, <1>c, <2>1 DEF TaskInv
  <2> QED BY <1>0, <1>b, <1>c, <2>2, <2>3
<1>d. SUFFICES Goal
  OBVIOUS
<1> HIDE DEF Goal
<1>1. ASSUME UNCHANGED <<waiting, active, dpc, djob>> PROVE Goal
  BY <1>1, <1>c DEF Task
<1>2. ASSUME NEW j \in Jobs, EnqueueRunning(j) \/ EnqueueStarted(j) PROVE Goal
  <2>1. Submitted(j)'
    BY <1>2 DEF EnqueueRunning, EnqueueStarted, Leave, Typed, Submitted
  <2>2. UNCHANGED <<active, djob>> /\ (waiting' = waiting \/ waiting' = Append(waiting, j))
    BY <1>2 DEF EnqueueRunning, EnqueueStarted, drains
  <2>3. \A k \in (Range(waiting) \union Task(active))' :
          k \in Range(waiting) \union Task(active) \/ k = j
    <3>1. Range(waiting') \subseteq Range(waiting) \union {j}
      BY <1>0, <2>2, AppendList
    <3> QED BY <2>2, <3>1 DEF Task
  <2>4. \A g \in Generations : dpc'[g] \in Executing => dpc[g] \in Executing
    BY <1>0, <1>2 DEF EnqueueRunning, EnqueueStarted, drains
  <2> QED BY <1>c, <2>1, <2>2, <2>3, <2>4 DEF Submitted
<1>3. ASSUME NEW j \in Jobs, Submit(j) \/ Create(j) \/ EnqueueStart(j) PROVE Goal
  BY <1>1, <1>3 DEF Submit, Create, EnqueueStart, queue, drains
<1>4. ASSUME NEW g \in Generations, Inner(g) PROVE Goal
  <2>1. /\ dpc[g] \in Executing /\ UNCHANGED <<waiting, active, djob>>
        /\ \A h \in Generations \ {g} : dpc'[h] = dpc[h]
    BY <1>0, <1>4, InnerStep DEF queue
  <2> QED BY <2>1, <1>c DEF Task
<1>5. ASSUME NEW g \in Generations, DrainEmpty(g) PROVE Goal
  BY <1>0, <1>5, <1>c DEF DrainEmpty, Task
<1>6. ASSUME NEW g \in Generations, DrainPop(g) PROVE Goal
  <2>1. /\ Head(waiting) \in Jobs /\ Head(waiting) \in Range(waiting)
        /\ Range(Tail(waiting)) \subseteq Range(waiting)
    BY <1>0, <1>6, TailList DEF DrainPop
  <2>2. CASE /\ waiting' = Tail(waiting) /\ active' = Head(waiting)
             /\ djob' = [djob EXCEPT ![g] = Head(waiting)]
             /\ dpc' = [dpc EXCEPT ![g] = "dequeue"]
    <3>1. Submitted(Head(waiting)) /\ Range(waiting) \subseteq Jobs
      BY <1>0, <2>1 DEF TaskInv, Range
    <3>2. \A j \in (Range(waiting) \union Task(active))' : j \in Jobs /\ Submitted(j)'
      <4>1. \A j \in (Range(waiting) \union Task(active))' : j \in Range(waiting)
        BY <2>1, <2>2 DEF Task
      <4> QED BY <1>0, <1>a, <3>1, <4>1 DEF TaskInv
    <3>3. \A h \in Generations :
            dpc'[h] \in Executing => djob'[h] \in Jobs /\ spc'[djob'[h]] \notin {"idle", "create"}
      <4>1. spc'[Head(waiting)] \notin {"idle", "create"}
        BY <1>a, <2>1, <3>1 DEF Submitted
      <4>2. \A h \in Generations \ {g} :
              dpc'[h] \in Executing => djob'[h] \in Jobs /\ spc'[djob'[h]] \notin {"idle", "create"}
        BY <1>0, <1>a, <2>2 DEF TaskInv, Submitted
      <4> QED BY <1>0, <2>1, <2>2, <4>1, <4>2
    <3>4. djob' \in [Generations -> Jobs \union {NoJob}]
      BY <1>0, <2>1, <2>2
    <3> QED BY <1>b, <3>2, <3>3, <3>4 DEF Submitted
  <2>3. CASE waiting' = <<>> /\ active' = NoJob /\ UNCHANGED <<djob, dpc>>
    BY <2>3, <1>c DEF Task, Range
  <2> QED BY <1>6, <2>2, <2>3 DEF DrainPop, StopFailed
<1>7. ASSUME NEW g \in Generations, Finish(g) PROVE Goal
  <2>1. /\ waiting' = waiting \/ waiting' = <<>>
        /\ active' = NoJob
        /\ dpc' = [dpc EXCEPT ![g] = "drain"]
        /\ djob' = [djob EXCEPT ![g] = NoJob]
    BY <1>7 DEF Finish, StopFailed
  <2>2. \A j \in (Range(waiting) \union Task(active))' : j \in Jobs /\ Submitted(j)'
    <3>1. \A j \in (Range(waiting) \union Task(active))' : j \in Range(waiting)
      BY <2>1 DEF Task, Range
    <3>2. Range(waiting) \subseteq Jobs
      BY <1>0 DEF Range
    <3> QED BY <1>0, <1>a, <3>1, <3>2 DEF TaskInv
  <2>3. \A h \in Generations :
          dpc'[h] \in Executing => djob'[h] \in Jobs /\ spc'[djob'[h]] \notin {"idle", "create"}
    BY <1>0, <1>a, <2>1 DEF TaskInv, Submitted
  <2>4. djob' \in [Generations -> Jobs \union {NoJob}]
    BY <1>0, <2>1
  <2> QED BY <1>b, <2>2, <2>3, <2>4 DEF Submitted
<1>8. ASSUME NEW g \in Generations, Watch(g) PROVE Goal
  <2>1. UNCHANGED <<active, dpc, djob>> /\ (waiting' = waiting \/ waiting' = <<>>)
    BY <1>8 DEF Watch, StopFailed
  <2> QED BY <2>1, <1>c DEF Task, Range
<1>9. ASSUME Die PROVE Goal
  BY <1>0, <1>9, <1>b DEF Die, Task, Range
<1>10. ASSUME Open PROVE Goal
  BY <1>1, <1>10 DEF Open, queue, drains
<1> QED
  BY <1>1, <1>2, <1>3, <1>4, <1>5, <1>6, <1>7, <1>8, <1>9, <1>10, TaskSteps DEF SubmitStep

(* The drain thread leaves a job settled, or goes on with it. *)
LEMMA InnerEnds ==
  ASSUME Typed, AdmissionInv, OneDrain, Accounts, [Next]_vars,
         NEW g \in Generations, Inner(g)
  PROVE  /\ dpc'[g] = "cancelled" => Settled(djob[g])'
         /\ dpc'[g] # "dequeue" =>
              status'[djob[g]] # "pending" \/ djob[g] \in unreported'
         /\ app = "open" => \/ dpc[g] \in {"over", "finish"}
                            \/ dpc'[g] \in Handling
                            \/ Settled(djob[g])'
<1> DEFINE j == djob[g]
           Goal == /\ dpc'[g] = "cancelled" => Settled(djob[g])'
                   /\ dpc'[g] # "dequeue" =>
                        status'[djob[g]] # "pending" \/ djob[g] \in unreported'
                   /\ app = "open" => \/ dpc[g] \in {"over", "finish"}
                                      \/ dpc'[g] \in Handling
                                      \/ Settled(djob[g])'
<1>1. /\ dpc[g] \in Executing /\ UNCHANGED djob
      /\ j \in Jobs /\ Submitted(j)
      /\ dpc[g] # "dequeue" => status[j] # "pending" \/ j \in unreported
      /\ dpc[g] = "cancelled" => Settled(j)
      /\ cancelRequested[j] => status[j] \in Past
      /\ j \in tokens => Settled(j)
      /\ \A x \in {"work", "publish", "settle", "cancelled", "fail"} : x \in Handling
      /\ dpc \in [Generations -> {"off", "drain"} \union Executing]
      /\ status \in [Jobs -> RowStates]
  BY InnerStep DEF Accounts, TaskInv, EndInv, AskedInv, TokenInv, Handling, Typed
<1>2. /\ status[j] \notin Active => status'[j] \notin Active
      /\ status[j] # "pending" => status'[j] # "pending"
      /\ Settled(j) => Settled(j)'
      /\ unreported \subseteq unreported'
  BY <1>1, Onward, UnreportedStep
<1>3. /\ "pending" \in Active /\ "running" \in Active
      /\ "completed" \notin Active
      /\ \A x \in Past : x \notin Active
      /\ \A x \in RowStates : x \in Active <=> x = "pending" \/ x = "running"
  BY DEF Active, Past, Terminal
<1>a. ASSUME Settled(j)' PROVE Goal
  <2>1. status'[j] \notin Active \/ j \in unreported'
    BY <1>1, <1>a DEF Settled
  <2>2. status'[j] # "pending" \/ j \in unreported'
    BY <2>1, <1>3
  <2> QED BY <1>a, <2>2
<1>b. ASSUME dpc'[g] \in Handling, dpc[g] # "dequeue",
             dpc'[g] = "cancelled" => Settled(j)'
      PROVE  Goal
  BY <1>1, <1>2, <1>b
<1>e. ASSUME NEW end \in {"failed", "cancelled"}, EndRows({j}, end) PROVE Goal
  <2>1. {j} \in SUBSET Jobs /\ j \in {j}
    BY <1>1
  <2>2. \A i \in {j} : status'[i] \notin Active \/ i \in unreported'
    BY <1>e, <2>1, EndRowsSettle DEF Accounts, Settled
  <2> QED BY <1>1, <1>a, <2>1, <2>2 DEF Settled
<1>c. ASSUME FailRows({j}) PROVE Goal
  BY <1>c, <1>e DEF FailRows
<1>d. SUFFICES Goal
  OBVIOUS
<1>4. CASE Dequeue(g)
  <2>1. dpc[g] = "dequeue" /\ UNCHANGED djob
    BY <1>4 DEF Dequeue
  <2>2. CASE /\ status[j] = "pending" /\ status' = [status EXCEPT ![j] = "running"]
             /\ dpc' = [dpc EXCEPT ![g] = "work"]
    BY <1>1, <2>2
  <2>3. CASE /\ status[j] # "pending" \/ cancelRequested[j]
             /\ dpc' = [dpc EXCEPT ![g] = "over"]
    <3>1. status[j] # "pending"
      BY <2>3, <1>1, <1>3
    <3>2. ASSUME app = "open" PROVE Settled(j)
      <4>1. ASSUME status[j] = "running" PROVE j \in unreported
        <5>1. ASSUME NEW h \in Generations, dpc[h] \in Handling PROVE FALSE
          BY <2>1, <5>1 DEF OneDrain, Handling
        <5> QED BY <3>2, <4>1, <5>1, <1>1 DEF Accounts, RunInv
      <4> QED BY <1>1, <1>3, <3>1, <4>1 DEF Settled
    <3>3. dpc'[g] = "over"
      BY <2>3, <1>1
    <3> QED BY <1>1, <1>2, <3>1, <3>2, <3>3
  <2>4. CASE FailRows({j})
    BY <1>c, <2>4
  <2> QED BY <1>4, <2>2, <2>3, <2>4 DEF Dequeue
<1>5. CASE Work(g)
  <2>1. dpc[g] = "work"
    BY <1>5 DEF Work
  <2>2. CASE dpc' = [dpc EXCEPT ![g] = "publish"] \/ dpc' = [dpc EXCEPT ![g] = "settle"]
    BY <1>1, <1>b, <2>1, <2>2
  <2>3. CASE (j \in tokens \/ CancelSeen(j)) /\ dpc' = [dpc EXCEPT ![g] = "cancelled"]
    <3>1. status[j] = "cancelled" => status[j] \notin Active
      BY DEF Active
    <3>2. Settled(j)
      BY <1>1, <1>3, <2>3, <3>1 DEF CancelSeen, Settled
    <3> QED BY <1>1, <1>2, <1>a, <3>2
  <2>4. CASE \E end \in {"failed", "cancelled"} : EndRows({j}, end)
    BY <1>e, <2>4
  <2> QED BY <1>5, <2>2, <2>3, <2>4 DEF Work
<1>6. CASE Publish(g)
  <2>1. dpc[g] = "publish"
    BY <1>6 DEF Publish
  <2>2. CASE status' = [status EXCEPT ![j] = "completed"]
    <3>1. status'[j] = "completed"
      BY <1>1, <2>2
    <3> QED BY <1>1, <1>3, <1>a, <3>1 DEF Settled
  <2>3. CASE (~Live(j) \/ j \in tokens) /\ dpc' = [dpc EXCEPT ![g] = "cancelled"]
    <3>1. Settled(j)
      BY <1>1, <1>3, <2>1, <2>3 DEF Live, Settled
    <3> QED BY <1>1, <1>2, <1>a, <3>1
  <2>4. CASE dpc' = [dpc EXCEPT ![g] = "settle"]
    BY <1>1, <1>b, <2>1, <2>4
  <2> QED BY <1>6, <2>2, <2>3, <2>4 DEF Publish
<1>7. CASE Settle(g)
  <2>1. dpc[g] = "settle"
    BY <1>7 DEF Settle
  <2>2. CASE CancelSeen(j) /\ dpc' = [dpc EXCEPT ![g] = "cancelled"]
    <3>1. status[j] = "cancelled" => status[j] \notin Active
      BY DEF Active
    <3>2. Settled(j)
      BY <1>1, <1>3, <2>2, <3>1 DEF CancelSeen, Settled
    <3> QED BY <1>1, <1>2, <1>a, <3>2
  <2>3. CASE dpc' = [dpc EXCEPT ![g] = "fail"]
    BY <1>1, <1>b, <2>1, <2>3
  <2> QED BY <1>7, <2>2, <2>3 DEF Settle
<1>8. CASE EndCancelled(g)
  BY <1>8, <1>1, <1>2, <1>a DEF EndCancelled
<1>9. CASE EndFailed(g)
  BY <1>9, <1>c DEF EndFailed
<1>10. CASE DropToken(g)
  <2>1. dpc[g] = "over" /\ dpc'[g] = "finish"
    BY <1>10, <1>1 DEF DropToken
  <2> QED BY <1>1, <1>2, <2>1
<1> HIDE DEF Goal
<1> QED
  BY <1>4, <1>5, <1>6, <1>7, <1>8, <1>9, <1>10 DEF Inner

(* A job that was dequeued stays so, whatever else happens to its row. *)
LEMMA EndStep ==
  ASSUME Typed, AdmissionInv, OneDrain, Accounts, [Next]_vars
  PROVE  EndInv'
<1> DEFINE Same(h) == dpc'[h] = dpc[h] /\ djob'[h] = djob[h]
           Fine(h) == /\ dpc'[h] \in Executing \ {"dequeue"}
                           => status'[djob'[h]] # "pending" \/ djob'[h] \in unreported'
                      /\ dpc'[h] = "cancelled"
                           => status'[djob'[h]] \notin Active \/ djob'[h] \in unreported'
<1>0. /\ djob \in [Generations -> Jobs \union {NoJob}]
      /\ dpc \in [Generations -> {"off", "drain"} \union Executing]
      /\ \A x \in {"off", "drain"} : x \notin Executing
      /\ "cancelled" \in Executing
  BY DEF Typed, Accounts, TasksTyped, Executing
<1>a. ASSUME NEW h \in Generations, Same(h) PROVE Fine(h)
  <2>1. ASSUME dpc[h] \in Executing
        PROVE  /\ status[djob[h]] # "pending" => status'[djob[h]] # "pending"
               /\ Settled(djob[h]) => status'[djob[h]] \notin Active \/ djob[h] \in unreported'
               /\ unreported \subseteq unreported'
    <3>1. djob[h] \in Jobs /\ Submitted(djob[h])
      BY <2>1 DEF Accounts, TaskInv
    <3> QED BY <3>1, Onward, UnreportedStep DEF Settled
  <2>2. /\ dpc[h] \in Executing \ {"dequeue"}
             => status[djob[h]] # "pending" \/ djob[h] \in unreported
        /\ dpc[h] = "cancelled" => Settled(djob[h])
    BY DEF Accounts, EndInv
  <2> QED BY <1>0, <1>a, <2>1, <2>2
<1>b. ASSUME NEW h \in Generations, dpc'[h] \in {"off", "drain", "dequeue"} PROVE Fine(h)
  BY <1>0, <1>b
<1>c. ASSUME \A h \in Generations : Fine(h) PROVE EndInv'
  BY <1>c DEF EndInv, Settled
<1>1. ASSUME UNCHANGED <<dpc, djob>>, NEW h \in Generations PROVE Same(h)
  BY <1>1
<1>2. ASSUME NEW j \in Jobs, SubmitStep(j), NEW h \in Generations
      PROVE  Same(h) \/ dpc'[h] = "drain"
  BY <1>0, <1>2 DEF SubmitStep, Submit, Create, EnqueueRunning, EnqueueStart,
     EnqueueStarted, drains
<1>3. ASSUME NEW g \in Generations, Inner(g), NEW h \in Generations PROVE Fine(h)
  <2>1. UNCHANGED djob /\ \E x \in Executing : dpc' = [dpc EXCEPT ![g] = x]
    BY <1>3, InnerStep
  <2>2. CASE h = g
    BY <1>3, <2>1, <2>2, InnerEnds DEF Settled
  <2>3. CASE h # g
    BY <1>0, <1>a, <2>1, <2>3
  <2> QED BY <2>2, <2>3
<1>4. ASSUME NEW g \in Generations, DrainEmpty(g) \/ DrainPop(g) \/ Finish(g) \/ Watch(g),
             NEW h \in Generations
      PROVE  Same(h) \/ dpc'[h] \in {"off", "drain", "dequeue"}
  BY <1>0, <1>4 DEF DrainEmpty, DrainPop, Finish, Watch
<1>5. ASSUME Die, NEW h \in Generations PROVE dpc'[h] = "off"
  BY <1>5 DEF Die
<1>6. ASSUME Open PROVE UNCHANGED <<dpc, djob>>
  BY <1>6 DEF Open, drains
<1> HIDE DEF Same, Fine
<1>d. SUFFICES ASSUME NEW h \in Generations PROVE Fine(h)
  BY <1>c
<1> QED
  BY <1>a, <1>b, <1>1, <1>2, <1>3, <1>4, <1>5, <1>6, TaskSteps

(* A row that is active after a step is accounted for: its task is still   *)
(* where it was, or was handed on, or the step has settled the row. *)
LEMMA AccountStep ==
  ASSUME Typed, AdmissionInv, QueueInv, OneDrain, Accounts, [Next]_vars
  PROVE  RunInv' /\ JobsAccounted'
<1> DEFINE Runs(j) == \E g \in Generations : djob[g] = j /\ dpc[g] \in Handling
           Drained(j) == \E g \in Generations :
                           djob[g] = j /\ dpc[g] \in Executing \ {"over", "finish"}
           Busily(j) == spc[j] \in {"enqueue", "starting"}
           Found(j) == /\ status'[j] = "running" => j \in unreported' \/ Runs(j)'
                       /\ j \in Range(waiting') \/ Drained(j)' \/ Busily(j)' \/ j \in unreported'
<1> SUFFICES ASSUME app' = "open", NEW j \in Jobs, status'[j] \in Active
             PROVE  Found(j)
  BY DEF RunInv, JobsAccounted, Active
<1>0. /\ djob \in [Generations -> Jobs \union {NoJob}]
      /\ dpc \in [Generations -> {"off", "drain"} \union Executing]
      /\ waiting \in Seq(Jobs)
      /\ spc \in [Jobs -> {"idle", "create", "enqueue", "starting", "done"}]
      /\ \A x \in {"off", "drain"} : x \notin Executing /\ x \notin Handling
      /\ \A x \in {"over", "finish", "dequeue"} : x \notin Handling
      /\ \A x \in Handling : x \in Executing \ {"over", "finish"}
      /\ "dequeue" \in Executing \ {"over", "finish"}
      /\ unreported \subseteq unreported'
  BY UnreportedStep DEF Typed, Accounts, TasksTyped, Executing, Handling
<1>a. ASSUME j \in unreported' PROVE Found(j)
  BY <1>a
<1>b. ASSUME Settled(j)' PROVE Found(j)
  BY <1>a, <1>b DEF Settled
<1>1. CASE Open
  BY <1>1 DEF Open, Ended, Active
<1>2. CASE spc[j] = "create" /\ spc'[j] = "enqueue"
  <2>1. status[j] = "none" /\ Moves(j, status[j], status'[j])
    BY <1>2, RowStep DEF AdmissionInv
  <2>2. status'[j] # "running"
    BY <2>1 DEF Moves, Active
  <2> QED BY <1>2, <2>2
<1>3. CASE Die
  BY <1>3 DEF Die
<1> SUFFICES ASSUME ~Open, ~Die, ~(spc[j] = "create" /\ spc'[j] = "enqueue")
             PROVE  Found(j)
  BY <1>1, <1>2, <1>3
<1>4. /\ status[j] = "running" => j \in unreported \/ Runs(j)
      /\ j \in Range(waiting) \/ Drained(j) \/ Busily(j) \/ j \in unreported
  <2>1. app = "open" /\ status[j] \in Active
    BY AppStep, RowsShrink
  <2> QED BY <2>1 DEF Accounts, RunInv, JobsAccounted
<1>5. status'[j] = "running" => status[j] = "running" \/ Runs(j)'
  <2>1. Moves(j, status[j], status'[j])
    BY RowStep
  <2>2. ASSUME Starts(j) PROVE Runs(j)'
    <3>1. "work" \in Handling
      BY DEF Handling
    <3> QED BY <2>2, <3>1 DEF Starts
  <2> QED BY <2>1, <2>2 DEF Moves, Active
<1>c. ASSUME Runs(j) => Runs(j)' \/ Settled(j)',
             Drained(j) => Drained(j)' \/ Settled(j)',
             j \in Range(waiting) => j \in Range(waiting') \/ Drained(j)' \/ Settled(j)',
             Busily(j) => Busily(j)' \/ j \in Range(waiting') \/ Settled(j)'
      PROVE  Found(j)
  <2>1. Settled(j)' => j \in unreported'
    BY DEF Settled
  <2> QED BY <1>0, <1>4, <1>5, <1>c, <2>1
(* The thread keeps its job, and the job waits as it did. *)
<1>d. ASSUME NEW g \in Generations,
             \A h \in Generations \ {g} : dpc'[h] = dpc[h] /\ djob'[h] = djob[h]
      PROVE  /\ Runs(j) => Runs(j)' \/ (djob[g] = j /\ dpc[g] \in Handling)
             /\ Drained(j) =>
                  Drained(j)' \/ (djob[g] = j /\ dpc[g] \in Executing \ {"over", "finish"})
  <2>1. Runs(j) => Runs(j)' \/ (djob[g] = j /\ dpc[g] \in Handling)
    <3>1. SUFFICES ASSUME NEW h \in Generations, djob[h] = j, dpc[h] \in Handling, h # g
                   PROVE  Runs(j)'
      OBVIOUS
    <3>2. djob'[h] = j /\ dpc'[h] \in Handling
      BY <1>d, <3>1
    <3> QED BY <3>2
  <2>2. Drained(j) => \/ Drained(j)'
                      \/ djob[g] = j /\ dpc[g] \in Executing \ {"over", "finish"}
    <3>1. SUFFICES ASSUME NEW h \in Generations, djob[h] = j, h # g,
                          dpc[h] \in Executing \ {"over", "finish"}
                   PROVE  Drained(j)'
      OBVIOUS
    <3>2. djob'[h] = j /\ dpc'[h] \in Executing \ {"over", "finish"}
      BY <1>d, <3>1
    <3> QED BY <3>2
  <2> HIDE DEF Runs, Drained
  <2> QED BY <2>1, <2>2
<1>e. ASSUME UNCHANGED <<dpc, djob>>
      PROVE  (Runs(j) => Runs(j)') /\ (Drained(j) => Drained(j)')
  BY <1>e
<1>f. ASSUME NEW c \in Jobs \union {NoJob}, StopFailed(c), j \in Range(waiting) \union Task(c)
      PROVE  Settled(j)'
  BY <1>f, DroppedJobs, FailRowsSettle DEF StopFailed, Accounts
<1> HIDE DEF Found, Runs, Drained
<1>6. CASE UNCHANGED <<app, spc, waiting, active, dpc, djob>>
  BY <1>6, <1>c, <1>e
<1>7. ASSUME NEW i \in Jobs, SubmitStep(i) PROVE Found(j)
  <2>1. CASE Submit(i) \/ Create(i)
    <3>1. UNCHANGED <<dpc, djob, waiting>> /\ (Busily(j) => Busily(j)')
      BY <1>0, <2>1 DEF Submit, Create, Leave, drains, queue
    <3> QED BY <3>1, <1>c, <1>e
  <2>2. CASE FailRows({i}) /\ Leave(i) /\ UNCHANGED <<waiting, dpc, djob>>
    <3>1. i = j => Settled(j)'
      <4>1. {i} \in SUBSET Jobs /\ i \in {i}
        OBVIOUS
      <4> QED BY <2>2, <4>1, FailRowsSettle DEF Accounts
    <3>2. i # j => (Busily(j) => Busily(j)')
      BY <1>0, <2>2 DEF Leave
    <3> QED BY <2>2, <3>1, <3>2, <1>c, <1>e
  <2>3. CASE EnqueueRunning(i)
    <3>1. CASE waiting' = Append(waiting, i)
      <4>1. Range(waiting') = Range(waiting) \union {i}
        BY <1>0, <3>1, AppendList
      <4>2. i # j => (Busily(j) => Busily(j)')
        BY <1>0, <2>3 DEF EnqueueRunning, Leave
      <4>3. UNCHANGED <<dpc, djob>>
        BY <2>3 DEF EnqueueRunning, drains
      <4> QED BY <4>1, <4>2, <4>3, <1>c, <1>e
    <3> QED BY <2>2, <2>3, <3>1 DEF EnqueueRunning, drains
  <2>4. CASE EnqueueStart(i)
    <3>1. CASE spc' = [spc EXCEPT ![i] = "starting"]
      <4>1. UNCHANGED <<dpc, djob, waiting>> /\ (Busily(j) => Busily(j)')
        BY <1>0, <2>4, <3>1 DEF EnqueueStart, drains, queue
      <4> QED BY <4>1, <1>c, <1>e
    <3> QED BY <2>2, <2>4, <3>1 DEF EnqueueStart, drains, queue
  <2>5. CASE EnqueueStarted(i)
    <3>1. CASE waiting' = Append(waiting, i)
      <4>1. Range(waiting') = Range(waiting) \union {i}
        BY <1>0, <3>1, AppendList
      <4>2. i # j => (Busily(j) => Busily(j)')
        BY <1>0, <2>5 DEF EnqueueStarted, Leave
      <4>3. ~running
        BY <2>5 DEF EnqueueStarted, QueueInv
      <4>4. ~Runs(j) /\ ~Drained(j)
        BY <1>0, <4>3 DEF OneDrain, Runs, Drained
      <4> QED BY <4>1, <4>2, <4>4, <1>c
    <3> QED BY <2>2, <2>5, <3>1 DEF EnqueueStarted
  <2> QED BY <1>7, <2>1, <2>3, <2>4, <2>5 DEF SubmitStep
<1>8. ASSUME NEW g \in Generations, Inner(g) PROVE Found(j)
  <2>1. /\ UNCHANGED <<spc, waiting, djob>>
        /\ \E x \in Executing : dpc' = [dpc EXCEPT ![g] = x]
    BY <1>8, InnerStep DEF submits, queue
  <2>2. \/ dpc[g] \in {"over", "finish"} \/ dpc'[g] \in Handling
        \/ djob[g] = j => status'[j] \notin Active \/ j \in unreported'
    BY <1>8, <2>1, AppStep, InnerEnds DEF Settled
  <2>3. /\ Runs(j) => Runs(j)' \/ Settled(j)'
        /\ Drained(j) => Drained(j)' \/ Settled(j)'
    <3>1. \A h \in Generations \ {g} : dpc'[h] = dpc[h] /\ djob'[h] = djob[h]
      BY <1>0, <2>1
    <3>2. CASE djob[g] = j /\ dpc'[g] \in Handling
      <4>1. djob'[g] = j /\ dpc'[g] \in Executing \ {"over", "finish"}
        BY <1>0, <2>1, <3>2
      <4> QED BY <3>2, <4>1 DEF Runs, Drained
    <3>3. CASE dpc[g] \in {"over", "finish"}
      BY <1>0, <1>d, <3>1, <3>3
    <3>4. CASE djob[g] # j
      BY <1>d, <3>1, <3>4
    <3>5. CASE Settled(j)'
      BY <3>5
    <3> QED BY <2>2, <3>2, <3>3, <3>4, <3>5 DEF Settled
  <2> QED BY <2>1, <2>3, <1>c
<1>9. ASSUME NEW g \in Generations, DrainEmpty(g) PROVE Found(j)
  <2>1. /\ UNCHANGED <<spc, waiting, djob>> /\ dpc[g] = "drain"
        /\ \A h \in Generations \ {g} : dpc'[h] = dpc[h]
    BY <1>0, <1>9 DEF DrainEmpty, submits
  <2> QED BY <1>0, <2>1, <1>c, <1>d
<1>10. ASSUME NEW g \in Generations, DrainPop(g) PROVE Found(j)
  <2>1. /\ UNCHANGED spc /\ dpc[g] = "drain"
        /\ Head(waiting) \in Jobs
        /\ Range(waiting) = Range(Tail(waiting)) \union {Head(waiting)}
    BY <1>0, <1>10, TailList DEF DrainPop, submits
  <2>2. CASE /\ waiting' = Tail(waiting)
             /\ djob' = [djob EXCEPT ![g] = Head(waiting)]
             /\ dpc' = [dpc EXCEPT ![g] = "dequeue"]
    <3>1. /\ dpc'[g] = "dequeue" /\ djob'[g] = Head(waiting)
          /\ \A h \in Generations \ {g} : dpc'[h] = dpc[h] /\ djob'[h] = djob[h]
      BY <1>0, <2>2
    <3>2. Head(waiting) = j => Drained(j)'
      BY <1>0, <3>1 DEF Drained
    <3> QED BY <1>0, <1>c, <1>d, <2>1, <2>2, <3>1, <3>2
  <2>3. CASE StopFailed(Head(waiting)) /\ UNCHANGED <<djob, dpc>>
    BY <2>1, <2>3, <1>c, <1>e, <1>f
  <2> QED BY <1>10, <2>2, <2>3 DEF DrainPop
<1>11. ASSUME NEW g \in Generations, Finish(g) PROVE Found(j)
  <2>1. /\ UNCHANGED spc /\ dpc[g] = "finish"
        /\ \A h \in Generations \ {g} : dpc'[h] = dpc[h] /\ djob'[h] = djob[h]
    BY <1>0, <1>11 DEF Finish, submits
  <2>2. UNCHANGED waiting \/ StopFailed(NoJob)
    BY <1>11 DEF Finish
  <2> QED BY <1>0, <2>1, <2>2, <1>c, <1>d, <1>f
<1>12. ASSUME NEW g \in Generations, Watch(g) PROVE Found(j)
  <2>1. UNCHANGED <<spc, dpc, djob>> /\ (UNCHANGED waiting \/ StopFailed(active))
    BY <1>12 DEF Watch, submits
  <2> QED BY <2>1, <1>c, <1>e, <1>f DEF Typed
<1> QED
  BY <1>6, <1>7, <1>8, <1>9, <1>10, <1>11, <1>12, TaskSteps

-----------------------------------------------------------------------------
(* Types.  That there is a thread for every generation needs an argument:  *)
(* each generation has ended the submission that started it.               *)

Submissions == {j \in Jobs : spc[j] = "done"}

GenerationInv == generation \in Nat /\ generation <= Cardinality(Submissions)

(* What Typed and TasksTyped leave of TypeOK. *)
RestTyped ==
  /\ expected \in [Jobs -> Nat]
  /\ revision \in [Targets -> Nat]
  /\ gone \subseteq Projects
  /\ app \in {"closed", "open"} /\ crashes \in Nat
  /\ {broke, cpu} \subseteq BOOLEAN
  /\ watching \subseteq Generations

(* A generation is started by the end of a submission. *)
LEMMA GenerationStep ==
  ASSUME Typed, GenerationInv, [Next]_vars
  PROVE  GenerationInv' /\ generation' \in 0..Cardinality(Jobs)
<1> DEFINE Goal == GenerationInv' /\ generation' \in 0..Cardinality(Jobs)
<1>0. /\ IsFiniteSet(Jobs) /\ spc \in [Jobs -> {"idle", "create", "enqueue", "starting", "done"}]
      /\ generation \in Nat /\ generation <= Cardinality(Submissions)
  BY MobileAssumption DEF MobileAssumption, Typed, GenerationInv
<1>a. /\ IsFiniteSet(Submissions) /\ IsFiniteSet(Submissions')
      /\ Cardinality(Submissions) \in Nat /\ Cardinality(Submissions') \in Nat
      /\ Cardinality(Jobs) \in Nat
      /\ Cardinality(Submissions') <= Cardinality(Jobs)
  <2>1. Submissions \subseteq Jobs /\ Submissions' \subseteq Jobs
    BY DEF Submissions
  <2> QED BY <1>0, <2>1, FS_Subset, FS_CardinalityType
<1>b. ASSUME UNCHANGED generation, Submissions \subseteq Submissions' PROVE Goal
  <2>1. Cardinality(Submissions) <= Cardinality(Submissions')
    BY <1>a, <1>b, FS_Subset
  <2>2. generation' = generation /\ generation <= Cardinality(Submissions')
    BY <1>0, <1>a, <1>b, <2>1
  <2> QED BY <1>0, <1>a, <2>2 DEF GenerationInv
<1>1. ASSUME NEW j \in Jobs, EnqueueStarted(j) PROVE Goal
  <2>1. spc[j] = "starting" /\ spc' = [spc EXCEPT ![j] = "done"]
    BY <1>1 DEF EnqueueStarted, Leave
  <2>2. Submissions' = Submissions \union {j} /\ j \notin Submissions
    BY <1>0, <2>1 DEF Submissions
  <2>3. Cardinality(Submissions') = Cardinality(Submissions) + 1
    BY <1>a, <2>2, FS_AddElement
  <2>4. generation' = generation + 1 \/ generation' = generation
    BY <1>1 DEF EnqueueStarted
  <2>5. generation' \in Nat /\ generation' <= Cardinality(Submissions')
    BY <1>0, <1>a, <2>3, <2>4
  <2> QED BY <1>a, <2>5 DEF GenerationInv
<1>2. ASSUME NEW j \in Jobs,
             Submit(j) \/ Create(j) \/ EnqueueRunning(j) \/ EnqueueStart(j)
      PROVE  Goal
  <2>1. UNCHANGED generation
    BY <1>2 DEF Submit, Create, EnqueueRunning, EnqueueStart, queue
  <2>2. Submissions \subseteq Submissions'
    BY <1>0, <1>2 DEF Submit, Create, EnqueueRunning, EnqueueStart, Leave, Submissions
  <2> QED BY <2>1, <2>2, <1>b
<1>3. ASSUME Die PROVE Goal
  BY <1>0, <1>3, <1>b DEF Die, Submissions
<1>4. ASSUME UNCHANGED <<spc, generation>> PROVE Goal
  BY <1>4, <1>b DEF Submissions
<1> SUFFICES Goal
  OBVIOUS
<1> HIDE DEF Goal
<1> USE DEF submits, queue
<1>5. ASSUME NEW g \in Generations, DrainStep(g) PROVE Goal
  BY <1>5, <1>4 DEF DrainStep, DrainEmpty, DrainPop, Dequeue, Publish, Settle,
     EndCancelled, EndFailed, DropToken, Finish
<1>6. ASSUME NEW g \in Generations, Work(g) \/ Watch(g) PROVE Goal
  BY <1>6, <1>4 DEF Work, Watch
<1>7. ASSUME NEW j \in Jobs, Cancel(j) \/ CancelSignal(j) PROVE Goal
  BY <1>7, <1>4 DEF Cancel, CancelSignal
<1>8. ASSUME NEW t \in Targets, Edit(t) PROVE Goal
  BY <1>8, <1>4 DEF Edit
<1>9. ASSUME NEW q \in Projects, DeleteProject(q) PROVE Goal
  BY <1>9, <1>4 DEF DeleteProject
<1>10. ASSUME Open \/ ServiceStarts \/ ServiceFails \/ UNCHANGED vars PROVE Goal
  BY <1>10, <1>4 DEF Open, ServiceStarts, ServiceFails, vars
<1> QED
  BY <1>1, <1>2, <1>3, <1>5, <1>6, <1>7, <1>8, <1>9, <1>10 DEF Next, SubmitStep

(* The commands, edits and counters keep their types. *)
LEMMA RestTypedStep ==
  ASSUME Typed, Accounts, GenerationInv, RestTyped, [Next]_vars
  PROVE  /\ RestTyped'
         /\ cancelRequested' \in [Jobs -> BOOLEAN]
         /\ cpc' \in [Jobs -> {"idle", "signal", "done"}]
<1> DEFINE Goal == /\ RestTyped'
                   /\ cancelRequested' \in [Jobs -> BOOLEAN]
                   /\ cpc' \in [Jobs -> {"idle", "signal", "done"}]
<1>0. /\ cancelRequested \in [Jobs -> BOOLEAN]
      /\ cpc \in [Jobs -> {"idle", "signal", "done"}]
  BY DEF Accounts, TasksTyped
<1>a. ASSUME UNCHANGED <<cancelRequested, expected, revision, gone, app, crashes, cpc, watching>>,
             broke' \in BOOLEAN, cpu' \in BOOLEAN
      PROVE  Goal
  BY <1>0, <1>a DEF RestTyped
<1>b. broke \in BOOLEAN /\ cpu \in BOOLEAN
  BY DEF RestTyped
<1> SUFFICES Goal
  OBVIOUS
<1> USE DEF jobs, drains, guard
<1>1. ASSUME NEW j \in Jobs, Submit(j) PROVE Goal
  BY <1>1, <1>a, <1>b DEF Submit
<1>2. ASSUME NEW j \in Jobs, Create(j) PROVE Goal
  <2>1. expected' = [expected EXCEPT ![j] = revision[TargetOf[j]]]
        /\ UNCHANGED <<cancelRequested, revision, gone, app, crashes, cpc, watching, broke, cpu>>
    BY <1>2 DEF Create
  <2>2. revision[TargetOf[j]] \in Nat
    BY MobileAssumption DEF MobileAssumption, RestTyped
  <2> QED BY <1>0, <2>1, <2>2 DEF RestTyped
<1>3. ASSUME NEW j \in Jobs, EnqueueRunning(j) \/ EnqueueStart(j) PROVE Goal
  BY <1>3, <1>a, <1>b DEF EnqueueRunning, EnqueueStart, Guard!Start, Guard!Stop
<1>4. ASSUME NEW j \in Jobs, EnqueueStarted(j) PROVE Goal
  <2>1. watching' \subseteq Generations
    <3>1. generation' \in 0..Cardinality(Jobs) /\ generation \in Nat
      BY GenerationStep DEF GenerationInv
    <3>2. \/ watching' = watching \union {generation'} /\ generation' = generation + 1
          \/ UNCHANGED watching
      BY <1>4 DEF EnqueueStarted
    <3>3. generation' = generation + 1 => generation' \in Generations
      BY <3>1, MobileAssumption, FS_CardinalityType DEF Generations, MobileAssumption
    <3> QED BY <3>2, <3>3 DEF RestTyped
  <2>2. UNCHANGED <<cancelRequested, expected, revision, gone, app, crashes, cpc, broke>>
        /\ cpu' \in BOOLEAN
    BY <1>4, <1>b DEF EnqueueStarted, Guard!Stop
  <2> QED BY <1>0, <1>b, <2>1, <2>2 DEF RestTyped
<1> HIDE DEF Goal
<1>5. ASSUME NEW g \in Generations, Inner(g) PROVE Goal
  <2>1. CASE UNCHANGED revision
    BY <1>5, <2>1, <1>a, <1>b DEF Inner, Dequeue, Work, Publish, Settle,
       EndCancelled, EndFailed, DropToken
  <2>2. CASE Publish(g) /\ revision' = [revision EXCEPT ![TargetOf[djob[g]]] = @ + 1]
    <3>1. revision' \in [Targets -> Nat]
      <4>1. \A n \in Nat : n + 1 \in Nat
        OBVIOUS
      <4> HIDE DEF Goal
      <4> QED BY <2>2, <4>1 DEF RestTyped
    <3> QED BY <1>0, <2>2, <3>1 DEF Goal, Publish, RestTyped
  <2> QED
    BY <1>5, <2>1, <2>2 DEF Inner, Dequeue, Work, Publish, Settle, EndCancelled,
       EndFailed, DropToken
<1>6. ASSUME NEW g \in Generations, DrainEmpty(g) \/ DrainPop(g) \/ Finish(g) PROVE Goal
  BY <1>6, <1>a, <1>b DEF DrainEmpty, DrainPop, Finish, StopFailed, Guard!Stop, Guard!SetActive
<1>7. ASSUME NEW g \in Generations, Watch(g) PROVE Goal
  <2>1. /\ watching' = watching \/ watching' = watching \ {g}
        /\ UNCHANGED <<cancelRequested, expected, revision, gone, app, crashes, cpc, broke>>
        /\ cpu' \in BOOLEAN
    BY <1>7, <1>b DEF Watch, StopFailed, Guard!Stop
  <2> QED BY <1>0, <1>b, <2>1 DEF Goal, RestTyped
<1>8. ASSUME NEW j \in Jobs, Cancel(j) PROVE Goal
  BY <1>0, <1>8 DEF Goal, Cancel, RestTyped
<1>9. ASSUME NEW j \in Jobs, CancelSignal(j) PROVE Goal
  BY <1>0, <1>9 DEF Goal, CancelSignal, RestTyped
<1>10. ASSUME NEW t \in Targets, Edit(t) PROVE Goal
  BY <1>0, <1>10 DEF Goal, Edit, RestTyped
<1>11. ASSUME NEW q \in Projects, DeleteProject(q) PROVE Goal
  BY <1>0, <1>11 DEF Goal, DeleteProject, RestTyped
<1>12. ASSUME Die PROVE Goal
  <2>1. /\ UNCHANGED <<cancelRequested, expected, revision, gone>>
        /\ app' = "closed" /\ crashes' = crashes + 1 /\ watching' = {}
        /\ broke' = FALSE /\ cpu' = FALSE
        /\ cpc' = [j \in Jobs |-> IF cpc[j] = "idle" THEN "idle" ELSE "done"]
    BY <1>12 DEF Die, Guard!Stop
  <2>2. cpc' \in [Jobs -> {"idle", "signal", "done"}]
    BY <2>1
  <2>3. crashes' \in Nat
    BY <2>1 DEF RestTyped
  <2>4. RestTyped'
    BY <2>1, <2>3, Zenon DEF RestTyped
  <2> QED BY <1>0, <2>1, <2>2, <2>4 DEF Goal
<1>13. ASSUME Open PROVE Goal
  BY <1>0, <1>13 DEF Goal, Open, RestTyped
<1>14. ASSUME ServiceStarts \/ ServiceFails \/ UNCHANGED vars PROVE Goal
  BY <1>14, <1>a, <1>b DEF ServiceStarts, ServiceFails, Guard!Acknowledge, Guard!Fail, vars
<1>15. ASSUME NEW j \in Jobs, SubmitStep(j) PROVE Goal
  BY <1>15, <1>1, <1>2, <1>3, <1>4 DEF SubmitStep
<1> QED
  BY <1>5, <1>6, <1>7, <1>8, <1>9, <1>10, <1>11, <1>12, <1>13, <1>14, <1>15
     DEF Next, DrainStep, Inner

AllInv == IInv /\ Accounts /\ GenerationInv /\ RestTyped

(* Both invariants hold at the start and after every step. *)
LEMMA AllInductive == Spec => []AllInv
<1>1. Init => AllInv
  <2> SUFFICES ASSUME Init PROVE AllInv
    OBVIOUS
  <2>1. IInv
    BY InitInv
  <2>2. TasksTyped
    BY DEF Init, TasksTyped
  <2>3. AskedInv /\ TokenInv /\ RunInv /\ JobsAccounted
    BY DEF Init, AskedInv, TokenInv, RunInv, JobsAccounted
  <2>4. TaskInv /\ EndInv
    <3>1. Range(waiting) = {} /\ Task(active) = {}
      BY DEF Init, Range, Task
    <3>2. \A g \in Generations : dpc[g] \notin Executing
      BY DEF Init, Executing
    <3> QED BY <3>1, <3>2 DEF TaskInv, EndInv, Executing
  <2>5. GenerationInv
    <3>1. Submissions = {}
      BY DEF Init, Submissions
    <3> QED BY <3>1, FS_EmptySet DEF Init, GenerationInv
  <2>6. RestTyped
    BY DEF Init, Guard!Init, RestTyped
  <2> QED BY <2>1, <2>2, <2>3, <2>4, <2>5, <2>6 DEF AllInv, Accounts
<1>2. AllInv /\ [Next]_vars => AllInv'
  <2> SUFFICES ASSUME AllInv, [Next]_vars
               PROVE  AllInv'
    OBVIOUS
  <2>1. /\ Typed /\ AdmissionInv /\ OneDrain /\ QueueInv
        /\ Accounts /\ GenerationInv /\ RestTyped
    BY DEF AllInv, IInv
  <2>2. IInv'
    BY NextInv DEF AllInv
  <2>3. TasksTyped'
    BY <2>1, UnreportedStep, TokenStep, TaskStep, RestTypedStep DEF TasksTyped
  <2>4. Accounts'
    BY <2>1, <2>3, AskedStep, TokenStep, TaskStep, EndStep, AccountStep DEF Accounts
  <2>5. GenerationInv' /\ RestTyped'
    BY <2>1, GenerationStep, RestTypedStep
  <2> QED BY <2>2, <2>4, <2>5 DEF AllInv
<1> QED BY <1>1, <1>2, PTL DEF Spec

(* No active row is forgotten: its task waits, executes or is about to be  *)
(* enqueued, unless the database refused to write its end                  *)
(* (mobile_backend/processing_queue.rs).                                   *)
THEOREM NoJobForgotten == Spec => []JobsAccounted
<1>1. AllInv => JobsAccounted
  BY DEF AllInv, Accounts
<1> QED BY <1>1, AllInductive, PTL

(* Rows, queue and threads keep their types; the generations are no more   *)
(* than the jobs.                                                          *)
THEOREM TypeCorrect == Spec => []TypeOK
<1>1. AllInv => TypeOK
  <2> SUFFICES ASSUME AllInv PROVE TypeOK
    OBVIOUS
  <2>1. RowsType
    BY DEF AllInv, IInv, Typed, Accounts, TasksTyped, RestTyped, RowsType
  <2>2. SubmitsType
    BY DEF AllInv, IInv, Typed, Accounts, TasksTyped, SubmitsType
  <2>3. generation \in 0..Cardinality(Jobs)
    <3>1. IsFiniteSet(Jobs) /\ Submissions \in SUBSET Jobs
      BY MobileAssumption DEF MobileAssumption, Submissions
    <3>2. /\ Cardinality(Submissions) <= Cardinality(Jobs)
          /\ Cardinality(Submissions) \in Nat /\ Cardinality(Jobs) \in Nat
      BY <3>1, FS_Subset, FS_CardinalityType
    <3> QED BY <3>2 DEF AllInv, GenerationInv
  <2>4. QueueType
    BY <2>3 DEF AllInv, IInv, Typed, Accounts, TasksTyped, RestTyped, QueueType
  <2> QED BY <2>1, <2>2, <2>4 DEF TypeOK
<1> QED BY <1>1, AllInductive, PTL
=============================================================================
