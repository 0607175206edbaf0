---------------------------- MODULE JobExecution ----------------------------
(***************************************************************************)
(* What the job runner of apps/backend promises about handlers, whatever   *)
(* the interleaving of requests, cancellations, the worker thread and      *)
(* restarts: a handler only runs for a job that was accepted, one handler  *)
(* runs at a time, and no job's handler is ever started twice.             *)
(***************************************************************************)

CONSTANT Jobs

VARIABLES
  accepted,     \* jobs whose row was committed at some time
  started,      \* jobs whose handler was started
  executing     \* jobs whose handler is executing now

vars == <<accepted, started, executing>>

Init ==
  /\ accepted = {}
  /\ started = {}
  /\ executing = {}

(* A request commits the rows of one or more jobs. *)
Accept(J) ==
  /\ J \subseteq Jobs \ accepted
  /\ accepted' = accepted \union J
  /\ UNCHANGED <<started, executing>>

(* The worker starts a handler. *)
Begin(j) ==
  /\ executing = {}
  /\ j \in accepted \ started
  /\ started' = started \union {j}
  /\ executing' = {j}
  /\ UNCHANGED accepted

(* The handler returns, raises, or dies with its process. *)
End ==
  /\ executing' = {}
  /\ UNCHANGED <<accepted, started>>

Next ==
  \/ \E J \in SUBSET Jobs : Accept(J)
  \/ \E j \in Jobs : Begin(j)
  \/ End

Spec == Init /\ [][Next]_vars
=============================================================================
