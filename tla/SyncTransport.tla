--------------------------- MODULE SyncTransport ---------------------------
(***************************************************************************)
(* A sync run of the desktop around its import: registration, the power    *)
(* lease with the watcher of the platform's time limit, the connection,    *)
(* the two halves of the protocol and the result; and beside it the        *)
(* lifecycle events that interrupt a run and the exit of the application.  *)
(*                                                                         *)
(* The initiator (sync_now) imports and then serves the peer; the          *)
(* responder (handle_incoming_session) serves first.                       *)
(***************************************************************************)
EXTENDS ArtifactBatch

VARIABLES role,      \* "initiator" or "responder"
          phase,     \* of the run's thread
          verdict,   \* "none", "ok", "interrupted", "error"
          abort,     \* a lifecycle event has the run's connection to close
          attached,  \* the connection is known to the active run
          lease,     \* the transfer lease: baseline, what the thread holds, in the table
          held,      \* leases counted by the native power state
          epoch,     \* platform timeouts so far
          overran,   \* the platform's limit has hit the lease of this run
          exit       \* of the application: "no", "flagged", "drained", "power"

runVars == <<role, phase, verdict, abort, attached>>
powerVars == <<lease, held, epoch, overran, exit>>
vars == <<token, conn, faults, importVars, runVars, powerVars>>

Init ==
  /\ \E start \in Starts : ImportInit(start) /\ role = start.role
  /\ token = "clear" /\ conn = "none" /\ faults = 0
  /\ phase = "new" /\ verdict = "none" /\ abort = FALSE /\ attached = FALSE
  /\ lease = [baseline |-> 0, guard |-> FALSE, inTable |-> FALSE]
  /\ held = 0 /\ epoch = 0 /\ overran = FALSE /\ exit = "no"

-----------------------------------------------------------------------------
(* The power lease: ActiveTransferReservations *)

Go(from, to) == phase = from /\ phase' = to /\ UNCHANGED <<role, verdict, abort, attached>>

Register ==
  /\ Go("new", "reserve")
  /\ UNCHANGED <<token, conn, faults, importVars, powerVars>>

\* reserve: the epoch, then the flag.
ReadEpoch ==
  /\ Go("reserve", IF exit = "no" THEN "acquire" ELSE "connect")
  /\ lease' = [lease EXCEPT !.baseline = epoch]
  /\ UNCHANGED <<token, conn, faults, importVars, held, epoch, overran, exit>>

Acquire ==
  /\ Go("acquire", "insert")
  /\ lease' = [lease EXCEPT !.guard = TRUE] /\ held' = held + 1
  /\ UNCHANGED <<token, conn, faults, importVars, epoch, overran, exit>>

\* saturating_sub
\* Bug: the count of a cleared power state goes below zero.
MinusOne(n) == n - 1
Minus(n) == IF n = 0 THEN 0 ELSE n - 1

\* Under the lock of the table, the flag again.
\* Bug: the flag is not read again.
InsertAnyway ==
  /\ Go("insert", "connect")
  /\ lease' = [lease EXCEPT !.guard = FALSE, !.inTable = TRUE] /\ held' = held
  /\ UNCHANGED <<token, conn, faults, importVars, epoch, overran, exit>>

\* Bug: the epoch is read once the lease is held.
InsertAndRead ==
  /\ Go("insert", "connect")
  /\ lease' = [baseline |-> epoch, guard |-> FALSE, inTable |-> exit = "no"]
  /\ held' = IF exit = "no" THEN held ELSE Minus(held)
  /\ UNCHANGED <<token, conn, faults, importVars, epoch, overran, exit>>

Insert ==
  /\ Go("insert", "connect")
  /\ lease' = [lease EXCEPT !.guard = FALSE, !.inTable = exit = "no"]
  /\ held' = IF exit = "no" THEN held ELSE Minus(held)
  /\ UNCHANGED <<token, conn, faults, importVars, epoch, overran, exit>>

\* watch_timeout runs from the reservation to the end of the run.
Watching == phase \notin {"new", "reserve", "acquire", "insert", "over"}
WatchTimeout ==
  /\ Watching /\ token = "clear" /\ lease.inTable /\ epoch > lease.baseline
  /\ token' = "raised"
  /\ UNCHANGED <<conn, faults, importVars, runVars, powerVars>>

\* The reservation is dropped after the result is in the status.
Release ==
  /\ Go("release", "over")
  /\ held' = IF lease.inTable THEN Minus(held) ELSE held
  /\ lease' = [lease EXCEPT !.inTable = FALSE]
  /\ UNCHANGED <<token, conn, faults, importVars, epoch, overran, exit>>

-----------------------------------------------------------------------------
(* The run: run_sync_now, serve_incoming_session *)

Ends(v) == /\ phase' = "release" /\ verdict' = v
           /\ UNCHANGED <<role, abort, attached>>

\* An error of the initiator is an interruption if one is known by then; of
\* the responder, if one is known when it returns.
Failed == Ends(IF Told THEN "interrupted" ELSE "error")

\* Preflight, peer, connection and authentication; only the initiator asks
\* for an interruption before and after them.
Connect ==
  /\ phase = "connect"
  /\ \/ /\ conn = "none" /\ ~(role = "initiator" /\ Told)
        /\ conn' = "up" /\ phase' = "attach" /\ UNCHANGED <<role, verdict, abort, attached, faults>>
     \/ /\ IF Told /\ role = "initiator" THEN UNCHANGED faults ELSE Fault
        /\ Failed /\ UNCHANGED conn
  /\ UNCHANGED <<token, importVars, powerVars>>

Attach ==
  /\ phase = "attach"
  /\ attached' = TRUE /\ phase' = "exchange"
  /\ UNCHANGED <<role, verdict, abort, token, conn, faults, importVars, powerVars>>

Exchange ==
  /\ phase = "exchange"
  /\ \/ /\ Up /\ ~(role = "initiator" /\ Told)
        /\ phase' = IF role = "initiator" THEN "import" ELSE "serve"
        /\ UNCHANGED <<role, verdict, abort, attached>>
     \/ (~Up \/ (role = "initiator" /\ Told)) /\ Failed
  /\ UNCHANGED <<token, conn, faults, importVars, powerVars>>

\* stage_remote_manifest_artifacts runs within the phase.
Importing ==
  /\ phase = "import"
  /\ Session
  /\ UNCHANGED <<runVars, powerVars>>

\* After the import: an interruption, or PhaseDone, which may not go out.
ImportDone ==
  /\ phase = "import" /\ step = "after"
  /\ \/ /\ Up /\ ~(role = "initiator" /\ Told)
        /\ phase' = IF role = "initiator" THEN "serve" ELSE "finish"
        /\ UNCHANGED lane
     \/ /\ ~Up \/ (role = "initiator" /\ Told)
        /\ phase' = "discard" /\ lane' = [lane EXCEPT !.off = TRUE]
  /\ UNCHANGED <<role, verdict, abort, attached, token, conn, faults, step, size, book, window,
                 batch, stream, peer, jobs, scratch, staged, applied, missing, results, powerVars>>

\* serve_artifact_requests_until_done, as seen from here.
Serve ==
  /\ phase = "serve"
  /\ \/ /\ Up /\ ~Told
        /\ phase' = IF role = "initiator" THEN "finish" ELSE "import"
        /\ UNCHANGED <<role, verdict, abort, attached, faults, lane>>
     \/ /\ IF Told \/ ~Up THEN UNCHANGED faults ELSE Fault
        /\ IF role = "initiator"
           THEN /\ phase' = "discard" /\ lane' = [lane EXCEPT !.off = TRUE]
                /\ UNCHANGED <<role, verdict, abort, attached>>
           ELSE Failed /\ UNCHANGED lane
  /\ UNCHANGED <<token, conn, step, size, book, window, batch, stream, peer, jobs, scratch,
                 staged, applied, missing, results, powerVars>>

\* finish_staged_remote_import, for the result or for a failure; whoever was
\* told of an interruption by now reports that.
Finish ==
  /\ phase \in {"finish", "discard"}
  /\ FinishImport(phase = "finish")
  /\ Ends(IF Told THEN "interrupted" ELSE IF phase = "finish" THEN "ok" ELSE "error")
  /\ UNCHANGED <<token, conn, faults, powerVars>>

-----------------------------------------------------------------------------
(* Around the run *)

Registered == phase \notin {"new", "release", "over"}

\* record_lifecycle_event: the active run, with its connection if it has one.
LifecycleEvent ==
  /\ Registered /\ Fault
  /\ token' = IF Cancelled THEN token ELSE "raised"
  /\ abort' = (abort \/ attached)
  /\ UNCHANGED <<conn, importVars, role, phase, verdict, attached, powerVars>>

\* RunCancellationToken::interrupt stores the reason after the flag.
Tell ==
  /\ token = "raised" /\ token' = "told"
  /\ UNCHANGED <<conn, faults, importVars, runVars, powerVars>>

AbortConnection ==
  /\ abort /\ Told
  /\ abort' = FALSE /\ conn' = "down"
  /\ UNCHANGED <<token, faults, importVars, role, phase, verdict, attached, powerVars>>

Disconnect ==
  /\ Up /\ Fault /\ conn' = "down"
  /\ UNCHANGED <<token, importVars, runVars, powerVars>>

\* The platform's limit ends the data sync service: while the run's lease is
\* held, or under an earlier lease when the run's is still to be acquired.
PlatformTimeout ==
  /\ held > 0 \/ phase = "acquire"
  /\ Fault
  /\ epoch' = epoch + 1 /\ overran' = (overran \/ held > 0)
  /\ UNCHANGED <<token, conn, importVars, runVars, lease, held, exit>>

\* RunEvent::Exit: the transport's flag, its table, the power state.
Exit ==
  /\ \/ /\ exit = "no" /\ Fault /\ exit' = "flagged" /\ UNCHANGED <<lease, held>>
     \/ /\ exit = "flagged" /\ exit' = "drained" /\ UNCHANGED faults
        /\ lease' = [lease EXCEPT !.inTable = FALSE]
        /\ held' = IF lease.inTable THEN Minus(held) ELSE held
     \/ /\ exit = "drained" /\ exit' = "power" /\ held' = 0 /\ UNCHANGED <<faults, lease>>
  /\ UNCHANGED <<token, conn, importVars, runVars, epoch, overran>>

Beside == /\ Peer \/ Lane \/ \E f \in Files : Receive(f)
          /\ UNCHANGED <<runVars, powerVars>>

Over == phase = "over" /\ UNCHANGED vars

Next ==
  \/ Register \/ ReadEpoch \/ Acquire \/ Insert \/ WatchTimeout \/ Release
  \/ Connect \/ Attach \/ Exchange \/ Tell \/ Beside \/ Importing \/ ImportDone \/ Serve
  \/ Finish \/ LifecycleEvent \/ AbortConnection \/ Disconnect \/ PlatformTimeout
  \/ Exit \/ Over

Spec == Init /\ [][Next]_vars

\* The threads of the program and of the peer keep running.  What takes from
\* the allowance of disturbances need not happen.
FairSpec == Spec /\ WF_vars(faults' = faults /\ Next)

-----------------------------------------------------------------------------
TypeOK ==
  /\ token \in {"clear", "raised", "told"} /\ conn \in {"none", "up", "down"}
  /\ faults \in 0..MaxFaults
  /\ step \in {"plan", "discover", "request", "batch", "drain", "enqueue", "after"}
  /\ window.active \subseteq Files /\ Range(window.queue) \subseteq Files
  /\ stream \in [Files -> {"none", "open", "reading", "received", "failed", "unread", "cut",
                       "handled"}]
  /\ Len(lane.queue) <= QueueCap /\ Len(lane.tasks) <= ApplyMax
  /\ lane.work \in {"idle", "do", "skip", "dead"}
  /\ scratch \subseteq Files /\ staged \in [Hashes -> SUBSET Files]
  /\ missing \union applied \subseteq All /\ results \in [All -> Nat]
  /\ phase \in {"new", "reserve", "acquire", "insert", "connect", "attach", "exchange",
                "import", "serve", "finish", "discard", "release", "over"}
  /\ verdict \in {"none", "ok", "interrupted", "error"}
  /\ held \in 0..1 /\ epoch \in 0..MaxFaults

\* A project is handed to the backend only when all it needs is staged, and
\* an import whose batch broke applies nothing: whatever was received, lost,
\* cleaned up after another project, or reported late.
AppliedIsStaged == missing = {} /\ (batch.broken => applied = {})

\* Received files never take more than the budget, and none is left behind
\* by a run whose write lane lived.
ScratchBounded ==
  /\ Bytes(scratch) <= ByteBudget
  /\ phase \in {"release", "over"} /\ ~Dead => scratch = {}

\* No project is reported twice, and a run that reached its end and that
\* nobody interrupted reports every project that was offered and every
\* deletion that the plan names, whichever of its parts failed.
OneResultEach ==
  /\ \A p \in All : results[p] <= 1
  /\ verdict = "ok" /\ ~Cancelled =>
       \A p \in Range(Projects) \union Range(book.tombs) : results[p] = 1

\* The lease of a run ends with it, and the exit of the application ends
\* every lease, also the one that was acquired while the table was drained.
NoLeaseOutlives ==
  (phase = "over" \/ (exit = "drained" /\ phase \notin {"acquire", "insert"})) => held = 0

\* The platform's limit on a lease that a run holds is beyond the epoch with
\* which its watcher compares.
TimeoutNoticed == overran /\ lease.inTable => epoch > lease.baseline

\* A run with a live write lane ends: neither the credit, the lane's queue,
\* the streams nor the peer wait for each other for ever.
Completes == [](~Dead) => <>(phase = "over")
=============================================================================
