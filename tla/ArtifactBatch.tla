--------------------------- MODULE ArtifactBatch ---------------------------
(***************************************************************************)
(* One import of a sync run over Iroh: the projects that a peer offered    *)
(* are planned, the artifacts they need arrive in a batch of streams under *)
(* credit, and what has arrived is staged and then applied.                *)
(*                                                                         *)
(* Five parties run side by side: the session thread (Plan .. Enqueue),    *)
(* one thread per stream (Receive), the backend write lane (Lane..), the   *)
(* peer's session (Peer..), and whoever interrupts the run, who raises the *)
(* cancellation flag before the reason can be read (in SyncTransport).     *)
(*                                                                         *)
(* A disturbance (a failure of the peer, a disk, the backend or a timeout) *)
(* is taken from one allowance; every other step is the program's own.     *)
(***************************************************************************)
EXTENDS Integers, FiniteSetsExt, SequencesExt, Lists

CONSTANTS Projects,      \* the offered projects, in manifest order
          Tombstones,    \* the offered deletions, in order
          Requests,      \* the artifacts to fetch, in the order they are requested
          Owner,         \* the project of an artifact
          Content,       \* the content hash of an artifact
          Starts,        \* the role of the run, the sizes of the artifacts, what earlier
                         \* imports left staged and for which artifacts
          StreamCap, ByteBudget, QueueCap, ApplyMax, MaxFaults

ASSUME CapsArePositive == {StreamCap, QueueCap, ApplyMax} \subseteq Nat \ {0}
ASSUME BoundsAreNatural == {ByteBudget, MaxFaults} \subseteq Nat

VARIABLES token,     \* the run's cancellation: "clear", "raised" (flag), "told" (reason)
          conn,      \* the connection: "none", "up", "down"
          faults,
          step,      \* the session thread within the import
          size,      \* the artifacts' sizes
          book,      \* what the session knows of the projects and artifacts
          window,    \* credit: artifacts without, artifacts with
          batch,     \* the peer ended the batch, the batch broke
          stream,    \* per artifact
          peer,      \* the peer's session: what it does, has to serve, streams; its inbox, its outbox
          lane,      \* the write lane: queued tasks, tasks in work, events, apply called off
          jobs,      \* tasks of the session: staging, to enqueue, enqueued, refused
          scratch,   \* received files on disk
          staged,    \* per content hash, the artifacts for which it is staged
          applied,   \* projects that the backend has applied
          missing,   \* projects refused because staged content was gone
          results    \* how many results the import reported of a project

importVars == <<step, size, book, window, batch, stream, peer, lane, jobs,
                scratch, staged, applied, missing, results>>

All        == Range(Projects) \union Range(Tombstones)
Files      == Range(Requests)
Hashes     == {Content[f] : f \in Files}
Needs(p)   == {f \in Files : Owner[f] = p}
Told       == token = "told"
Cancelled  == token # "clear"
Up         == conn = "up"
Dead       == lane.work = "dead"
Fault      == faults < MaxFaults /\ faults' = faults + 1
Weight(w, fs) == MapThenSumSet(LAMBDA f : w[f], fs)
Bytes(fs)  == Weight(size, fs)

\* A manifest lists each project, or its deletion, once, and what it needs;
\* sizes and staged references are of the artifacts and contents it lists.
ASSUME OffersAreDistinct ==
  /\ Projects \in Seq(All) /\ Tombstones \in Seq(All)
  /\ IsInjective(Projects) /\ IsInjective(Tombstones)
  /\ Range(Projects) \intersect Range(Tombstones) = {}
ASSUME RequestsAreOfProjects ==
  /\ Requests \in Seq(Files) /\ Owner \in [Files -> Range(Projects)]
  /\ Starts \subseteq [role : {"initiator", "responder"}, size : [Files -> Nat],
                      staged : [Hashes -> SUBSET Files]]

Books  == [left : Seq(All), awaited : SUBSET Files, spoiled : SUBSET All, done : SUBSET Files,
           ready : Seq(All), tombs : Seq(All)]
Stores == [staged : [Hashes -> SUBSET Files], applied : SUBSET All, missing : SUBSET All]

ImportInit(start) ==
  /\ size = start.size /\ staged = start.staged
  /\ step = "plan"
  /\ book = [left |-> <<>>, awaited |-> {}, spoiled |-> {}, done |-> {},
             ready |-> <<>>, tombs |-> <<>>]
  /\ window = [queue |-> <<>>, active |-> {}]
  /\ batch = [ended |-> FALSE, broken |-> FALSE]
  /\ stream = [f \in Files |-> "none"]
  /\ peer = [does |-> "idle", left |-> {}, sending |-> {}, inbox |-> <<>>, outbox |-> <<>>]
  /\ lane = [queue |-> <<>>, work |-> "idle", tasks |-> <<>>, events |-> <<>>, off |-> FALSE]
  /\ jobs = [staging |-> {}, next |-> <<>>, queued |-> {}, refused |-> {}]
  /\ scratch = {} /\ applied = {} /\ missing = {}
  /\ results = [p \in All |-> 0]

-----------------------------------------------------------------------------
(* Planning and discovery *)

\* A failed call is split down to the projects it fails for.
Plan ==
  /\ step = "plan"
  /\ IF Cancelled
     THEN /\ lane' = [lane EXCEPT !.off = TRUE] /\ step' = "after"
          /\ UNCHANGED <<faults, book, results>>
     ELSE /\ \E failed \in SUBSET All :
               /\ IF failed = {} THEN UNCHANGED faults ELSE Fault
               /\ results' = [p \in All |-> IF p \in failed THEN 1 ELSE 0]
               /\ book' = [book EXCEPT !.left = Keep(Projects \o Tombstones, All \ failed)]
          /\ step' = "discover" /\ UNCHANGED lane
  /\ UNCHANGED <<token, conn, size, window, batch, stream, peer, jobs, scratch, staged,
                 applied, missing>>

\* drain_ready_projects
Ready(b)     == {p \in Range(Projects) \ (Range(b.left) \union Range(b.ready)) :
                   results[p] = 0 /\ (p \in b.spoiled \/ Needs(p) \intersect b.awaited = {})}
WithReady(b) == [b EXCEPT !.ready = @ \o Keep(Projects, Ready(b))]

\* A deletion goes on only if the plan names it, too.
DiscoverOne(p, unreadable, named) ==
  IF p \in Range(Tombstones)
  THEN [book EXCEPT !.left = Tail(@), !.tombs = IF named THEN Append(@, p) ELSE @]
  ELSE LET lacking == {f \in Needs(p) : staged[Content[f]] = {}}
       IN WithReady([book EXCEPT !.left = Tail(@),
                                 !.awaited = @ \union (lacking \ unreadable),
                                 !.spoiled = IF unreadable = {} THEN @ ELSE @ \union {p}])

Discover ==
  /\ step = "discover"
  /\ IF book.left = <<>> \/ Cancelled
     THEN /\ lane' = [lane EXCEPT !.off = @ \/ book.left # <<>>] /\ step' = "request"
          /\ UNCHANGED <<faults, book>>
     ELSE /\ \E unreadable \in SUBSET Needs(Head(book.left)), named \in BOOLEAN :
               /\ IF unreadable = {} THEN UNCHANGED faults ELSE Fault
               /\ book' = DiscoverOne(Head(book.left), unreadable, named)
          /\ UNCHANGED <<step, lane>>
  /\ UNCHANGED <<token, conn, size, window, batch, stream, peer, jobs, scratch, staged,
                 applied, missing, results>>

-----------------------------------------------------------------------------
(* Credit and the books *)

\* grant_available: the longest prefix of the queue that fits.
\* Bug: files that wait for the write lane are not counted.
GrantBeyondStaging(q, active, staging) ==
  LET fits(n) == /\ Cardinality(active) + n <= StreamCap
                 /\ Bytes(active) + Bytes(Range(SubSeq(q, 1, n))) <= ByteBudget
      n == Max({k \in 0..Len(q) : fits(k)} \union {0})
  IN [give |-> Range(SubSeq(q, 1, n)), rest |-> SubSeq(q, n + 1, Len(q)),
      fails |-> active = {} /\ q # <<>> /\ size[Head(q)] > ByteBudget]

Grantable(q, active, staging) ==
  LET fits(n) == /\ Cardinality(active) + n <= StreamCap
                 /\ Bytes(active) + Bytes(staging) + Bytes(Range(SubSeq(q, 1, n))) <= ByteBudget
      n == Max({k \in 0..Len(q) : fits(k)} \union {0})
  IN [give |-> Range(SubSeq(q, 1, n)), rest |-> SubSeq(q, n + 1, Len(q)),
      fails |-> active = {} /\ q # <<>> /\ size[Head(q)] > ByteBudget]

\* send_available_iroh_batch_credit; the batch breaks when a file can never
\* fit or the credit cannot be sent.
GrantCredit(q, active, staging) ==
  LET g == Grantable(q, active, staging)
      lost == g.give # {} /\ ~Up
  IN /\ window' = [queue |-> g.rest, active |-> active \union (IF lost THEN {} ELSE g.give)]
     /\ peer' = IF g.give = {} \/ lost THEN peer
                ELSE [peer EXCEPT !.inbox = Append(@, g.give)]
     /\ batch' = [batch EXCEPT !.broken = @ \/ g.fails \/ lost]

\* record_transfer: an artifact counts once, whatever is said of it later.
Recorded(b, f, ok) ==
  IF f \in b.done THEN b
  ELSE WithReady([b EXCEPT !.done = @ \union {f}, !.awaited = @ \ {f},
                           !.spoiled = IF ok THEN @ ELSE @ \union {Owner[f]}])

\* What is still awaited fails; the reports of the lane are recorded in order.
AllFailed(b) == FoldBy([at \in Books \X Files |->
                          IF at[2] \in b.awaited THEN Recorded(at[1], at[2], FALSE) ELSE at[1]],
                       b, Requests)
AllRecorded(b, events) ==
  FoldBy([at \in Books \X Range(events) |->
            IF at[2].kind = "staged" THEN Recorded(at[1], at[2].of, at[2].ok) ELSE at[1]],
         b, events)

Tasks(b) == [i \in DOMAIN (b.ready \o b.tombs) |->
               [kind |-> "apply", of |-> (b.ready \o b.tombs)[i]]]

ToEnqueue(b) == /\ book' = b /\ step' = "enqueue"
                /\ jobs' = [jobs EXCEPT !.next = Tasks(b)]

-----------------------------------------------------------------------------
(* The batch *)

\* Nothing to fetch, or a run that is already called off.
SkipBatch ==
  /\ step = "request"
  /\ IF book.awaited = {} THEN ToEnqueue(book) /\ UNCHANGED lane
     ELSE /\ Cancelled
          /\ step' = "after" /\ lane' = [lane EXCEPT !.off = TRUE]
          /\ UNCHANGED <<book, jobs>>
  /\ UNCHANGED <<token, conn, faults, size, window, batch, stream, peer, scratch, staged,
                 applied, missing, results>>

\* The peer answers with a start, or the request fails for every artifact.
RequestBatch ==
  /\ step = "request" /\ book.awaited # {}
  /\ \/ /\ ~Cancelled /\ Up /\ UNCHANGED <<faults, lane, book, jobs>>
        /\ LET g == Grantable(Keep(Requests, book.awaited), {}, {})
           IN /\ window' = [queue |-> g.rest, active |-> g.give]
              /\ peer' = [peer EXCEPT !.does = "credit", !.left = book.awaited,
                                      !.inbox = IF g.give = {} THEN <<>> ELSE <<g.give>>]
              /\ batch' = [batch EXCEPT !.broken = g.fails]
        /\ step' = "batch"
     \/ /\ IF Told \/ ~Up THEN UNCHANGED faults ELSE Fault
        /\ ToEnqueue(AllFailed(book)) /\ lane' = [lane EXCEPT !.off = TRUE]
        /\ UNCHANGED <<window, peer, batch>>
  /\ UNCHANGED <<token, conn, size, stream, scratch, staged, applied, missing, results>>

Batching  == step = "batch" /\ ~batch.broken
Unhandled == {f \in Files : stream[f] \in {"reading", "received", "failed", "unread", "cut"}}
Accepted  == {f \in Files : stream[f] \notin {"none", "open"}}
Granted   == book.awaited \ Range(window.queue)

\* What breaks the batch: a reason to stop, the peer's abort, a lost
\* connection while the peer still has something to say, a watchdog.
BatchBreaks ==
  /\ Batching
  /\ \/ Told /\ UNCHANGED faults
     \/ ~batch.ended /\ peer.outbox = <<"abort">> /\ UNCHANGED faults
     \/ ~Up /\ (~batch.ended \/ ~(Granted \subseteq Accepted)) /\ UNCHANGED faults
     \/ (~batch.ended \/ ~(Granted \subseteq Accepted)) /\ Fault
  /\ batch' = [batch EXCEPT !.broken = TRUE]
  /\ UNCHANGED <<token, conn, step, size, book, window, stream, peer, lane, jobs, scratch,
                 staged, applied, missing, results>>

ReadEnd ==
  /\ Batching /\ ~batch.ended /\ Up /\ peer.outbox = <<"end">>
  /\ batch' = [batch EXCEPT !.ended = TRUE]
  /\ UNCHANGED <<token, conn, faults, step, size, book, window, stream, peer, lane, jobs,
                 scratch, staged, applied, missing, results>>

AcceptStream(f) ==
  /\ Batching /\ Up /\ stream[f] = "open"
  /\ stream' = [stream EXCEPT ![f] = "reading"] /\ scratch' = scratch \union {f}
  /\ UNCHANGED <<token, conn, faults, step, size, book, window, batch, peer, lane, jobs,
                 staged, applied, missing, results>>

\* handle_iroh_receive_result: hand a file to the write lane, which may be
\* full; then its credit is free.
HandleReceived(f) ==
  /\ Batching \/ step = "drain"
  /\ stream[f] = "received"
  /\ stream' = [stream EXCEPT ![f] = "handled"]
  /\ \/ /\ ~Dead /\ Len(lane.queue) < QueueCap
        /\ lane' = [lane EXCEPT !.queue = Append(@, [kind |-> "stage", of |-> f])]
        /\ jobs' = [jobs EXCEPT !.staging = @ \union {f}]
        /\ IF step = "drain" THEN UNCHANGED <<window, peer, batch>>
           ELSE GrantCredit(window.queue, window.active \ {f}, jobs.staging \union {f})
        /\ UNCHANGED <<book, scratch>>
     \/ /\ Dead
        /\ scratch' = scratch \ {f}
        /\ book' = Recorded(book, f, FALSE)
        /\ window' = [window EXCEPT !.active = @ \ {f}]
        /\ batch' = [batch EXCEPT !.broken = TRUE]
        /\ UNCHANGED <<lane, jobs, peer>>
  /\ UNCHANGED <<token, conn, faults, step, size, staged, applied, missing, results>>

\* A cancelled receive says nothing, nor does a stream whose header was not
\* read say of which artifact it was: that breaks the batch.
HandleFailed(f) ==
  /\ Batching \/ step = "drain"
  /\ stream[f] \in {"failed", "unread", "cut"}
  /\ stream' = [stream EXCEPT ![f] = "handled"]
  /\ book' = IF stream[f] = "failed" THEN Recorded(book, f, FALSE) ELSE book
  /\ IF stream[f] = "failed" /\ step # "drain"
     THEN GrantCredit(window.queue, window.active \ {f}, jobs.staging)
     ELSE /\ batch' = [batch EXCEPT !.broken = @ \/ stream[f] = "unread"]
          /\ UNCHANGED <<window, peer>>
  /\ UNCHANGED <<token, conn, faults, step, size, lane, jobs, scratch, staged, applied,
                 missing, results>>

\* drain_backend_write_events
Unreported == jobs.staging \ {e.of : e \in {x \in Range(lane.events) : x.kind = "staged"}}

\* Bug: no credit is granted when staging catches up.
TakeReportsOnly ==
  /\ Batching \/ step = "drain"
  /\ lane.events # <<>>
  /\ lane' = [lane EXCEPT !.events = <<>>]
  /\ jobs' = [jobs EXCEPT !.staging = Unreported]
  /\ book' = AllRecorded(book, lane.events)
  /\ UNCHANGED <<token, conn, faults, step, size, window, peer, batch, stream, scratch,
                 staged, applied, missing, results>>

TakeReports ==
  /\ Batching \/ step = "drain"
  /\ lane.events # <<>>
  /\ lane' = [lane EXCEPT !.events = <<>>]
  /\ jobs' = [jobs EXCEPT !.staging = Unreported]
  /\ book' = AllRecorded(book, lane.events)
  /\ IF step = "drain" THEN UNCHANGED <<window, peer, batch>>
     ELSE GrantCredit(window.queue, window.active, Unreported)
  /\ UNCHANGED <<token, conn, faults, step, size, stream, scratch, staged, applied,
                 missing, results>>

\* The loop is over; a broken batch is aborted and its connection closed.
CloseBatch ==
  /\ step = "batch"
  /\ \/ batch.broken
     \/ batch.ended /\ book.awaited = {} /\ Unhandled = {} /\ jobs.staging = {}
  /\ step' = "drain"
  /\ IF batch.broken
     THEN /\ lane' = [lane EXCEPT !.off = TRUE] /\ conn' = "down"
          /\ window' = [queue |-> <<>>, active |-> {}]
     ELSE UNCHANGED <<lane, conn, window>>
  /\ UNCHANGED <<token, faults, size, book, batch, stream, peer, jobs, scratch, staged,
                 applied, missing, results>>

\* The receive threads and the stage jobs are waited for; the rest has failed.
EndBatch ==
  /\ step = "drain" /\ Unhandled = {}
  /\ jobs.staging = {} \/ (Dead /\ lane.events = <<>>)
  /\ LET broken == batch.broken \/ jobs.staging # {}
     IN /\ batch' = [batch EXCEPT !.broken = broken]
        /\ lane' = [lane EXCEPT !.off = @ \/ broken]
  /\ ToEnqueue(AllFailed(book))
  /\ UNCHANGED <<token, conn, faults, size, window, stream, peer, scratch, staged, applied,
                 missing, results>>

\* enqueue: one task at a time, for the lane may be full, or gone.
Enqueue ==
  /\ step = "enqueue"
  /\ \/ /\ jobs.next # <<>> /\ ~Dead /\ Len(lane.queue) < QueueCap
        /\ lane' = [lane EXCEPT !.queue = Append(@, Head(jobs.next))]
        /\ jobs' = [jobs EXCEPT !.next = Tail(@), !.queued = @ \union {Head(jobs.next).of}]
        /\ UNCHANGED step
     \/ /\ jobs.next # <<>> /\ Dead
        /\ jobs' = [jobs EXCEPT !.next = Tail(@), !.refused = @ \union {Head(jobs.next).of}]
        /\ UNCHANGED <<step, lane>>
     \/ /\ jobs.next = <<>> /\ step' = "after" /\ UNCHANGED <<lane, jobs>>
  /\ UNCHANGED <<token, conn, faults, size, book, window, batch, stream, peer, scratch,
                 staged, applied, missing, results>>

-----------------------------------------------------------------------------
(* The threads that receive streams *)

\* receive_iroh_artifact_stream: the file is removed unless it is complete.
Receive(f) ==
  /\ stream[f] = "reading"
  /\ \/ stream' = [stream EXCEPT ![f] = "received"] /\ UNCHANGED <<scratch, faults>>
     \/ /\ IF Up THEN Fault ELSE UNCHANGED faults
        /\ \E end \in {"failed", "unread"} : stream' = [stream EXCEPT ![f] = end]
        /\ scratch' = scratch \ {f}
     \/ /\ step = "drain" /\ UNCHANGED faults
        /\ stream' = [stream EXCEPT ![f] = "cut"] /\ scratch' = scratch \ {f}
  /\ UNCHANGED <<token, conn, step, size, book, window, batch, peer, lane, jobs, staged,
                 applied, missing, results>>

-----------------------------------------------------------------------------
(* The backend write lane *)

LaneTake ==
  /\ lane.work = "idle" /\ lane.queue # <<>>
  /\ lane' = [lane EXCEPT !.queue = Tail(@), !.tasks = <<Head(lane.queue)>>, !.work = "do"]
  /\ UNCHANGED <<token, conn, faults, step, size, book, window, batch, stream, peer, jobs,
                 scratch, staged, applied, missing, results>>

\* collect_remote_apply_batch: the apply tasks that follow soon enough, also
\* those for which the queue has room only now.
LaneCollect ==
  /\ lane.work = "do" /\ Head(lane.tasks).kind = "apply" /\ Len(lane.tasks) < ApplyMax
  /\ lane.queue # <<>> /\ Head(lane.queue).kind = "apply"
  /\ lane' = [lane EXCEPT !.queue = Tail(@), !.tasks = Append(@, Head(lane.queue))]
  /\ UNCHANGED <<token, conn, faults, step, size, book, window, batch, stream, peer, jobs,
                 scratch, staged, applied, missing, results>>

LaneDone(e) == lane' = [lane EXCEPT !.work = "idle", !.tasks = <<>>, !.events = Append(@, e)]

\* A run that was told of an interruption by now stages nothing.
LaneStage ==
  /\ lane.work = "do" /\ Head(lane.tasks).kind = "stage"
  /\ LET f == Head(lane.tasks).of
     IN /\ \/ /\ ~Told /\ UNCHANGED faults
              /\ staged' = [staged EXCEPT ![Content[f]] = @ \union {f}]
              /\ LaneDone([kind |-> "staged", of |-> f, ok |-> TRUE])
           \/ /\ IF Told THEN UNCHANGED faults ELSE Fault
              /\ LaneDone([kind |-> "staged", of |-> f, ok |-> FALSE])
              /\ UNCHANGED staged
        /\ scratch' = scratch \ {f}
  /\ UNCHANGED <<token, conn, step, size, book, window, batch, stream, peer, jobs, applied,
                 missing, results>>

\* cleanup_context_manifests_for: the projects that were not yet ready.
\* Bug: only the project itself.
OnlyItself(p) == {p}

CleanupContext(p) ==
  {q \in Range(Projects) : /\ results[q] = 0
                            /\ ~\E i, k \in DOMAIN book.ready :
                                  i < k /\ book.ready[i] = q /\ book.ready[k] = p}

\* cleanup_staged_artifacts: content to which nothing refers any more is removed.
Dereferenced(stage, hashes, files) ==
  [c \in Hashes |-> IF c \in hashes THEN stage[c] \ files ELSE stage[c]]

\* _cleanup_imported_content_addressed_staging: content that an imported
\* project had staged, unless a project of the context still waits for it.
Cleaned(stage, context, done) ==
  LET imported == {f \in Files : Owner[f] \in context \intersect done}
      awaited == {Content[f] : f \in {g \in Files : Owner[g] \in context \ done}}
  IN Dereferenced(stage, Hashes \ awaited, imported)

\* One backend call: a project without its content is refused.
Call(s, ps) ==
  LET gone == {p \in ps : \E f \in Needs(p) : s.staged[Content[f]] = {}}
      done == s.applied \union (ps \ gone)
      context == UNION {CleanupContext(p) : p \in ps \intersect Range(Projects)}
  IN [staged |-> Cleaned(s.staged, context, done), applied |-> done,
      missing |-> s.missing \union gone]

\* A call that fails is split, down to the projects it fails for.
CallEach(s, ps) ==
  FoldBy([at \in Stores \X Range(lane.tasks) |->
            IF at[2].of \in ps THEN Call(at[1], {at[2].of}) ELSE at[1]], s, lane.tasks)

ApplyTasks ==
  LET good == {t.of : t \in Range(lane.tasks)} \ book.spoiled
      now == [staged |-> staged, applied |-> applied, missing |-> missing]
  IN \E then \in {Call(now, good)} \union {CallEach(now, ps) : ps \in SUBSET good} :
       /\ IF then = Call(now, good) THEN UNCHANGED faults ELSE Fault
       /\ staged' = then.staged /\ applied' = then.applied /\ missing' = then.missing

\* Nor does it, or an import that was called off, apply anything.
LaneApply ==
  /\ lane.work = "do" /\ Head(lane.tasks).kind = "apply"
  /\ IF Told \/ lane.off THEN UNCHANGED <<faults, staged, applied, missing>> ELSE ApplyTasks
  /\ lane' = [lane EXCEPT !.work = "skip"]
  /\ UNCHANGED <<token, conn, step, size, book, window, batch, stream, peer, jobs, scratch,
                 results>>

LaneReport ==
  /\ lane.work = "skip" /\ Head(lane.tasks).kind = "apply"
  /\ LaneDone([kind |-> "applied", of |-> {t.of : t \in Range(lane.tasks)}])
  /\ UNCHANGED <<token, conn, faults, step, size, book, window, batch, stream, peer, jobs,
                 scratch, staged, applied, missing, results>>

\* The lane's thread panics in a task.
LaneDies ==
  /\ lane.work \in {"do", "skip"} /\ Fault
  /\ lane' = [lane EXCEPT !.work = "dead"]
  /\ UNCHANGED <<token, conn, step, size, book, window, batch, stream, peer, jobs, scratch,
                 staged, applied, missing, results>>

Reported == UNION {e.of : e \in {x \in Range(lane.events) : x.kind = "applied"}}
One(p, ps) == IF p \in ps THEN 1 ELSE 0

\* What a lane that panicked took and did not report.
\* Bug: nobody asks.
NothingLeft == {}
LeftBehind  == IF Dead THEN jobs.queued \ Reported ELSE {}

\* finish: the lane's results, what it left behind, what it did not take;
\* an import that is finished for a failure only waits, and drops them.
FinishImport(reporting) ==
  /\ Dead \/ (lane.work = "idle" /\ lane.queue = <<>>)
  /\ results' = [p \in All |-> IF reporting
                               THEN results[p] + One(p, Reported) + One(p, LeftBehind)
                                               + One(p, jobs.refused)
                               ELSE 0]
  /\ UNCHANGED <<step, size, book, window, batch, stream, peer, jobs, lane, scratch, staged,
                 applied, missing>>

-----------------------------------------------------------------------------
(* The peer's session: send_iroh_artifact_batch_response *)

PeerCredit ==
  /\ peer.does = "credit" /\ Up /\ peer.inbox # <<>>
  /\ peer' = [peer EXCEPT !.does = "stream", !.inbox = Tail(@), !.sending = Head(peer.inbox),
                          !.left = @ \ Head(peer.inbox)]
  /\ UNCHANGED <<token, conn, faults, step, size, book, window, batch, stream, lane, jobs,
                 scratch, staged, applied, missing, results>>

\* One thread per credited artifact; a stream is open once it has a header.
PeerOpens(f) ==
  /\ peer.does = "stream" /\ Up /\ f \in peer.sending /\ stream[f] = "none"
  /\ stream' = [stream EXCEPT ![f] = "open"]
  /\ UNCHANGED <<token, conn, faults, step, size, book, window, batch, peer, lane, jobs,
                 scratch, staged, applied, missing, results>>

PeerJoins ==
  /\ peer.does = "stream" /\ Up /\ \A f \in peer.sending : stream[f] # "none"
  /\ peer' = IF peer.left = {} THEN [peer EXCEPT !.does = "over", !.outbox = <<"end">>]
             ELSE [peer EXCEPT !.does = "credit"]
  /\ UNCHANGED <<token, conn, faults, step, size, book, window, batch, stream, lane, jobs,
                 scratch, staged, applied, missing, results>>

\* A thread that fails, an interruption on that side.
PeerAborts ==
  /\ peer.does \in {"credit", "stream"} /\ Up /\ Fault
  /\ peer' = [peer EXCEPT !.does = "over", !.outbox = <<"abort">>]
  /\ UNCHANGED <<token, conn, step, size, book, window, batch, stream, lane, jobs, scratch,
                 staged, applied, missing, results>>

Session == \/ Plan \/ Discover \/ SkipBatch \/ RequestBatch \/ BatchBreaks \/ ReadEnd
           \/ TakeReports \/ CloseBatch \/ EndBatch \/ Enqueue
           \/ \E f \in Files : AcceptStream(f) \/ HandleReceived(f) \/ HandleFailed(f)
Lane    == LaneTake \/ LaneCollect \/ LaneStage \/ LaneApply \/ LaneReport \/ LaneDies
Peer    == PeerCredit \/ PeerJoins \/ PeerAborts \/ \E f \in Files : PeerOpens(f)
Import  == Session \/ Lane \/ Peer \/ \E f \in Files : Receive(f)
=============================================================================
