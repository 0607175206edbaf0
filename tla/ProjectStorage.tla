--------------------------- MODULE ProjectStorage ---------------------------
(* The files of one project: the conversion of an artifact in place        *)
(* (jobs.py, _convert_artifact_audio) beside the cleanup that every commit  *)
(* of another session may carry out (project_storage.py, the hooks of       *)
(* db.py). SQLite lets one session write from its first change to the end   *)
(* of its commit; a session reads and touches files whenever it likes.      *)
EXTENDS Naturals, FiniteSets

CONSTANTS Artifacts,   \* durable audio artifacts of the project, all of them wav
          Source,      \* the one of type source_audio, which is never deleted alone
          Requests,    \* sessions of request handlers
          Conversion,  \* the session of the job that converts to flac
          NoSession,
          MaxFaults    \* bound on failing calls and crashes

Sessions == Requests \cup {Conversion}
Files    == Artifacts \X {"wav", "flac", "temp"}

VARIABLES rows,    \* [Artifacts -> format, or "none" when deleted], as committed
          disk,    \* the files in the project's directory
          failed,  \* the project is in _FAILED_PROJECT_IDS
          writer,  \* the session that holds SQLite's write lock
          session, \* [Sessions -> at, draft: its rows, owned: its plan, found: its listing]
          job,     \* the conversion: at, and the artifact in work
          faults
vars == <<rows, disk, failed, writer, session, job, faults>>

Idle == [at |-> "idle", draft |-> rows, owned |-> {}, found |-> {}]
None == [at |-> "none", artifact |-> Source]

Init ==
    /\ rows = [a \in Artifacts |-> "wav"] /\ disk = Artifacts \X {"wav"}
    /\ failed = FALSE /\ writer = NoSession /\ faults = 0
    /\ session = [s \in Sessions |-> Idle] /\ job = None

Owned(table) == {<<a, table[a]>> : a \in {b \in Artifacts : table[b] # "none"}}
Put(s, at)   == session' = [session EXCEPT ![s].at = at]
Fault        == faults < MaxFaults /\ faults' = faults + 1

-----------------------------------------------------------------------------
(* One transaction and its hooks. *)

\* The first change takes the write lock.
Write(s, table, at) ==
    /\ writer = NoSession /\ writer' = s
    /\ session' = [session EXCEPT ![s] = [at |-> at, draft |-> table, owned |-> {}, found |-> {}]]

\* delete_project_artifact: the deletion, and a cleanup queued with it. A
\* conversion is not among the jobs that make it refuse.
Delete(s, a) ==
    /\ session[s].at = "idle" /\ a # Source /\ rows[a] # "none"
    /\ Write(s, [rows EXCEPT ![a] = "none"], "cleans")
    /\ UNCHANGED <<rows, disk, failed, job, faults>>

\* Any request that writes elsewhere; a sync or another job of the project
\* queues a cleanup too.
Touch(s, at) ==
    /\ session[s].at = "idle" /\ Write(s, rows, at)
    /\ UNCHANGED <<rows, disk, failed, job, faults>>

\* before_commit makes the plan, for a queued project or one whose cleanup
\* failed before; the commit lets the lock go; after_commit cleans up.
Commits(s) ==
    /\ writer = s /\ writer' = NoSession /\ rows' = session[s].draft
    /\ session' = [session EXCEPT ![s].owned = Owned(session[s].draft),
           ![s].at = IF @ = "cleans" \/ failed THEN "drain" ELSE "idle"]
Commit(s) ==
    /\ session[s].at \in {"cleans", "writes"} /\ Commits(s)
    /\ UNCHANGED <<disk, failed, job, faults>>

List(s) ==
    /\ session[s].at = "drain"
    /\ session' = [session EXCEPT ![s].at = "unlink", ![s].found = disk \ session[s].owned]
    /\ UNCHANGED <<rows, disk, failed, writer, job, faults>>

Unlink(s, f) ==
    /\ session[s].at = "unlink" /\ f \in session[s].found
    /\ disk' = disk \ {f} /\ session' = [session EXCEPT ![s].found = @ \ {f}]
    /\ UNCHANGED <<rows, failed, writer, job, faults>>

Drained(s) ==
    /\ session[s].at = "unlink" /\ session[s].found = {}
    /\ Put(s, "idle") /\ failed' = FALSE
    /\ UNCHANGED <<rows, disk, writer, job, faults>>

\* An OSError or a directory that changed: the next commit of anyone retries.
DrainFails(s) ==
    /\ session[s].at \in {"drain", "unlink"} /\ Fault
    /\ Put(s, "idle") /\ failed' = TRUE
    /\ UNCHANGED <<rows, disk, writer, job>>

-----------------------------------------------------------------------------
(* The conversion of one artifact. *)

File(form) == <<job.artifact, form>>
Go(at)     == job' = [job EXCEPT !.at = at]

\* The row as it was when the job was created, its file there, and the name
\* of the converted one free; else this conversion ends with an error.
Check(a) ==
    /\ job.at = "none" /\ rows[a] = "wav"
    /\ <<a, "wav">> \in disk /\ <<a, "flac">> \notin disk
    /\ job' = [at |-> "encode", artifact |-> a]
    /\ UNCHANGED <<rows, disk, failed, writer, session, faults>>

\* encode_audio reads the file of the row and writes the temporary one.
Encode ==
    /\ job.at = "encode"
    /\ IF File("wav") \in disk THEN disk' = disk \cup {File("temp")} /\ Go("hash")
                               ELSE UNCHANGED disk /\ Go("finally")
    /\ UNCHANGED <<rows, failed, writer, session, faults>>

\* validate_audio_file and file_sha256 need the file; a cancel is seen here too.
Hash ==
    /\ job.at = "hash"
    /\ \E cancelled \in BOOLEAN :
           Go(IF File("temp") \in disk /\ ~cancelled THEN "update" ELSE "finally")
    /\ UNCHANGED <<rows, disk, failed, writer, session, faults>>

\* The conditional UPDATE waits for the lock; a row that changed ends it.
Update ==
    /\ job.at = "update" /\ writer = NoSession
    /\ IF rows[job.artifact] = "wav"
       THEN Write(Conversion, [rows EXCEPT ![job.artifact] = "flac"], "converts") /\ Go("replace")
       ELSE UNCHANGED <<session, writer>> /\ Go("finally")
    /\ UNCHANGED <<rows, disk, failed, faults>>

\* The rename, under the lock.
Replace ==
    /\ job.at = "replace"
    /\ IF File("temp") \in disk
       THEN disk' = (disk \ {File("temp")}) \cup {File("flac")} /\ Go("installed")
       ELSE UNCHANGED disk /\ Go("finally")
    /\ UNCHANGED <<rows, failed, writer, session, faults>>

\* queue_project_storage_reconciliation and the commit, with its cleanup.
CommitConversion ==
    /\ job.at = "installed"
    /\ writer' = NoSession /\ rows' = session[Conversion].draft
    /\ session' = [session EXCEPT ![Conversion].at = "drain",
                                  ![Conversion].owned = Owned(session[Conversion].draft)]
    /\ Go("drains")
    /\ UNCHANGED <<disk, failed, faults>>

\* The commit fails: the installed file goes with the temporary one.
CommitFails ==
    /\ job.at = "installed" /\ Fault
    /\ disk' = disk \ {File("flac")} /\ Go("finally")
    /\ UNCHANGED <<rows, failed, writer, session>>

\* finally: no temporary file stays; then the session is rolled back if it
\* still writes.
Finally ==
    /\ job.at = "finally" \/ (job.at = "drains" /\ session[Conversion].at = "idle")
    /\ disk' = disk \ {File("temp")} /\ job' = None
    /\ writer' = IF writer = Conversion THEN NoSession ELSE writer
    /\ Put(Conversion, "idle")
    /\ UNCHANGED <<rows, failed, faults>>

\* The process ends: the rows and the files stay as they are.
Crash ==
    /\ Fault
    /\ writer' = NoSession /\ failed' = FALSE /\ job' = None
    /\ session' = [s \in Sessions |-> Idle]
    /\ UNCHANGED <<rows, disk>>

Next ==
    \/ \E s \in Requests : \/ \E a \in Artifacts : Delete(s, a)
                           \/ \E at \in {"cleans", "writes"} : Touch(s, at)
                           \/ Commit(s)
    \/ \E s \in Sessions : List(s) \/ Drained(s) \/ DrainFails(s) \/ \E f \in Files : Unlink(s, f)
    \/ \E a \in Artifacts : Check(a)
    \/ Encode \/ Hash \/ Update \/ Replace \/ CommitConversion \/ CommitFails \/ Finally \/ Crash
Spec == Init /\ [][Next]_vars

-----------------------------------------------------------------------------
\* The cleanup keeps what the database owns: the file that the committed row
\* of an artifact names is in the project's directory.
NamedFilesKept == Owned(rows) \subseteq disk
=============================================================================
