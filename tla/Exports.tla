------------------------------ MODULE Exports ------------------------------
(***************************************************************************)
(* Persisted exports: submission (lib/services/export-jobs.ts), the worker *)
(* handler (worker/export-handler.ts, lib/export/generate.ts), persistence *)
(* (lib/services/export-storage.ts) and the deletion of failed objects     *)
(* (orphan-cleanup.ts), beside the edits and approvals of Review.          *)
(*                                                                         *)
(* A transaction is one step and so is a call of the object store.  Two    *)
(* renderings of one snapshot differ (they carry the time), so bytes are   *)
(* named by the attempt that rendered them.  upload_status follows the     *)
(* export's persistence_status and the object's retention_status.          *)
(***************************************************************************)
EXTENDS Review, WorkerJobs

CONSTANTS
  Formats,     \* export formats; "ZIP" needs the approval
  MaxFaults    \* bound: failures, crashes, and interventions of the operator

ASSUME ExportsAssumption == "ZIP" \in Formats /\ MaxFaults \in Nat

VARIABLES
  exports,   \* project_exports, their storage_objects and the stored bytes, by input hash
  handler,   \* the handler of every attempt of every export job
  cleanup,   \* the STORAGE_CLEANUP pass: what it has claimed
  lost,      \* history: exports whose bytes the store, or a rolled back cleanup, lost
  unanswered, \* history: exports made current by a COMMIT whose reply was lost
  faults

vars == <<reviewVars, jobs, exports, handler, cleanup, lost, unanswered, faults>>

NoBytes == <<"none", 0>>
\* complete and sha256 are of the row that findReusableExport or reserveExport read.
NoHandler == [pc |-> "none", phase |-> "fast", complete |-> FALSE, sha256 |-> NoBytes]
Ended == [NoHandler EXCEPT !.pc = "done"]
IdleCleanup == [pc |-> "idle", key |-> NoInput]

Init ==
  /\ ReviewInit
  /\ jobs = [j \in JobIds |-> NoJob]
  /\ exports = << >>
  /\ handler = [j \in JobIds |-> [a \in AttemptNumbers |-> NoHandler]]
  /\ cleanup = IdleCleanup
  /\ lost = {} /\ unanswered = {} /\ faults = 0

Pc(j, a) == handler[j][a].pc
Key(j) == jobs[j].input
Row(j) == exports[Key(j)]
Outcomes == {"returned", "failFatal", "failRetryable"}

\* Steps of a handler.  An outcome also gives the advisory lock back.
Goto(j, a, pc) == handler' = [handler EXCEPT ![j][a].pc = pc]
SetRow(k, row) ==
  exports' = [c \in DOMAIN exports \cup {k} |-> IF c = k THEN row ELSE exports[c]]
history == <<lost, unanswered>>
storageVars == <<exports, cleanup, history>>

\* The cleanup holds the object's row lock between erasing the bytes and
\* recording it: who updates that row waits.
RowFree(k) == ~(cleanup.pc = "erased" /\ cleanup.key = k)

-----------------------------------------------------------------------------
(* Submission.                                                             *)

\* What loadExportDataInTransaction reads: exportInputHash is a hash of it.
Snapshot == [ approval |-> project.approval, qa |-> project.qa,
              revision |-> project.revision, commits |-> project.commits ]

\* requireApproval, for ZIP.
Exportable(format) ==
  format = "ZIP" => project.approval = "APPROVED" /\ Blockers(findings) = {}

\* A key that is known replays its job; a job is one key here.
submitProjectExportJob(j, format) ==
  /\ project.exists /\ jobs[j].status = "NONE" /\ Exportable(format)
  /\ jobs' = [jobs EXCEPT ![j] = QueuedJob([format |-> format, snapshot |-> Snapshot])]
  /\ UNCHANGED <<reviewVars, handler, storageVars>>

-----------------------------------------------------------------------------
(* The handler: generateArtifact.                                          *)

Start(j) ==
  /\ StartAttempt(j)
  /\ handler' = [handler EXCEPT ![j][jobs[j].attempts + 1] = [NoHandler EXCEPT !.pc = "load"]]
  /\ UNCHANGED <<reviewVars, storageVars>>

\* Variant: the content is not compared, only the approval and the report.
UnchangedReport(k) ==
  project.exists /\ k.snapshot.approval = project.approval /\ k.snapshot.qa = project.qa
                 /\ k.snapshot.revision = project.revision

\* validateSnapshot.
Unchanged(k) == project.exists /\ k.snapshot = Snapshot

\* The data is loaded and compared with the submitted snapshot (EXPORT_STALE).
loadExportData(j, a) ==
  /\ Pc(j, a) = "load"
  /\ Goto(j, a, IF Exportable(Key(j).format) /\ Unchanged(Key(j))
                THEN "lookup" ELSE "failFatal")
  /\ UNCHANGED <<reviewVars, jobs, storageVars>>

Complete(k) ==
  /\ exports[k].status = "AVAILABLE" /\ exports[k].retention = "ACTIVE"
  /\ ~exports[k].leased /\ k \in current

\* findReusableExport: first without the lock, for a complete export only, then
\* (recoverIncomplete) under it, for any whose bytes may still be there.
findReusableExport(j, a) ==
  LET h == handler[j][a]
      k == Key(j)
      known == k \in DOMAIN exports
      fast == h.phase = "fast"
  IN
  /\ h.pc = "lookup" /\ Fenced(j, a)
  /\ handler' = [handler EXCEPT ![j][a] =
       [h EXCEPT !.complete = known /\ Complete(k),
                 !.sha256 = IF known THEN exports[k].sha256 ELSE NoBytes,
                 !.pc =
          IF known /\ (IF fast THEN Complete(k)
                       ELSE exports[k].retention \in {"ACTIVE", "PENDING_DELETE"})
          THEN "read" ELSE IF fast THEN "lock" ELSE "reserve"]]
  /\ UNCHANGED <<reviewVars, jobs, storageVars>>

\* readVerified: the bytes have the hash of the row that was looked up, or are
\* reported missing.
readVerified(j, a) ==
  LET h == handler[j][a] IN
  /\ h.pc = "read"
  /\ Goto(j, a,
       IF Row(j).bytes # h.sha256 THEN "missing"
       ELSE IF h.phase = "locked" /\ ~h.complete THEN "recover" ELSE "returned")
  /\ UNCHANGED <<reviewVars, jobs, storageVars>>

markMissing(j, a) ==
  /\ Pc(j, a) = "missing" /\ RowFree(Key(j))
  /\ SetRow(Key(j), [Row(j) EXCEPT !.status = "FAILED"])
  /\ current' = current \ {Key(j)}
  /\ Goto(j, a, CASE handler[j][a].phase = "fast" -> "lock"
                  [] handler[j][a].phase = "locked" -> "reserve"
                  [] handler[j][a].phase = "available" -> "failFatal")
  /\ UNCHANGED <<project, plans, gates, findings, planner, jobs, cleanup, history>>

-----------------------------------------------------------------------------
(* Persistence: persistExportArtifact.                                     *)

Persisting == {"reserve", "recover", "put", "finalise", "failed"}
HoldsLock(j, a) ==
  \/ Pc(j, a) \in Persisting
  \/ Pc(j, a) \in {"lookup", "read", "missing"} /\ handler[j][a].phase # "fast"

\* Variant: the advisory lock is not taken.
LockFreeAlways(k) == TRUE

LockFree(k) ==
  \A j \in JobIds, a \in AttemptNumbers : HoldsLock(j, a) => Key(j) # k

acquireExportLock(j, a) ==
  /\ Pc(j, a) = "lock" /\ Fenced(j, a) /\ LockFree(Key(j))
  /\ handler' = [handler EXCEPT ![j][a].pc = "lookup", ![j][a].phase = "locked"]
  /\ UNCHANGED <<reviewVars, jobs, storageVars>>

\* EXPORT_BUSY after 30 seconds: not one of the retryable codes.
LockTimesOut(j, a) ==
  /\ Pc(j, a) = "lock" /\ ~LockFree(Key(j)) /\ Goto(j, a, "failFatal")
  /\ UNCHANGED <<reviewVars, jobs, storageVars>>

\* The other exports of the format are no longer current, this one is.
MakeCurrent(k) == current' = {c \in current : c.format # k.format} \cup {k}

\* An interrupted export whose bytes are whole becomes current after all.
RecoverExport(j, a) ==
  LET k == Key(j)  row == Row(j) IN
  /\ Pc(j, a) = "recover" /\ RowFree(k) /\ (Unchanged(k) => Fenced(j, a))
  /\ IF ~Unchanged(k)
     THEN Goto(j, a, "reserve") /\ UNCHANGED <<exports, current>>
     ELSE IF row.retention = "DELETED" \/ row.leased
     THEN Goto(j, a, "failRetryable") /\ UNCHANGED <<exports, current>>
     ELSE /\ SetRow(k, [row EXCEPT !.status = "AVAILABLE", !.retention = "ACTIVE"])
          /\ MakeCurrent(k) /\ Goto(j, a, "returned")
  /\ UNCHANGED <<project, plans, gates, findings, planner, jobs, cleanup, history>>

\* The row is reserved for this attempt's rendering.
reserveExport(j, a) ==
  LET k == Key(j)  known == k \in DOMAIN exports IN
  /\ Pc(j, a) = "reserve" /\ RowFree(k) /\ (Unchanged(k) => Fenced(j, a))
  /\ IF ~Unchanged(k) THEN Goto(j, a, "failFatal") /\ UNCHANGED <<exports, current>>
     ELSE IF known /\ exports[k].leased
     THEN Goto(j, a, "failRetryable") /\ UNCHANGED <<exports, current>>
     ELSE IF known /\ Complete(k)
     THEN /\ handler' = [handler EXCEPT ![j][a] =
               [@ EXCEPT !.pc = "read", !.phase = "available", !.sha256 = exports[k].sha256]]
          /\ UNCHANGED <<exports, current>>
     ELSE /\ SetRow(k, [ status |-> "UPLOADING", retention |-> "ACTIVE", leased |-> FALSE,
                         sha256 |-> <<j, a>>,
                         bytes |-> IF known THEN exports[k].bytes ELSE NoBytes ])
          /\ current' = current \ {k}
          /\ Goto(j, a, "put")
  /\ UNCHANGED <<project, plans, gates, findings, planner, jobs, cleanup, history>>

\* An object that exists already must be this very rendering.
PutExport(j, a) ==
  LET row == Row(j) IN
  /\ Pc(j, a) = "put"
  /\ IF row.bytes = NoBytes
     THEN SetRow(Key(j), [row EXCEPT !.bytes = <<j, a>>]) /\ Goto(j, a, "finalise")
     ELSE UNCHANGED exports
          /\ Goto(j, a, IF row.bytes = <<j, a>> THEN "finalise" ELSE "failed")
  /\ UNCHANGED <<reviewVars, jobs, cleanup, history>>

\* The project changed meanwhile: the object is left to the cleanup.
Stale(row) ==
  [row EXCEPT !.status = "FAILED",
              !.retention = IF @ \in {"ACTIVE", "PENDING_DELETE"} THEN "PENDING_DELETE" ELSE @]

\* The transaction that finalises the export: it becomes current, or it is stale.
FinaliseTransaction(j, a) ==
  LET k == Key(j) IN
  /\ Pc(j, a) = "finalise" /\ project.exists /\ RowFree(k) /\ (Unchanged(k) => Fenced(j, a))
  /\ IF Unchanged(k)
     THEN /\ SetRow(k, [Row(j) EXCEPT !.status = "AVAILABLE", !.retention = "ACTIVE"])
          /\ MakeCurrent(k)
     ELSE SetRow(k, Stale(Row(j))) /\ current' = current \ {k}
  /\ UNCHANGED <<project, plans, gates, findings, planner, jobs, cleanup, lost>>

FinaliseExport(j, a) ==
  /\ FinaliseTransaction(j, a)
  /\ Goto(j, a, IF Unchanged(Key(j)) THEN "returned" ELSE "failFatal")
  /\ UNCHANGED unanswered

\* An error other than EXPORT_STALE: the transaction was rolled back, or the reply
\* to its COMMIT was lost.  Either way the row is marked as failed next.
FinaliseThrows(j, a) ==
  /\ Pc(j, a) = "finalise"
  /\ \/ UNCHANGED <<reviewVars, jobs, storageVars>>
     \/ /\ FinaliseTransaction(j, a)
        /\ unanswered' = IF Unchanged(Key(j)) THEN unanswered \cup {Key(j)} ELSE unanswered
  /\ Goto(j, a, "failed")

\* Variant: an object that is already erased is scheduled again.
FailedRowAgain(row) == [row EXCEPT !.status = "FAILED", !.retention = "PENDING_DELETE"]

FailedRow(row) == Stale(row)

markPersistenceFailure(j, a) ==
  LET k == Key(j) IN
  /\ Pc(j, a) = "failed" /\ RowFree(k)
  /\ SetRow(k, FailedRow(Row(j)))
  /\ current' = current \ {k} /\ Goto(j, a, "failRetryable")
  /\ UNCHANGED <<project, plans, gates, findings, planner, jobs, cleanup, history>>

\* JOB_LEASE_LOST, or the abort signal, at any fence: what is reserved is
\* marked failed first.
LoseFence(j, a) ==
  /\ Pc(j, a) \in {"lookup", "lock", "recover", "reserve", "put", "finalise"}
  /\ ~Fenced(j, a) \/ ~project.exists
  /\ Goto(j, a, IF Pc(j, a) \in {"put", "finalise"} THEN "failed" ELSE "failFatal")
  /\ UNCHANGED <<reviewVars, jobs, storageVars>>

\* Variant: every read that fails counts as a missing object.
StorageFailsAsMissing(j, a) ==
  /\ Pc(j, a) \in {"read", "put"}
  /\ Goto(j, a, IF Pc(j, a) = "put" THEN "failed" ELSE "missing")
  /\ UNCHANGED <<reviewVars, jobs, storageVars>>

\* The store refuses a read or a write.
StorageFails(j, a) ==
  /\ Pc(j, a) \in {"read", "put"}
  /\ Goto(j, a, IF Pc(j, a) = "put" THEN "failed" ELSE "failRetryable")
  /\ UNCHANGED <<reviewVars, jobs, storageVars>>

\* The worker process dies: its connection, and the lock with it, is gone.
\* A write that was under way may still arrive.
CrashHandler(j, a) ==
  /\ Pc(j, a) \notin Outcomes \cup {"none", "late", "done"}
  /\ handler' = [handler EXCEPT ![j][a] =
                   [Ended EXCEPT !.pc = IF Pc(j, a) = "put" THEN "late" ELSE "done"]]
  /\ UNCHANGED <<reviewVars, jobs, storageVars>>

LateWrite(j, a) ==
  /\ Pc(j, a) = "late" /\ Goto(j, a, "done")
  /\ IF Row(j).bytes = NoBytes THEN SetRow(Key(j), [Row(j) EXCEPT !.bytes = <<j, a>>])
     ELSE UNCHANGED exports
  /\ UNCHANGED <<reviewVars, jobs, cleanup, history>>

Finish(j, a) ==
  /\ Pc(j, a) \in Outcomes
  /\ Settle(j, a, Pc(j, a))
  /\ handler' = [handler EXCEPT ![j][a] = Ended]
  /\ UNCHANGED <<reviewVars, storageVars>>

-----------------------------------------------------------------------------
(* Failed objects are deleted, and the project with all of its objects.    *)

claimDeletionCandidate(k) ==
  /\ cleanup.pc = "idle" /\ exports[k].retention = "PENDING_DELETE" /\ ~exports[k].leased
  /\ SetRow(k, [exports[k] EXCEPT !.leased = TRUE])
  /\ cleanup' = [pc |-> "delete", key |-> k]
  /\ UNCHANGED <<reviewVars, jobs, handler, history>>

\* deleteClaimed: a claim that was lost deletes nothing.
deleteClaimed ==
  LET row == exports[cleanup.key] IN
  /\ cleanup.pc = "delete"
  /\ IF row.leased /\ row.retention = "PENDING_DELETE"
     THEN /\ SetRow(cleanup.key, [row EXCEPT !.bytes = NoBytes])
          /\ cleanup' = [cleanup EXCEPT !.pc = "erased"]
     ELSE UNCHANGED exports /\ cleanup' = IdleCleanup
  /\ UNCHANGED <<reviewVars, jobs, handler, history>>

MarkDeleted ==
  /\ cleanup.pc = "erased"
  /\ SetRow(cleanup.key, [exports[cleanup.key] EXCEPT !.retention = "DELETED", !.leased = FALSE])
  /\ cleanup' = IdleCleanup
  /\ UNCHANGED <<reviewVars, jobs, handler, history>>

\* The transaction rolls back after the bytes are gone; markDeleteFailed gives
\* the claim back.
CleanupRollsBack ==
  /\ cleanup.pc = "erased"
  /\ SetRow(cleanup.key, [exports[cleanup.key] EXCEPT !.leased = FALSE])
  /\ lost' = lost \cup {cleanup.key}
  /\ cleanup' = IdleCleanup
  /\ UNCHANGED <<reviewVars, jobs, handler, unanswered>>

CleanupLeaseExpires ==
  /\ cleanup.pc = "delete"
  /\ SetRow(cleanup.key, [exports[cleanup.key] EXCEPT !.leased = FALSE])
  /\ UNCHANGED <<reviewVars, jobs, handler, cleanup, history>>

\* The store loses an object.
LoseBytes(k) ==
  /\ exports[k].bytes # NoBytes
  /\ SetRow(k, [exports[k] EXCEPT !.bytes = NoBytes])
  /\ lost' = lost \cup {k}
  /\ UNCHANGED <<reviewVars, jobs, handler, cleanup, unanswered>>

\* Waiting jobs are cancelled, a running one refuses the deletion.
deleteProject ==
  /\ project.exists /\ cleanup.pc # "erased"
  /\ \A j \in JobIds : Active(j) => jobs[j].status = "QUEUED"
  /\ project' = [project EXCEPT !.exists = FALSE]
  /\ jobs' = [j \in JobIds |-> IF jobs[j].status = "QUEUED"
                               THEN [jobs[j] EXCEPT !.status = "CANCELLED"] ELSE jobs[j]]
  /\ exports' = [k \in DOMAIN exports |->
                   IF exports[k].retention = "DELETED" THEN exports[k]
                   ELSE [exports[k] EXCEPT !.retention = "PENDING_DELETE", !.leased = FALSE]]
  /\ current' = {} /\ planner' = {}
  /\ UNCHANGED <<plans, gates, findings, handler, cleanup, history>>

-----------------------------------------------------------------------------

AttemptLost(j) ==
  /\ LeaseExpires(j) \/ releaseJobLease(j)
  /\ UNCHANGED <<reviewVars, handler, storageVars>>

OperatorSteps(j) ==
  /\ requestJobCancellation(j) \/ (project.exists /\ manualRetryJob(j))
  /\ UNCHANGED <<reviewVars, handler, storageVars>>

HandlerStep(j, a) ==
  \/ loadExportData(j, a) \/ findReusableExport(j, a) \/ readVerified(j, a)
  \/ markMissing(j, a) \/ acquireExportLock(j, a) \/ LockTimesOut(j, a)
  \/ RecoverExport(j, a) \/ reserveExport(j, a) \/ PutExport(j, a)
  \/ FinaliseExport(j, a) \/ markPersistenceFailure(j, a) \/ LoseFence(j, a)
  \/ LateWrite(j, a) \/ Finish(j, a)

Fault ==
  \/ \E j \in JobIds : OperatorSteps(j)
  \/ \E j \in JobIds, a \in AttemptNumbers :
       StorageFails(j, a) \/ FinaliseThrows(j, a) \/ CrashHandler(j, a)
  \/ \E k \in DOMAIN exports : LoseBytes(k)
  \/ CleanupRollsBack \/ CleanupLeaseExpires

Work ==
  \/ ReviewNext /\ UNCHANGED <<jobs, handler, storageVars>>
  \/ \E j \in JobIds :
       \/ \E format \in Formats : submitProjectExportJob(j, format)
       \/ Start(j) \/ AttemptLost(j)
       \/ \E a \in AttemptNumbers : HandlerStep(j, a)
  \/ \E k \in DOMAIN exports : claimDeletionCandidate(k)
  \/ deleteClaimed \/ MarkDeleted \/ deleteProject

Next ==
  \/ Work /\ UNCHANGED faults
  \/ Fault /\ faults < MaxFaults /\ faults' = faults + 1

Spec == Init /\ [][Next]_vars

-----------------------------------------------------------------------------
(* What persisted exports promise.                                         *)

\* A current export is of the present revision, alone in its format, approved if
\* it is a package, and its verified bytes are in the store and not about to be
\* deleted, whatever failed or late attempts and cleanups did to its row.
CurrentExports ==
  \A k \in current :
    /\ exports[k].status = "AVAILABLE" /\ exports[k].retention = "ACTIVE"
    /\ k \in lost \/ exports[k].bytes = exports[k].sha256
    /\ k.snapshot.revision = project.revision
    /\ k.format = "ZIP" => k.snapshot.approval = "APPROVED"
    /\ \A c \in current : c.format = k.format => c = k

\* "An in-flight artifact from an older snapshot cannot become current after a
\* revision" (docs/EXPORT_FORMATS.md), nor after a research run's commit.
BecomesCurrentFresh == [][\A k \in current' \ current : k.snapshot = Snapshot]_vars

\* A delivered project keeps the package it was delivered with: no late or
\* failed attempt takes it away.  Two exceptions: a package whose bytes the store
\* lost, and one whose attempt never learned that its finalise transaction had
\* committed, so that markPersistenceFailure takes back, even after the delivery,
\* what had become current.
DeliveredPackage ==
  project.exists /\ project.status = "DELIVERED" =>
    \E k \in current \cup lost \cup unanswered :
      k.format = "ZIP" /\ k.snapshot.revision = project.revision

\* The objects of a deleted project stay scheduled until they are erased, and an
\* erased one is never touched again, not even by an attempt that lost its lease.
DeletedStaysDeleted ==
  [][~project.exists =>
       \A k \in DOMAIN exports :
         /\ exports[k].retention \in {"PENDING_DELETE", "DELETED"}
         /\ exports[k].retention = "DELETED" => exports'[k].retention = "DELETED"]_vars
=============================================================================
