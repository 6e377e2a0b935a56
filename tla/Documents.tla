----------------------------- MODULE Documents -----------------------------
(***************************************************************************)
(* One uploaded document, from the upload to its erasure: the services of  *)
(* lib/services/documents.ts and document-jobs.ts, the scan, extraction    *)
(* and cleanup handlers (worker/document-handlers.ts), the object store    *)
(* (lib/storage) and the catalogue of its objects (orphan-cleanup.ts).     *)
(*                                                                         *)
(* All uploads carry one idempotency key, so they name the same document   *)
(* and the same objects.  A transaction is one step, a call of the store   *)
(* is one step except that writing a file is three (the local store        *)
(* creates it, fills it, then syncs it and reads it back).  A handler or   *)
(* an upload that takes no further step is one whose process has crashed.  *)
(***************************************************************************)
EXTENDS WorkerJobs, FiniteSets

CONSTANTS
  Uploads,      \* requests that upload the document
  Files,        \* the files that may be sent
  ImageOnly,    \* the files that need OCR
  Bypass,       \* allowExplicitDemoBypass (never in production)
  ScanJobs, ExtractJobs,   \* jobs by type: JobIds is their union with CleanupJob
  InitialScan,  \* the scan job an upload submits
  AfterScan,    \* the extraction job a scan job with autoExtract submits (its
                \* key is after-scan:<scan job>)
  CleanupJob,   \* the STORAGE_CLEANUP job of the document's deletion
  VersionCap,   \* bound: extraction versions
  MaxFaults     \* bound: failures, crashes, lost attempts and operator retries

ASSUME DocumentsAssumption ==
  /\ JobIds = ScanJobs \cup ExtractJobs \cup {CleanupJob}
  /\ ScanJobs \cap ExtractJobs = {} /\ CleanupJob \notin ScanJobs \cup ExtractJobs
  /\ InitialScan \in ScanJobs /\ DOMAIN AfterScan \subseteq ScanJobs
  /\ \A s \in DOMAIN AfterScan : AfterScan[s] \in ExtractJobs
  /\ Files \cap {"none", "partial"} = {}
  /\ Bypass \in BOOLEAN /\ VersionCap \in Nat \ {0} /\ MaxFaults \in Nat

VARIABLES
  doc,       \* the documents row and what its source row shows of it
  versions,  \* document_extractions, by version
  rows,      \* storage_objects: the catalogue
  blobs,     \* the object store
  unlinked,  \* history: objects a failing writer removed complete
  handler,   \* the handler of every attempt of every job
  upload,    \* the progress of every upload request
  BytesOf,   \* the file each upload sends, chosen once
  faults     \* faults so far, at most MaxFaults

vars == <<doc, versions, rows, blobs, unlinked, handler, upload, BytesOf, jobs, faults>>

Versions == 1..VersionCap
NoFile == "none"
PartialFile == "partial"     \* created, not yet filled

\* Objects, named by category and identity: createObjectKey.
Raw == <<"quarantine", 0>>
Clean == <<"sources", 0>>
Artifact(v) == <<"extractions", v>>
Objects == {Raw, Clean} \cup {Artifact(v) : v \in Versions}

DocumentStatuses ==
  { "QUARANTINED", "SCANNING", "REJECTED", "CLEAN", "EXTRACTING", "READY",
    "EXTRACTION_FAILED", "OCR_REQUIRED_UNSUPPORTED", "BLOCKED_SCANNER_UNAVAILABLE",
    "DELETED" }
Scannable == {"QUARANTINED", "BLOCKED_SCANNER_UNAVAILABLE"}
Extractable == {"CLEAN", "READY", "EXTRACTION_FAILED", "OCR_REQUIRED_UNSUPPORTED"}

\* file: upload_input_hash and the raw object's sha256; anchors: the versions
\* with CURRENT citation anchors; text: the version whose text the source shows.
NoDoc == [ status |-> "NONE", file |-> NoFile, scan |-> "UNSCANNED",
           bypassed |-> FALSE, extraction |-> 0, anchors |-> {}, text |-> 0,
           source |-> NoFile ]
NoObject == [ retention |-> "NONE", sha256 |-> NoFile, owner |-> 0 ]
ActiveObject(file) == [ retention |-> "ACTIVE", sha256 |-> file, owner |-> 0 ]
NoHandler == [ pc |-> "none", version |-> 0, scan |-> "none", resume |-> FALSE,
               claims |-> {}, object |-> Raw, failed |-> FALSE, progress |-> FALSE ]

Init ==
  /\ doc = NoDoc
  /\ versions = [v \in Versions |-> "NONE"]
  /\ rows = [o \in Objects |-> NoObject]
  /\ blobs = [o \in Objects |-> NoFile]
  /\ unlinked = {}
  /\ jobs = [j \in JobIds |-> NoJob]
  /\ handler = [j \in JobIds |-> [a \in AttemptNumbers |-> NoHandler]]
  /\ upload = [u \in Uploads |-> "start"]
  /\ BytesOf \in [Uploads -> Files]
  /\ faults = 0

TypeOK ==
  /\ doc \in [status : DocumentStatuses \cup {"NONE"}, file : Files \cup {NoFile},
              scan : {"UNSCANNED", "CLEAN", "INFECTED", "ERROR"}, bypassed : BOOLEAN,
              extraction : 0..VersionCap, anchors : SUBSET Versions,
              text : 0..VersionCap, source : {NoFile, "raw", "clean"}]
  /\ versions \in [Versions -> {"NONE", "FAILED", "OCR", "SUCCEEDED"}]
  /\ rows \in [Objects -> [retention : {"NONE", "ACTIVE", "PENDING_DELETE", "DELETED"},
                           sha256 : Files \cup {NoFile}, owner : 0..AttemptCap]]
  /\ blobs \in [Objects -> Files \cup {NoFile, PartialFile}]
  /\ unlinked \subseteq Objects
  /\ jobs \in [JobIds -> [status : JobQueueStatuses, attempts : 0..AttemptCap,
                          max : 0..AttemptCap, input : 0..VersionCap]]

-----------------------------------------------------------------------------
(* Uploads: quarantineDocument, then enqueueDocumentScan.                  *)

UploadGoto(u, pc) == upload' = [upload EXCEPT ![u] = pc]
docVars == <<doc, versions>>
blobVars == <<blobs, unlinked>>
storeVars == <<rows, blobVars>>

(* A writer's steps in the object store, on the object o.                  *)

\* O_EXCL / If-None-Match: the file is created, its bytes not yet there.
Create(o) == blobs' = [blobs EXCEPT ![o] = PartialFile] /\ UNCHANGED unlinked

\* writeFile; a file that was deleted since it was created stays deleted.
Write(o, file) == blobs' = [blobs EXCEPT ![o] = IF @ = PartialFile THEN file ELSE @]

\* What a writer whose put fails does to the file it created.
Unlink(o) ==
  /\ blobs' = [blobs EXCEPT ![o] = NoFile]
  /\ unlinked' = IF blobs[o] \in Files THEN unlinked \cup {o} ELSE unlinked

\* put throws: the file is unlinked, unless that fails as well or the error is
\* the lost reply of a remote store.
PutFails(o) == Unlink(o) \/ UNCHANGED blobVars

\* The sync, the size and the read-back with the expected hash: put returns, or
\* it throws and unlinks.
ReadBack(o, file) == IF blobs[o] = file THEN UNCHANGED blobVars ELSE Unlink(o)

\* existingDocumentUpload and the project preflight: a known key is replayed,
\* refused for another file, for a deleted document or for lost bytes.
CheckExistingUpload(u) ==
  /\ upload[u] = "start"
  /\ UploadGoto(u,
       IF doc.status = "NONE" THEN "put"
       ELSE IF \/ doc.file # BytesOf[u] \/ doc.status = "DELETED"
               \/ rows[Raw].retention # "ACTIVE" \/ blobs[Raw] # doc.file
       THEN "refused" ELSE "scan")
  /\ UNCHANGED <<docVars, storeVars, jobs, handler>>

\* storage.put with O_EXCL / If-None-Match; on OBJECT_EXISTS the upload waits
\* for the other writer's bytes.
PutRaw(u) ==
  /\ upload[u] = "put"
  /\ IF blobs[Raw] = NoFile
     THEN Create(Raw) /\ UploadGoto(u, "fill")
     ELSE UNCHANGED blobVars /\ UploadGoto(u, "wait")
  /\ UNCHANGED <<docVars, rows, jobs, handler>>

\* The whole file is there for others to read before its writer has read it back.
FillRaw(u) ==
  /\ upload[u] = "fill"
  /\ Write(Raw, BytesOf[u]) /\ UNCHANGED unlinked
  /\ UploadGoto(u, "settle")
  /\ UNCHANGED <<docVars, rows, jobs, handler>>
SettleRaw(u) ==
  /\ upload[u] = "settle"
  /\ ReadBack(Raw, BytesOf[u])
  /\ UploadGoto(u, IF blobs[Raw] = BytesOf[u] THEN "created" ELSE "refused")
  /\ UNCHANGED <<docVars, rows, jobs, handler>>

\* The write, or anything after it, fails.
FillRawFails(u) ==
  /\ upload[u] \in {"fill", "settle"}
  /\ PutFails(Raw)
  /\ UploadGoto(u, "refused")
  /\ UNCHANGED <<docVars, rows, jobs, handler>>

\* readIdempotentUploadObject: forty reads, then the key counts as reused.
ReadRaw(u) ==
  /\ upload[u] = "wait"
  /\ UploadGoto(u, IF blobs[Raw] = BytesOf[u] THEN "found" ELSE "refused")
  /\ UNCHANGED <<docVars, storeVars, jobs, handler>>

\* The metadata transaction, or the replay of another upload's.
CommitUpload(u) ==
  /\ upload[u] \in {"created", "found"}
  /\ \/ /\ doc.status = "NONE"
        /\ doc' = [NoDoc EXCEPT !.status = "QUARANTINED", !.file = BytesOf[u], !.source = "raw"]
        /\ rows' = [rows EXCEPT ![Raw] = ActiveObject(BytesOf[u])]
        /\ UploadGoto(u, "scan")
     \/ /\ doc.status # "NONE" /\ doc.file = BytesOf[u]
        /\ UploadGoto(u, "scan") /\ UNCHANGED <<doc, rows>>
  /\ UNCHANGED <<versions, blobVars, jobs, handler>>

UploadTransactionThrows(u) ==
  /\ upload[u] \in {"created", "found"}
  /\ UploadGoto(u, IF upload[u] = "created" THEN "reconcile" ELSE "refused")
  /\ UNCHANGED <<docVars, storeVars, jobs, handler>>

\* IDEMPOTENCY_KEY_REUSED inside the transaction.
UploadConflicts(u) ==
  /\ doc.status # "NONE" /\ doc.file # BytesOf[u]
  /\ UploadTransactionThrows(u)

\* The catalogue is asked whether the object is known...
ReconcileUpload(u) ==
  /\ upload[u] = "reconcile"
  /\ UploadGoto(u, IF rows[Raw].retention = "NONE" THEN "compensate" ELSE "refused")
  /\ UNCHANGED <<docVars, storeVars, jobs, handler>>

\* ... and if it was not, the object this upload created is deleted.
CompensateUpload(u) ==
  /\ upload[u] = "compensate"
  /\ blobs' = [blobs EXCEPT ![Raw] = NoFile]
  /\ UploadGoto(u, "compensated")
  /\ UNCHANGED <<docVars, rows, unlinked, jobs, handler>>

-----------------------------------------------------------------------------
(* Submitting work: lib/services/document-jobs.ts.                         *)

NoneActive(js) == \A j \in js : ~Active(j)

\* An upload's initial scan, or an operator's request for another one.
CanScan(j) ==
  /\ jobs[j].status = "NONE" /\ NoneActive(ScanJobs)
  /\ doc.status \in Scannable \cup {"SCANNING"}

enqueueDocumentScan(j) ==
  /\ CanScan(j)
  /\ jobs' = [jobs EXCEPT ![j] = QueuedJob(NoInput)]

UploadSubmitsScan(u) ==
  /\ upload[u] = "scan"
  /\ \/ enqueueDocumentScan(InitialScan)
     \/ ~CanScan(InitialScan) /\ UNCHANGED jobs
  /\ UploadGoto(u, "done")
  /\ UNCHANGED <<docVars, storeVars, handler>>

OperatorScan(j) ==
  /\ j # InitialScan
  /\ enqueueDocumentScan(j)
  /\ UNCHANGED <<docVars, storeVars, handler, upload>>

\* The job remembers the extraction that was current when it was submitted.
CanExtract(j) ==
  /\ jobs[j].status = "NONE" /\ NoneActive(ExtractJobs)
  /\ doc.status \in Extractable \cup {"EXTRACTING"}

enqueueDocumentExtraction(j) ==
  /\ CanExtract(j)
  /\ jobs' = [jobs EXCEPT ![j] = QueuedJob(doc.extraction)]

OperatorExtract(j) ==
  /\ j \notin {AfterScan[s] : s \in DOMAIN AfterScan}
  /\ enqueueDocumentExtraction(j)
  /\ UNCHANGED <<docVars, storeVars, handler, upload>>

-----------------------------------------------------------------------------
(* Handlers: the steps every handler has.                                  *)

Pc(j, a) == handler[j][a].pc
At(j, a, pc) == jobs[j].status # "NONE" /\ Pc(j, a) = pc
Goto(j, a, pc) == handler' = [handler EXCEPT ![j][a].pc = pc]
Ended == [NoHandler EXCEPT !.pc = "done"]
End(j, a) == handler' = [handler EXCEPT ![j][a] = Ended]
Enter(j, a, pc, resume) ==
  handler' = [handler EXCEPT ![j][a].pc = pc, ![j][a].resume = resume]
Unfenced == <<docVars, storeVars, jobs, upload>>

StartHandler(j) ==
  /\ StartAttempt(j)
  /\ handler' = [handler EXCEPT ![j][jobs[j].attempts + 1].pc = "state"]
  /\ UNCHANGED <<docVars, storeVars, upload>>

\* The worker settles what the handler returned or threw (rethrowJobError).
Outcomes == {"returned", "failFatal", "failRetryable"}
SettleHandler(j, a) ==
  /\ Pc(j, a) \in Outcomes
  /\ Settle(j, a, Pc(j, a))
  /\ End(j, a)
  /\ UNCHANGED <<docVars, storeVars, upload>>

\* A fenced transaction of a lost attempt is refused: JOB_LEASE_LOST.
FencedPcs == {"begin", "commit", "enqueue", "recordFailure"}
LeaseLost(j, a) ==
  /\ Pc(j, a) \in FencedPcs /\ ~Fenced(j, a)
  /\ Goto(j, a, "failRetryable")
  /\ UNCHANGED Unfenced

\* Variant: an object already there is not read again.
ReusableUnread(o) == TRUE

\* storage.put of a deterministic object.  An object already there is reused
\* if its bytes are the expected ones: prepareCleanSourceObject and
\* prepareExtractionArtifact.
Reusable(o) == blobs[o] = doc.file

PutObject(j, a, o) ==
  /\ Pc(j, a) = "put"
  /\ IF blobs[o] = NoFile
     THEN Create(o) /\ Goto(j, a, "fill")
     ELSE /\ UNCHANGED blobVars
          /\ Goto(j, a, IF Reusable(o) THEN "commit" ELSE "failRetryable")
  /\ UNCHANGED <<docVars, rows, jobs, upload>>

\* Every writer of o writes the same bytes, so they are what they were again.
FillObject(j, a, o) ==
  /\ Pc(j, a) = "fill"
  /\ Write(o, doc.file) /\ unlinked' = unlinked \ {o}
  /\ Goto(j, a, "settle")
  /\ UNCHANGED <<docVars, rows, jobs, upload>>
SettleObject(j, a, o) ==
  /\ Pc(j, a) = "settle"
  /\ ReadBack(o, doc.file)
  /\ Goto(j, a, IF blobs[o] = doc.file THEN "commit" ELSE "failRetryable")
  /\ UNCHANGED <<docVars, rows, jobs, upload>>
FillObjectFails(j, a, o) ==
  /\ Pc(j, a) \in {"fill", "settle"}
  /\ PutFails(o)
  /\ Goto(j, a, "failRetryable")
  /\ UNCHANGED <<docVars, rows, jobs, upload>>

\* INSERT ... ON CONFLICT DO NOTHING, then the row found must be the expected
\* one and active: catalogCleanSourceObject and catalogExtractionArtifact.
Catalogued(o) ==
  IF rows[o].retention = "NONE" THEN [rows EXCEPT ![o] = ActiveObject(doc.file)] ELSE rows
CatalogueConflict(o) == rows[o].retention \notin {"NONE", "ACTIVE"}

-----------------------------------------------------------------------------
(* DOCUMENT_SCAN.                                                          *)

\* getDocumentProcessingState: scan, or go on after a scan already committed.
ScanReadsState(j, a) ==
  /\ j \in ScanJobs /\ Pc(j, a) = "state"
  /\ Enter(j, a,
       IF doc.status \in Scannable \cup {"SCANNING"} THEN "begin"
       ELSE IF doc.scan \in {"CLEAN", "INFECTED"} THEN "after" ELSE "failFatal",
       doc.status = "SCANNING")
  /\ UNCHANGED Unfenced

\* The first transaction of scanDocument.
BeginScan(j, a) ==
  /\ j \in ScanJobs /\ Pc(j, a) = "begin" /\ Fenced(j, a)
  /\ IF \/ doc.status \in Scannable
        \/ doc.status = "SCANNING" /\ handler[j][a].resume
     THEN doc' = [doc EXCEPT !.status = "SCANNING"] /\ Goto(j, a, "scan")
     ELSE UNCHANGED doc /\ Goto(j, a, "failFatal")
  /\ UNCHANGED <<versions, storeVars, jobs, upload>>

\* The bytes are read and scanned; anything but a verdict is an ERROR.
Scanned(j, a, scan) ==
  /\ j \in ScanJobs /\ Pc(j, a) = "scan"
  /\ handler' = [handler EXCEPT ![j][a].scan = scan,
                    ![j][a].pc = IF scan = "CLEAN" THEN "put" ELSE "commit"]
  /\ UNCHANGED Unfenced
ScanBytes(j, a) == Scanned(j, a, IF blobs[Raw] = doc.file THEN "CLEAN" ELSE "ERROR")
ScanNotClean(j, a) == Scanned(j, a, "ERROR") \/ Scanned(j, a, "INFECTED")

\* Variant: a scanner that is down lets the document through.
resolveScanDispositionOpen(scan) == IF scan = "INFECTED" THEN "REJECTED" ELSE "CLEAN"

resolveScanDisposition(scan) ==
  IF scan = "CLEAN" \/ (scan = "ERROR" /\ Bypass) THEN "CLEAN"
  ELSE IF scan = "INFECTED" THEN "REJECTED" ELSE "BLOCKED_SCANNER_UNAVAILABLE"

\* The second transaction of scanDocument.
CommitScan(j, a) ==
  /\ j \in ScanJobs /\ Pc(j, a) = "commit" /\ Fenced(j, a)
  /\ LET scan == handler[j][a].scan IN
     IF doc.status # "SCANNING" \/ (scan = "CLEAN" /\ CatalogueConflict(Clean))
     THEN Goto(j, a, "failFatal") /\ UNCHANGED <<doc, rows>>
     ELSE /\ doc' = [doc EXCEPT
               !.status = resolveScanDisposition(scan), !.scan = scan,
               !.bypassed = (scan = "ERROR" /\ Bypass),
               !.source = IF scan = "CLEAN" THEN "clean" ELSE @]
          /\ rows' = IF scan = "CLEAN" THEN Catalogued(Clean) ELSE rows
          /\ Goto(j, a, "after")
  /\ UNCHANGED <<versions, blobVars, jobs, upload>>

\* The state is read again: a clean document goes on to its extraction.
AfterScanReadsState(j, a) ==
  /\ j \in ScanJobs /\ Pc(j, a) = "after"
  /\ Goto(j, a, IF /\ j \in DOMAIN AfterScan
                   /\ doc.status = "CLEAN" /\ doc.scan = "CLEAN"
                THEN "enqueue" ELSE "returned")
  /\ UNCHANGED Unfenced

ScanSubmitsExtraction(j, a) ==
  /\ j \in ScanJobs /\ Pc(j, a) = "enqueue" /\ Fenced(j, a)
  /\ LET child == AfterScan[j] IN
     \/ enqueueDocumentExtraction(child) /\ Goto(j, a, "returned")
     \/ /\ ~CanExtract(child) /\ UNCHANGED jobs
        /\ Goto(j, a, IF jobs[child].status # "NONE" THEN "returned" ELSE "failFatal")
  /\ UNCHANGED <<docVars, storeVars, upload>>

-----------------------------------------------------------------------------
(* DOCUMENT_EXTRACT.                                                       *)

\* An extraction published since the job was submitted answers the job.
ExtractReadsState(j, a) ==
  /\ j \in ExtractJobs /\ Pc(j, a) = "state"
  /\ Enter(j, a,
       IF /\ doc.extraction # jobs[j].input
          /\ doc.status \in {"READY", "OCR_REQUIRED_UNSUPPORTED"}
       THEN "returned" ELSE "begin",
       doc.status = "EXTRACTING")
  /\ UNCHANGED Unfenced

Recorded == {v \in Versions : versions[v] # "NONE"}
NextVersion == Cardinality(Recorded) + 1

\* The first transaction of extractDocument reserves nothing: the version is
\* one above the recorded ones.
BeginExtraction(j, a) ==
  /\ j \in ExtractJobs /\ Pc(j, a) = "begin" /\ Fenced(j, a)
  /\ IF \/ doc.scan # "CLEAN" /\ ~(doc.bypassed /\ Bypass)
        \/ /\ doc.status \notin Extractable
           /\ ~(doc.status = "EXTRACTING" /\ handler[j][a].resume)
     THEN Goto(j, a, "failFatal") /\ UNCHANGED doc
     ELSE /\ NextVersion \in Versions
          /\ doc' = [doc EXCEPT !.status = "EXTRACTING"]
          /\ handler' = [handler EXCEPT ![j][a].version = NextVersion, ![j][a].pc = "extract"]
  /\ UNCHANGED <<versions, storeVars, jobs, upload>>

\* Reading, extracting, validating and chunking, any of which may fail.
ExtractBytes(j, a) ==
  /\ j \in ExtractJobs /\ Pc(j, a) = "extract"
  /\ Goto(j, a, IF blobs[Raw] = doc.file THEN "put" ELSE "recordFailure")
  /\ UNCHANGED Unfenced

\* What makes the commit throw: the document moved on, the artifact's row is
\* gone, or the version has been recorded (UNIQUE (document_id, version)).
StaleExtraction(v) ==
  \/ doc.status # "EXTRACTING" \/ CatalogueConflict(Artifact(v))
  \/ versions[v] # "NONE"

\* Variant: the anchors of the version before stay CURRENT.
PublishedKeepingAnchors(v) ==
  [doc EXCEPT !.status = "READY", !.extraction = v, !.anchors = @ \cup {v}, !.text = v]

\* New anchors are CURRENT, those of other versions NEEDS_REVIEW, and the source
\* shows the new text.
Published(v) ==
  [doc EXCEPT !.status = "READY", !.extraction = v, !.anchors = {v}, !.text = v]

\* The transaction that publishes an extraction.
CommitExtraction(j, a) ==
  /\ j \in ExtractJobs /\ Pc(j, a) = "commit" /\ Fenced(j, a)
  /\ LET v == handler[j][a].version
         ocr == doc.file \in ImageOnly
     IN \/ /\ StaleExtraction(v)
           /\ Goto(j, a, "recordFailure") /\ UNCHANGED <<doc, versions, rows>>
        \/ /\ ~StaleExtraction(v)
           /\ versions' = [versions EXCEPT ![v] = IF ocr THEN "OCR" ELSE "SUCCEEDED"]
           /\ rows' = Catalogued(Artifact(v))
           /\ doc' = IF ocr
                     THEN [doc EXCEPT !.status = "OCR_REQUIRED_UNSUPPORTED", !.extraction = v]
                     ELSE Published(v)
           /\ Goto(j, a, "returned")
  /\ UNCHANGED <<blobVars, jobs, upload>>

\* The extractor, the chunker or the publishing transaction throws.
ExtractionThrows(j, a) ==
  /\ j \in ExtractJobs /\ Pc(j, a) \in {"extract", "commit"}
  /\ Goto(j, a, "recordFailure")
  /\ UNCHANGED Unfenced

recordExtractionFailure(j, a) ==
  /\ j \in ExtractJobs /\ Pc(j, a) = "recordFailure" /\ Fenced(j, a)
  /\ LET v == handler[j][a].version IN
     IF doc.status = "EXTRACTING"
     THEN /\ versions' = [versions EXCEPT ![v] = IF @ = "NONE" THEN "FAILED" ELSE @]
          /\ doc' = [doc EXCEPT !.status = "EXTRACTION_FAILED"]
     ELSE UNCHANGED docVars
  /\ \/ Goto(j, a, "failFatal") \/ Goto(j, a, "failRetryable")
  /\ UNCHANGED <<storeVars, jobs, upload>>

-----------------------------------------------------------------------------
(* Deletion and STORAGE_CLEANUP.                                           *)

\* A cleanup holds the row's lock while it deletes the backing object.
Locked(o) ==
  \E a \in AttemptNumbers :
    Pc(CleanupJob, a) = "erased" /\ handler[CleanupJob][a].object = o
Pending == {o \in Objects : rows[o].retention = "PENDING_DELETE"}

\* DOCUMENT_JOBS_ACTIVE: waiting jobs of the document are cancelled, a running
\* one refuses the deletion.
NoJobRunning == \A j \in JobIds : Active(j) => jobs[j].status = "QUEUED"

\* Variant: deleting again revives the rows of objects already deleted.
MarkedForDeletionAll(row) ==
  IF row.retention # "NONE"
  THEN [row EXCEPT !.retention = "PENDING_DELETE", !.owner = 0] ELSE row

MarkedForDeletion(row) ==
  IF row.retention \in {"ACTIVE", "PENDING_DELETE"}
  THEN [row EXCEPT !.retention = "PENDING_DELETE", !.owner = 0] ELSE row

deleteDocument ==
  /\ doc.status # "NONE" /\ \A o \in Objects : ~Locked(o)
  /\ doc.status # "DELETED" => NoJobRunning
  /\ rows' = [o \in Objects |-> MarkedForDeletion(rows[o])]
  /\ jobs' = [j \in JobIds |->
               IF j = CleanupJob
               THEN IF jobs[j].status = "NONE" THEN QueuedJob(NoInput) ELSE jobs[j]
               ELSE IF jobs[j].status = "QUEUED"
               THEN [jobs[j] EXCEPT !.status = "CANCELLED"] ELSE jobs[j]]
  /\ doc' = [doc EXCEPT !.status = "DELETED", !.anchors = {}, !.text = 0, !.source = NoFile]
  /\ UNCHANGED <<versions, blobVars, handler, upload>>

\* claimDeletionCandidates: an owner is the attempt that claims.
claimDeletionCandidates(a) ==
  /\ Pc(CleanupJob, a) = "state"
  /\ LET claims == {o \in Pending : rows[o].owner = 0 /\ ~Locked(o)} IN
     /\ rows' = [o \in Objects |-> IF o \in claims THEN [rows[o] EXCEPT !.owner = a] ELSE rows[o]]
     /\ handler' = [handler EXCEPT ![CleanupJob][a] =
          [@ EXCEPT !.pc = "delete", !.claims = claims, !.failed = FALSE, !.progress = FALSE]]
  /\ UNCHANGED <<docVars, blobVars, jobs, upload>>

CleanupLeaseExpires(o) ==
  /\ rows[o].owner # 0 /\ ~Locked(o)
  /\ rows' = [rows EXCEPT ![o].owner = 0]
  /\ UNCHANGED <<docVars, blobVars, jobs, handler, upload>>

StillClaimed(o, a) == rows[o].owner = a /\ rows[o].retention = "PENDING_DELETE"

\* Candidates are taken in the order of their query.
NextClaim(a) == CHOOSE o \in handler[CleanupJob][a].claims : TRUE
Deleting(a) ==
  /\ Pc(CleanupJob, a) = "delete" /\ handler[CleanupJob][a].claims # {}
  /\ ~Locked(NextClaim(a))
HandleClaim(a, claim) ==
  handler' = [handler EXCEPT ![CleanupJob][a] = [claim EXCEPT !.claims = @ \ {NextClaim(a)}]]

\* deleteClaimed: the object goes first, under the row's lock; a claim that
\* was lost deletes nothing.
deleteClaimed(a) ==
  /\ Deleting(a)
  /\ LET h == handler[CleanupJob][a]  o == NextClaim(a) IN
     IF StillClaimed(o, a)
     THEN /\ blobs' = [blobs EXCEPT ![o] = NoFile]
          /\ HandleClaim(a, [h EXCEPT !.pc = "erased", !.object = o])
     ELSE UNCHANGED blobs /\ HandleClaim(a, [h EXCEPT !.failed = TRUE])
  /\ UNCHANGED <<docVars, rows, unlinked, jobs, upload>>

\* The store refuses: the claim is given back.
markDeleteFailed(a) ==
  /\ Deleting(a) /\ StillClaimed(NextClaim(a), a)
  /\ rows' = [rows EXCEPT ![NextClaim(a)].owner = 0]
  /\ HandleClaim(a, [handler[CleanupJob][a] EXCEPT !.failed = TRUE])
  /\ UNCHANGED <<docVars, blobVars, jobs, upload>>

\* ... and the row follows in the same transaction.
MarkDeleted(a) ==
  /\ Pc(CleanupJob, a) = "erased"
  /\ rows' = [rows EXCEPT ![handler[CleanupJob][a].object].retention = "DELETED",
                          ![handler[CleanupJob][a].object].owner = 0]
  /\ handler' = [handler EXCEPT ![CleanupJob][a].pc = "delete", ![CleanupJob][a].progress = TRUE]
  /\ UNCHANGED <<docVars, blobVars, jobs, upload>>

\* Variant: a batch that deleted nothing still counts as done.
CleanupResultOptimistic(a) == IF handler[CleanupJob][a].failed THEN "failRetryable" ELSE "returned"

\* The end of a batch: retry, the next batch, or done.
CleanupResult(a) ==
  LET h == handler[CleanupJob][a] IN
  IF h.failed THEN "failRetryable"
  ELSE IF Pending = {} THEN "returned"
  ELSE IF h.progress THEN "state" ELSE "failRetryable"

FinishBatch(a) ==
  /\ Pc(CleanupJob, a) = "delete" /\ handler[CleanupJob][a].claims = {}
  /\ Goto(CleanupJob, a, CleanupResult(a))
  /\ UNCHANGED Unfenced

\* cleanup:orphans --delete-untracked, with writers and workers stopped first
\* as its help text demands: what no live row tracks is deleted.
UploadsAtRest == {"start", "done", "refused", "compensated"}
Untracked(o) == rows[o].retention \in {"NONE", "DELETED"}
deleteUntracked ==
  /\ \E o \in Objects : Untracked(o) /\ blobs[o] # NoFile
  /\ blobs' = [o \in Objects |-> IF Untracked(o) THEN NoFile ELSE blobs[o]]
  /\ handler' = [j \in JobIds |-> [a \in AttemptNumbers |->
                   IF Pc(j, a) = "none" THEN NoHandler ELSE Ended]]
  /\ upload' = [u \in Uploads |-> IF upload[u] \in UploadsAtRest THEN upload[u] ELSE "refused"]
  /\ UNCHANGED <<docVars, rows, unlinked, jobs>>

-----------------------------------------------------------------------------
(* The queue, the operator and crashes.                                    *)

AttemptLost(j) ==
  /\ LeaseExpires(j) \/ releaseJobLease(j) \/ requestJobCancellation(j)
  /\ UNCHANGED <<docVars, storeVars, handler, upload>>
OperatorRetries(j) ==
  /\ manualRetryJob(j)
  /\ UNCHANGED <<docVars, storeVars, handler, upload>>

\* A process dies between two steps; a lock it held is released.
CrashHandler(j, a) ==
  /\ Pc(j, a) \notin {"none", "done"} /\ ~(Fenced(j, a) /\ Pc(j, a) \in Outcomes)
  /\ End(j, a)
  /\ UNCHANGED Unfenced
CrashUpload(u) ==
  /\ upload[u] \notin UploadsAtRest
  /\ UploadGoto(u, "refused")
  /\ UNCHANGED <<docVars, storeVars, jobs, handler>>

\* The object a handler prepares.
Target(j, a) == IF j \in ScanJobs THEN Clean ELSE Artifact(handler[j][a].version)

UploadStep(u) ==
  \/ CheckExistingUpload(u) \/ PutRaw(u) \/ FillRaw(u) \/ SettleRaw(u)
  \/ ReadRaw(u) \/ CommitUpload(u) \/ UploadConflicts(u) \/ ReconcileUpload(u)
  \/ CompensateUpload(u) \/ UploadSubmitsScan(u)
ScanStep(j, a) ==
  \/ ScanReadsState(j, a) \/ BeginScan(j, a) \/ ScanBytes(j, a)
  \/ CommitScan(j, a) \/ AfterScanReadsState(j, a) \/ ScanSubmitsExtraction(j, a)
ExtractStep(j, a) ==
  \/ ExtractReadsState(j, a) \/ BeginExtraction(j, a) \/ ExtractBytes(j, a)
  \/ CommitExtraction(j, a) \/ recordExtractionFailure(j, a)
CleanupStep(a) ==
  \/ claimDeletionCandidates(a) \/ deleteClaimed(a) \/ MarkDeleted(a) \/ FinishBatch(a)

Fault ==
  \/ \E u \in Uploads : FillRawFails(u) \/ UploadTransactionThrows(u) \/ CrashUpload(u)
  \/ \E j \in JobIds : AttemptLost(j) \/ OperatorRetries(j)
  \/ \E j \in JobIds, a \in AttemptNumbers :
       \/ FillObjectFails(j, a, Target(j, a)) \/ ScanNotClean(j, a)
       \/ ExtractionThrows(j, a) \/ CrashHandler(j, a)
  \/ \E a \in AttemptNumbers : markDeleteFailed(a)
  \/ \E o \in Objects : CleanupLeaseExpires(o)
  \/ deleteUntracked

Step ==
  \/ \E u \in Uploads : UploadStep(u)
  \/ \E j \in ScanJobs : OperatorScan(j)
  \/ \E j \in ExtractJobs : OperatorExtract(j)
  \/ \E j \in JobIds : StartHandler(j)
  \/ \E j \in JobIds, a \in AttemptNumbers :
       \/ ScanStep(j, a) \/ ExtractStep(j, a)
       \/ PutObject(j, a, Target(j, a)) \/ FillObject(j, a, Target(j, a))
       \/ SettleObject(j, a, Target(j, a))
       \/ LeaseLost(j, a) \/ SettleHandler(j, a)
  \/ \E a \in AttemptNumbers : CleanupStep(a)
  \/ deleteDocument

Next ==
  /\ \/ Step /\ UNCHANGED faults
     \/ Fault /\ faults < MaxFaults /\ faults' = faults + 1
  /\ UNCHANGED BytesOf

Spec == Init /\ [][Next]_vars

-----------------------------------------------------------------------------
(* Properties.                                                             *)

\* Every object the catalogue calls ACTIVE is in the store with the catalogued
\* bytes, whatever handlers, uploads and cleanups did to it: a reused object is
\* complete, a failed attempt leaves objects a successor relies on, a cleanup
\* deletes only what it still owns.  There are two exceptions.  The raw object
\* may be deleted by an upload whose transaction failed, after another upload of
\* the same key has catalogued it (lib/services/documents.ts, quarantineDocument).
\* And an object may be catalogued by an attempt or an upload that found it
\* complete while its writer was still to sync it and read it back: that writer
\* unlinks it when one of these fails (put in lib/storage/local.ts and s3.ts),
\* and it stays lost until another attempt writes it again.
BytesBehindRows ==
  \A o \in Objects :
    rows[o].retention = "ACTIVE" =>
      \/ blobs[o] = rows[o].sha256 \/ o \in unlinked
      \/ o = Raw /\ \E u \in Uploads : upload[u] = "compensated"

\* No document is usable unless the scan on record is CLEAN and its promoted
\* clean object is catalogued, or the bypass of the demo mode was applied
\* (scanDocument, resolveScanDisposition, extractDocument).
CleanBeforeUse ==
  doc.status \in Extractable \cup {"EXTRACTING"} =>
    \/ doc.scan = "CLEAN" /\ doc.source = "clean" /\ rows[Clean].retention = "ACTIVE"
    \/ Bypass /\ doc.bypassed /\ doc.source = "raw"

\* The published extraction is the newest one that succeeded, its artifact is
\* catalogued, and citation anchors and the source's text belong to it and to
\* no other version: late, duplicate and failed attempts of several extraction
\* jobs never mix two versions (extractDocument, recordExtractionFailure).
PublishedExtraction ==
  LET done == {v \in Versions : versions[v] \in {"OCR", "SUCCEEDED"}} IN
  /\ doc.extraction # 0 =>
       /\ doc.extraction \in done /\ \A v \in done : v <= doc.extraction
       /\ rows[Artifact(doc.extraction)].retention # "NONE"
  /\ doc.status # "DELETED" => doc.anchors = (IF doc.text = 0 THEN {} ELSE {doc.text})
  /\ doc.status = "READY" => doc.text = doc.extraction

\* Once a document is deleted nothing is published for it again, and its
\* objects only move from PENDING_DELETE to DELETED (deleteDocument,
\* assertDocumentJobFence).
DeletedForGood ==
  [][doc.status = "DELETED" =>
       /\ doc' = doc /\ versions' = versions
       /\ \A o \in Objects :
            \/ rows'[o].retention = rows[o].retention
            \/ rows[o].retention = "PENDING_DELETE" /\ rows'[o].retention = "DELETED"]_vars

\* A cleanup job that succeeded has deleted every object of the document, also
\* when claims expired or the store failed for some of them
\* (worker/document-handlers.ts, cleanup).
CleanupComplete ==
  jobs[CleanupJob].status = "SUCCEEDED" =>
    \A o \in Objects : rows[o].retention \in {"NONE", "DELETED"}
=============================================================================
