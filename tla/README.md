# Verification of the AI research workbench

TLA+ specifications of the durable execution core of the workbench, the TLC
runs that check them on small instances, and TLAPS proofs of the results that
hold for every instance. Paths are relative to the repository root (`src/`).

## 1. The system

The workbench is a Next.js web process and one or more worker processes that
share a PostgreSQL database and an object store.

```
 operator -> web API -> services ---+                 +--- worker process(es)
                                    |                 |    poll, execute, heartbeat,
                                    v                 v    timeout, stop
                              PostgreSQL: jobs, job_attempts, research_runs,
                              research_run_stages, stage_domain_commits, ...
                                                      |
                                       handlers: pipeline stage, document,
                                       export, source search -> providers, storage
```

All coordination goes through database transactions that lock the project row
first and then the rows they change. There are no messages between processes;
the races are between transactions, timers and callbacks of the worker's event
loop, process death, and the expiry of leases.

| Component | State | Operations | Hard behaviour |
|---|---|---|---|
| Job queue `lib/services/jobs.ts`, `lib/domain/jobs.ts` | `jobs` (status, attempts, max_attempts, lease, version), `job_attempts` | submit, claim, start, heartbeat, complete, fail, cancel, acknowledge, release, recover, manual retry | late calls of attempts whose lease was lost; leases that expire while a call waits for a lock; lost replies |
| Durable worker `worker/durable-worker.ts`, `worker/main.ts` | the `active` map, per-execution flags (cancellation, lease lost, timed out, shutdown), poll in flight, stop state | pollOnce, execute, heartbeat interval, timeout, stop | the race of handler, abort, timeout and heartbeat; two nested catch blocks; shutdown during a claim; a worker reclaiming its own job |
| Research runs and stages `lib/services/research-runs.ts`, `run-stages.ts`, `lib/domain/research-runs.ts` | `research_runs.status`, one row per stage and generation, `stage_domain_commits` | create, start, record, commit, block, boundary, queue next, cancel, resume, restart | several transactions per attempt with crashes between them; operator commands between any two of them |
| Pipeline handler `worker/research-pipeline-handler.ts`, `research-orchestrator.ts` | none of its own: what it read before the next transaction | load, start, provider call, record, commit, advance | stale reads; replay after a crash; idempotency keys |
| Provider permits, executions, budgets `provider-limits.ts`, `provider-executions.ts`, `lib/budgets` | `provider_permits`, `provider_rate_windows`, `provider_executions`, usage columns of the run | acquire, renew, release, expire; start, finish; check, record | permits of crashed callers; one response twice; usage checked long before it is written |
| Source search `source-search-jobs.ts`, `worker/source-search-handler.ts` | searches of the run, checkpoint in the job, sources | submit, reserve, search, commit, replay | a lost attempt before or after its commit; the budget used up meanwhile |
| Mutation receipts `mutation-receipts.ts`, authentication `auth.ts` | `mutation_receipts`; operators, sessions, login throttle | run under a key, replay; login, logout, revoke, change password | concurrent duplicates; revocation racing use; waits for row locks that cross |
| Documents `documents.ts`, `document-jobs.ts`, `worker/document-handlers.ts` | `documents`, `document_extractions`, anchors | upload, scan, extract, delete | crash between object and row; several jobs and attempts finishing in any order |
| Object storage and cleanup `lib/storage`, `orphan-cleanup.ts` | `storage_objects`, the objects | put, head, read, delete; claim, delete claimed | partial writes; a deletion whose transaction rolls back |
| Exports `export-jobs.ts`, `export-storage.ts`, `worker/export-handler.ts` | `project_exports`, objects, an advisory lock | submit, snapshot, reserve, write, finalise, recover, fail | the project changing while an export is generated |
| Research graph, QA, approval `projects.ts`, `workflow.ts`, `ledger.ts`, `sources.ts`, `reports.ts`, `qa.ts`, `approval.ts` | scope, questions, plans, sources, evidence, claims, report, findings, approval | the edits, QA, request, approve, deliver | approving what was not reviewed; support computed from what has changed |
| Chunking `documents/chunking.ts`, fetch `security/url.ts` | none | split, group; resolve, connect, redirect | boundaries and overlap; redirects, time and addresses |

## 2. The modules and what is planned

| Part | Modules | Proofs | State |
|---|---|---|---|
| Queue and worker | `JobDomain`, `JobLifecycle`, `JobQueue` | `JobQueueProofs` | checked and proved (section 3) |
| Research runs | `RunDomain`, `RunPipeline` | `RunPipelineProofs` | checked and proved (section 4) |
| The queue seen by a handler | `WorkerJobs` | `JobQueueProofs`, and those of its users | shown to be implemented by `JobQueue`; used by the next four (section 5) |
| Documents and their objects | `Documents` | `DocumentsProofs` | checked and proved |
| Providers | `ProviderAccess`, used by `SourceSearch` and `StageCalls` | `SourceSearchProofs`, `StageCallsProofs` | checked and proved |
| Review and exports | `Review`, composed with `WorkerJobs` in `Exports` | `ExportsProofs` | checked and proved |
| Sessions and receipts | `Sessions` | `SessionsProofs` | checked and proved (section 6) |
| Evidence ledger and QA | `Ledger` | `LedgerProofs` | checked and proved |
| Fetching | `SafeFetch` | the end of `SourceSearchProofs` | checked and proved |
| Chunking | `Chunking` | the first section of `DocumentsProofs` | checked and proved |

`MC*` modules hold the instances. Every safety property of a passing run is proved for all
values of the constants, and so is the refinement of both abstract specifications of
the queue. What stays with TLC, which is liveness, is listed at the end of section 8.

## 3. The job queue and the worker

| Module | Models |
|---|---|
| `JobDomain` | `lib/domain/jobs.ts`: statuses, transition table, terminal statuses, target of a failure |
| `JobLifecycle` | abstract specification: a job seen from its row alone (status, attempts, attempts allowed) |
| `JobQueue` | `lib/services/jobs.ts` and `worker/durable-worker.ts` together: every queue transaction, and every point at which an execution awaits one |
| `MCJobQueue` | constants of the runs, worker symmetry |
| `JobQueueProofs` | the theorems |

**State.** `jobs` and `history` are the tables `jobs` and `job_attempts`;
`output` says which attempt's handler produced the stored output. `exec[j][a]` is
the execution of attempt `a` in the process that claimed it: where it is awaiting,
the four flags of the execution (cancellation, shutdown, lease lost, timed out) and
the heartbeat in flight. `active`, `worker` and `poll` are the private state of each
process. `faults` counts crashes, stalls past a lease and database errors, up to
`MaxFaults`.

**Steps.** A transaction is one step because each of them locks the project row and
then the job row. Between two awaited calls of one execution anything may happen.
Three details of the code are kept on purpose:

* PostgreSQL's `NOW()` is the time the transaction *started*. A call that started
  before the lease expired and then waited for the lock still sees a current lease;
  `early` (and `hb`, for heartbeats) records that possibility.
* The version column is compared only by `startJob`, with the version its claim
  returned. `asClaimed` says that nothing has written the row since. A late heartbeat
  of a finished attempt of the same worker is such a write: the claim is then refused
  and left to expire.
* Worker identities survive restarts (`WORKER_ID`), so a worker can claim its own
  expired job while the old execution still runs; `active` is keyed by job id only.

`pollOnce` reads the total capacity once per poll and the per-type counts before each
claim; the model reads both before each claim, which only allows a claim that the next
poll would make anyway. The branch for a job without a handler is unreachable (claims are
restricted to the handled types), and the `runIds` filter and logging are left out.
What a job's end does to its research run is in `RunPipeline`; `manualRetryJob` is
not offered for pipeline jobs, as in the code.

**Refinement.** `JobQueue` implements two abstract specifications
(`ImplementsAbstractions`). `ImplementsLifecycle` maps the three row columns to
`JobLifecycle`: claims, retries, dead-lettering and cancellation under any interleaving
are lifecycle steps, everything else stutters. `ImplementsHandlerView` maps the row to the
one of `WorkerJobs` (`HandlerRow`: claimed counts as running, waiting for a retry as
queued, dead-lettered as failed), so that the queue the models of the handlers are
composed with (section 5) is this one. Refinement alone would allow a step to be taken
for another that happens to have the same effect; `OperationsAgree` says that every
operation is the operation of the same name.

## 4. Research runs

| Module | Models |
|---|---|
| `RunDomain` | `lib/domain/research-runs.ts`: the two transition tables |
| `RunPipeline` | `lib/services/research-runs.ts`, `run-stages.ts`, the run part of `jobs.ts`, `worker/research-pipeline-handler.ts`, `lib/services/research-orchestrator.ts` |
| `MCRunPipeline` | the view of the runs |
| `RunPipelineProofs` | the theorems |

**State.** One run: its mode and status; `rows[s][g]`, a stage row per stage and
generation, with status, output reference (absent, equal to or different from the
committed one), number of domain commits, the generation of the preceding stage the
output was made from, and whether its domain effects are current, superseded by this run
or displaced by another run of the project; `latest`, the highest generation of each stage; the run's jobs; and for each attempt of each job
where its handler is, with what it has read (`arg`) for its next transaction.

**Steps.** A handler reads the bundle, starts the stage, calls the provider, commits,
advances and queues the next stage or sets a boundary, each a transaction of its own;
`FencedPcs` are the ones that check the job's lease. Of the queue only what the run
sees is kept: claim and start are one step, since both statuses count as active; a
timeout, a database error, a crash and an expired lease are all `AttemptLost`. The
handler of a lost attempt lives on until a transaction refuses it, and fencing is by
worker and status as in `lockOwnedJob`, so a retried job un-fences an old handler. The
operator cancels jobs and the run, resumes, restarts stages and approves at any time.

`CommitMayBeRefused` stands for the checks of a commit whose data are not modelled
(another output for the same generation, a source no longer eligible).

A project may have several runs, and `supersedeCurrentGeneratedDomainEffects` selects the
rows of a stage by project, not by run. Of the other runs the model has the one thing
they do to this one: `OtherRunCommits` makes the current effects of a stage non-current,
at any time, and leaves the stage row as it is.

**Left out.** What a commit of this run does to the effects of other runs (the same step,
seen from the other side). `blockRunForSearchBudget` is in `SourceSearch`. `failRunStage`,
`markDownstreamStagesStale` and `finalizeResearchRunCancellation` are called by tests
only. Replaying an operator's idempotency key returns the earlier result and changes
nothing. Progress and usage counters and the audit trail are not read by any decision
the module models.

## 5. Handlers, providers, documents, exports

| Module | Models |
|---|---|
| `WorkerJobs` | the queue as a handler sees it: claimed and started in one step, attempts that end while their handler runs on, the fence of its transactions |
| `Documents` | `lib/services/documents.ts`, `document-jobs.ts`, `worker/document-handlers.ts`, `lib/storage`, and the part of `orphan-cleanup.ts` they call |
| `ProviderAccess` | `provider-limits.ts` and `provider-executions.ts`, for one provider and operation |
| `SourceSearch` | `source-search-jobs.ts`, `worker/source-search-handler.ts`, beside the operator who adds sources |
| `StageCalls` | the provider calls of one stage: `research-pipeline-handler.ts` between start and commit, `lib/budgets`, `recordRunStageProviderAttempt` |
| `Review` | the workflow of one project from its scope to its delivery, every operation that edits, reviews or approves it |
| `Exports` | `Review` and `WorkerJobs` composed: `export-jobs.ts`, `export-storage.ts`, `export/generate.ts`, `worker/export-handler.ts`, cleanup and project deletion |
| `DocumentsProofs`, `SourceSearchProofs`, `StageCallsProofs`, `ExportsProofs` | the theorems |

**The queue of the handlers.** A claim and its start are one step of `WorkerJobs`, and the
end of an attempt is one of four: by the outcome `execute` reports (`Settle`), by the expiry
of its lease (`LeaseExpires`), by a stopping worker (`releaseJobLease`), or by a cancellation
acknowledged in any of them. A stopping worker returns its job even if the attempts are used
up; nothing can start such a job again, and a handler module must not rely on there
being a later attempt.

**Handlers.** Each attempt of each job has a handler with a program counter; every
transaction and every call of a store or provider is a step. `Fenced` is the check
each module's code makes in its transactions (job, attempt and status). A crash, a
timeout and an expired lease are one step that moves the job on; the old handler may
continue, which is what fences are for, or take no further step, which is the crash.
`WorkerJobs` puts the attempts of one job into different processes: what an execution
of the same process may do to its successor is in `JobQueue`.

**Documents.** `rows` is the catalogue `storage_objects`, `blobs` the store. A write
is three steps: the object is created, it is filled, and its writer syncs it and reads it
back. So another attempt can find a partial object, and a complete one whose writer is not
done. A write that fails at any point unlinks what it created, or leaves it if that fails too
or the error was a lost reply; `unlinked` remembers the objects that were complete when
their writer removed them, until a later attempt writes them again. All uploads
carry one idempotency key and so name the same document and objects; they may send
different files. A scan has any verdict, the store may fail, claims of the cleanup
may expire.

**Providers.** An execution and a permit are named by the attempt that owns them, as
`clientRequestId` and `permitOwner` are. Permits expire while their owner may still be
calling. A provider may answer with a response id it has used before. Of the budget
`StageCalls` keeps requests, tokens and whether the cost is known; `SourceSearch`
keeps searches and sources.

**Review and exports.** The content of a project is a pair of counters: edits by
people (each touches `deliverables.updated_at`) and commits by stages of a run. A
snapshot is that pair with the approval; bytes are named by the attempt that rendered
them. A handler keeps the hash
of the row it looked up (`sha256`) for the read that verifies it. The finalise transaction may
throw (`FinaliseThrows`), rolled back or committed with its reply lost; the `catch` cannot
tell these apart and goes on to `markPersistenceFailure`. `unanswered` remembers
the exports that became current in the second way. The advisory lock of
`persistExportArtifact` is held by a handler step; that its
connection is lost while the handler goes on is not modelled. `lost` remembers
exports whose bytes the store lost, or whose deletion was rolled back after the
store had already deleted them: they are current without bytes until they are read,
which `markMissing` then records.

## 6. Sessions, ledger and algorithms

`SessionsProofs` and `LedgerProofs` hold the theorems about the first two of the modules
below. `Sessions` takes requests apart into the row locks they wait for, because PostgreSQL's
READ COMMITTED re-reads a row after waiting for it and that is where the interesting
orders are. A request that waits in a cycle is ended by the deadlock detector
(an action enabled only in a cycle); the run checks deadlock, so no request waits
for ever. The session a request names is read before its transaction and again under the
lock. Each delivery has an idempotency key; two deliveries may have the same one.

`Ledger` holds sources, evidence, claims, their links, the scope, the report and
the findings of one project. Operations that take the project's lock before they
read are one step. `linkClaimEvidence` reads first (`LinkRead`) and waits afterwards
(`LinkCommit`, `LinkRolledBack` if it closes a cycle with `updateProjectScope`, which
locks in the opposite order). Words are sets: the QA engine compares the numbers, units
and dates it finds, not the text. Only `BLOCKER` findings are kept, the others decide
nothing.

`Chunking` takes `finalizeExtraction` and `chunkExtraction` one iteration of a loop at a
time: a draft, a piece of a block, a unit of a group. A text is a sequence of `Characters`
of which `Blank` is what trimming removes; a page stands for the page number and the section
path. `ChunksFaithful` says that every letter is in a chunk, that offsets point at what a chunk
quotes, that chunks keep their size, page and order and that no two in a row are equal.
A chunk may consist of overlap only, which the property allows. Two cases are excepted
from the last part, because the code has them. The options admit an overlap one short of
half of an odd limit (`chunking.ts:125`); then a word as long as the overlap with enough
blanks around it makes two equal chunks, which the defaults (4000 and 300) exclude. And a
heading longer than a chunk that has such a word makes them whatever the limit, because a
heading is never joined to what precedes it (`sameStructure`).

`SafeFetch` lets DNS
answers, redirects and delays be anything; `FetchKeepsPolicy` says what was connected
to, how often, for how long, what was received and what is returned. A page is decoded,
sanitised and encoded again after its size was checked (`security/url.ts:606`), so the body
that is returned may have any size, also above `maxBytes`; other media are returned as
received. A fetch may take up to twice
`timeoutMs`: the remaining time is computed once per hop and given to both the
resolution and the request of that hop (`security/url.ts:502`); the property states
that bound.

## 7. The runs

| Run | Instance | Shows |
|---|---|---|
| `queue_safety` | 1 job, 2 workers, 2 attempts, 1 fault; or 3 jobs of two types, one worker, no fault, a cap on one type | the queue's invariants and action properties |
| `queue_liveness` | 1 job, 1 worker, 2 attempts, 1 fault | cancellations complete, leases end, `stop()` returns; the queue implements the lifecycle of a job and the queue of the handlers |
| `run_stages` | 2 stages, 2 generations, three modes; 2 jobs with 2 attempts, or 3 jobs with 1 | stage order, effects, superseded generations, cancelled runs |
| `documents` | 2 uploads, 2 scans, 2 extractions, 1 cleanup, 2 faults | `BytesBehindRows`, `CleanBeforeUse`, `PublishedExtraction`, `CleanupComplete`, `DeletedForGood` |
| `source_search` | 2 searches, 2 attempts, 1 permit, 2 searches and 2 sources allowed | `PermitDiscipline`, `SearchesWithinBudget`, `SearchCommitsSafely`, `CommittedOnce` |
| `stage_calls` | a stage's job and the job of a resume, 2 attempts, 2 requests allowed | `UsageLedger`, `ResponseUsedOnce`, `OutputKept` |
| `sessions` | 3 requests of five kinds, 3 keys, 2 passwords, 1 fault | `SessionsMatchPassword`, `KeyTakesEffectOnce`, `WrongPasswordsBounded`, `RevokedSessionsInert` |
| `exports` | 2 export jobs, 2 attempts, 2 revisions, 1 stage commit, 1 fault | `ApprovalCoversEdits`, `CurrentExports`, `DeliveredPackage`, `BecomesCurrentFresh`, `DeletedStaysDeleted` |
| `ledger` | 2 requests, 1 source, 3 pieces of evidence, 2 claims, 2 scopes | `SupportRecalculated`, `PassedReportHolds` |
| `algorithms` | texts of 11 and 1 characters, headings, 2 pages, chunks of 4; 4 URLs, 3 addresses, 2 redirects | `ChunksFaithful`, `FetchKeepsPolicy` |
| `run_stranded`, `review_content` | | counterexamples, section 9 |

**What the properties say.** The comment above each states it with the code it is
about. In short: `job_attempts` is the exact history of a row and is append-only,
attempts stay in their budget, an output comes from the last lease holder, a
drained worker leaves no started lease; succeeded stages are a prefix of the pipeline
and only the latest generation has current effects; rows never outlive bytes, nothing unscanned
is used, nothing deleted comes back; permits, searches and usage are counted in spite
of lost attempts, and no response or commit counts twice; sessions belong to
the present password, a key takes effect once; approvals and current exports are of what
was reviewed; the stored support of a claim follows its evidence.

Some of them state an exception, because the code has one. `EffectsOfLatest` excepts, from
the effects a succeeded latest generation must have, a stage that another run of the
project has committed since (`research-domain-effects.ts:36`). `BytesBehindRows` has two.
The raw object may be deleted by an upload whose transaction failed, while another upload
catalogues the same object (`documents.ts:936`). And an object that an attempt or an upload
found complete, verified and catalogued is unlinked by its writer if the sync, the size, the
close or the read-back fails afterwards (`storage/local.ts:149-172`; in `s3.ts:174-182` a
`head` that disagrees). `DeliveredPackage` has two: a package whose bytes the store lost, and
one whose attempt lost the reply to the COMMIT that made it current, which
`markPersistenceFailure` then takes back, even after the delivery
(`export-storage.ts:760`). `FetchKeepsPolicy` bounds what was received, and what is returned
unless it is HTML. `UsageLedger` allows one call beyond the
budget for each further job of the stage, and `OutputKept` speaks of the time in which
one job of the stage is active: `resumeResearchRun` does not look at jobs that are still
to be retried. `SupportRecalculated` excepts the claims in `loose`: two links of one claim
at once, a link overtaken by a change of scope, and claims that a stage commit
declares `SUPPORTED` (`research-orchestrator.ts:800`). `PassedReportHolds` excepts
projects in which a stage has committed since (`behind`). `FaultFreeConcurrency` is
restricted to behaviours without a fault: a worker that reclaims its own job overwrites
and later loses the entry of its `active` map, and can exceed its concurrency.

**Why the bounds are enough.** Rows of the queue interact only through the capacity
of a worker, so one job with two workers shows the races of a row and three jobs of two
types those of the capacity; `AloneOrFaultFree` keeps the two apart. Two attempts
make an old and a new execution of one job. Two stages make one dependency with both
ends of the catalogue; two generations make one superseded row. In the handler modules
two jobs with two attempts give two competing handlers and a late one; the limits are one
or two, so that each is reached and exceeded by one. Two faults lose an attempt and fail
a store call. In `Sessions` three requests make the longest cycle of waits; in `Ledger` two
pieces of evidence make support and refutation. `LongTexts` is nearly three times the size of a
chunk, so a block is cut at least twice and every position of a blank around a cut occurs.

**Constraints and views.** `CONSTRAINT`s name combinations that are not explored:
two heartbeats of one job in flight at once (`AloneOrFaultFree`),
uploads beside recorded extractions or beside handlers of several jobs (`UploadsEarly`),
two faults beside both a rescan and a requested extraction (`FewFaults` of `MCDocuments`), two
faults of a stage that was resumed (`FewFaults` of `MCStageCalls`), provider plans beside export jobs and more than `AttemptCap` attempts beside stage commits
(`Bounded`), links that overlap other than under one scope and without a run's evidence,
and pending QA findings beside overlapping links and rows of runs (`SmallLedger`), many jobs with many attempts (`FewJobsOrAttempts`). `VIEW`s leave out
what no later step and no property reads: handlers whose every transaction would be
refused, columns of ended jobs; `ExportsView` also merges the workflow states of a
project whose export job is out of date, which is a bound rather than an equivalence.
Symmetry is over interchangeable identities that no property names. Runs without a deadlock check are of systems
that may stop: a completed run, a settled document.

**Fairness** (`FairSpec` of `JobQueue`). Weak fairness of queue calls, timeouts, the
abort and callbacks of an execution, the end of polls, the steps of `stop()`, the expiry
of a lease nobody renews and the restart of a process: the event loop, the database
and a supervisor make progress. Recovery is strongly fair, because each life of a
worker begins with a recovery pass, which a stop can disable again and again.
Handlers, heartbeats and claims are not fair: a handler may hang (its timeout ends
it) and the queue promises no order. The other specifications state safety only.

## 8. What is proved

Eight modules hold theorems `Spec => []Inv` and `Spec => [][A]_vars`, for any sets of
jobs, workers, requests, sources, files or formats and any bounds. They use the
`ASSUME` of the modules they are about and nothing else; the assumptions are listed
below with the reason the code gives for them. Each inductive invariant was first
checked by TLC on an instance of its run.

| Theorem | Property | Inductive invariant |
|---|---|---|
| `JobQueueProofs`: `TypeCorrect`, `LedgerCorrect`, `BudgetCorrect`, `OutputCorrect` | `TypeOK`; `LeaseMatchesStatus` and `AttemptLedger`; `AttemptBudget`; `OutputFromLeaseHolder` | `QueueInv` |
| `HistoryCorrect`, `TransitionsCorrect`, `TerminalCorrect` | the action properties `HistoryIsAppendOnly`, `TransitionsFollowTable`, `TerminalRowsFrozen` | `QueueInv` |
| `RefinesLifecycle`, `RefinesHandlerView`, both `RefinesAbstractions` | `ImplementsLifecycle`, `ImplementsHandlerView`, `ImplementsAbstractions`: `JobQueue` implements `JobLifecycle` and `JobsSpec` of `WorkerJobs` | `QueueInv`, `Unsubmitted` |
| `OperationsCorrect` | the action property `OperationsAgree` | `QueueInv` |
| `DrainCorrect`, `ConcurrencyCorrect` | `DrainReleasesLeases`, `FaultFreeConcurrency` | `FaultFreeInv` |
| `EntriesCorrect`, `HandlerStarted` | `ActiveEntriesLive`, `HandlerOnlyAfterStart`, whatever fails | `PlacesInv` |
| `CancellationFollows` | `CancellationCompletes`, if `LeasesEnd` | `QueueInv` |
| `RunPipelineProofs`: `SucceededPrefixHolds`, `EffectsOfLatestHolds`, `SupersededAtRestHolds`, `ClosedWhenCancelledHolds` | the four invariants of the run | `PipelineInv` |
| `StoppedRunFrozenHolds`, `TransitionsFollowTablesHolds` | the action properties of the same names | `PipelineInv` |
| `SessionsProofs`: `SessionsMatchPasswordHolds`, `KeyTakesEffectOnceHolds`, `WrongPasswordsBoundedHolds`; `RevokedSessionsInertHolds` | the three invariants; the action property | `SessionsInv` |
| `SourceSearchProofs`, last section: `FetchKeepsPolicyHolds` | `FetchKeepsPolicy` of `SafeFetch` | `FetchInv` |
| `SourceSearchProofs`: `PermitDisciplineHolds`, `SearchesWithinBudgetHolds`, `CommittedOnceHolds`; `SearchCommitsSafelyHolds` | the three invariants; the action property | `SearchInv` |
| `StageCallsProofs`: `UsageLedgerHolds`, `ResponseUsedOnceHolds`, `StagePermitDiscipline`; `OutputKeptHolds` | `UsageLedger`, `ResponseUsedOnce`, `PermitDiscipline`; the action property | `CallsInv` |
| `LedgerProofs`: `SupportRecalculatedHolds`, `PassedReportHoldsAlways` | the two invariants | `LedgerInv` |
| `ExportsProofs`: `ApprovalCoversEditsHolds`, `CurrentExportsHolds`, `DeliveredPackageHolds`; `BecomesCurrentFreshHolds`, `DeletedStaysDeletedHolds` | the three invariants; the two action properties | `ExportsInv` |
| `DocumentsProofs`: `BytesBehindRowsHolds`, `CleanBeforeUseHolds`, `PublishedExtractionHolds`, `CleanupCompleteHolds`; `DeletedForGoodHolds` | the four invariants; the action property | `DocumentsInv` |
| `DocumentsProofs`, first section: `ChunksFaithfulHolds` | `ChunksFaithful` of `Chunking` | `ChunkInv` |

### The arguments

**Queue.** `StepTables` reduces every step of `Next` to one of seven changes of one
row with its attempt history (submitted, cancellation requested, reopened by the operator,
claimed, started, settled, or only its clock columns touched), or to none. The invariant,
the action properties and the refinement are then proved once per change. The named
invariants are not inductive one by one: that a settled row's history is closed needs the
ledger, which needs the lease to match the status, and that an output belongs to the last
lease holder needs to know that an attempt number which an execution carries was in fact
made; `AttemptsMade` is that strengthening.

**The queue of the handlers.** `View` is the row of each job as `HandlerRow` maps it. An
UPDATE of the queue changes at most the status a handler sees and, for a claim and a
manual retry, the attempts (`ViewMoves`, `ViewStatus`, `ViewSettled`), so each operation is
compared with its counterpart once (`ClaimAgrees` to `SubmissionAgrees`), and
`OperationsAgree` and the refinement follow from the same lemmas. The steps that remain
(`startJob`, heartbeats, the clock, the processes) leave the view alone (`UnseenSteps`).
`Unsubmitted` is needed for a row that is filled by its submission, `AttemptBudget` for
which way a lease or a failure ends: a claim is made only while an attempt is left.

**Workers without a fault.** What a worker promises (a drained worker leaves no lease,
its concurrency is kept) is true only as long as nothing crashes, stalls or fails, so
`FaultFreeInv` says `faults = 0 => Undisturbed`. The properties speak of counts of
executions, but capacity is computed from the `active` map: `Undisturbed` says that
every execution that is not over is the current attempt of a job with a current lease,
that its process is up and that the map, or the poll that releases a claim, knows it
(`LiveFits`, `EntriesOK`, `OneRelease`). Then a worker that is not releasing a claim runs
exactly what its map holds (`MapHoldsRunning`), so what `pollOnce` counts is what is true
(`MapCountsRunning`), and `Room` reserves one place for the claim under way. `ExecutionSteps` treats
the program counters of an execution, `CatchPlace` and `CallsPass` the two catch blocks.

**Workers, whatever fails.** With crashes, lost replies and stalls an execution may outlive
its lease, and an entry of the map may be overwritten by a later attempt of the same
job and then deleted by the end of the earlier one. `PlacesInv` says what is left: an attempt
has an execution only after its claim and a timer only after its start, and what an
entry points at is still running in that process. `GoesOn` and `EntryStays` describe what
every step but a claim does to one execution and one entry; a claim is `ClaimKeepsPlaces`.

**Cancellation.** A row in `CANCELLATION_REQUESTED` can only become `CANCELLED`
(`CancellationStays`), and such a row is leased; therefore whatever makes leases end makes
cancellations complete. That leases end is the fairness of recovery and stays with TLC.

**Runs.** The four invariants need each other: that a late commit cannot make
effects of an older generation current rests on `SupersededAtRest`, `SucceededPrefix`
rests on both. Beside them `PipelineInv` says which generations exist (`GenerationsOK`), that
jobs point at existing rows (`JobsOK`), and that a handler which has read the next
stage and is about to queue it either still sees the latest generation or will find
it stale (`TargetOK`). All steps but a new commit, a restart and the queueing of the next
stage keep the generations and treat each row alike (`RowKept`). Another run's commit is
such a step: it turns current effects into displaced ones, and a replay or a restart of
the row leaves those non-current.

**Sessions.** Ownership: a row lock has one owner (`LocksOK`), what a request has read
stays true while it owns the row (`Owns`), and the step of one request touches only
rows that no other owns (`Bystander`). `Owns` also says what a request has re-read after
a wait: without that, a login that waited for a password change would open a session
under the old version. `ThrottleOK`: the row of the throttle counts the wrong passwords of
its window and leaves room for one more unless it blocks; it stays locked across the check.

**Searches and stage calls.** `AttemptFits` is a table of what permit, execution and
checkpoint of an attempt may be at each place of its handler; once a job has a checkpoint,
a handler that could still commit is of an attempt that has been replaced, so that its
transactions will be refused. `WonOK` ties a checkpoint to the one successful execution,
which is the last started. In `StageCalls` the bound on usage is
not inductive alone, since a handler between its budget check and its record has a call
outstanding: `TotalsOK` bounds the totals together with the number of jobs that have one
(`PendingJobs`). `StoredOK` is what `OutputKept` needs of them.

**Fetches.** `FetchInv` says that what is pinned was vetted, that there is one connection
per hop, to a URL not asked before, and that a hop begins within the time: the bound of
twice the limit is the remaining time given to both waits of the last hop. The theorem
is about `FetchInit` and `FetchNext`, which the run composes with the other algorithm.

**Ledger.** The status of a claim is a function of its verified linked evidence:
`SupportOf` reads nothing else, so an operation keeps a stored status right when it
leaves that evidence alone or computes the status anew. `LinkingOK` is what a link that
waits for locks relies on. A report that passed QA is borne out because no blocker rule
fired on the state for which the pass is recorded.

**Exports.** `Fits` says what an attempt relies on at each place. An attempt about to mark its
export as failed meets a current row only if the export is `unanswered`, one that found
the bytes missing also if it is `lost` (`Excepted` is both); `FinaliseSteps` treats the transaction once for the attempt that is answered
and the one that is not. Attempts under the
advisory lock of a key rely on `LockOK`; the fast lookup, which holds no lock, relies on
snapshots never coming back (`Past`: an edit makes a new revision, and within one
revision approval and QA only advance). `ApprovalCoversEdits` of `Review` is
proved of the composition.

**Documents.** `HandlerFits` says that what a handler is about to do is safe in the
state it will do it in: the object it fills and reads back is its own (`OneFiller`), the
object it is about to catalogue has its bytes or was unlinked by the writer that failed, the object it has erased is still to be marked
(`OwnersOK`). The steps of all others keep that until the document is deleted, and
nothing is catalogued after that.

**Chunking.** `ChunkInv` has one part for each array. Blocks are trimmed, ordered and apart
from each other (`BlocksOK`). Units follow each other in both offsets, and a unit is repeated
at most once in a row, and then no longer than the overlap (`UnitsOK`): a piece that
`splitBlock` cuts reaches beyond half of the limit, so after going back by the overlap
it cannot find the same word a third time (`NoThird`), and a word found twice has too many
blanks around it to be long. What `splitBlock` has behind it is in units (`SplitOK`, by
`CutReached`). While units are grouped, every one behind is in a chunk, and two equal chunks
in a row are two such units, which one chunk would have taken had they fitted (`GroupOK`,
`RepeatedChunk`): the sum of two words and the separator exceeds the limit only for the
overlaps the property excepts. The two functions that search a text, `Min` and `Max` of a
set of positions, are treated by the well-founded minimum of the library (`MinimumExists`,
`MaximumExists`), the recursive function `CharCount` only where a group has one or two
units; of a longer group the proof uses that `Fits` was tested.

### The assumptions

Bounds are positive where the code validates them so (`config.ts`, the constructor of
`DurableWorker`, column checks), names used for "nothing" are not members of the sets
they are added to, sets of jobs or requests that are counted are finite. Some say more:

* `QueueAssumption`: the cap of each job type is a natural number
  (`durable-worker.ts:199` validates it, or uses the concurrency).
* `DocumentsAssumption`: a job id is of one type, the job an upload requests after a
  scan is an extraction, and a partial file is not one that was uploaded.
* `LedgerAssumption`: the fields of rows and edits have the types of their columns, each
  piece of evidence names a source, and claims that a research run inserts are verifiable.
* `ChunkingAssumption`: the overlap is shorter than half of the chunk
  (`chunking.ts:124` refuses others), and texts are sequences of characters.
* `SessionsAssumption`: the throttle allows at least two attempts
  (`auth/rate-limit.ts:30` bounds the setting).

### What is only model-checked

* The liveness properties `CancellationCompletes`, `LeasesEnd` and `StopCompletes`:
  fairness and `ENABLED` are out of the prover's reach. Of the first, `CancellationFollows`
  proves that it follows from the second.
* The sufficiency of the bounds and views of section 7, which concern the runs only.

## 9. Where documentation and code differ

Two runs end in a counterexample; each checks one statement of the documentation.

| Run | Statement | What happens |
|---|---|---|
| `run_stranded` | terminal jobs reconcile the run (`docs/OPERATIONS.md:71`) | an attempt lost between commit and advance leaves the run `RUNNING` with no job |
| `review_content` | material changes invalidate review and approval (`docs/ARCHITECTURE.md:66`) | stage commits of a run change claims, evidence and report suggestions without `invalidateDownstreamReview`; QA and approval stand |

Further statements of the documentation are in the modules as definitions that fail;
naming one as the INVARIANT of an instance above reproduces the counterexample
(`JobQueueSafety.cfg` with `Jobs = {j1}`, `StageCalls.cfg`, and for `RunPipeline` `RunStranded.cfg`, for
`OutputFromLatest` with four jobs of one attempt each).

| Definition | Statement | What happens |
|---|---|---|
| `JobQueue.RetryWaitHasAttempts` | work in `RETRY_WAIT` has an attempt left (`docs/OPERATIONS.md:59`) | stopping a worker during the last attempt parks the job in `RETRY_WAIT` (`jobs.ts:860`); nothing but a cancellation moves it again |
| `JobQueue.AttemptRecordsOwnResult` | an attempt records its own result (`docs/OPERATIONS.md:61`) | calls are fenced by worker, not by attempt (`jobs.ts:262`): an older execution of the same process completes the newer attempt |
| `RunPipeline.ApprovalCoversLatest` | approval follows a successful final stage (`docs/RESEARCH_WORKFLOW.md:53`) | a waiting job of an older generation is replayed after a restart and moves the run to `APPROVAL_REQUIRED` (`run-stages.ts:488`) |
| `RunPipeline.CancellingHasWork` | a cancelling run is reconciled when work stops (`docs/OPERATIONS.md:83`) | only a job ending `CANCELLED` reconciles; one that fails leaves the run `CANCELLING` (`jobs.ts:407`) |
| `RunPipeline.OutputFromLatest` | downstream work is stale after a restart (`docs/DATA_MODEL.md:102`) | a queued row with a stored output commits it over the new upstream generation (`run-stages.ts:654`) |
| `StageCalls.RequestsWithinBudget` | a call over the budget blocks the stage (`docs/PROVIDERS_EVALUATION.md:68`) | a job that is still to be retried and the job of a resume check the same usage, and both call |

Each shows that the statement fails in some interleaving, not how likely it is. The
exceptions listed in section 7 are of the same kind. Two more have no definition of their own:
`resumeResearchRun` queues a stale, committed generation in place, where its commit is
taken for a replay and it cannot succeed; and such a generation, once closed, can be queued
again by `queueRunStage`, which clears its output.

The modules also define properties that hold and are not part of a run: `TypeOK`,
`TransitionsFollowTable`, `OperationsAgree`, `ActiveEntriesLive` and `HandlerOnlyAfterStart`
of `JobQueue`, `StoppedRunFrozen` and `TransitionsFollowTables` of `RunPipeline`. All of
them are proved (section 8).

## 10. Not modelled

* Web routes, user interface, observability, scripts and evaluation keep no durable
  state of their own or only read it.
* Provider adapters, file parsers, the scanner's protocol, rendering and input
  validation are external or pure text processing; handlers see their outcome only.
* Arithmetic of address ranges (`isPublicIpv4`, `isPublicIpv6`): a set of public addresses
  stands for it. Retry delays and backoff: any delay may pass.
* The registration rows of workers (`workers.ts`), progress figures, usage display and the
  audit trail: no decision reads them.
* The search for untracked objects of `cleanup-orphans`, which an operator runs with a
  grace period; the loss of the database connection that holds an advisory lock; the
  monetary part of budgets.
* Migrations, which an operator runs once.

`PROJECT.json` lists every component with its status.
