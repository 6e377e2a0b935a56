---------------------------- MODULE RunPipeline ----------------------------
(***************************************************************************)
(* One research run: its stage rows and generations (lib/services/         *)
(* research-runs.ts, run-stages.ts), the handler that executes a stage     *)
(* (worker/research-pipeline-handler.ts, research-orchestrator.ts), the    *)
(* reconciliation of the run with its jobs (lib/services/jobs.ts) and the  *)
(* operator's commands.                                                    *)
(*                                                                         *)
(* A transaction is one step.  Of the queue, which JobQueue models, only   *)
(* what the run can see is kept: claiming and starting a job are one step  *)
(* (a claimed job counts as active just like a running one); a timeout, a  *)
(* database error, a crash and an expired lease all end an attempt the     *)
(* same way, and its handler lives on until its next transaction is        *)
(* refused.  A handler that never takes its next step is a crashed one.    *)
(***************************************************************************)
EXTENDS JobDomain, RunDomain, FiniteSets

CONSTANTS
  Modes,        \* execution modes explored: ASSISTED, ORCHESTRATED, DRAFT_ONLY
  StageCount,   \* stages of the catalogue; the last is qa_revision, the one
                \* before it draft_generation
  MaxAttempts,  \* max_attempts of a stage's job
  GenCap,       \* bound: generations of a stage
  MaxJobs       \* bound: jobs submitted for the run

ASSUME PipelineAssumption ==
  /\ StageCount \in Nat \ {0} /\ MaxAttempts \in Nat \ {0}
  /\ GenCap \in Nat \ {0} /\ MaxJobs \in Nat \ {0}

VARIABLES
  run,       \* the research_runs row: mode and status
  rows,      \* research_run_stages, by stage and generation
  latest,    \* the highest generation of each stage
  jobs,      \* the run's rows of the jobs table, in order of submission
  handler    \* the handler of each attempt of each job

vars == <<run, rows, latest, jobs, handler>>

Stages == 1..StageCount
Generations == 1..GenCap
JobIds == 1..MaxJobs
AttemptNumbers == 1..MaxAttempts

\* The rows a cancellation closes, the jobs it waits for.
OpenStages == { "PENDING", "QUEUED", "RUNNING" }
ActiveJobs(js) == {i \in JobIds : js[i].status \in LeasedStatuses}

(***************************************************************************)
(* A stage row.  out is output_reference: absent, or equal or not to the   *)
(* output of the row's domain commit.  commits counts domain commits,      *)
(* basis is the generation of the preceding stage out was produced from.   *)
(* effects are the domain rows it generated: current, or made non-current  *)
(* by this run (superseded) or by another run of the project (displaced).  *)
(***************************************************************************)
NoRow == [ status |-> "NONE", out |-> "none", commits |-> 0, basis |-> 0,
           hasInput |-> FALSE, effects |-> "none" ]
PendingRow == [NoRow EXCEPT !.status = "PENDING"]
QueuedRow == [NoRow EXCEPT !.status = "QUEUED", !.hasInput = TRUE]

(***************************************************************************)
(* A job.  key is the generation named by an idempotency key of the form   *)
(* run:stage:generation, or 0 for a key used once (resume and restart).    *)
(* from and prev stand for the input hash: the generations of the row and  *)
(* of the preceding row the input was made from.                           *)
(***************************************************************************)
NoJob == [ status |-> "NONE", attempts |-> 0, stage |-> 1, gen |-> 1,
           key |-> 0, from |-> 0, prev |-> 0 ]
JobFor(s, g, key, from, prev) ==
  [ NoJob EXCEPT !.status = "QUEUED", !.stage = s, !.gen = g, !.key = key,
                 !.from = from, !.prev = prev ]

\* The boundary a handler is about to set, by pc.
BoundaryOf == [ toPaused |-> "PAUSED", toQa |-> "QA_REQUIRED",
                toApproval |-> "APPROVAL_REQUIRED", toBlocked |-> "BLOCKED" ]
FencedPcs == { "start", "commit", "advance", "block", "queue", "queueStale" }
               \cup DOMAIN BoundaryOf
Pcs == FencedPcs \cup { "none", "load", "reload", "provider", "route",
                        "returned", "failRetryable", "failFatal", "done" }

TypeOK ==
  /\ run \in [mode : Modes, status : RunStatuses]
  /\ rows \in [Stages -> [Generations ->
                 [status : StageStatuses \cup {"NONE"},
                  out : {"none", "fresh", "committed"}, commits : 0..1,
                  basis : 0..GenCap, hasInput : BOOLEAN,
                  effects : {"none", "current", "superseded", "displaced"}]]]
  /\ latest \in [Stages -> Generations]
  /\ jobs \in [JobIds ->
                 [status : JobStatuses \cup {"NONE"}, attempts : 0..MaxAttempts,
                  stage : Stages, gen : Generations, key : 0..(GenCap + 1),
                  from : 0..GenCap, prev : 0..GenCap]]
  /\ handler \in [JobIds -> [AttemptNumbers -> [pc : Pcs, arg : 0..GenCap]]]

\* The state createResearchRun leaves: the first stage queued with its job.
Init ==
  /\ run \in [mode : Modes, status : {"QUEUED"}]
  /\ rows = [s \in Stages |-> [g \in Generations |->
               IF g > 1 THEN NoRow ELSE IF s = 1 THEN QueuedRow ELSE PendingRow]]
  /\ latest = [s \in Stages |-> 1]
  /\ jobs = [i \in JobIds |-> IF i = 1 THEN JobFor(1, 1, 1, 0, 0) ELSE NoJob]
  /\ handler = [i \in JobIds |-> [a \in AttemptNumbers |-> [pc |-> "none", arg |-> 0]]]

-----------------------------------------------------------------------------
(* Helpers.                                                                *)

Latest(s) == rows[s][latest[s]]
Row(i) == rows[jobs[i].stage][jobs[i].gen]
Pc(i, a) == handler[i][a].pc

GotoWith(i, a, pc, arg) == handler' = [handler EXCEPT ![i][a] = [pc |-> pc, arg |-> arg]]
Goto(i, a, pc) == GotoWith(i, a, pc, 0)

UpdateRow(i, row) == rows' = [rows EXCEPT ![jobs[i].stage][jobs[i].gen] = row]
SetRun(status) == run' = [run EXCEPT !.status = status]

\* Variant of Closed: the UPDATE forgets the running rows.
ClosedWaiting(row) ==
  IF row.status \in OpenStages \ {"RUNNING"} THEN [row EXCEPT !.status = "CANCELLED"] ELSE row

\* A row after the UPDATE that closes the open rows of a cancelled run.
Closed(row) == IF row.status \in OpenStages THEN [row EXCEPT !.status = "CANCELLED"] ELSE row
CloseAll == [s \in Stages |-> [g \in Generations |-> Closed(rows[s][g])]]

\* Variant of Superseded: nothing is marked non-current.
SupersededNot(row) == row

\* markGeneratedDomainEffectsNonCurrent for one row.
Superseded(row) == [row EXCEPT !.effects = IF @ = "current" THEN "superseded" ELSE @]

\* The next id of the jobs table.
Fresh(i) == jobs[i].status = "NONE" /\ \A k \in 1..(i - 1) : jobs[k].status # "NONE"

\* assertCurrentRunStageJob: the exact attempt, still running.
assertCurrentRunStageJob(i, a) == jobs[i].status = "RUNNING" /\ jobs[i].attempts = a

assertDependenciesSucceeded(s) == \A t \in Stages : t + 1 = s => Latest(t).status = "SUCCEEDED"

-----------------------------------------------------------------------------
(* Reconciliation of the run with a job that ended.                        *)

\* js[i] has just become FAILED or DEAD_LETTER.
reconcileLinkedJobFailure(i) ==
  IF Row(i).status \in {"QUEUED", "RUNNING"}
    THEN /\ UpdateRow(i, [Row(i) EXCEPT !.status = "FAILED"])
         /\ IF canTransitionResearchRun(run.status, "FAILED")
              THEN SetRun("FAILED") ELSE UNCHANGED run
    ELSE UNCHANGED <<rows, run>>

\* js are the jobs after the cancellation of job i was requested or completed.
reconcileLinkedJobCancellation(i, js) ==
  LET status == IF canTransitionResearchRun(run.status, "CANCELLING")
                  THEN "CANCELLING" ELSE run.status
  IN  IF run.status \in {"COMPLETED", "FAILED", "CANCELLED"}
        THEN UNCHANGED <<rows, run>>
      ELSE IF js[i].status # "CANCELLED"
        THEN SetRun(status) /\ UNCHANGED rows
      ELSE IF ActiveJobs(js) = {} /\ status = "CANCELLING"
        THEN SetRun("CANCELLED") /\ rows' = CloseAll
      ELSE SetRun(status) /\ UpdateRow(i, Closed(Row(i)))

-----------------------------------------------------------------------------
(* The worker: the attempts of a job.                                      *)

\* claimJobs and startJob.
claimJob(i) ==
  LET a == jobs[i].attempts + 1 IN
  /\ jobs[i].status \in WaitingStatuses
  /\ a <= MaxAttempts
  /\ jobs' = [jobs EXCEPT ![i].status = "RUNNING", ![i].attempts = a]
  /\ Goto(i, a, "load")
  /\ UNCHANGED <<run, rows, latest>>

\* An attempt ends with a failure: the job is retried or given up.
EndAttempt(i, retryable) ==
  LET target == failureJobStatus(retryable, jobs[i].attempts, MaxAttempts) IN
  /\ jobs' = [jobs EXCEPT ![i].status = target]
  /\ IF target = "RETRY_WAIT" THEN UNCHANGED <<rows, run>>
                              ELSE reconcileLinkedJobFailure(i)

\* A timeout, or recoverExpiredJobs after the attempt's lease expired.
AttemptLost(i) ==
  /\ jobs[i].status = "RUNNING"
  /\ EndAttempt(i, TRUE)
  /\ UNCHANGED <<latest, handler>>

\* failJob after the handler threw.  The queue fences its own calls by worker,
\* not by attempt, so the error of an earlier attempt may end a later one.
failJob(i, a) ==
  /\ Pc(i, a) \in {"failRetryable", "failFatal"}
  /\ jobs[i].status = "RUNNING"
  /\ EndAttempt(i, Pc(i, a) = "failRetryable")
  /\ Goto(i, a, "done")
  /\ UNCHANGED latest

completeJob(i, a) ==
  /\ Pc(i, a) = "returned"
  /\ jobs[i].status = "RUNNING"
  /\ jobs' = [jobs EXCEPT ![i].status = "SUCCEEDED"]
  /\ Goto(i, a, "done")
  /\ UNCHANGED <<run, rows, latest>>

\* The queue refuses the call of a lost attempt.
CallRefused(i, a) ==
  /\ Pc(i, a) \in {"returned", "failRetryable", "failFatal"}
  /\ jobs[i].status # "RUNNING" \/ jobs[i].attempts # a
  /\ Goto(i, a, "done")
  /\ UNCHANGED <<run, rows, latest, jobs>>

\* releaseJobLease of a stopping worker.
releaseJobLease(i) ==
  /\ jobs[i].status = "RUNNING"
  /\ jobs' = [jobs EXCEPT ![i].status = "RETRY_WAIT"]
  /\ UNCHANGED <<run, rows, latest, handler>>

\* acknowledgeJobCancellation, or the release or recovery of such a job.
acknowledgeJobCancellation(i) ==
  /\ jobs[i].status = "CANCELLATION_REQUESTED"
  /\ jobs' = [jobs EXCEPT ![i].status = "CANCELLED"]
  /\ reconcileLinkedJobCancellation(i, jobs')
  /\ UNCHANGED <<latest, handler>>

-----------------------------------------------------------------------------
(* The stage handler: createResearchPipelineStageHandler.                  *)

\* The first read: a stage that is committed already is only advanced.
loadBundle(i, a) ==
  /\ Pc(i, a) = "load"
  /\ Goto(i, a, IF Row(i).status = "SUCCEEDED" /\ Row(i).out # "none"
                THEN "advance" ELSE "start")
  /\ UNCHANGED <<run, rows, latest, jobs>>

StartPasses(i, a) ==
  /\ assertCurrentRunStageJob(i, a)
  /\ assertDependenciesSucceeded(jobs[i].stage)
  /\ Row(i).status = "RUNNING" \/ canTransitionRunStage(Row(i).status, "RUNNING")
  /\ run.status \in {"QUEUED", "RUNNING"}

startRunStage(i, a) ==
  /\ Pc(i, a) = "start"
  /\ StartPasses(i, a)
  /\ UpdateRow(i, [Row(i) EXCEPT !.status = "RUNNING"])
  /\ SetRun("RUNNING")
  /\ Goto(i, a, "reload")
  /\ UNCHANGED <<latest, jobs>>

\* The second read: stored output is committed; otherwise the input is built
\* (blocked without eligible sources or preceding output), the budget checked
\* and a permit acquired.
reloadBundle(i, a) ==
  LET s == jobs[i].stage IN
  /\ Pc(i, a) = "reload"
  /\ \/ /\ Row(i).out # "none"
        /\ GotoWith(i, a, "commit", IF Row(i).out = "committed" THEN 1 ELSE 0)
     \/ Row(i).out = "none" /\ \E pc \in {"block", "failRetryable"} : Goto(i, a, pc)
     \/ /\ Row(i).out = "none"
        /\ assertDependenciesSucceeded(s)
        /\ GotoWith(i, a, "provider", IF s = 1 THEN 0 ELSE latest[s - 1])
  /\ UNCHANGED <<run, rows, latest, jobs>>

RecordPasses(i, a) == assertCurrentRunStageJob(i, a) /\ Row(i).status = "RUNNING"

\* The provider answers and recordRunStageProviderAttempt stores the output.
ProviderReturns(i, a) ==
  /\ Pc(i, a) = "provider"
  /\ RecordPasses(i, a)
  /\ UpdateRow(i, [Row(i) EXCEPT !.out = "fresh", !.basis = handler[i][a].arg])
  /\ \E pc \in {"commit", "block"} : Goto(i, a, pc)
  /\ UNCHANGED <<run, latest, jobs>>

\* The provider fails, or its answer is refused: recorded and rethrown, or a
\* budget error that blocks the stage.
ProviderFails(i, a) ==
  /\ Pc(i, a) = "provider"
  /\ \/ RecordPasses(i, a) /\ \E pc \in {"failRetryable", "failFatal", "block"} : Goto(i, a, pc)
     \/ ~ RecordPasses(i, a) /\ Goto(i, a, "failRetryable")
  /\ UNCHANGED <<run, rows, latest, jobs>>

CommitTarget(i) == IF jobs[i].stage = StageCount THEN "QA_REQUIRED" ELSE "RUNNING"

CommitPasses(i, a) ==
  /\ assertCurrentRunStageJob(i, a)
  /\ \/ Row(i).commits > 0
     \/ /\ Row(i).status = "RUNNING"
        /\ assertDependenciesSucceeded(jobs[i].stage)
        /\ \/ run.status = CommitTarget(i)
           \/ canTransitionResearchRun(run.status, CommitTarget(i))

\* The data may refuse a commit too: the domain commit found is of other output,
\* unless the handler read its output (arg = 1) from the committed row, or a
\* source the new output refers to is no longer eligible.
CommitMayBeRefused(i, a) == Row(i).commits > 0 => handler[i][a].arg = 0

\* commitRunStage: a replayed commit changes nothing, a new one makes the
\* generation's domain effects the current ones of its stage in the project.
commitRunStage(i, a) ==
  LET s == jobs[i].stage IN
  /\ Pc(i, a) = "commit"
  /\ CommitPasses(i, a)
  /\ IF Row(i).commits > 0 THEN UNCHANGED <<rows, run>>
     ELSE /\ rows' = [rows EXCEPT ![s] = [g \in Generations |->
                        IF g = jobs[i].gen
                          THEN [rows[s][g] EXCEPT !.status = "SUCCEEDED", !.commits = @ + 1,
                                  !.out = "committed", !.effects = "current"]
                          ELSE Superseded(rows[s][g])]]
          /\ SetRun(CommitTarget(i))
  /\ Goto(i, a, "advance")
  /\ UNCHANGED <<latest, jobs>>

\* Another run of the project commits its row of stage s:
\* supersedeCurrentGeneratedDomainEffects selects the rows of the stage by project,
\* so what this run generated is no longer current although its rows stay as
\* they are.
Displaced(row) == [row EXCEPT !.effects = IF @ = "current" THEN "displaced" ELSE @]

OtherRunCommits(s) ==
  /\ rows' = [rows EXCEPT ![s] = [g \in Generations |-> Displaced(rows[s][g])]]
  /\ UNCHANGED <<run, latest, jobs, handler>>

BlockPasses(i, a) ==
  /\ assertCurrentRunStageJob(i, a)
  /\ Row(i).status = "BLOCKED" \/ canTransitionRunStage(Row(i).status, "BLOCKED")
  /\ run.status = "BLOCKED" \/ canTransitionResearchRun(run.status, "BLOCKED")

blockRunStage(i, a) ==
  /\ Pc(i, a) = "block"
  /\ BlockPasses(i, a)
  /\ UpdateRow(i, [Row(i) EXCEPT !.status = "BLOCKED"])
  /\ SetRun("BLOCKED")
  /\ Goto(i, a, "failFatal")
  /\ UNCHANGED <<latest, jobs>>

\* advanceResearchPipelineStage: the fence, then a read that decides what
\* follows, then the transaction that does it.
AdvanceFenced(i, a) ==
  /\ Pc(i, a) = "advance"
  /\ assertCurrentRunStageJob(i, a)
  /\ Goto(i, a, "route")
  /\ UNCHANGED <<run, rows, latest, jobs>>

advanceResearchPipelineStage(i, a) ==
  LET s == jobs[i].stage IN
  /\ Pc(i, a) = "route"
  /\ IF Row(i).status # "SUCCEEDED" THEN Goto(i, a, "failRetryable")
     ELSE IF run.status \in {"CANCELLING", "CANCELLED", "FAILED", "BLOCKED"}
       THEN Goto(i, a, "returned")
     ELSE IF s = StageCount
       THEN \E pc \in {"toBlocked", "toApproval"} : Goto(i, a, pc)
     ELSE IF run.mode = "DRAFT_ONLY" /\ s = StageCount - 1 THEN Goto(i, a, "toQa")
     ELSE IF run.mode = "ASSISTED" THEN Goto(i, a, "toPaused")
     ELSE IF Latest(s + 1).status \in {"QUEUED", "RUNNING", "SUCCEEDED"}
       THEN Goto(i, a, "returned")
     ELSE GotoWith(i, a, IF Latest(s + 1).status = "STALE" THEN "queueStale" ELSE "queue",
                   latest[s + 1])
  /\ UNCHANGED <<run, rows, latest, jobs>>

BoundaryPasses(i, a) ==
  /\ assertCurrentRunStageJob(i, a)
  /\ Row(i).status = "SUCCEEDED"
  /\ \/ run.status = BoundaryOf[Pc(i, a)]
     \/ canTransitionResearchRun(run.status, BoundaryOf[Pc(i, a)])

setResearchRunBoundary(i, a) ==
  /\ Pc(i, a) \in DOMAIN BoundaryOf
  /\ BoundaryPasses(i, a)
  /\ SetRun(BoundaryOf[Pc(i, a)])
  /\ Goto(i, a, "returned")
  /\ UNCHANGED <<rows, latest, jobs>>

\* The job queueRunStage submits for the next stage: n is the generation of
\* the row it read, key the generation its idempotency key names.
NextJob(i, a) ==
  LET s == jobs[i].stage + 1
      n == handler[i][a].arg
      stale == rows[s][n].status = "STALE"
  IN  JobFor(s, IF stale THEN n + 1 ELSE n, IF Pc(i, a) = "queueStale" THEN n + 1 ELSE n,
             n, jobs[i].gen)

SameKey(job) == {k \in JobIds : /\ jobs[k].status # "NONE"
                                /\ jobs[k].stage = job.stage /\ jobs[k].key = job.key}

\* submitJobInTransaction accepts a used key only for the same input and row.
KeyAccepted(job) ==
  \A k \in SameKey(job) :
    jobs[k].gen = job.gen /\ jobs[k].from = job.from /\ jobs[k].prev = job.prev

QueuePasses(i, a) ==
  LET s == jobs[i].stage + 1
      n == handler[i][a].arg
  IN  /\ assertCurrentRunStageJob(i, a)
      /\ run.status \in {"QUEUED", "RUNNING"}
      /\ assertDependenciesSucceeded(s)
      /\ rows[s][n].status = "QUEUED" \/ canTransitionRunStage(rows[s][n].status, "QUEUED")
      /\ rows[s][n].status = "STALE" => latest[s] = n
      /\ KeyAccepted(NextJob(i, a))

\* queueRunStage: a stale row gets a new generation, any other is re-used in
\* place without its output.
queueRunStage(i, a) ==
  LET job == NextJob(i, a) IN
  /\ Pc(i, a) \in {"queue", "queueStale"}
  /\ QueuePasses(i, a)
  /\ job.gen <= GenCap
  /\ rows' = [rows EXCEPT ![job.stage][job.gen] =
                IF @.status = "NONE" THEN QueuedRow
                ELSE [@ EXCEPT !.status = "QUEUED", !.out = "none", !.hasInput = TRUE]]
  /\ latest' = [latest EXCEPT ![job.stage] = IF job.gen > @ THEN job.gen ELSE @]
  /\ IF SameKey(job) # {} THEN UNCHANGED jobs
     ELSE \E k \in JobIds : Fresh(k) /\ jobs' = [jobs EXCEPT ![k] = job]
  /\ Goto(i, a, "returned")
  /\ UNCHANGED run

FencedPasses(i, a) ==
  CASE Pc(i, a) = "start"   -> StartPasses(i, a)
    [] Pc(i, a) = "commit"  -> CommitPasses(i, a)
    [] Pc(i, a) = "block"   -> BlockPasses(i, a)
    [] Pc(i, a) = "advance" -> assertCurrentRunStageJob(i, a)
    [] Pc(i, a) \in DOMAIN BoundaryOf         -> BoundaryPasses(i, a)
    [] Pc(i, a) \in {"queue", "queueStale"}   -> QueuePasses(i, a)

\* A refused transaction is rolled back and its error, of unknown class, is
\* retryable.
HandlerRefused(i, a) ==
  /\ Pc(i, a) \in FencedPcs
  /\ ~ FencedPasses(i, a) \/ (Pc(i, a) = "commit" /\ CommitMayBeRefused(i, a))
  /\ Goto(i, a, "failRetryable")
  /\ UNCHANGED <<run, rows, latest, jobs>>

-----------------------------------------------------------------------------
(* The operator.                                                           *)

CancelledJob(job) ==
  IF job.status \in WaitingStatuses THEN [job EXCEPT !.status = "CANCELLED"]
  ELSE IF job.status \in {"CLAIMED", "RUNNING"}
    THEN [job EXCEPT !.status = "CANCELLATION_REQUESTED"] ELSE job

requestJobCancellation(i) ==
  /\ jobs[i].status \in WaitingStatuses \cup {"RUNNING"}
  /\ jobs' = [jobs EXCEPT ![i] = CancelledJob(@)]
  /\ reconcileLinkedJobCancellation(i, jobs')
  /\ UNCHANGED <<latest, handler>>

\* Every job of the run is cancelled; the run waits for those still running.
requestResearchRunCancellation ==
  /\ run.status \notin {"CANCELLING", "CANCELLED", "COMPLETED", "FAILED"}
  /\ jobs' = [i \in JobIds |-> CancelledJob(jobs[i])]
  /\ LET waits == \E i \in JobIds : jobs'[i].status = "CANCELLATION_REQUESTED"
         target == IF waits THEN "CANCELLING" ELSE "CANCELLED"
         gone == {<<jobs[i].stage, jobs[i].gen>> :
                    i \in {k \in JobIds : jobs'[k].status = "CANCELLED"}}
     IN  /\ canTransitionResearchRun(run.status, target)
         /\ SetRun(target)
         /\ rows' = IF ~waits THEN CloseAll
                    ELSE [s \in Stages |-> [g \in Generations |->
                            IF <<s, g>> \in gone /\ rows[s][g].status # "RUNNING"
                              THEN Closed(rows[s][g]) ELSE rows[s][g]]]
  /\ UNCHANGED <<latest, handler>>

\* The first stage whose latest generation has not succeeded is queued again,
\* in place and with the output it has.
resumeResearchRun ==
  /\ run.status \in {"CANCELLED", "FAILED", "PAUSED", "BLOCKED"}
  /\ \E s \in Stages :
       /\ Latest(s).status # "SUCCEEDED"
       /\ \A t \in 1..(s - 1) : Latest(t).status = "SUCCEEDED"
       /\ Latest(s).status = "QUEUED" \/ canTransitionRunStage(Latest(s).status, "QUEUED")
       /\ rows' = [rows EXCEPT ![s][latest[s]].status = "QUEUED",
                               ![s][latest[s]].hasInput = TRUE]
       /\ \E k \in JobIds : /\ Fresh(k)
                            /\ jobs' = [jobs EXCEPT ![k] = JobFor(s, latest[s], 0, 0, 0)]
  /\ SetRun("QUEUED")
  /\ UNCHANGED <<latest, handler>>

\* Variant of RestartPasses: a generation still to be executed may be restarted.
RestartPassesAnyStage(s) ==
  /\ Latest(s).hasInput
  /\ ActiveJobs(jobs) = {}
  /\ run.status = "QUEUED" \/ canTransitionResearchRun(run.status, "QUEUED")

\* The input is the stored one, so the row must have been queued before.
RestartPasses(s) ==
  /\ Latest(s).hasInput
  /\ Latest(s).status \in {"SUCCEEDED", "FAILED", "BLOCKED", "STALE", "CANCELLED"}
  /\ ActiveJobs(jobs) = {}
  /\ run.status = "QUEUED" \/ canTransitionResearchRun(run.status, "QUEUED")

\* Variant of MadeStale: the row keeps its status.
MadeStaleNot(row) == Superseded(row)

\* A succeeded row downstream of a restarted one.
MadeStale(row) == [Superseded(row) EXCEPT !.status = "STALE"]

\* restartRunStage: a new generation of stage s; the succeeded stages after it
\* become stale and the domain effects of them all non-current.
restartRunStage(s) ==
  LET g == latest[s] + 1 IN
  /\ g <= GenCap
  /\ RestartPasses(s)
  /\ rows' = [t \in Stages |-> [h \in Generations |->
                IF t = s /\ h = g THEN QueuedRow
                ELSE IF t = s /\ h = latest[s] THEN Superseded(rows[t][h])
                ELSE IF t > s /\ h = latest[t] /\ rows[t][h].status = "SUCCEEDED"
                  THEN MadeStale(rows[t][h])
                ELSE rows[t][h]]]
  /\ latest' = [latest EXCEPT ![s] = g]
  /\ SetRun("QUEUED")
  /\ \E k \in JobIds : Fresh(k) /\ jobs' = [jobs EXCEPT ![k] = JobFor(s, g, 0, 0, 0)]
  /\ UNCHANGED handler

\* updateApproval(approve) completes the run that waits for it.
approveRun ==
  /\ run.status = "APPROVAL_REQUIRED"
  /\ SetRun("COMPLETED")
  /\ UNCHANGED <<rows, latest, jobs, handler>>

-----------------------------------------------------------------------------
Handler(i, a) ==
  \/ loadBundle(i, a) \/ startRunStage(i, a) \/ reloadBundle(i, a)
  \/ ProviderReturns(i, a) \/ ProviderFails(i, a)
  \/ commitRunStage(i, a) \/ blockRunStage(i, a)
  \/ AdvanceFenced(i, a) \/ advanceResearchPipelineStage(i, a)
  \/ setResearchRunBoundary(i, a) \/ queueRunStage(i, a)
  \/ HandlerRefused(i, a)

QueueCall(i, a) == completeJob(i, a) \/ failJob(i, a) \/ CallRefused(i, a)

Next ==
  \/ \E i \in JobIds : \/ claimJob(i) \/ AttemptLost(i) \/ releaseJobLease(i)
                       \/ acknowledgeJobCancellation(i) \/ requestJobCancellation(i)
  \/ \E i \in JobIds, a \in AttemptNumbers : Handler(i, a) \/ QueueCall(i, a)
  \/ requestResearchRunCancellation \/ resumeResearchRun \/ approveRun
  \/ \E s \in Stages : restartRunStage(s) \/ OtherRunCommits(s)

Spec == Init /\ [][Next]_vars

-----------------------------------------------------------------------------
(* Properties.                                                             *)

\* The stages whose latest generation has succeeded are a prefix of the
\* pipeline, however restarts, resumes and late commits interleave: no stage
\* counts as done over a predecessor that is being redone (restartRunStage
\* marks stale, commitRunStage asserts its dependencies again).
SucceededPrefix ==
  \A s \in Stages :
    s > 1 /\ Latest(s).status = "SUCCEEDED" => Latest(s - 1).status = "SUCCEEDED"

\* Of a run's domain effects only those of the latest generation of a stage are
\* current, and only while that generation counts as succeeded; and a latest
\* generation that has succeeded has current effects, unless another run of the
\* project has committed the stage since: what commitRunStage makes current, and
\* restarts, commits and other runs make non-current, never disagree.
EffectsOfLatest ==
  \A s \in Stages, g \in Generations :
    /\ rows[s][g].effects = "current" => g = latest[s] /\ rows[s][g].status = "SUCCEEDED"
    /\ g = latest[s] /\ rows[s][g].status = "SUCCEEDED" =>
         rows[s][g].effects \in {"current", "displaced"}

\* A generation with a newer one is never queued or executed again, although
\* jobs of older generations may still wait in the queue after restartRunStage.
SupersededAtRest ==
  \A s \in Stages, g \in Generations :
    g < latest[s] => rows[s][g].status \notin OpenStages

\* A cancelled run has no open stage row in any generation: what is cancelled
\* by the operator, job by job or by the last acknowledging worker, and what
\* workers commit meanwhile, leaves nothing pending, queued or running.
ClosedWhenCancelled ==
  run.status = "CANCELLED" =>
    \A s \in Stages, g \in Generations : rows[s][g].status \notin OpenStages

\* While a run stays cancelled, failed or completed no stage row is queued,
\* started or committed, whatever the workers that outlive it do.
StoppedRunFrozen ==
  [][ run.status \in {"CANCELLED", "COMPLETED", "FAILED"} /\ run'.status = run.status =>
        \A s \in Stages, g \in Generations :
          rows'[s][g].status \in {"QUEUED", "RUNNING", "SUCCEEDED"} =>
            rows'[s][g].status = rows[s][g].status ]_vars

\* Every change of a run or of a stage row is one its transition table allows,
\* the UPDATEs of many rows that assert no transition included.
TransitionsFollowTables ==
  [][ /\ run'.status = run.status \/ canTransitionResearchRun(run.status, run'.status)
      /\ \A s \in Stages, g \in Generations :
           IF rows[s][g].status = "NONE"
             THEN rows'[s][g].status \in {"NONE", "QUEUED"}
             ELSE \/ rows'[s][g].status = rows[s][g].status
                  \/ canTransitionRunStage(rows[s][g].status, rows'[s][g].status) ]_vars

-----------------------------------------------------------------------------
(* Statements of the documentation that the code does not keep.            *)

\* "A successful final stage stops at APPROVAL_REQUIRED" (docs/
\* RESEARCH_WORKFLOW.md): a run waits for approval only when the final stage
\* has succeeded.  A job of an older generation that is replayed advances the
\* run all the same.
ApprovalCoversLatest ==
  run.status = "APPROVAL_REQUIRED" => Latest(StageCount).status = "SUCCEEDED"

\* "linked research run/stage state is reconciled when the outcome is
\* terminal" (docs/OPERATIONS.md): a queued or running run has a job that will
\* take it further.  reconcileLinkedJobFailure leaves the run of a stage that
\* is committed but not advanced as it is.
ExecutingRunHasJob ==
  run.status \in {"QUEUED", "RUNNING"} =>
    \E i \in JobIds : jobs[i].status \in WaitingStatuses \cup LeasedStatuses

\* "reconciles the run only after active work has stopped" (docs/
\* OPERATIONS.md): a cancelling run still has active work to wait for.  Only a
\* job that ends as cancelled reconciles the run.
CancellingHasWork == run.status = "CANCELLING" => ActiveJobs(jobs) # {}

\* "downstream generations become stale after restart" (docs/DATA_MODEL.md):
\* a succeeded stage was computed from the latest generation of the stage it
\* depends on.  A stage queued with a stored output is not made stale and
\* commits that output.
OutputFromLatest ==
  \A s \in Stages \ {1} :
    Latest(s).status = "SUCCEEDED" => Latest(s).basis = latest[s - 1]
=============================================================================
