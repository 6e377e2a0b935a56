------------------------------ MODULE JobQueue ------------------------------
(***************************************************************************)
(* The durable job queue (lib/services/jobs.ts) and the worker processes   *)
(* that drain it (worker/durable-worker.ts).                               *)
(*                                                                         *)
(* A queue transaction is one step: every one locks the project row and    *)
(* then the job row.  PostgreSQL's NOW() is the start of the transaction,  *)
(* so a call that started before the lease expired and then waited for the *)
(* lock still sees a current lease; `early' and `hb' record that chance.   *)
(* A row's version column matters only to startJob, which compares it with *)
(* the version the claim returned: `asClaimed' says the row has not been   *)
(* written since its last claim.                                           *)
(***************************************************************************)
EXTENDS JobDomain, FiniteSets

CONSTANTS
  Jobs,          \* idempotency keys; each names at most one row of jobs
  Workers,       \* worker identities, kept across restarts (WORKER_ID)
  NoWorker,      \* the NULL lease_owner
  MaxAttempts,   \* max_attempts given at submission
  Concurrency,   \* WORKER_CONCURRENCY
  JobType,       \* the job_type of each job
  TypeLimit,     \* jobTypeConcurrency for each job type
  AttemptCap,    \* bound: attempts a job is explored to
  MaxFaults      \* bound: crashes, stalls past a lease, database errors

ASSUME QueueAssumption ==
  /\ NoWorker \notin Workers
  /\ MaxAttempts \in Nat \ {0}
  /\ AttemptCap \in Nat /\ MaxAttempts <= AttemptCap
  /\ Concurrency \in Nat \ {0}
  /\ \A j \in Jobs : TypeLimit[JobType[j]] \in Nat
  /\ MaxFaults \in Nat

VARIABLES
  jobs,      \* the jobs table
  history,   \* the job_attempts table, by attempt number
  output,    \* the attempt whose handler produced output_reference, or 0
  exec,      \* the execution a worker runs for each claimed attempt
  active,    \* DurableWorker.active: attempt held for a job id, or 0
  worker,    \* lifecycle of each worker process
  poll,      \* the poll each worker process has in flight
  faults     \* faults so far, up to MaxFaults

vars == <<jobs, history, output, exec, active, worker, poll, faults>>

AttemptNumbers == 1..AttemptCap

(***************************************************************************)
(* Where an execution can be.  Each call pc is an awaited queue            *)
(* transaction: in the try block, in the inner catch, or in the outer      *)
(* catch of DurableWorker.execute; pollRelease is awaited by pollOnce.     *)
(***************************************************************************)
TryCalls   == { "complete", "ackTry", "releaseTry" }
CatchCalls == { "failRetryable", "failFatal", "ackCatch", "releaseCatch" }
CallPcs    == TryCalls \cup CatchCalls \cup { "starting", "ackFinal", "pollRelease" }
TimerPcs   == TryCalls \cup CatchCalls \cup { "handling", "returned" }
Pcs        == CallPcs \cup TimerPcs \cup { "none", "recheck", "done" }

AttemptStatuses ==
  { "NONE", "CLAIMED", "RUNNING", "SUCCEEDED", "RETRY_WAIT", "FAILED",
    "DEAD_LETTER", "CANCELLED", "LEASE_EXPIRED" }

NoJob  == [ status |-> "NONE", attempts |-> 0, maxAttempts |-> MaxAttempts,
            owner |-> NoWorker, lease |-> "none", due |-> FALSE,
            asClaimed |-> FALSE ]
NoExec == [ pc |-> "none", cancelReq |-> FALSE, shutdown |-> FALSE,
            leaseLost |-> FALSE, timedOut |-> FALSE, early |-> TRUE,
            hb |-> "none" ]
NoAttempt == [ worker |-> NoWorker, status |-> "NONE" ]

JobRows == [ status : JobStatuses \cup {"NONE"}, attempts : 0..AttemptCap,
             maxAttempts : 1..AttemptCap, owner : Workers \cup {NoWorker},
             lease : {"none", "current", "expired"}, due : BOOLEAN,
             asClaimed : BOOLEAN ]
Executions == [ pc : Pcs, cancelReq : BOOLEAN, shutdown : BOOLEAN,
                leaseLost : BOOLEAN, timedOut : BOOLEAN, early : BOOLEAN,
                hb : {"none", "early", "late"} ]

TypeOK ==
  /\ jobs    \in [Jobs -> JobRows]
  /\ history \in [Jobs -> [AttemptNumbers ->
                    [worker : Workers \cup {NoWorker}, status : AttemptStatuses]]]
  /\ output  \in [Jobs -> 0..AttemptCap]
  /\ exec    \in [Jobs -> [AttemptNumbers -> Executions]]
  /\ active  \in [Workers -> [Jobs -> 0..AttemptCap]]
  /\ worker  \in [Workers -> {"running", "stopping", "aborting", "stopped", "down"}]
  /\ poll    \in [Workers -> {"idle", "claiming", "releasing"}]
  /\ faults  \in 0..MaxFaults

Init ==
  /\ jobs    = [j \in Jobs |-> NoJob]
  /\ history = [j \in Jobs |-> [a \in AttemptNumbers |-> NoAttempt]]
  /\ output  = [j \in Jobs |-> 0]
  /\ exec    = [j \in Jobs |-> [a \in AttemptNumbers |-> NoExec]]
  /\ active  = [w \in Workers |-> [j \in Jobs |-> 0]]
  /\ worker  = [w \in Workers |-> "running"]
  /\ poll    = [w \in Workers |-> "idle"]
  /\ faults  = 0

-----------------------------------------------------------------------------
(* Helpers.                                                                *)

Up(w) == worker[w] \in {"running", "stopping", "aborting"}
Pc(j, a) == exec[j][a].pc
WorkerOf(j, a) == history[j][a].worker
Live(j, a) == Pc(j, a) \notin {"none", "done"}
Pipeline(j) == JobType[j] = "RESEARCH_PIPELINE_STAGE"

\* Variant: the timeout does not abort the controller.
AbortedNotByTimeout(e) == e.cancelReq \/ e.shutdown \/ e.leaseLost

\* Variant: only what a heartbeat learns aborts the controller.
AbortedByHeartbeat(e) == e.cancelReq \/ e.leaseLost

\* The controller's signal: each of the four flags is set along with abort().
Aborted(e) == e.cancelReq \/ e.shutdown \/ e.leaseLost \/ e.timedOut

\* Rows whose execution still runs in the process that owns the lease.
Attended(j) ==
  \E a \in AttemptNumbers : Live(j, a) /\ WorkerOf(j, a) = jobs[j].owner

Fault == faults < MaxFaults /\ faults' = faults + 1

\* A row that leaves the leased statuses: the UPDATE clears the lease.
Settled(row, status, due) ==
  [ row EXCEPT !.status = status, !.owner = NoWorker, !.lease = "none",
               !.due = due, !.asClaimed = FALSE ]

\* Variant: job_attempts is not updated.
SetAttemptForgotten(j, status) == UNCHANGED history

\* Variant: the UPDATE of job_attempts does not select the attempt number.
SetEveryAttempt(j, status) ==
  history' = [history EXCEPT ![j] =
                [a \in AttemptNumbers |->
                   IF a <= jobs[j].attempts THEN [@[a] EXCEPT !.status = status] ELSE @[a]]]

\* Update the job_attempts row of the job's current attempt.
SetAttempt(j, status) ==
  history' = [history EXCEPT ![j][jobs[j].attempts].status = status]

\* The statuses lockOwnedJob is given by the call at pc.
AllowedStatuses(pc) ==
  CASE pc = "starting"                                  -> {"CLAIMED"}
    [] pc = "complete"                                  -> {"RUNNING"}
    [] pc \in {"failRetryable", "failFatal"}            -> {"CLAIMED", "RUNNING"}
    [] pc \in {"ackTry", "ackCatch", "ackFinal"}        -> {"CANCELLATION_REQUESTED"}
    [] pc \in {"releaseTry", "releaseCatch", "pollRelease"} -> LeasedStatuses
    [] OTHER                                            -> {}

\* Variant: the lease owner is not compared.
lockOwnedJobAnyOwner(j, a) ==
  /\ jobs[j].status \in AllowedStatuses(Pc(j, a))
  /\ Pc(j, a) = "starting" => jobs[j].attempts = a /\ jobs[j].asClaimed

\* lockOwnedJob for the call of execution (j, a): the row belongs to the
\* worker (not to the attempt), in an allowed status, and startJob's expected
\* version is the one its claim returned.
lockOwnedJob(j, a) ==
  /\ jobs[j].owner = WorkerOf(j, a)
  /\ jobs[j].status \in AllowedStatuses(Pc(j, a))
  /\ Pc(j, a) = "starting" => jobs[j].attempts = a /\ jobs[j].asClaimed

\* The call can find the lease current; the call can find the lease lost.
CallPasses(j, a) ==
  lockOwnedJob(j, a) /\ (jobs[j].lease = "current" \/ exec[j][a].early)
CallLosesLease(j, a) ==
  ~ (lockOwnedJob(j, a) /\ jobs[j].lease = "current")

\* Variant: a shutdown ends the execution without releasing the lease.
CatchPcNoRelease(e, retryable) ==
  IF e.leaseLost \/ e.shutdown THEN "done"
  ELSE IF e.cancelReq THEN "ackCatch"
  ELSE IF e.timedOut \/ retryable THEN "failRetryable" ELSE "failFatal"

\* The inner catch of execute, in the order it tests its flags.
CatchPc(e, retryable) ==
  IF e.leaseLost THEN "done"
  ELSE IF e.shutdown THEN "releaseCatch"
  ELSE IF e.cancelReq THEN "ackCatch"
  ELSE IF e.timedOut \/ retryable THEN "failRetryable" ELSE "failFatal"

\* Where an error thrown at e.pc leads: a try call to the inner catch, a call
\* of the inner catch (and startJob) to the outer catch, the others nowhere.
ThrowPc(e, retryable) ==
  IF e.pc \in TryCalls \cup {"handling"} THEN CatchPc(e, retryable)
  ELSE IF e.pc \in CatchCalls \cup {"starting"}
       THEN IF e.leaseLost THEN "done" ELSE "recheck"
  ELSE "done"

\* Continue execution (j, a) at pc.  Ending runs the finally that deletes the
\* job id from the active map, whichever attempt the entry stands for; the
\* release awaited by pollOnce has no entry and ends the poll instead.
Goto(j, a, pc) ==
  LET e == exec[j][a]
      w == WorkerOf(j, a)
  IN  /\ exec' = [exec EXCEPT ![j][a] =
                    IF pc = "done"
                      THEN [NoExec EXCEPT !.pc = "done", !.hb = e.hb]
                      ELSE [e EXCEPT !.pc = pc,
                              !.early = (pc \in CallPcs => jobs[j].lease # "expired")]]
      /\ IF e.pc = "pollRelease"
           THEN poll' = [poll EXCEPT ![w] = "idle"] /\ UNCHANGED active
           ELSE /\ active' = IF pc = "done" THEN [active EXCEPT ![w][j] = 0] ELSE active
                /\ UNCHANGED poll

Throw(j, a) ==
  \E retryable \in BOOLEAN : Goto(j, a, ThrowPc(exec[j][a], retryable))

\* The transaction committed; its reply may still be lost to a database error.
Reply(j, a, pc) ==
  \/ Goto(j, a, pc) /\ UNCHANGED faults
  \/ Fault /\ Throw(j, a)

-----------------------------------------------------------------------------
(* The web process and the operator.                                       *)

\* submitJob: insert the row unless its idempotency key exists; a repeated
\* submission returns the stored row (or an error) and changes nothing.
submitJob(j) ==
  /\ jobs[j].status = "NONE"
  /\ \E due \in BOOLEAN :
       jobs' = [jobs EXCEPT ![j].status = "QUEUED", ![j].due = due]
  /\ UNCHANGED <<history, output, exec, active, worker, poll, faults>>

\* requestJobCancellation: waiting work is cancelled at once, leased work
\* keeps its lease until the worker acknowledges or the lease is recovered.
requestJobCancellation(j) ==
  /\ jobs[j].status \in WaitingStatuses \cup {"CLAIMED", "RUNNING"}
  /\ jobs' = [jobs EXCEPT ![j] =
                IF jobs[j].status \in WaitingStatuses
                  THEN Settled(jobs[j], "CANCELLED", jobs[j].due)
                  ELSE [jobs[j] EXCEPT !.status = "CANCELLATION_REQUESTED",
                                       !.asClaimed = FALSE]]
  /\ UNCHANGED <<history, output, exec, active, worker, poll, faults>>

\* Variant: any terminal job may be retried.
manualRetryTerminalJob(j) ==
  /\ ~ Pipeline(j)
  /\ isTerminalJobStatus(jobs[j].status)
  /\ jobs[j].attempts < AttemptCap
  /\ jobs' = [jobs EXCEPT ![j] =
                [Settled(jobs[j], "QUEUED", TRUE)
                   EXCEPT !.maxAttempts = jobs[j].attempts + 1]]
  /\ UNCHANGED <<history, output, exec, active, worker, poll, faults>>

\* Variant: the retry adds an attempt to the unused ones.
manualRetryAddsAttempt(j) ==
  /\ ~ Pipeline(j)
  /\ jobs[j].status \in {"FAILED", "DEAD_LETTER"}
  /\ jobs[j].attempts < AttemptCap
  /\ jobs' = [jobs EXCEPT ![j] =
                [Settled(jobs[j], "QUEUED", TRUE)
                   EXCEPT !.maxAttempts = jobs[j].maxAttempts + 1]]
  /\ UNCHANGED <<history, output, exec, active, worker, poll, faults>>

\* manualRetryJob: one more attempt for failed or dead-letter work.  Pipeline
\* stages are refused: they are restarted as a new generation instead.
manualRetryJob(j) ==
  /\ ~ Pipeline(j)
  /\ jobs[j].status \in {"FAILED", "DEAD_LETTER"}
  /\ jobs[j].attempts < AttemptCap
  /\ jobs' = [jobs EXCEPT ![j] =
                [Settled(jobs[j], "QUEUED", TRUE)
                   EXCEPT !.maxAttempts = jobs[j].attempts + 1]]
  /\ UNCHANGED <<history, output, exec, active, worker, poll, faults>>

-----------------------------------------------------------------------------
(* Time.                                                                   *)

\* scheduled_at passes.
BecomeDue(j) ==
  /\ jobs[j].status \in WaitingStatuses
  /\ ~ jobs[j].due
  /\ jobs' = [jobs EXCEPT ![j].due = TRUE]
  /\ UNCHANGED <<history, output, exec, active, worker, poll, faults>>

\* lease_expires_at passes.  A call in flight may have started before.  It
\* takes a stalled process or database if an execution could still renew it.
LeaseLapses(j) ==
  /\ jobs[j].lease = "current"
  /\ jobs' = [jobs EXCEPT ![j].lease = "expired"]
  /\ exec' = [exec EXCEPT ![j] =
                [a \in AttemptNumbers |->
                  [exec[j][a] EXCEPT !.early = TRUE,
                     !.hb = IF exec[j][a].hb = "none" THEN "none" ELSE "early"]]]
  /\ UNCHANGED <<history, output, active, worker, poll>>

UnattendedLapse(j) == ~ Attended(j) /\ LeaseLapses(j) /\ UNCHANGED faults
StalledLapse(j) == Attended(j) /\ LeaseLapses(j) /\ Fault

-----------------------------------------------------------------------------
(* A worker's poll: DurableWorker.pollOnce.                                *)

\* Variant: recovery does not scan cancellation requests.
recoverUncancelled(w, j) ==
  /\ worker[w] \in {"running", "stopping"} /\ poll[w] = "idle"
  /\ jobs[j].status \in {"CLAIMED", "RUNNING"}
  /\ jobs[j].lease = "expired"
  /\ LET row == jobs[j]
         target == IF row.attempts < row.maxAttempts THEN "RETRY_WAIT" ELSE "DEAD_LETTER"
     IN  jobs' = [jobs EXCEPT ![j] =
                    Settled(row, target, IF target = "RETRY_WAIT" THEN FALSE ELSE row.due)]
  /\ SetAttempt(j, "LEASE_EXPIRED")
  /\ UNCHANGED <<output, exec, active, worker, poll, faults>>

\* recoverExpiredJobs for one candidate, re-checked under its row lock.
recoverExpiredJobs(w, j) ==
  /\ worker[w] \in {"running", "stopping"} /\ poll[w] = "idle"
  /\ jobs[j].status \in LeasedStatuses
  /\ jobs[j].lease = "expired"
  /\ LET row == jobs[j]
         target == IF row.status = "CANCELLATION_REQUESTED" THEN "CANCELLED"
                   ELSE IF row.attempts < row.maxAttempts THEN "RETRY_WAIT"
                   ELSE "DEAD_LETTER"
     IN  jobs' = [jobs EXCEPT ![j] =
                    Settled(row, target, IF target = "RETRY_WAIT" THEN FALSE ELSE row.due)]
  /\ SetAttempt(j, "LEASE_EXPIRED")
  /\ UNCHANGED <<output, exec, active, worker, poll, faults>>

ActiveJobs(w) == {j \in Jobs : active[w][j] # 0}

\* pollOnce issues a claim for the types below their limit if it has capacity.
IssueClaim(w) ==
  /\ worker[w] = "running"
  /\ poll[w] = "idle"
  /\ Cardinality(ActiveJobs(w)) < Concurrency
  /\ poll' = [poll EXCEPT ![w] = "claiming"]
  /\ UNCHANGED <<jobs, history, output, exec, active, worker, faults>>

\* Variant: the cap of the job's type is not applied.
ClaimableOfAnyType(w, j) ==
  /\ jobs[j].status \in WaitingStatuses
  /\ jobs[j].due
  /\ jobs[j].attempts < jobs[j].maxAttempts

Claimable(w, j) ==
  /\ jobs[j].status \in WaitingStatuses
  /\ jobs[j].due
  /\ jobs[j].attempts < jobs[j].maxAttempts
  /\ Cardinality({i \in ActiveJobs(w) : JobType[i] = JobType[j]}) < TypeLimit[JobType[j]]

\* claimJobs commits and pollOnce goes on: a worker told to stop meanwhile
\* releases the claim, otherwise the execution starts with startJob.
claimJobs(w, j) ==
  LET a == jobs[j].attempts + 1 IN
  /\ poll[w] = "claiming"
  /\ Claimable(w, j)
  /\ jobs' = [jobs EXCEPT ![j] =
                [@ EXCEPT !.status = "CLAIMED", !.attempts = a, !.owner = w,
                          !.lease = "current", !.asClaimed = TRUE]]
  /\ history' = [history EXCEPT ![j][a] = [worker |-> w, status |-> "CLAIMED"]]
  /\ IF worker[w] = "running"
       THEN /\ exec' = [exec EXCEPT ![j][a] = [NoExec EXCEPT !.pc = "starting"]]
            /\ active' = [active EXCEPT ![w][j] = a]
            /\ poll' = [poll EXCEPT ![w] = "idle"]
       ELSE /\ exec' = [exec EXCEPT ![j][a] = [NoExec EXCEPT !.pc = "pollRelease"]]
            /\ poll' = [poll EXCEPT ![w] = "releasing"]
            /\ UNCHANGED active
  /\ UNCHANGED <<output, worker, faults>>

\* The claim finds no row, or fails, and the poll ends.
ClaimNothing(w) ==
  /\ poll[w] = "claiming"
  /\ poll' = [poll EXCEPT ![w] = "idle"]
  /\ UNCHANGED <<jobs, history, output, exec, active, worker, faults>>

-----------------------------------------------------------------------------
(* An execution: DurableWorker.execute.                                    *)

startJob(j, a) ==
  /\ Pc(j, a) = "starting"
  /\ CallPasses(j, a)
  /\ jobs' = [jobs EXCEPT ![j].status = "RUNNING", ![j].asClaimed = FALSE]
  /\ SetAttempt(j, "RUNNING")
  /\ Reply(j, a, "handling")
  /\ UNCHANGED <<output, worker>>

HandlerReturns(j, a) ==
  /\ Pc(j, a) = "handling"
  /\ ~ Aborted(exec[j][a])
  /\ Goto(j, a, "returned")
  /\ UNCHANGED <<jobs, history, output, worker, faults>>

HandlerThrows(j, a) ==
  /\ Pc(j, a) = "handling"
  /\ ~ Aborted(exec[j][a])
  /\ Throw(j, a)
  /\ UNCHANGED <<jobs, history, output, worker, faults>>

\* The abort signal rejects the race; what the handler does then is ignored.
AbortWins(j, a) ==
  /\ Pc(j, a) = "handling"
  /\ Aborted(exec[j][a])
  /\ Throw(j, a)
  /\ UNCHANGED <<jobs, history, output, worker, faults>>

\* After the race: a cancellation or shutdown seen by then comes first.
AfterHandler(j, a) ==
  /\ Pc(j, a) = "returned"
  /\ Goto(j, a, IF exec[j][a].cancelReq THEN "ackTry"
                ELSE IF exec[j][a].shutdown THEN "releaseTry" ELSE "complete")
  /\ UNCHANGED <<jobs, history, output, worker, faults>>

completeJob(j, a) ==
  /\ Pc(j, a) = "complete"
  /\ CallPasses(j, a)
  /\ jobs' = [jobs EXCEPT ![j] = Settled(@, "SUCCEEDED", @.due)]
  /\ SetAttempt(j, "SUCCEEDED")
  /\ output' = [output EXCEPT ![j] = a]
  /\ Reply(j, a, "done")
  /\ UNCHANGED worker

failJob(j, a) ==
  /\ Pc(j, a) \in {"failRetryable", "failFatal"}
  /\ CallPasses(j, a)
  /\ LET target == failureJobStatus(Pc(j, a) = "failRetryable",
                                    jobs[j].attempts, jobs[j].maxAttempts)
     IN  /\ jobs' = [jobs EXCEPT ![j] =
                       Settled(@, target, IF target = "RETRY_WAIT" THEN FALSE ELSE @.due)]
         /\ SetAttempt(j, target)
  /\ Reply(j, a, "done")
  /\ UNCHANGED <<output, worker>>

acknowledgeJobCancellation(j, a) ==
  /\ Pc(j, a) \in {"ackTry", "ackCatch", "ackFinal"}
  /\ CallPasses(j, a)
  /\ jobs' = [jobs EXCEPT ![j] = Settled(@, "CANCELLED", @.due)]
  /\ SetAttempt(j, "CANCELLED")
  /\ Reply(j, a, "done")
  /\ UNCHANGED <<output, worker>>

\* Work returns to the queue, due at once, with its attempts as they are.
releaseJobLease(j, a) ==
  /\ Pc(j, a) \in {"releaseTry", "releaseCatch", "pollRelease"}
  /\ CallPasses(j, a)
  /\ LET target == IF jobs[j].status = "CANCELLATION_REQUESTED"
                     THEN "CANCELLED" ELSE "RETRY_WAIT"
     IN  /\ jobs' = [jobs EXCEPT ![j] =
                       Settled(@, target, IF target = "RETRY_WAIT" THEN TRUE ELSE @.due)]
         /\ SetAttempt(j, target)
  /\ Reply(j, a, "done")
  /\ UNCHANGED <<output, worker>>

\* lockOwnedJob throws JOB_LEASE_LOST or STALE_JOB_VERSION.
CallRejected(j, a) ==
  /\ Pc(j, a) \in CallPcs
  /\ CallLosesLease(j, a)
  /\ Throw(j, a)
  /\ UNCHANGED <<jobs, history, output, worker, faults>>

\* The database fails the call before it commits.
CallError(j, a) ==
  /\ Pc(j, a) \in CallPcs
  /\ Fault
  /\ Throw(j, a)
  /\ UNCHANGED <<jobs, history, output, worker>>

\* The outer catch reads the row and acknowledges a pending cancellation.
RecheckJob(j, a) ==
  /\ Pc(j, a) = "recheck"
  /\ Goto(j, a, IF /\ jobs[j].status = "CANCELLATION_REQUESTED"
                   /\ jobs[j].owner = WorkerOf(j, a)
                THEN "ackFinal" ELSE "done")
  /\ UNCHANGED <<jobs, history, output, worker, faults>>

\* The timeout fires; only the inner catch reads the flag.
Timeout(j, a) ==
  /\ Pc(j, a) \in TryCalls \cup {"handling", "returned"}
  /\ ~ exec[j][a].timedOut
  /\ exec' = [exec EXCEPT ![j][a].timedOut = TRUE]
  /\ UNCHANGED <<jobs, history, output, active, worker, poll, faults>>

\* The heartbeat interval fires: at most one heartbeat is in flight.
SendHeartbeat(j, a) ==
  /\ Pc(j, a) \in TimerPcs
  /\ exec[j][a].hb = "none"
  /\ ~ Aborted(exec[j][a])
  /\ exec' = [exec EXCEPT ![j][a].hb =
                IF jobs[j].lease = "expired" THEN "late" ELSE "early"]
  /\ UNCHANGED <<jobs, history, output, active, worker, poll, faults>>

HeartbeatOwns(j, a) ==
  /\ jobs[j].owner = WorkerOf(j, a)
  /\ jobs[j].status \in LeasedStatuses

\* The promise of a heartbeat settles; an ended execution ignores it.
HeartbeatSettles(j, a, cancelReq, leaseLost) ==
  LET e == exec[j][a] IN
  exec' = [exec EXCEPT ![j][a] =
             IF Live(j, a)
               THEN [e EXCEPT !.hb = "none",
                              !.cancelReq = e.cancelReq \/ cancelReq,
                              !.leaseLost = e.leaseLost \/ leaseLost]
               ELSE [e EXCEPT !.hb = "none"]]

\* heartbeatJob renews the lease, counted from the start of its transaction.
heartbeatJob(j, a) ==
  /\ exec[j][a].hb # "none"
  /\ HeartbeatOwns(j, a)
  /\ jobs[j].lease = "current" \/ exec[j][a].hb = "early"
  /\ \E lease \in {"current", jobs[j].lease} :
       jobs' = [jobs EXCEPT ![j].lease = lease, ![j].asClaimed = FALSE]
  /\ \/ /\ HeartbeatSettles(j, a, jobs[j].status = "CANCELLATION_REQUESTED", FALSE)
        /\ UNCHANGED faults
     \/ Fault /\ HeartbeatSettles(j, a, FALSE, TRUE)
  /\ UNCHANGED <<history, output, active, worker, poll>>

HeartbeatFails(j, a) ==
  /\ exec[j][a].hb # "none"
  /\ \/ ~ (HeartbeatOwns(j, a) /\ jobs[j].lease = "current") /\ UNCHANGED faults
     \/ Fault
  /\ HeartbeatSettles(j, a, FALSE, TRUE)
  /\ UNCHANGED <<jobs, history, output, active, worker, poll>>

-----------------------------------------------------------------------------
(* Worker lifecycle: DurableWorker.stop, process death, restart.           *)

RequestStop(w) ==
  /\ worker[w] = "running"
  /\ worker' = [worker EXCEPT ![w] = "stopping"]
  /\ UNCHANGED <<jobs, history, output, exec, active, poll, faults>>

\* Once the polls in flight have settled and the grace period is over, every
\* execution of the active map is marked and aborted.
AbortActive(w) ==
  /\ worker[w] = "stopping"
  /\ poll[w] = "idle"
  /\ worker' = [worker EXCEPT ![w] = "aborting"]
  /\ exec' = [j \in Jobs |-> [a \in AttemptNumbers |->
                IF active[w][j] = a THEN [exec[j][a] EXCEPT !.shutdown = TRUE]
                                    ELSE exec[j][a]]]
  /\ UNCHANGED <<jobs, history, output, active, poll, faults>>

\* The process is gone: its executions and its map go with it.
ProcessEnds(w, state) ==
  /\ worker' = [worker EXCEPT ![w] = state]
  /\ exec' = [j \in Jobs |-> [a \in AttemptNumbers |->
                IF WorkerOf(j, a) = w /\ Pc(j, a) # "none"
                  THEN [NoExec EXCEPT !.pc = "done"] ELSE exec[j][a]]]
  /\ active' = [active EXCEPT ![w] = [j \in Jobs |-> 0]]
  /\ poll' = [poll EXCEPT ![w] = "idle"]
  /\ UNCHANGED <<jobs, history, output>>

\* stop() waits for the executions of the active map; the pool then closes.
FinishStop(w) ==
  /\ worker[w] = "aborting"
  /\ ActiveJobs(w) = {}
  /\ ProcessEnds(w, "stopped")
  /\ UNCHANGED faults

Crash(w) ==
  /\ Up(w)
  /\ Fault
  /\ ProcessEnds(w, "down")

Restart(w) ==
  /\ worker[w] \in {"stopped", "down"}
  /\ worker' = [worker EXCEPT ![w] = "running"]
  /\ UNCHANGED <<jobs, history, output, exec, active, poll, faults>>

-----------------------------------------------------------------------------
QueueCall(j, a) ==
  \/ startJob(j, a) \/ completeJob(j, a) \/ failJob(j, a)
  \/ acknowledgeJobCancellation(j, a) \/ releaseJobLease(j, a)
  \/ CallRejected(j, a)

Heartbeat(j, a) == heartbeatJob(j, a) \/ HeartbeatFails(j, a)

Execution(j, a) ==
  \/ QueueCall(j, a) \/ CallError(j, a)
  \/ HandlerReturns(j, a) \/ HandlerThrows(j, a) \/ AbortWins(j, a)
  \/ AfterHandler(j, a)
  \/ RecheckJob(j, a) \/ Timeout(j, a)
  \/ SendHeartbeat(j, a) \/ Heartbeat(j, a)

Operator(j) == submitJob(j) \/ requestJobCancellation(j) \/ manualRetryJob(j)

Clock(j) == BecomeDue(j) \/ UnattendedLapse(j) \/ StalledLapse(j)

Process(w) ==
  \/ IssueClaim(w) \/ ClaimNothing(w)
  \/ RequestStop(w) \/ AbortActive(w) \/ FinishStop(w)
  \/ Crash(w) \/ Restart(w)

Next ==
  \/ \E j \in Jobs : Operator(j) \/ Clock(j)
  \/ \E w \in Workers : Process(w)
  \/ \E w \in Workers, j \in Jobs : recoverExpiredJobs(w, j) \/ claimJobs(w, j)
  \/ \E j \in Jobs, a \in AttemptNumbers : Execution(j, a)

Spec == Init /\ [][Next]_vars

(***************************************************************************)
(* Fairness.  Awaited calls settle, timers fire and callbacks run because  *)
(* the event loop and the database make progress; a handler need not       *)
(* return, its timeout is what ends it.  A lease nobody renews expires.    *)
(* Each life of a worker begins with a recovery pass, so recovery is       *)
(* strongly fair.  A stopped or dead process is started again.  Claims are *)
(* not fair: the queue promises no order.                                  *)
(***************************************************************************)
Fairness ==
  /\ \A j \in Jobs :
       /\ WF_vars(UnattendedLapse(j))
       /\ SF_vars(\E w \in Workers : recoverExpiredJobs(w, j))
  /\ \A j \in Jobs, a \in AttemptNumbers :
       /\ WF_vars(QueueCall(j, a))
       /\ WF_vars(Timeout(j, a))
       /\ WF_vars(AbortWins(j, a))
       /\ WF_vars(AfterHandler(j, a))
       /\ WF_vars(RecheckJob(j, a))
  /\ \A w \in Workers :
       /\ WF_vars(ClaimNothing(w))
       /\ WF_vars(AbortActive(w))
       /\ WF_vars(FinishStop(w))
       /\ WF_vars(Restart(w))

FairSpec == Spec /\ Fairness

-----------------------------------------------------------------------------
(* Properties.                                                             *)

\* A job row names a lease owner and a lease exactly while its status is one
\* that recoverExpiredJobs scans: no lease can be held by a row recovery will
\* not look at, and no leased row lacks the owner its calls are fenced by.
LeaseMatchesStatus ==
  \A j \in Jobs :
    /\ jobs[j].status \in LeasedStatuses <=> jobs[j].owner # NoWorker
    /\ jobs[j].status \in LeasedStatuses <=> jobs[j].lease # "none"

\* The job_attempts table is the history of the job row: one row per attempt
\* started, an open row only for the attempt the lease is about, held by the
\* worker that owns the lease, and in the phase the job is in.
AttemptLedger ==
  \A j \in Jobs : \A a \in AttemptNumbers :
    LET row == jobs[j]
        att == history[j][a]
    IN  /\ att.status # "NONE" <=> a <= row.attempts
        /\ att.status \in {"CLAIMED", "RUNNING"} <=>
             a = row.attempts /\ row.status \in LeasedStatuses
        /\ row.status \in LeasedStatuses /\ a = row.attempts =>
             /\ att.worker = row.owner
             /\ row.status \in {"CLAIMED", "RUNNING"} => att.status = row.status

\* Attempts never exceed max_attempts, work still queued has an attempt left,
\* and only exhausted work is dead-lettered: manualRetryJob's one extra attempt
\* and the two ways of giving up agree on what exhausted means.
AttemptBudget ==
  \A j \in Jobs :
    /\ jobs[j].attempts <= jobs[j].maxAttempts
    /\ jobs[j].status = "QUEUED" => jobs[j].attempts < jobs[j].maxAttempts
    /\ jobs[j].status = "DEAD_LETTER" => jobs[j].attempts = jobs[j].maxAttempts

\* A stored output belongs to a succeeded job and was produced in the worker
\* that held the lease of the job's last attempt: an execution whose job was
\* recovered and claimed elsewhere never completes it.
OutputFromLeaseHolder ==
  \A j \in Jobs :
    /\ output[j] # 0 <=> jobs[j].status = "SUCCEEDED"
    /\ output[j] # 0 =>
         history[j][output[j]].worker = history[j][jobs[j].attempts].worker

\* Every entry of a worker's active map is an execution still running in that
\* process, so the promises stop() waits for can settle, even when an older
\* execution of the same job ends after the entry was overwritten.
ActiveEntriesLive ==
  \A w \in Workers, j \in Jobs :
    active[w][j] # 0 => /\ Live(j, active[w][j])
                        /\ WorkerOf(j, active[w][j]) = w

\* A handler runs only for an attempt that was started: its job_attempts row
\* has left CLAIMED, whatever became of the job since.
HandlerOnlyAfterStart ==
  \A j \in Jobs, a \in AttemptNumbers :
    Pc(j, a) \in TimerPcs => history[j][a].status \notin {"NONE", "CLAIMED"}

\* Without faults, a worker whose stop() returned holds no current lease of an
\* attempt it started: all such work was completed, failed, cancelled or
\* released.  (A claim can be left to expire: a late heartbeat of the previous
\* attempt may move the row's version and make startJob refuse the claim.)
DrainReleasesLeases ==
  \A w \in Workers, j \in Jobs :
    worker[w] = "stopped" /\ faults = 0 =>
      ~ /\ jobs[j].owner = w
        /\ jobs[j].lease = "current"
        /\ history[j][jobs[j].attempts].status = "RUNNING"

\* Closed job_attempts rows are history: no late call, of whichever attempt,
\* rewrites one; and an output once stored is never replaced.
HistoryIsAppendOnly ==
  [][ \A j \in Jobs :
        /\ output[j] # 0 => output'[j] = output[j]
        /\ \A a \in AttemptNumbers :
             history[j][a].status \notin {"NONE", "CLAIMED", "RUNNING"} =>
               history'[j][a] = history[j][a] ]_vars

\* Every status change is one the transition table allows, so no queue
\* transaction is rolled back by assertJobTransition halfway through.
TransitionsFollowTable ==
  [][ \A j \in Jobs :
        jobs'[j].status # jobs[j].status =>
          \/ jobs[j].status = "NONE" /\ jobs'[j].status = "QUEUED"
          \/ /\ jobs[j].status # "NONE"
             /\ canTransitionJob(jobs[j].status, jobs'[j].status) ]_vars

\* A terminal job row is left as it is by every late heartbeat, completion,
\* failure, release, recovery and cancellation; only a manual retry of failed
\* work reopens it.
TerminalRowsFrozen ==
  [][ \A j \in Jobs :
        isTerminalJobStatus(jobs[j].status) =>
          \/ jobs'[j] = jobs[j]
          \/ /\ jobs[j].status \in {"FAILED", "DEAD_LETTER"}
             /\ jobs'[j].status = "QUEUED" ]_vars

\* A requested cancellation is always brought to CANCELLED, by the worker or
\* by recovery of its lease.
CancellationCompletes ==
  \A j \in Jobs :
    jobs[j].status = "CANCELLATION_REQUESTED" ~> jobs[j].status = "CANCELLED"

\* No job stays leased forever, whatever its handler does.
LeasesEnd ==
  \A j \in Jobs :
    jobs[j].status \in LeasedStatuses ~> jobs[j].status \notin LeasedStatuses

\* stop() returns (or the process dies): the polls and the executions it waits
\* for all settle.
StopCompletes ==
  \A w \in Workers :
    worker[w] = "stopping" ~> worker[w] \in {"stopped", "down"}

Running(w) == {x \in Jobs \X AttemptNumbers : Live(x[1], x[2]) /\ WorkerOf(x[1], x[2]) = w}

\* Without faults, a worker runs at most WORKER_CONCURRENCY executions at once
\* and no more of a type than its cap, although capacity is computed before the
\* claim commits and executions end on their own.
FaultFreeConcurrency ==
  \A w \in Workers : faults = 0 =>
    /\ Cardinality(Running(w)) <= Concurrency
    /\ \A j \in Jobs :
         Cardinality({x \in Running(w) : JobType[x[1]] = JobType[j]})
           <= TypeLimit[JobType[j]]

-----------------------------------------------------------------------------
(* The queue implements the job lifecycle.                                 *)

\* Seen from its row alone, every job lives the lifecycle the documentation
\* draws: claims, retries, cancellation and dead-lettering by any interleaving
\* of workers, crashes and late calls are steps of JobLifecycle or stutter.
Lifecycle ==
  INSTANCE JobLifecycle WITH
    status      <- [j \in Jobs |-> jobs[j].status],
    attempts    <- [j \in Jobs |-> jobs[j].attempts],
    maxAttempts <- [j \in Jobs |-> jobs[j].maxAttempts]

ImplementsLifecycle == Lifecycle!Spec

\* The row of a job as a handler sees it: claimed counts as running, waiting for a
\* retry as queued, dead-lettered as failed.
HandlerStatus ==
  [ s \in JobStatuses \cup {"NONE"} |->
      CASE s = "CLAIMED" -> "RUNNING"
        [] s = "RETRY_WAIT" -> "QUEUED"
        [] s = "DEAD_LETTER" -> "FAILED"
        [] OTHER -> s ]

HandlerRow(row) ==
  [ status |-> HandlerStatus[row.status], attempts |-> row.attempts,
    max |-> IF row.status = "NONE" THEN 0 ELSE row.maxAttempts, input |-> 0 ]

\* The queue the job handlers are modelled with is this one: every transaction of every
\* worker, operator and late call, and every lease that runs out, is a step of
\* WorkerJobs or stutters.
HandlerView ==
  INSTANCE WorkerJobs WITH
    JobIds <- Jobs,
    jobs   <- [j \in Jobs |-> HandlerRow(jobs[j])]

ImplementsHandlerView == HandlerView!JobsSpec

\* Both abstractions at once.
ImplementsAbstractions == ImplementsLifecycle /\ ImplementsHandlerView

\* Every operation of the queue that moves a job is, for a handler, the operation of the
\* same name, or the end of the attempt it is called for: by the outcome execute
\* reports, by the lease or by a stop.
OperationsAgree ==
  [][ \A j \in Jobs :
        /\ \A w \in Workers :
             /\ claimJobs(w, j) => HandlerView!StartAttempt(j)
             /\ recoverExpiredJobs(w, j) => HandlerView!LeaseExpires(j)
        /\ \A a \in AttemptNumbers :
             /\ completeJob(j, a) => HandlerView!Settle(j, jobs[j].attempts, "returned")
             /\ failJob(j, a) => HandlerView!Settle(j, jobs[j].attempts, Pc(j, a))
             /\ acknowledgeJobCancellation(j, a) =>
                  \A outcome \in {"returned", "failFatal", "failRetryable"} :
                    HandlerView!Settle(j, jobs[j].attempts, outcome)
             /\ releaseJobLease(j, a) => HandlerView!releaseJobLease(j)
        /\ requestJobCancellation(j) => HandlerView!requestJobCancellation(j)
        /\ manualRetryJob(j) => HandlerView!manualRetryJob(j) ]_vars

-----------------------------------------------------------------------------
(* Statements of the documentation that the code does not keep.            *)

\* Work waiting for a retry has an attempt left to be claimed with.
RetryWaitHasAttempts ==
  \A j \in Jobs :
    jobs[j].status = "RETRY_WAIT" => jobs[j].attempts < jobs[j].maxAttempts

\* The result recorded for an attempt is the result of that attempt.
AttemptRecordsOwnResult ==
  \A j \in Jobs : output[j] # 0 => output[j] = jobs[j].attempts
=============================================================================
