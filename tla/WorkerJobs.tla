----------------------------- MODULE WorkerJobs -----------------------------
(***************************************************************************)
(* The queue of lib/services/jobs.ts as a job handler sees it: JobQueue    *)
(* models the queue itself.  Claiming and starting are one step, QUEUED    *)
(* stands for RETRY_WAIT too, FAILED for DEAD_LETTER.  A timeout, a crash  *)
(* and an expired lease all end an attempt the same way, the stop of its   *)
(* worker nearly so: the job moves on while the handler of the old attempt *)
(* may still be running.  Attempts of one job run in different processes:  *)
(* that one of the same process may settle its successor's job is in       *)
(* JobQueue, which implements JobsSpec.                                    *)
(***************************************************************************)
EXTENDS Naturals

CONSTANTS
  JobIds,       \* the jobs that may be submitted
  MaxAttempts,  \* max_attempts of a job when it is submitted
  AttemptCap    \* bound: attempts of one job, manual retries included

ASSUME WorkerJobsAssumption ==
  /\ MaxAttempts \in Nat \ {0} /\ AttemptCap \in Nat
  /\ MaxAttempts <= AttemptCap

VARIABLE jobs   \* status, attempts, max_attempts and input of every job

AttemptNumbers == 1..AttemptCap
NoInput == 0
NoJob == [ status |-> "NONE", attempts |-> 0, max |-> 0, input |-> NoInput ]
JobQueueStatuses == { "NONE", "QUEUED", "RUNNING", "SUCCEEDED", "FAILED",
                      "CANCELLATION_REQUESTED", "CANCELLED" }

\* The jobs a deletion or another submission has to reckon with.
Active(j) == jobs[j].status \in {"QUEUED", "RUNNING", "CANCELLATION_REQUESTED"}

\* Variant: the fence forgets which attempt is asking.
FencedAnyAttempt(j, a) == jobs[j].status = "RUNNING"

\* The condition every fenced transaction of attempt a of job j checks.
Fenced(j, a) == jobs[j].status = "RUNNING" /\ jobs[j].attempts = a

QueuedJob(input) ==
  [ status |-> "QUEUED", attempts |-> 0, max |-> MaxAttempts, input |-> input ]

\* A worker claims job j and starts its next attempt.
StartAttempt(j) ==
  /\ jobs[j].status = "QUEUED" /\ jobs[j].attempts < jobs[j].max
  /\ jobs' = [jobs EXCEPT ![j].status = "RUNNING", ![j].attempts = @ + 1]

\* Where an attempt that may be retried leaves its job.
AttemptOver(j) == IF jobs[j].attempts = jobs[j].max THEN "FAILED" ELSE "QUEUED"

\* recoverExpiredJobs: the attempt's lease has run out.
LeaseExpires(j) ==
  \/ /\ jobs[j].status = "RUNNING"
     /\ jobs' = [jobs EXCEPT ![j].status = AttemptOver(j)]
  \/ /\ jobs[j].status = "CANCELLATION_REQUESTED"
     /\ jobs' = [jobs EXCEPT ![j].status = "CANCELLED"]

\* releaseJobLease of a worker that stops: the job waits again even if its attempts
\* are used up, and then nothing starts it.
releaseJobLease(j) ==
  \/ /\ jobs[j].status = "RUNNING"
     /\ jobs' = [jobs EXCEPT ![j].status = "QUEUED"]
  \/ /\ jobs[j].status = "CANCELLATION_REQUESTED"
     /\ jobs' = [jobs EXCEPT ![j].status = "CANCELLED"]

\* The handler of attempt a ends: a lost attempt changes nothing, a cancelled
\* one is acknowledged.
Settle(j, a, outcome) ==
  jobs' =
    IF jobs[j].attempts # a THEN jobs
    ELSE IF jobs[j].status = "CANCELLATION_REQUESTED"
    THEN [jobs EXCEPT ![j].status = "CANCELLED"]
    ELSE IF jobs[j].status # "RUNNING" THEN jobs
    ELSE [jobs EXCEPT ![j].status =
            CASE outcome = "returned" -> "SUCCEEDED"
              [] outcome = "failFatal" -> "FAILED"
              [] outcome = "failRetryable" -> AttemptOver(j)]

Cancelled(j) ==
  IF jobs[j].status = "QUEUED" THEN "CANCELLED" ELSE "CANCELLATION_REQUESTED"

requestJobCancellation(j) ==
  /\ jobs[j].status \in {"QUEUED", "RUNNING"}
  /\ jobs' = [jobs EXCEPT ![j].status = Cancelled(j)]

\* The operator grants failed work one more attempt.
manualRetryJob(j) ==
  /\ jobs[j].status = "FAILED" /\ jobs[j].attempts < AttemptCap
  /\ jobs' = [jobs EXCEPT ![j].status = "QUEUED", ![j].max = jobs[j].attempts + 1]

-----------------------------------------------------------------------------
\* What the queue may do to job j, whichever worker, operator or late call does it.
JobStep(j) ==
  \/ jobs[j].status = "NONE" /\ jobs' = [jobs EXCEPT ![j] = QueuedJob(NoInput)]
  \/ StartAttempt(j) \/ LeaseExpires(j) \/ releaseJobLease(j)
  \/ \E outcome \in {"returned", "failFatal", "failRetryable"} :
       Settle(j, jobs[j].attempts, outcome)
  \/ requestJobCancellation(j) \/ manualRetryJob(j)

JobsSpec == jobs = [j \in JobIds |-> NoJob] /\ [][\E j \in JobIds : JobStep(j)]_jobs
=============================================================================
