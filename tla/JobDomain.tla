----------------------------- MODULE JobDomain -----------------------------
(***************************************************************************)
(* The job vocabulary of lib/domain/jobs.ts: the statuses of a row of the  *)
(* jobs table, the transition table the services assert, and the status a  *)
(* failed attempt gives its job.                                           *)
(***************************************************************************)
EXTENDS Naturals

JobStatuses ==
  { "QUEUED", "CLAIMED", "RUNNING", "RETRY_WAIT", "CANCELLATION_REQUESTED",
    "CANCELLED", "SUCCEEDED", "FAILED", "DEAD_LETTER" }

\* Rows claimJobs may pick up.
WaitingStatuses == { "QUEUED", "RETRY_WAIT" }

\* Rows a worker holds a lease on; the set recoverExpiredJobs scans.
LeasedStatuses == { "CLAIMED", "RUNNING", "CANCELLATION_REQUESTED" }

TerminalStatuses == { "CANCELLED", "SUCCEEDED", "FAILED", "DEAD_LETTER" }

isTerminalJobStatus(status) == status \in TerminalStatuses

\* The statuses a job may move to from each status.
transitions ==
  [ s \in JobStatuses |->
      CASE s = "QUEUED"     -> { "CLAIMED", "CANCELLED" }
        [] s = "CLAIMED"    -> { "RUNNING", "RETRY_WAIT", "CANCELLATION_REQUESTED",
                                 "CANCELLED", "FAILED", "DEAD_LETTER" }
        [] s = "RUNNING"    -> { "SUCCEEDED", "RETRY_WAIT", "CANCELLATION_REQUESTED",
                                 "CANCELLED", "FAILED", "DEAD_LETTER" }
        [] s = "RETRY_WAIT" -> { "CLAIMED", "QUEUED", "CANCELLED" }
        [] s = "CANCELLATION_REQUESTED"      -> { "CANCELLED" }
        [] s \in { "CANCELLED", "SUCCEEDED" } -> {}
        [] s \in { "FAILED", "DEAD_LETTER" }  -> { "QUEUED" } ]

canTransitionJob(from, to) == to \in transitions[from]

\* Variant: the last attempt is given up one early.
failureOneEarly(retryable, attempts, maxAttempts) ==
  IF ~retryable THEN "FAILED"
  ELSE IF attempts + 1 < maxAttempts THEN "RETRY_WAIT" ELSE "DEAD_LETTER"

\* The status of a job whose attempt failed with a retryable error or not.
failureJobStatus(retryable, attempts, maxAttempts) ==
  IF ~retryable THEN "FAILED"
  ELSE IF attempts < maxAttempts THEN "RETRY_WAIT" ELSE "DEAD_LETTER"
=============================================================================
