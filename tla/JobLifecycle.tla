---------------------------- MODULE JobLifecycle ----------------------------
(***************************************************************************)
(* What the queue promises about one job: the status diagram of            *)
(* docs/OPERATIONS.md with the attempt accounting of lib/domain/jobs.ts,   *)
(* without workers, leases or executions.                                  *)
(***************************************************************************)
EXTENDS JobDomain

CONSTANTS Jobs, MaxAttempts

VARIABLES status, attempts, maxAttempts

lifecycleVars == <<status, attempts, maxAttempts>>

Init ==
  /\ status = [j \in Jobs |-> "NONE"]
  /\ attempts = [j \in Jobs |-> 0]
  /\ maxAttempts = [j \in Jobs |-> MaxAttempts]

\* Job j moves to status s and keeps its attempts.
Move(j, s) ==
  /\ status' = [status EXCEPT ![j] = s]
  /\ UNCHANGED <<attempts, maxAttempts>>

Submit(j) == status[j] = "NONE" /\ Move(j, "QUEUED")

\* An attempt begins: only work with an attempt left is claimed.
Claim(j) ==
  /\ status[j] \in WaitingStatuses
  /\ attempts[j] < maxAttempts[j]
  /\ status' = [status EXCEPT ![j] = "CLAIMED"]
  /\ attempts' = [attempts EXCEPT ![j] = @ + 1]
  /\ UNCHANGED maxAttempts

Start(j) == status[j] = "CLAIMED" /\ Move(j, "RUNNING")

Succeed(j) == status[j] = "RUNNING" /\ Move(j, "SUCCEEDED")

\* An attempt ends without a result.
EndAttempt(j) ==
  /\ status[j] \in {"CLAIMED", "RUNNING"}
  /\ \/ Move(j, "RETRY_WAIT")
     \/ Move(j, "FAILED")
     \/ attempts[j] = maxAttempts[j] /\ Move(j, "DEAD_LETTER")

\* A cancellation requested while an attempt runs can only end in CANCELLED.
Cancel(j) ==
  \/ status[j] \in WaitingStatuses \cup {"CANCELLATION_REQUESTED"} /\ Move(j, "CANCELLED")
  \/ status[j] \in {"CLAIMED", "RUNNING"} /\ Move(j, "CANCELLATION_REQUESTED")

\* The operator grants failed work exactly one more attempt.
Retry(j) ==
  /\ status[j] \in {"FAILED", "DEAD_LETTER"}
  /\ status' = [status EXCEPT ![j] = "QUEUED"]
  /\ maxAttempts' = [maxAttempts EXCEPT ![j] = attempts[j] + 1]
  /\ UNCHANGED attempts

Next ==
  \E j \in Jobs :
    \/ Submit(j) \/ Claim(j) \/ Start(j) \/ Succeed(j)
    \/ EndAttempt(j) \/ Cancel(j) \/ Retry(j)

Spec == Init /\ [][Next]_lifecycleVars
=============================================================================
