--------------------------- MODULE MCRunPipeline ---------------------------
(***************************************************************************)
(* Instances of RunPipeline for TLC.  PipelineView drops the part of a     *)
(* state that no later step and no property reads, so that states which    *)
(* differ in it only are explored once.                                    *)
(***************************************************************************)
EXTENDS RunPipeline, FiniteSets

\* A job in one of these states is never running again: every call of its
\* handlers is refused, and what they would do next is immaterial.
Over(i) ==
  \/ isTerminalJobStatus(jobs[i].status)
  \/ jobs[i].status = "CANCELLATION_REQUESTED"
  \/ jobs[i].status = "RETRY_WAIT" /\ jobs[i].attempts = MaxAttempts

\* Of a job that ended otherwise than by a cancellation only its idempotency
\* key, with what it stands for, is looked at again.
JobView(i) ==
  IF jobs[i].status \notin {"SUCCEEDED", "FAILED", "DEAD_LETTER"} THEN jobs[i]
  ELSE IF jobs[i].key = 0 THEN NoJob
  ELSE [jobs[i] EXCEPT !.status = "SUCCEEDED", !.attempts = 0]

PipelineView ==
  <<run, rows, latest, [i \in JobIds |-> JobView(i)],
    {i \in JobIds : jobs[i].status = "NONE"},
    [i \in JobIds |-> IF Over(i) THEN <<>> ELSE handler[i]]>>

\* Bound: many jobs of an orchestrated run with one attempt each, or two jobs
\* in any mode with all attempts.
FewJobsOrAttempts ==
  \/ Cardinality({i \in JobIds : jobs[i].status # "NONE"}) <= 2
  \/ run.mode = "ORCHESTRATED" /\ \A i \in JobIds : jobs[i].attempts <= 1
=============================================================================
