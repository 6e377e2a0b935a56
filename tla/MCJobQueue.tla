----------------------------- MODULE MCJobQueue -----------------------------
(***************************************************************************)
(* Instances of JobQueue for TLC.                                          *)
(***************************************************************************)
EXTENDS JobQueue, TLC

CONSTANTS j1, j2, j3, w1, w2

\* Worker identities are interchangeable; jobs differ by type.
WorkerSymmetry == Permutations(Workers)

\* j1 is a document extraction, which an operator can retry; the others are
\* research stages.
TypeOf == [j \in Jobs |-> IF j = j1 THEN "DOCUMENT_EXTRACT" ELSE "RESEARCH_PIPELINE_STAGE"]

\* No cap of its own for any type (configuredJobTypeConcurrency's default).
Uncapped == [t \in {"DOCUMENT_EXTRACT", "RESEARCH_PIPELINE_STAGE"} |-> Concurrency]

\* One research stage at a time; extractions are not capped, so a worker can
\* claim an extraction again that it still runs.
OneStage == [Uncapped EXCEPT !["RESEARCH_PIPELINE_STAGE"] = 1]

\* Bound: either j1 alone, with faults, retries, cancellations and both workers
\* and one heartbeat in flight, or all jobs, the stages submitted in order, with
\* one worker, one attempt each and no heartbeat in flight.
Busy == {w \in Workers : worker[w] # "running" \/ poll[w] # "idle" \/ Running(w) # {}}
Heartbeats(j) == {a \in DOMAIN exec[j] : exec[j][a].hb # "none"}
OneAttempt(j) ==
  \/ jobs[j].status = "NONE"
  \/ jobs[j].status \in {"QUEUED", "CLAIMED", "RUNNING", "RETRY_WAIT"} /\ jobs[j].lease # "expired"
     /\ jobs[j].attempts <= 1 /\ (jobs[j].status = "QUEUED" => jobs[j].due)
     /\ (jobs[j].status = "RETRY_WAIT" => ~jobs[j].due)
  \/ jobs[j].status = "SUCCEEDED"
AloneOrFaultFree ==
  \/ /\ \A j \in Jobs \ {j1} : jobs[j].status = "NONE"
     /\ Cardinality(Heartbeats(j1)) <= 1
  \/ /\ faults = 0 /\ Cardinality(Busy) <= 1
     /\ \A j \in Jobs : OneAttempt(j) /\ Heartbeats(j) = {}
     /\ jobs[j3].status # "NONE" => jobs[j2].status # "NONE"
=============================================================================
