----------------------------- MODULE RunDomain -----------------------------
(***************************************************************************)
(* The vocabulary of lib/domain/research-runs.ts: the statuses of a        *)
(* research run and of a stage row, and the two transition tables the      *)
(* services assert.                                                        *)
(***************************************************************************)

RunStatuses ==
  { "CREATED", "WAITING_FOR_PLAN_APPROVAL", "QUEUED", "RUNNING", "PAUSED",
    "CANCELLING", "CANCELLED", "FAILED", "QA_REQUIRED", "APPROVAL_REQUIRED",
    "COMPLETED", "BLOCKED" }

StageStatuses ==
  { "PENDING", "QUEUED", "RUNNING", "SUCCEEDED", "FAILED", "CANCELLED",
    "BLOCKED", "STALE" }

\* The statuses a run may move to from each status.
runTransitions ==
  [ s \in RunStatuses |->
      CASE s = "CREATED" -> { "WAITING_FOR_PLAN_APPROVAL", "QUEUED", "CANCELLED" }
        [] s = "WAITING_FOR_PLAN_APPROVAL" -> { "QUEUED", "CANCELLED" }
        [] s = "QUEUED"  -> { "RUNNING", "PAUSED", "CANCELLING", "CANCELLED",
                              "FAILED", "BLOCKED" }
        [] s = "RUNNING" -> { "PAUSED", "CANCELLING", "CANCELLED", "FAILED",
                              "QA_REQUIRED", "APPROVAL_REQUIRED", "COMPLETED",
                              "BLOCKED" }
        [] s = "PAUSED"  -> { "QUEUED", "CANCELLING", "CANCELLED" }
        [] s = "CANCELLING" -> { "CANCELLED", "FAILED" }
        [] s = "QA_REQUIRED" -> { "QUEUED", "RUNNING", "APPROVAL_REQUIRED",
                                  "CANCELLING", "CANCELLED", "BLOCKED" }
        [] s = "APPROVAL_REQUIRED" -> { "QUEUED", "RUNNING", "COMPLETED",
                                        "CANCELLING", "CANCELLED", "BLOCKED" }
        [] s = "BLOCKED" -> { "QUEUED", "CANCELLING", "CANCELLED", "FAILED" }
        [] s \in { "CANCELLED", "FAILED", "COMPLETED" } -> { "QUEUED" } ]

\* The statuses a stage row may move to from each status.
stageTransitions ==
  [ s \in StageStatuses |->
      CASE s = "PENDING" -> { "QUEUED", "CANCELLED", "BLOCKED" }
        [] s = "QUEUED"  -> { "RUNNING", "FAILED", "CANCELLED", "BLOCKED" }
        [] s = "RUNNING" -> { "SUCCEEDED", "FAILED", "CANCELLED", "BLOCKED" }
        [] s = "SUCCEEDED" -> { "STALE" }
        [] s = "CANCELLED" -> { "QUEUED" }
        [] s \in { "FAILED", "BLOCKED", "STALE" } -> { "QUEUED", "CANCELLED" } ]

canTransitionResearchRun(from, to) == to \in runTransitions[from]

canTransitionRunStage(from, to) == to \in stageTransitions[from]
=============================================================================
