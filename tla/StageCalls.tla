----------------------------- MODULE StageCalls -----------------------------
(***************************************************************************)
(* The provider calls of one stage of a research run: the part of worker/  *)
(* research-pipeline-handler.ts between the start of the stage and its     *)
(* commit, which RunPipeline takes as one step, with the budget of         *)
(* lib/budgets/index.ts and the ledger of recordRunStageProviderAttempt    *)
(* (lib/services/run-stages.ts).                                           *)
(*                                                                         *)
(* Of the budget two resources are kept, requests and tokens, and the cost *)
(* as known or unknown.  All other stages of the run are at rest.          *)
(***************************************************************************)
EXTENDS ProviderAccess, RunDomain

CONSTANTS
  ResponseIds,           \* response ids the provider may give out, or repeat
  MaxProviderRequests, MaxTokens,  \* the run's frozen budget
  Priced                 \* the model has an entry in MODEL_PRICING_JSON

ASSUME StageCallsAssumption ==
  /\ IsFiniteSet(JobIds)
  /\ NoResponse \notin ResponseIds /\ Priced \in BOOLEAN
  /\ MaxProviderRequests \in Nat /\ MaxTokens \in Nat

VARIABLES
  run,      \* research_runs: status and the totals of its provider calls
  stage,    \* the stage's row: status, output and the execution recorded last
  costs     \* history: the cost statuses of the calls recorded so far

vars == <<jobs, permits, window, executions, handler, faults, run, stage, costs>>
access == <<permits, window, executions>>
domain == <<run, stage, costs>>

NoOwner == <<>>

\* The first job waits; the others are submitted by resumes.
Init ==
  /\ AccessInit
  /\ \E first \in JobIds :
       jobs = [j \in JobIds |-> IF j = first THEN QueuedJob(NoInput) ELSE NoJob]
  /\ run = [status |-> "QUEUED", requests |-> 0, tokens |-> 0, cost |-> "KNOWN"]
  /\ stage = [status |-> "QUEUED", output |-> NoResponse, last |-> NoOwner]
  /\ costs = {}

-----------------------------------------------------------------------------
(* lib/budgets/index.ts.                                                   *)

\* What the provider says of a call: tokens and cost are known together.
Usages == {"some", "unreported"}
Tokens(usage) == IF usage = "some" THEN 1 ELSE 0

\* estimateProviderCost: no price or no reported usage, no known cost.
estimateProviderCost(usage) ==
  IF Priced /\ usage # "unreported" THEN "KNOWN" ELSE "UNKNOWN"

\* One more request, with its tokens, after the usage before.
checkRunBudget(before, tokens, cost) ==
  /\ before.requests + 1 <= MaxProviderRequests
  /\ before.tokens + tokens <= MaxTokens
  /\ cost # "UNKNOWN"

-----------------------------------------------------------------------------
(* The stage row and the run.                                              *)

\* reconcileLinkedJobFailure and reconcileLinkedJobCancellation for the only
\* job of the run that is not over.
Reconciled(j) ==
  LET status == jobs'[j].status IN
  IF status = jobs[j].status THEN UNCHANGED <<run, stage>>
  ELSE IF status = "FAILED" /\ stage.status \in {"QUEUED", "RUNNING"}
  THEN /\ stage' = [stage EXCEPT !.status = "FAILED"]
       /\ run' = [run EXCEPT !.status =
                    IF canTransitionResearchRun(@, "FAILED") THEN "FAILED" ELSE @]
  ELSE IF status = "CANCELLATION_REQUESTED"
          /\ canTransitionResearchRun(run.status, "CANCELLING")
  THEN run' = [run EXCEPT !.status = "CANCELLING"] /\ UNCHANGED stage
  ELSE IF status = "CANCELLED" /\ run.status \notin {"COMPLETED", "FAILED", "CANCELLED"}
  THEN /\ run' = [run EXCEPT !.status = "CANCELLED"]
       /\ stage' = [stage EXCEPT !.status =
                      IF @ \in {"PENDING", "QUEUED", "RUNNING"} THEN "CANCELLED" ELSE @]
  ELSE UNCHANGED <<run, stage>>

JobInterrupted(j) ==
  /\ LeaseExpires(j) \/ releaseJobLease(j) \/ requestJobCancellation(j)
  /\ Reconciled(j)
  /\ UNCHANGED <<access, handler, costs>>

SettleHandler(o) ==
  /\ Pc(o) \in Outcomes
  /\ Settle(o[1], o[2], Pc(o))
  /\ Reconciled(o[1])
  /\ EndHandler(o)
  /\ UNCHANGED <<access, costs>>

\* The operator resumes the run: the row is queued again with the output it has.
resumeResearchRun(j) ==
  /\ run.status \in {"CANCELLED", "FAILED", "BLOCKED"} /\ jobs[j].status = "NONE"
  /\ canTransitionRunStage(stage.status, "QUEUED")
  /\ jobs' = [jobs EXCEPT ![j] = QueuedJob(NoInput)]
  /\ run' = [run EXCEPT !.status = "QUEUED"]
  /\ stage' = [stage EXCEPT !.status = "QUEUED"]
  /\ UNCHANGED <<access, handler, costs>>

-----------------------------------------------------------------------------
(* The handler.                                                            *)

\* What a handler carries: the usage it read and the answer it got.
NoAnswer == [ kind |-> "none", usage |-> "none", response |-> NoResponse ]
Carry(before, answer) == [ before |-> before, answer |-> answer ]

StartCall(j) == StartHandler(j, "start") /\ UNCHANGED domain

startRunStage(o) ==
  /\ Pc(o) = "start"
  /\ IF /\ FencedOwner(o) /\ run.status \in {"QUEUED", "RUNNING"}
        /\ stage.status = "RUNNING" \/ canTransitionRunStage(stage.status, "RUNNING")
     THEN /\ stage' = [stage EXCEPT !.status = "RUNNING"]
          /\ run' = [run EXCEPT !.status = "RUNNING"]
          /\ Goto(o, "reload")
     ELSE Ends(o, "failRetryable") /\ UNCHANGED <<run, stage>>
  /\ UNCHANGED <<jobs, access, costs>>

\* Variant: the output an earlier attempt stored is not looked at.
StoredOutputIgnored == FALSE

StoredOutput == stage.output # NoResponse

\* The bundle is read again: stored output is committed without a call; the
\* budget must allow one more request of this model.
Preflight(o) ==
  /\ Pc(o) = "reload"
  /\ IF StoredOutput THEN Goto(o, "commit")
     ELSE IF ~checkRunBudget(run, 0, estimateProviderCost("none")) THEN Goto(o, "block")
     ELSE GotoWith(o, "permit", Carry([requests |-> run.requests, tokens |-> run.tokens], NoAnswer))
  /\ UNCHANGED <<jobs, access, domain>>

AcquirePermit(o) == acquireProviderPermit(o, "fence") /\ UNCHANGED <<jobs, domain>>
ReleasePermit(o) == releaseProviderPermit(o) /\ UNCHANGED <<jobs, domain>>

\* assertRunStageJobFence and the start of the execution are two transactions.
AssertFence(o) ==
  /\ Pc(o) = "fence"
  /\ IF FencedOwner(o) THEN Goto(o, "execute") ELSE Leave(o, "release", "failRetryable")
  /\ UNCHANGED <<jobs, access, domain>>
StartExecution(o) ==
  /\ Pc(o) = "execute"
  /\ startProviderExecution(o)
  /\ Goto(o, "call")
  /\ UNCHANGED <<jobs, permits, window, domain>>

Answered(o, pc, outcome, answer) ==
  handler' = [handler EXCEPT ![o] = [pc |-> pc, outcome |-> outcome,
                                     data |-> Carry(@.data.before, answer)]]

\* The provider's answer: output, output that does not validate, or a failure
\* it reports.  The permit goes back before anything is stored.
CallReturns(o) ==
  /\ Pc(o) = "call"
  /\ \E kind \in {"output", "invalid", "failed"}, usage \in Usages, response \in ResponseIds :
       Answered(o, "release", "finish", [kind |-> kind, usage |-> usage, response |-> response])
  /\ UNCHANGED <<jobs, access, domain>>

\* The call throws or is aborted: the permit goes back last.
CallThrows(o) ==
  /\ Pc(o) = "call"
  /\ Answered(o, "finish", "none", [kind |-> "thrown", usage |-> "unreported", response |-> NoResponse])
  /\ UNCHANGED <<jobs, access, domain>>

StatusOf(kind) ==
  CASE kind = "output" -> "SUCCEEDED" [] kind = "invalid" -> "REJECTED"
    [] kind \in {"failed", "thrown"} -> "FAILED"

\* A duplicate of a stored response is recorded as a failure.
FinishExecution(o) ==
  /\ Pc(o) = "finish"
  /\ LET before == handler[o].data.before  answer == handler[o].data.answer IN
     /\ finishProviderExecution(o, StatusOf(answer.kind), answer.response)
     /\ Answered(o, "record", "none",
          [answer EXCEPT !.kind = IF @ = "output" /\ DuplicateResponse(o, answer.response)
                                  THEN "duplicate" ELSE @])
  /\ UNCHANGED <<jobs, permits, window, domain>>

\* Variant: the cost status of the latest call is the run's.
CostOfLatest(cost) == cost

\* One unknown cost makes the run's unknown; the first call decides alone.
CostStatus(cost) ==
  IF run.requests = 0 THEN cost
  ELSE IF "UNKNOWN" \in {run.cost, cost} THEN "UNKNOWN" ELSE "KNOWN"

\* Where the handler goes with a recorded answer: postflight uses the usage
\* read before the call.
AfterRecord(o) ==
  LET before == handler[o].data.before  answer == handler[o].data.answer IN
  CASE answer.kind = "output" ->
         Goto(o, IF checkRunBudget(before, Tokens(answer.usage),
                                   estimateProviderCost(answer.usage))
                 THEN "commit" ELSE "block")
    [] answer.kind \in {"invalid", "duplicate"} -> Ends(o, "failFatal")
    [] answer.kind = "failed" -> \/ Ends(o, "failRetryable") \/ Ends(o, "failFatal")
                                 \/ Goto(o, "block")
    [] answer.kind = "thrown" -> \E end \in {"failRetryable", "failFatal"} :
                                   Leave(o, "release", end)

recordRunStageProviderAttempt(o) ==
  /\ Pc(o) = "record" /\ FencedOwner(o) /\ stage.status = "RUNNING"
  /\ LET answer == handler[o].data.answer
         cost == IF answer.kind = "thrown" THEN "UNKNOWN" ELSE estimateProviderCost(answer.usage)
     IN /\ IF stage.last = o THEN UNCHANGED domain
           ELSE /\ run' = [run EXCEPT !.requests = @ + 1, !.tokens = @ + Tokens(answer.usage),
                                      !.cost = CostStatus(cost)]
                /\ stage' = [stage EXCEPT !.last = o,
                               !.output = IF answer.kind = "output" THEN answer.response ELSE @]
                /\ costs' = costs \cup {cost}
        /\ AfterRecord(o)
  /\ UNCHANGED <<jobs, access>>

\* The attempt was lost or its stage is no longer running: the answer is gone.
RecordRefused(o) ==
  /\ Pc(o) = "record" /\ ~(FencedOwner(o) /\ stage.status = "RUNNING")
  /\ Leave(o, "release", "failRetryable")
  /\ UNCHANGED <<jobs, access, domain>>

blockRunStage(o) ==
  /\ Pc(o) = "block"
  /\ IF /\ FencedOwner(o)
        /\ stage.status = "BLOCKED" \/ canTransitionRunStage(stage.status, "BLOCKED")
        /\ run.status = "BLOCKED" \/ canTransitionResearchRun(run.status, "BLOCKED")
     THEN /\ stage' = [stage EXCEPT !.status = "BLOCKED"]
          /\ run' = [run EXCEPT !.status = "BLOCKED"]
          /\ Ends(o, "failFatal")
     ELSE Ends(o, "failRetryable") /\ UNCHANGED <<run, stage>>
  /\ UNCHANGED <<jobs, access, costs>>

\* commitRunStage with the stored output, and the advance to the next stage.
commitRunStage(o) ==
  /\ Pc(o) = "commit"
  /\ IF FencedOwner(o) /\ stage.status = "RUNNING" /\ run.status = "RUNNING"
     THEN stage' = [stage EXCEPT !.status = "SUCCEEDED"] /\ Ends(o, "returned")
     ELSE Ends(o, "failRetryable") /\ UNCHANGED stage
  /\ UNCHANGED <<jobs, access, run, costs>>

-----------------------------------------------------------------------------
Step ==
  \/ \E j \in JobIds : StartCall(j) \/ resumeResearchRun(j)
  \/ \E o \in Owners :
       \/ startRunStage(o) \/ Preflight(o) \/ AcquirePermit(o) \/ AssertFence(o)
       \/ StartExecution(o) \/ CallReturns(o) \/ FinishExecution(o)
       \/ recordRunStageProviderAttempt(o) \/ RecordRefused(o) \/ ReleasePermit(o)
       \/ blockRunStage(o) \/ commitRunStage(o) \/ SettleHandler(o)

Fault ==
  \/ \E j \in JobIds : JobInterrupted(j)
  \/ \E o \in Owners : \/ CallThrows(o)
                       \/ PermitExpires(o) /\ UNCHANGED domain
                       \/ CrashHandler(o) /\ UNCHANGED domain
  \/ WindowExpires /\ UNCHANGED domain

Next ==
  \/ Step /\ UNCHANGED faults
  \/ Fault /\ faults < MaxFaults /\ faults' = faults + 1

Spec == Init /\ [][Next]_vars

-----------------------------------------------------------------------------
(* Properties.                                                             *)

\* The ledger of the run counts its cost as known only if the cost of every
\* recorded call is, and exceeds the frozen budget by at most one call of every
\* other job of the stage, although the usage is read long before it is written
\* (checkRunBudget, recordRunStageProviderAttempt).
UsageLedger ==
  /\ "UNKNOWN" \in costs => run.cost = "UNKNOWN"
  /\ run.requests < MaxProviderRequests + Cardinality(JobIds)
  /\ run.tokens <= MaxTokens + Cardinality(JobIds)

\* A response of the provider is used once: no two executions hold the same
\* response id, and the output of the stage is the response of an execution
\* that succeeded (finishProviderExecution).
ResponseUsedOnce ==
  /\ \A o, p \in Owners :
       o # p /\ executions[o].response # NoResponse =>
         executions[o].response # executions[p].response
  /\ stage.output # NoResponse =>
       \E o \in Owners : executions[o] = [status |-> "SUCCEEDED", response |-> stage.output]

\* The output of a stage is paid for once: when it is stored, neither a late
\* answer of a lost attempt nor a retry or a resume replaces it, and no call is
\* recorded after it, unless a resume added a second job while the first was
\* still to be retried (recordRunStageProviderAttempt, reuseOrCommitOutput).
OutputKept ==
  [][ stage.output # NoResponse /\ Cardinality({j \in JobIds : Active(j)}) <= 1 =>
        stage'.output = stage.output /\ run'.requests = run.requests ]_vars

\* "Before each call, current usage plus the requested increment is checked. A
\* violation blocks the stage/run" (docs/PROVIDERS_EVALUATION.md): a run never
\* uses more requests than its budget.  A job whose attempt was lost after it
\* blocked the run and the job of the resume that follows check the same usage.
RequestsWithinBudget == run.requests <= MaxProviderRequests
=============================================================================
