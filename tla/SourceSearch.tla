---------------------------- MODULE SourceSearch ----------------------------
(***************************************************************************)
(* SOURCE_SEARCH jobs of one project: their submission and transactions    *)
(* (lib/services/source-search-jobs.ts) and their handler (worker/         *)
(* source-search-handler.ts), beside the research run whose budget they    *)
(* use and the operator who adds sources by hand.                          *)
(*                                                                         *)
(* All searches ask one provider for at most Count results.  The run's own *)
(* pipeline, which RunPipeline models, shows only as changes of the run's  *)
(* status.                                                                 *)
(***************************************************************************)
EXTENDS ProviderAccess, RunDomain

CONSTANTS
  SourceIds,          \* sources the provider knows (deterministicSourceId)
  Count,              \* request.count
  MaxSearchRequests, MaxSources,   \* the run's frozen budget
  ManualCap           \* bound: sources the operator adds

ASSUME SourceSearchAssumption ==
  /\ IsFiniteSet(SourceIds) /\ NoResponse \notin SourceIds /\ Count \in Nat \ {0}
  /\ MaxSearchRequests \in Nat /\ MaxSources \in Nat /\ ManualCap \in Nat

VARIABLES
  run,         \* research_runs: status and total_search_requests
  found,       \* sources of the project registered by searches
  manual,      \* number of sources the operator added
  checkpoint,  \* output_reference of a job: its results, or NoCheckpoint
  reviewed     \* the project's review is current: QA, approval, exports

vars == <<jobs, permits, window, executions, handler, faults,
          run, found, manual, checkpoint, reviewed>>
domain == <<run, found, manual, checkpoint, reviewed>>
access == <<permits, window, executions>>

NoCheckpoint == {NoResponse}
Stopped == {"CANCELLING", "CANCELLED", "FAILED", "COMPLETED"}

Init ==
  /\ AccessInit
  /\ jobs = [j \in JobIds |-> NoJob]
  /\ run = [status |-> "RUNNING", searches |-> 0]
  /\ found = {} /\ manual = 0 /\ reviewed = TRUE
  /\ checkpoint = [j \in JobIds |-> NoCheckpoint]

sourceCount == Cardinality(found) + manual

-----------------------------------------------------------------------------
(* Submission and the run.                                                 *)

\* The input of a job says whether it names the run.
ForRun == 1
OfRun(j) == jobs[j].input = ForRun
RunJobs == {j \in JobIds : OfRun(j)}

\* A key used before answers with its job and changes nothing.
submitSourceSearchJob(j) ==
  /\ jobs[j].status = "NONE"
  /\ \E input \in {NoInput, ForRun} :
       /\ input = ForRun => run.status \notin Stopped
       /\ jobs' = [jobs EXCEPT ![j] = QueuedJob(input)]
  /\ UNCHANGED <<access, handler, domain>>

\* reconcileLinkedJobCancellation: a job of the run that is cancelled takes the
\* run with it; js are the jobs afterwards.
reconcileRun(j, js) ==
  LET status == IF canTransitionResearchRun(run.status, "CANCELLING")
                THEN "CANCELLING" ELSE run.status
      idle == \A k \in RunJobs : js[k].status \notin {"RUNNING", "CANCELLATION_REQUESTED"}
  IN IF ~OfRun(j) \/ run.status \in {"COMPLETED", "FAILED", "CANCELLED"} THEN run
     ELSE [run EXCEPT !.status =
             IF js[j].status = "CANCELLED" /\ idle /\ status = "CANCELLING"
             THEN "CANCELLED" ELSE status]

\* The run after a step of the queue that may have cancelled job j.
RunFollows(j) ==
  run' = IF jobs'[j].status \in {"CANCELLATION_REQUESTED", "CANCELLED"}
            /\ jobs'[j].status # jobs[j].status
         THEN reconcileRun(j, jobs') ELSE run

JobInterrupted(j) ==
  /\ LeaseExpires(j) \/ releaseJobLease(j) \/ requestJobCancellation(j) \/ manualRetryJob(j)
  /\ RunFollows(j)
  /\ UNCHANGED <<access, handler, found, manual, checkpoint, reviewed>>

\* The pipeline, its operator or an approval moves the run.
RunMoves ==
  /\ \E to \in RunStatuses \ {"CANCELLING", "CANCELLED"} :
       canTransitionResearchRun(run.status, to) /\ run' = [run EXCEPT !.status = to]
  /\ UNCHANGED <<jobs, access, handler, found, manual, checkpoint, reviewed>>

\* requestResearchRunCancellation.
CancelRun ==
  /\ run.status \notin Stopped
  /\ jobs' = [j \in JobIds |-> IF OfRun(j) /\ jobs[j].status \in {"QUEUED", "RUNNING"}
                               THEN [jobs[j] EXCEPT !.status = Cancelled(j)] ELSE jobs[j]]
  /\ run' = [run EXCEPT !.status =
               IF \E j \in RunJobs : jobs'[j].status = "CANCELLATION_REQUESTED"
               THEN "CANCELLING" ELSE "CANCELLED"]
  /\ canTransitionResearchRun(run.status, run'.status)
  /\ UNCHANGED <<access, handler, found, manual, checkpoint, reviewed>>

\* addSources: no budget applies to what the operator adds.
addSource ==
  /\ manual < ManualCap
  /\ manual' = manual + 1 /\ reviewed' = FALSE
  /\ UNCHANGED <<jobs, access, handler, run, found, checkpoint>>

\* The project passes QA and is approved (lib/services/approval.ts).
Review ==
  /\ ~reviewed /\ reviewed' = TRUE
  /\ UNCHANGED <<jobs, access, handler, run, found, manual, checkpoint>>

-----------------------------------------------------------------------------
(* The handler.                                                            *)

\* The job row as claimed says whether an earlier attempt committed.
StartSearch(j) ==
  /\ StartHandler(j, IF checkpoint[j] = NoCheckpoint THEN "permit" ELSE "reuse")
  /\ UNCHANGED domain

CheckpointValid(j) ==
  /\ checkpoint[j] \subseteq found
  /\ \E a \in AttemptNumbers : executions[<<j, a>>].status = "SUCCEEDED"

reuseCommittedSourceSearchResults(o) ==
  /\ Pc(o) = "reuse"
  /\ Ends(o, IF ~FencedOwner(o) THEN "failRetryable"
             ELSE IF CheckpointValid(o[1]) THEN "returned" ELSE "failFatal")
  /\ UNCHANGED <<jobs, access, domain>>

AcquirePermit(o) == acquireProviderPermit(o, "reserve") /\ UNCHANGED <<jobs, domain>>
ReleasePermit(o) == releaseProviderPermit(o) /\ UNCHANGED <<jobs, domain>>

\* lockSearchRun: the outcome of a run that is not searchable.
Searchable(o) == OfRun(o[1]) => run.status \notin Stopped

blockRunForSearchBudget ==
  run' = [run EXCEPT !.status =
            IF canTransitionResearchRun(run.status, "BLOCKED") THEN "BLOCKED" ELSE @]

OverReservation(o) ==
  OfRun(o[1]) /\ (run.searches + 1 > MaxSearchRequests \/ sourceCount + Count > MaxSources)

\* Variant: a retry is not counted against the run.
SearchesCountedOnce(o) == run.searches + (IF o[2] = 1 THEN 1 ELSE 0)

SearchesCounted(o) == run.searches + 1

reserveSourceSearchAttempt(o) ==
  /\ Pc(o) = "reserve"
  /\ IF ~FencedOwner(o) \/ ~Searchable(o)
     THEN /\ Leave(o, "release", IF FencedOwner(o) THEN "failFatal" ELSE "failRetryable")
          /\ UNCHANGED <<run, executions>>
     ELSE IF OverReservation(o)
     THEN blockRunForSearchBudget /\ Leave(o, "release", "failFatal") /\ UNCHANGED executions
     ELSE /\ startProviderExecution(o)
          /\ run' = IF OfRun(o[1]) THEN [run EXCEPT !.searches = SearchesCounted(o)] ELSE run
          /\ Goto(o, "call")
  /\ UNCHANGED <<jobs, permits, window, found, manual, checkpoint, reviewed>>

\* The provider answers with at most Count results, which are deduplicated.
SearchReturns(o) ==
  /\ Pc(o) = "call"
  /\ \E hits \in SUBSET SourceIds :
       Cardinality(hits) <= Count /\ GotoWith(o, "commit", hits)
  /\ UNCHANGED <<jobs, access, domain>>

\* The provider fails, its answer is refused, or the attempt is aborted: the
\* execution is closed first.
SearchFails(o) ==
  /\ Pc(o) \in {"call", "commit"}
  /\ \E outcome \in {"failRetryable", "failFatal"} : Leave(o, "finish", outcome)
  /\ UNCHANGED <<jobs, access, domain>>

\* Variant: the sources already there are not counted again at the commit.
OverBudgetAtReservation(o, hits) == OfRun(o[1]) /\ Cardinality(hits) > MaxSources

OverBudget(o, hits) == OfRun(o[1]) /\ sourceCount + Cardinality(hits \ found) > MaxSources

commitSourceSearchResults(o) ==
  /\ Pc(o) = "commit"
  /\ LET hits == handler[o].data IN
     IF ~FencedOwner(o) \/ ~Searchable(o)
     THEN /\ Leave(o, "finish", IF FencedOwner(o) THEN "failFatal" ELSE "failRetryable")
          /\ UNCHANGED <<executions, domain>>
     ELSE IF OverBudget(o, hits)
     THEN /\ blockRunForSearchBudget /\ Leave(o, "finish", "failFatal")
          /\ UNCHANGED <<executions, found, manual, checkpoint, reviewed>>
     ELSE /\ finishProviderExecution(o, "SUCCEEDED", NoResponse)
          /\ found' = found \cup hits
          /\ reviewed' = (reviewed /\ hits \subseteq found)
          /\ checkpoint' = [checkpoint EXCEPT ![o[1]] = hits]
          /\ Leave(o, "release", "returned")
          /\ UNCHANGED <<run, manual>>
  /\ UNCHANGED <<jobs, permits, window>>

\* providerExecutionStatus: REJECTED for what cannot be retried.
FinishFailed(o) ==
  /\ Pc(o) = "finish"
  /\ finishProviderExecution(o,
       IF handler[o].outcome = "failFatal" THEN "REJECTED" ELSE "FAILED", NoResponse)
  /\ Goto(o, "release")
  /\ UNCHANGED <<jobs, permits, window, domain>>

\* ... whose own failure is swallowed.
FinishSwallowed(o) ==
  /\ Pc(o) = "finish"
  /\ Goto(o, "release")
  /\ UNCHANGED <<jobs, access, domain>>

SettleHandler(o) ==
  /\ Pc(o) \in Outcomes
  /\ Settle(o[1], o[2], Pc(o))
  /\ RunFollows(o[1])
  /\ EndHandler(o)
  /\ UNCHANGED <<access, found, manual, checkpoint, reviewed>>

-----------------------------------------------------------------------------
Step ==
  \/ \E j \in JobIds : submitSourceSearchJob(j) \/ StartSearch(j)
  \/ \E o \in Owners :
       \/ reuseCommittedSourceSearchResults(o) \/ AcquirePermit(o)
       \/ reserveSourceSearchAttempt(o) \/ SearchReturns(o)
       \/ commitSourceSearchResults(o) \/ FinishFailed(o) \/ ReleasePermit(o)
       \/ SettleHandler(o)
  \/ addSource

Fault ==
  \/ \E j \in JobIds : JobInterrupted(j)
  \/ \E o \in Owners : \/ SearchFails(o) \/ FinishSwallowed(o)
                       \/ PermitExpires(o) /\ UNCHANGED domain
                       \/ CrashHandler(o) /\ UNCHANGED domain
  \/ WindowExpires /\ UNCHANGED domain
  \/ RunMoves \/ CancelRun \/ Review

Next ==
  \/ Step /\ UNCHANGED faults
  \/ Fault /\ faults < MaxFaults /\ faults' = faults + 1

Spec == Init /\ [][Next]_vars

-----------------------------------------------------------------------------
(* Properties.                                                             *)

\* The run's counter of searches is the number of searches ever started for it,
\* retries, lost attempts and crashes included, and never exceeds the frozen
\* budget (reserveSourceSearchAttempt counts in the transaction that starts the
\* execution).
SearchesWithinBudget ==
  /\ run.searches =
       Cardinality({o \in Owners : OfRun(o[1]) /\ executions[o].status # "NONE"})
  /\ run.searches <= MaxSearchRequests

\* A search changes the project only as the current attempt of its job, only
\* for a run that still goes on, and leaves the project within the budget of
\* sources although other searches and the operator added some since it was
\* reserved; new sources void the review (commitSourceSearchResults).
SearchCommitsSafely ==
  [][ found' # found =>
        \E o \in Owners :
          /\ Pc(o) = "commit" /\ FencedOwner(o) /\ ~reviewed'
          /\ OfRun(o[1]) =>
               run.status \notin Stopped /\ Cardinality(found') + manual <= MaxSources ]_vars

\* A committed search is never repeated: a job has at most one successful
\* execution, from the moment its checkpoint is stored no attempt of it starts
\* another, and the checkpoint passes the validation of every later attempt
\* (reuseCommittedSourceSearchResults, commitSourceSearchResults).
CommittedOnce ==
  \A j \in JobIds :
    LET won == {a \in AttemptNumbers : executions[<<j, a>>].status = "SUCCEEDED"} IN
    /\ Cardinality(won) <= 1
    /\ won # {} <=> checkpoint[j] # NoCheckpoint
    /\ checkpoint[j] # NoCheckpoint =>
         /\ CheckpointValid(j)
         /\ \A a \in won, b \in AttemptNumbers :
              b > a => executions[<<j, b>>].status = "NONE"
=============================================================================
