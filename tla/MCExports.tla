----------------------------- MODULE MCExports -----------------------------
(***************************************************************************)
(* Instances of Exports for TLC.                                           *)
(***************************************************************************)
EXTENDS Exports, FiniteSetsExt, TLC

\* Bound: a provider's plan is under way only before the first export is asked for.
PlansEarly == planner # {} => \A j \in JobIds : jobs[j].status = "NONE"

\* Bound: attempts of all jobs, fewer beside a research run's commits.
Attempts == MapThenSumSet(LAMBDA j : jobs[j].attempts, JobIds)
Bounded ==
  PlansEarly /\ Attempts <= (IF project.commits = 0 THEN AttemptCap + 1 ELSE AttemptCap)

JobSymmetry == Permutations(JobIds)

\* An attempt that lost its job before it reserved a row changes nothing more.
Spent(j, a) ==
  /\ ~Fenced(j, a)
  /\ Pc(j, a) \in {"load", "lock"} \cup Outcomes
  /\ jobs[j].status # "CANCELLATION_REQUESTED"

\* Bound: once an edit or a research run has made an export job out of date, or
\* the project is deleted, its workflow is explored up to what decides whether
\* it can be approved and delivered.
OutOfDate ==
  \E j \in JobIds :
    /\ jobs[j].status # "NONE"
    /\ \/ Key(j).snapshot.revision < project.revision
       \/ Key(j).snapshot.commits < project.commits
WorkflowView ==
  IF ~project.exists THEN <<FALSE>>
  ELSE IF OutOfDate /\ ~Reviewable
  THEN <<project.revision, project.commits, project.status \in {"APPROVED", "DELIVERED"},
         project.status = "DELIVERED">>
  ELSE IF OutOfDate THEN <<project>>
  ELSE <<project, plans, gates, findings, planner>>

\* The row a lookup read is used while it is verified only.
HandlerView(j, a) ==
  IF Spent(j, a) THEN Ended
  ELSE IF Pc(j, a) = "read" THEN handler[j][a] ELSE [handler[j][a] EXCEPT !.sha256 = NoBytes]

ExportsView ==
  <<WorkflowView, current, jobs, exports, cleanup, history, faults,
    [j \in JobIds |-> [a \in AttemptNumbers |-> HandlerView(j, a)]]>>
=============================================================================
