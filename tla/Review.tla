------------------------------- MODULE Review -------------------------------
(***************************************************************************)
(* The research workflow of one project, from its scope to its delivery:   *)
(* projects.ts, workflow.ts, ledger.ts, sources.ts, reports.ts, qa.ts,     *)
(* review-state.ts and approval.ts of lib/services.                        *)
(*                                                                         *)
(* Every operation is one transaction that holds the project's row lock    *)
(* when it commits.  What the project says is two counters: revision, the  *)
(* edits (each of which touches deliverables.updated_at), and commits, the *)
(* stages a research run has committed beside them.  refreshProjectProgress*)
(* writes a figure that is only displayed; it is left out.                 *)
(***************************************************************************)
EXTENDS Naturals

CONSTANTS
  Questions,     \* research questions that may be asked
  Planned,       \* the questions that are asked and planned at the start
  Gates,         \* the readiness gates on the content that the instance tells apart
  MaxRevisions,  \* bound: edits
  MaxCommits     \* bound: stages committed by research runs

ASSUME ReviewAssumption ==
  /\ Planned \subseteq Questions /\ Planned # {}
  /\ Gates \subseteq {"questions", "claims", "findings", "report"}
  /\ MaxRevisions \in Nat /\ MaxCommits \in Nat

VARIABLES
  project,   \* the research_projects row
  plans,     \* each question: "none", "unplanned", "proposed" or "approved"
  gates,     \* the readiness gates of approval.ts that hold on the content
  findings,  \* current BLOCKER rows of qa_findings: who made them, resolution
  planner,   \* questions a provider plan under way has still to save
  current    \* project_exports with is_current, by format and snapshot

reviewVars == <<project, plans, gates, findings, planner, current>>

ReviewStatuses == {"QA", "APPROVAL_REQUIRED", "APPROVED", "DELIVERED"}
NotPassed == [revision |-> 0, commits |-> 0]

\* A project with an approved plan, on which research is under way.
ReviewInit ==
  /\ project = [ exists |-> TRUE, status |-> "RESEARCHING", scope |-> TRUE, plan |-> TRUE,
                 qa |-> NotPassed, approval |-> "NOT_REQUESTED",
                 revision |-> 0, commits |-> 0 ]
  /\ plans = [q \in Questions |-> IF q \in Planned THEN "approved" ELSE "none"]
  /\ gates = Gates
  /\ findings = {}
  /\ planner = {}
  /\ current = {}

-----------------------------------------------------------------------------
(* Edits.                                                                  *)

Asked == {q \in Questions : plans[q] # "none"}

\* Variant: an approval outlives the edit.
InvalidatedButApproved(p, fallback) ==
  [p EXCEPT !.qa = NotPassed, !.revision = @ + 1]

\* invalidateDownstreamReview, the project's part.
Invalidated(p, fallback) ==
  [p EXCEPT !.qa = NotPassed, !.approval = "NOT_REQUESTED", !.revision = @ + 1,
            !.status = IF @ \in ReviewStatuses THEN fallback ELSE @]

\* An edit that may open or close the gates in affected.
Edit(p, fallback, affected) ==
  /\ project.exists /\ project.revision < MaxRevisions
  /\ project' = Invalidated(p, fallback)
  /\ current' = {}
  /\ gates' \in {g \in SUBSET Gates : g \ affected = gates \ affected}

updateProjectScope ==
  /\ Edit([project EXCEPT !.scope = FALSE, !.plan = FALSE, !.status = "SCOPING"],
          "RESEARCHING", {})
  /\ plans' = [q \in Questions |-> IF plans[q] = "approved" THEN "proposed" ELSE plans[q]]
  /\ UNCHANGED <<findings, planner>>

approveScope ==
  /\ project.exists /\ project.status \in {"INTAKE", "SCOPING"}
  /\ project' = [project EXCEPT !.scope = TRUE, !.status = "PLANNING"]
  /\ UNCHANGED <<plans, gates, findings, planner, current>>

\* One plan, or all of them; the project's plan is approved with the last.
approvePlan(approved) ==
  LET after == [q \in Questions |->
                  IF q \in approved /\ plans[q] = "proposed" THEN "approved" ELSE plans[q]]
      complete == Asked # {} /\ \A q \in Asked : after[q] = "approved"
  IN
  /\ project.exists /\ project.status \in {"PLANNING", "RESEARCHING"} /\ project.scope
  /\ \/ approved = Questions /\ complete
     \/ \E q \in Asked : approved = {q} /\ plans[q] # "unplanned"
  /\ plans' = after
  /\ project' = IF complete THEN [project EXCEPT !.plan = TRUE, !.status = "RESEARCHING"]
                ELSE project
  /\ UNCHANGED <<gates, findings, planner, current>>

addResearchQuestion(q) ==
  /\ plans[q] = "none"
  /\ Edit([project EXCEPT !.plan = FALSE], "RESEARCHING", {"questions"})
  /\ plans' = [plans EXCEPT ![q] = "unplanned"]
  /\ UNCHANGED <<findings, planner>>

updateResearchQuestion ==
  /\ Asked # {} /\ Edit(project, "RESEARCHING", {"questions"})
  /\ UNCHANGED <<plans, findings, planner>>

\* A plan that is saved again is no longer approved.
SavePlan(q) ==
  /\ Edit([project EXCEPT !.plan = FALSE], "RESEARCHING", {})
  /\ plans' = [plans EXCEPT ![q] = "proposed"]
  /\ UNCHANGED findings

addResearchPlan(q) == q \in Asked /\ SavePlan(q) /\ UNCHANGED planner

\* generateProviderPlan: the questions are read, the provider answers, and its
\* plans are saved one transaction at a time.  Questions it suggests itself are
\* addResearchQuestion steps.
generateProviderPlan ==
  /\ project.exists /\ planner = {} /\ planner' = Asked /\ Asked # {}
  /\ UNCHANGED <<project, plans, gates, findings, current>>
SaveProviderPlan(q) == q \in planner /\ SavePlan(q) /\ planner' = planner \ {q}
ProviderPlanFails ==
  /\ planner # {} /\ planner' = {}
  /\ UNCHANGED <<project, plans, gates, findings, current>>

\* addSources, addEvidence and the commits of searches and documents.
addSources == Edit(project, "RESEARCHING", {}) /\ UNCHANGED <<plans, findings, planner>>

\* addClaim, linkClaimEvidence and updateClaimReview.
ChangeClaims ==
  /\ Edit(project, "SYNTHESIZING", {"claims", "findings"})
  /\ UNCHANGED <<plans, findings, planner>>

addFinding ==
  /\ Edit(project, "SYNTHESIZING", {"findings"})
  /\ UNCHANGED <<plans, findings, planner>>

updateDeliverable ==
  /\ Edit(project, "QA", {"report"})
  /\ UNCHANGED <<plans, findings, planner>>

\* commitResearchStageDomainEffects: the stage's earlier rows are superseded,
\* its evidence, claims, gaps, findings or draft take their place, and nothing
\* downstream is told.
commitResearchStageDomainEffects ==
  /\ project.exists /\ project.commits < MaxCommits
  /\ project' = [project EXCEPT !.commits = @ + 1]
  /\ gates' \in SUBSET Gates
  /\ findings' \in { {f \in findings : f[1] = "engine"},
                     findings \cup {<<"pipeline", "OPEN">>} }
  /\ UNCHANGED <<plans, planner, current>>

-----------------------------------------------------------------------------
(* Quality review, approval and delivery.                                  *)

\* Only RESOLVED clears a blocker.
Blockers(fs) == {f \in fs : f[2] # "RESOLVED"}

\* The engine's open findings are replaced; a pass needs no blocker at all.
runProjectQa(found) ==
  LET after == (findings \ {<<"engine", "OPEN">>}) \cup
                 (IF found THEN {<<"engine", "OPEN">>} ELSE {})
      p == Invalidated(project, "QA")
  IN
  /\ project.exists /\ project.revision < MaxRevisions
  /\ findings' = after
  /\ project' =
       IF Blockers(after) = {}
       THEN [p EXCEPT !.status = "APPROVAL_REQUIRED",
                      !.qa = [revision |-> p.revision, commits |-> p.commits]]
       ELSE [p EXCEPT !.status = "QA"]
  /\ current' = {}
  /\ UNCHANGED <<plans, gates, planner>>

resolveQaFinding(f, resolution) ==
  /\ f \in findings
  /\ LET p == IF resolution = "RESOLVED" THEN project ELSE [project EXCEPT !.status = "QA"]
     IN Edit(p, "QA", {})
  /\ findings' = (findings \ {f}) \cup {<<f[1], resolution>>}
  /\ UNCHANGED <<plans, planner>>

\* What every action of runApprovalAction asks first.
Reviewable ==
  /\ Blockers(findings) = {} /\ project.qa # NotPassed
  /\ project.scope /\ project.plan
  /\ Asked # {} /\ \A q \in Asked : plans[q] = "approved"
  /\ gates = Gates

requestApproval ==
  /\ project.exists /\ Reviewable /\ project.approval = "NOT_REQUESTED"
  /\ project' = [project EXCEPT !.approval = "PENDING", !.status = "APPROVAL_REQUIRED"]
  /\ UNCHANGED <<plans, gates, findings, planner, current>>

approveProject ==
  /\ project.exists /\ Reviewable /\ project.approval = "PENDING"
  /\ project' = [project EXCEPT !.approval = "APPROVED", !.status = "APPROVED"]
  /\ UNCHANGED <<plans, gates, findings, planner, current>>

deliverProject ==
  /\ project.exists /\ Reviewable
  /\ project.status = "APPROVED" /\ project.approval = "APPROVED"
  /\ \E k \in current : k.format = "ZIP"
  /\ project' = [project EXCEPT !.status = "DELIVERED"]
  /\ UNCHANGED <<plans, gates, findings, planner, current>>

ReviewNext ==
  \/ updateProjectScope \/ approveScope \/ approvePlan(Questions)
  \/ \E q \in Questions :
       \/ approvePlan({q}) \/ addResearchQuestion(q) \/ addResearchPlan(q)
       \/ SaveProviderPlan(q)
  \/ updateResearchQuestion \/ generateProviderPlan \/ ProviderPlanFails
  \/ addSources \/ ChangeClaims \/ addFinding \/ updateDeliverable
  \/ commitResearchStageDomainEffects
  \/ \E found \in BOOLEAN : runProjectQa(found)
  \/ \E f \in findings, resolution \in {"RESOLVED", "ACCEPTED_RISK"} :
       resolveQaFinding(f, resolution)
  \/ requestApproval \/ approveProject \/ deliverProject

-----------------------------------------------------------------------------
(* What approval promises.                                                 *)

\* A project under approval, approved or delivered passed QA after its last edit,
\* and its scope and every question's plan are approved: no edit, from a person
\* or from a provider's late plan, slips past review-state.ts.
ApprovalCoversEdits ==
  /\ project.qa # NotPassed => project.qa.revision = project.revision
  /\ project.plan => project.scope /\ \A q \in Asked : plans[q] = "approved"
  /\ project.approval # "NOT_REQUESTED" =>
       project.qa # NotPassed /\ project.plan
  /\ project.status \in {"APPROVED", "DELIVERED"} => project.approval = "APPROVED"

\* "A concurrent material mutation either precedes that snapshot or runs
\* afterward and invalidates it" (docs/RESEARCH_WORKFLOW.md): what is approved
\* is what QA looked at, the stages of research runs included.
ApprovalCoversContent ==
  project.approval = "APPROVED" => project.qa.commits = project.commits
=============================================================================
