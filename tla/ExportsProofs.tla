---------------------------- MODULE ExportsProofs ----------------------------
(***************************************************************************)
(* Proofs about Exports and the workflow of Review beside it, for any set  *)
(* of questions, jobs and formats, any number of attempts and of faults.   *)
(* The invariant says of every attempt what the row of its export must     *)
(* look like at each place of its handler.  Attempts that hold the         *)
(* advisory lock of a key rely on no one else reserving it; the fast       *)
(* lookup, which holds none, relies on snapshots that never come back.     *)
(***************************************************************************)
EXTENDS Exports, TLAPS

USE ReviewAssumption DEF ReviewAssumption
USE WorkerJobsAssumption DEF WorkerJobsAssumption
USE ExportsAssumption DEF ExportsAssumption

-----------------------------------------------------------------------------
(* The inductive invariant.                                                *)

Approvals == {"NOT_REQUESTED", "PENDING", "APPROVED"}
WorkStatuses == {"INTAKE", "SCOPING", "PLANNING", "RESEARCHING", "SYNTHESIZING"}
Marks == [revision : Nat, commits : Nat]
Projects ==
  [ exists : BOOLEAN, status : WorkStatuses \cup ReviewStatuses, scope : BOOLEAN,
    plan : BOOLEAN, qa : Marks, approval : Approvals, revision : Nat, commits : Nat ]
PlanStates == {"none", "unplanned", "proposed", "approved"}
Resolutions == {"OPEN", "RESOLVED", "ACCEPTED_RISK"}

ReviewTypeOK ==
  /\ project \in Projects /\ plans \in [Questions -> PlanStates]
  /\ gates \subseteq Gates /\ planner \subseteq Questions
  /\ findings \subseteq {"engine", "pipeline"} \X Resolutions

Snapshots == [approval : Approvals, qa : Marks, revision : Nat, commits : Nat]
Inputs == [format : Formats, snapshot : Snapshots]
JobRows == [ status : JobQueueStatuses, attempts : 0..AttemptCap, max : 0..AttemptCap,
             input : Inputs \cup {NoInput} ]
AttemptNames == JobIds \X AttemptNumbers
Rows == [ status : {"UPLOADING", "AVAILABLE", "FAILED"},
          retention : {"ACTIVE", "PENDING_DELETE", "DELETED"}, leased : BOOLEAN,
          sha256 : AttemptNames, bytes : AttemptNames \cup {NoBytes} ]
Places == Outcomes \cup Persisting \cup
          {"none", "load", "lookup", "lock", "read", "missing", "late", "done"}
Handlers == [ pc : Places, phase : {"fast", "locked", "available"}, complete : BOOLEAN,
              sha256 : AttemptNames \cup {NoBytes} ]

TypeOK ==
  /\ ReviewTypeOK
  /\ jobs \in [JobIds -> JobRows]
  /\ \A k \in DOMAIN exports : exports[k] \in Rows
  /\ handler \in [JobIds -> [AttemptNumbers -> Handlers]]
  /\ cleanup.pc \in {"idle", "delete", "erased"}
  /\ cleanup.pc # "idle" => cleanup.key \in DOMAIN exports
  /\ current \subseteq DOMAIN exports

\* How far an approval has come: it falls back with an edit only.
Rank(approval) ==
  IF approval = "NOT_REQUESTED" THEN 0 ELSE IF approval = "PENDING" THEN 1 ELSE 2

\* Snapshot s was taken of this project, now or earlier.
Past(s) ==
  /\ s.revision <= project.revision /\ s.commits <= project.commits
  /\ s.revision = project.revision =>
       s.qa = project.qa /\ Rank(s.approval) <= Rank(project.approval)

\* What is known of the key of every submitted job and of every export.
KeyOK(k) ==
  k \in Inputs /\ Past(k.snapshot) /\ (k.format = "ZIP" => k.snapshot.approval = "APPROVED")

KeysOK ==
  /\ \A j \in JobIds : IF jobs[j].status = "NONE" THEN jobs[j].attempts = 0 ELSE KeyOK(Key(j))
  /\ \A k \in DOMAIN exports : KeyOK(k)

\* One attempt holds the lock of an export.
LockOK ==
  \A i, j \in JobIds : \A a, b \in AttemptNumbers :
    HoldsLock(j, a) /\ HoldsLock(i, b) /\ Key(j) = Key(i) => i = j /\ a = b

\* The cleanup's erased object is one it still holds the claim of.
ErasedOK ==
  cleanup.pc = "erased" =>
    exports[cleanup.key].leased /\ exports[cleanup.key].retention = "PENDING_DELETE"

DeletedOK ==
  ~project.exists => \A k \in DOMAIN exports : exports[k].retention \in {"PENDING_DELETE", "DELETED"}

\* Exports that may be taken off the current ones although nothing was edited.
Excepted == lost \cup unanswered

\* What attempt a of job j, with the handler h and the key k, relies on.
Fits(j, a, h, k) ==
  /\ a > jobs[j].attempts => h.pc = "none"
  /\ h.pc \in {"load", "lock"} => h.phase = "fast"
  /\ h.pc \in {"read", "missing", "recover", "put", "finalise", "failed", "late"} =>
       k \in DOMAIN exports
  /\ h.pc \in {"read", "missing"} /\ h.phase = "fast" =>
       k \in Excepted \/ k \in current \/ ~Unchanged(k)
  /\ h.pc = "read" =>
       \/ exports[k].sha256 = h.sha256
       \/ h.phase = "fast" /\ (k \in Excepted \/ k \notin current)
  /\ h.pc = "missing" => k \in Excepted \/ k \notin current
  /\ h.pc = "recover" =>
       \/ k \in lost \/ ~RowFree(k) \/ exports[k].retention = "DELETED"
       \/ exports[k].bytes = exports[k].sha256
  /\ h.pc = "failed" => k \in unanswered \/ k \notin current
  /\ h.pc \in {"put", "finalise"} =>
       k \notin current /\ exports[k].sha256 = <<j, a>> /\ (project.exists => exports[k].retention = "ACTIVE")
  /\ h.pc = "finalise" /\ project.exists => k \in lost \/ exports[k].bytes = <<j, a>>

AttemptsOK == \A j \in JobIds, a \in AttemptNumbers : Fits(j, a, handler[j][a], Key(j))

ExportsInv ==
  /\ TypeOK /\ ApprovalCoversEdits /\ KeysOK /\ LockOK /\ ErasedOK /\ DeletedOK
  /\ AttemptsOK /\ CurrentExports /\ DeliveredPackage

-----------------------------------------------------------------------------
(* The workflow: what a step of Review does to the project.                *)

\* How a step of the workflow changes what was approved, and when: an edit makes a
\* new revision and takes everything back, all else stays within its revision.
ProjectMoved ==
  /\ project'.exists => project.exists
  /\ project.revision <= project'.revision /\ project.commits <= project'.commits
  /\ project'.revision = project.revision =>
       /\ project'.qa = project.qa
       /\ Rank(project.approval) <= Rank(project'.approval)

\* A delivered project was so before, or has a current package now.
StillDelivered ==
  project'.status = "DELIVERED" =>
    /\ project'.revision = project.revision
    /\ project.status = "DELIVERED" \/ \E k \in current : k.format = "ZIP"

ReviewStepOK ==
  /\ ReviewTypeOK' /\ ApprovalCoversEdits' /\ ProjectMoved /\ StillDelivered
  /\ project'.exists = project.exists
  /\ IF project'.revision = project.revision THEN current' = current ELSE current' = {}

\* The marks of QA are told apart from the absence of any.
LEMMA NotPassedIs ==
  NotPassed \in Marks /\ NotPassed.revision = 0 /\ NotPassed.commits = 0
  BY DEF NotPassed, Marks

\* The fields of the project row.
LEMMA ProjectFields ==
  ASSUME NEW p \in Projects
  PROVE  /\ p.exists \in BOOLEAN /\ p.status \in WorkStatuses \cup ReviewStatuses
         /\ p.scope \in BOOLEAN /\ p.plan \in BOOLEAN /\ p.qa \in Marks
         /\ p.approval \in Approvals /\ p.revision \in Nat /\ p.commits \in Nat
  BY DEF Projects

\* An edit withdraws the review and starts a new revision.
LEMMA Edited ==
  ASSUME ReviewTypeOK, NEW p \in Projects, NEW fallback \in {"RESEARCHING", "SYNTHESIZING", "QA"},
         NEW affected, Edit(p, fallback, affected)
  PROVE  /\ project' \in Projects /\ gates' \subseteq Gates /\ current' = {}
         /\ project'.qa = NotPassed /\ project'.approval = "NOT_REQUESTED"
         /\ project'.revision = p.revision + 1 /\ project'.commits = p.commits
         /\ project'.exists = p.exists /\ project'.scope = p.scope /\ project'.plan = p.plan
         /\ project'.status \notin {"APPROVED", "DELIVERED"}
<1>1. project' = Invalidated(p, fallback) /\ current' = {} /\ gates' \subseteq Gates
  BY DEF Edit
<1>2. NotPassed \in Marks
  BY NotPassedIs
<1>3. p.revision + 1 \in Nat
  BY DEF Projects
<1>4. /\ (IF p.status \in ReviewStatuses THEN fallback ELSE p.status) \in WorkStatuses \cup ReviewStatuses
      /\ (IF p.status \in ReviewStatuses THEN fallback ELSE p.status) \notin {"APPROVED", "DELIVERED"}
  BY DEF Projects, ReviewStatuses, WorkStatuses
<1>5. "NOT_REQUESTED" \in Approvals
  BY DEF Approvals
<1>6. Invalidated(p, fallback) =
        [p EXCEPT !.qa = NotPassed, !.approval = "NOT_REQUESTED", !.revision = p.revision + 1,
                  !.status = IF p.status \in ReviewStatuses THEN fallback ELSE p.status]
  BY DEF Invalidated, Projects
<1> DEFINE status == IF p.status \in ReviewStatuses THEN fallback ELSE p.status
<1> DEFINE revision == p.revision + 1
<1> HIDE DEF status, revision
<1>7. project' = [p EXCEPT !.qa = NotPassed, !.approval = "NOT_REQUESTED", !.revision = revision,
                           !.status = status]
  BY <1>1, <1>6 DEF status, revision
<1>8. /\ status \in WorkStatuses \cup ReviewStatuses /\ status \notin {"APPROVED", "DELIVERED"}
      /\ revision \in Nat
  BY <1>3, <1>4 DEF status, revision
<1>9. project' \in Projects
  BY <1>2, <1>5, <1>7, <1>8 DEF Projects
<1>10. /\ project'.qa = NotPassed /\ project'.approval = "NOT_REQUESTED"
       /\ project'.revision = revision /\ project'.commits = p.commits
       /\ project'.exists = p.exists /\ project'.scope = p.scope /\ project'.plan = p.plan
       /\ project'.status = status
  BY <1>7 DEF Projects
<1> QED BY <1>1, <1>8, <1>9, <1>10 DEF revision

\* An edit of this project leaves the workflow in order, if the plans of every
\* question are still approved where it leaves the project's plan approved.
LEMMA EditStep ==
  ASSUME ReviewTypeOK, NEW p \in Projects, NEW fallback \in {"RESEARCHING", "SYNTHESIZING", "QA"},
         NEW affected, Edit(p, fallback, affected), p.exists = project.exists,
         p.revision = project.revision, p.commits = project.commits,
         p.plan => p.scope /\ \A q \in Asked' : plans'[q] = "approved",
         plans' \in [Questions -> PlanStates], planner' \subseteq Questions,
         findings' \subseteq {"engine", "pipeline"} \X Resolutions
  PROVE  ReviewStepOK
<1>1. /\ project' \in Projects /\ gates' \subseteq Gates /\ current' = {}
      /\ project'.qa = NotPassed /\ project'.approval = "NOT_REQUESTED"
      /\ project'.revision = p.revision + 1 /\ project'.commits = p.commits
      /\ project'.exists = p.exists /\ project'.scope = p.scope /\ project'.plan = p.plan
      /\ project'.status \notin {"APPROVED", "DELIVERED"}
  BY Edited
<1>2. project.revision \in Nat /\ project.commits \in Nat
  BY DEF ReviewTypeOK, Projects
<1>3. ReviewTypeOK'
  BY <1>1 DEF ReviewTypeOK
<1>4. ApprovalCoversEdits'
  BY <1>1 DEF ApprovalCoversEdits
<1>5. ProjectMoved /\ StillDelivered
  BY <1>1, <1>2 DEF ProjectMoved, StillDelivered
<1>6. project'.exists = project.exists /\ project'.revision # project.revision
  BY <1>1, <1>2
<1> QED BY <1>1, <1>3, <1>4, <1>5, <1>6 DEF ReviewStepOK

\* The plan of one question changes.
LEMMA PlanChanged ==
  ASSUME ReviewTypeOK, NEW q \in Questions, NEW s \in PlanStates, plans' = [plans EXCEPT ![q] = s]
  PROVE  plans' \in [Questions -> PlanStates]
  BY DEF ReviewTypeOK

\* Plans that are saved, by a person or by a provider, are no longer approved.
LEMMA SavePlanStep ==
  ASSUME ReviewTypeOK, NEW q \in Questions, SavePlan(q), planner' \subseteq Questions
  PROVE  ReviewStepOK
<1> DEFINE p == [project EXCEPT !.plan = FALSE]
<1>1. /\ p \in Projects /\ p.exists = project.exists /\ p.revision = project.revision
      /\ p.commits = project.commits /\ ~p.plan
  BY DEF ReviewTypeOK, Projects
<1>2. Edit(p, "RESEARCHING", {}) /\ UNCHANGED findings
  BY DEF SavePlan
<1>3. "proposed" \in PlanStates
  BY DEF PlanStates
<1>4. plans' \in [Questions -> PlanStates]
  BY <1>3, PlanChanged DEF SavePlan
<1>5. findings' \subseteq {"engine", "pipeline"} \X Resolutions
  BY <1>2 DEF ReviewTypeOK
<1> HIDE DEF p
<1> QED BY <1>1, <1>2, <1>4, <1>5, EditStep

\* The edits of one question or of none.
LEMMA ScopeStep ==
  ASSUME ReviewTypeOK, updateProjectScope
  PROVE  ReviewStepOK
<1> DEFINE p == [project EXCEPT !.scope = FALSE, !.plan = FALSE, !.status = "SCOPING"]
<1>1. /\ p \in Projects /\ p.exists = project.exists /\ p.revision = project.revision
      /\ p.commits = project.commits /\ ~p.plan
  BY DEF ReviewTypeOK, Projects, WorkStatuses
<1>2. Edit(p, "RESEARCHING", {}) /\ UNCHANGED <<findings, planner>>
  BY DEF updateProjectScope
<1>3. plans' \in [Questions -> PlanStates]
  BY DEF updateProjectScope, ReviewTypeOK, PlanStates
<1> HIDE DEF p
<1> QED BY <1>1, <1>2, <1>3, EditStep DEF ReviewTypeOK

\* A question that is added has no plan yet.
LEMMA QuestionStep ==
  ASSUME ReviewTypeOK, NEW q \in Questions, addResearchQuestion(q)
  PROVE  ReviewStepOK
<1> DEFINE p == [project EXCEPT !.plan = FALSE]
<1>1. /\ p \in Projects /\ p.exists = project.exists /\ p.revision = project.revision
      /\ p.commits = project.commits /\ ~p.plan
  BY DEF ReviewTypeOK, Projects
<1>2. Edit(p, "RESEARCHING", {"questions"}) /\ UNCHANGED <<findings, planner>>
  BY DEF addResearchQuestion
<1>3. "unplanned" \in PlanStates
  BY DEF PlanStates
<1>4. plans' \in [Questions -> PlanStates]
  BY <1>3, PlanChanged DEF addResearchQuestion
<1> HIDE DEF p
<1> QED BY <1>1, <1>2, <1>4, EditStep DEF ReviewTypeOK

\* The edits that leave every plan as it is.
LEMMA ContentStep ==
  ASSUME ReviewTypeOK, ApprovalCoversEdits,
         updateResearchQuestion \/ addSources \/ ChangeClaims \/ addFinding \/ updateDeliverable
  PROVE  ReviewStepOK
<1>1. \E fallback \in {"RESEARCHING", "SYNTHESIZING", "QA"}, affected \in SUBSET {"questions", "claims", "findings", "report"} :
        Edit(project, fallback, affected)
  BY DEF updateResearchQuestion, addSources, ChangeClaims, addFinding, updateDeliverable
<1>2. UNCHANGED <<plans, findings, planner>>
  BY DEF updateResearchQuestion, addSources, ChangeClaims, addFinding, updateDeliverable
<1>3. project.plan => project.scope /\ \A q \in Asked' : plans'[q] = "approved"
  BY <1>2 DEF ApprovalCoversEdits, Asked
<1> QED BY <1>1, <1>2, <1>3, EditStep DEF ReviewTypeOK

\* A finding that is resolved is an edit, and back in review unless it is cleared.
LEMMA ResolveStep ==
  ASSUME ReviewTypeOK, ApprovalCoversEdits, NEW f \in findings,
         NEW resolution \in {"RESOLVED", "ACCEPTED_RISK"}, resolveQaFinding(f, resolution)
  PROVE  ReviewStepOK
<1> DEFINE p == IF resolution = "RESOLVED" THEN project ELSE [project EXCEPT !.status = "QA"]
<1>1. /\ p \in Projects /\ p.exists = project.exists /\ p.revision = project.revision
      /\ p.commits = project.commits /\ p.plan = project.plan /\ p.scope = project.scope
  BY DEF ReviewTypeOK, Projects, ReviewStatuses
<1>2. Edit(p, "QA", {}) /\ UNCHANGED <<plans, planner>>
  BY DEF resolveQaFinding
<1>3. findings' \subseteq {"engine", "pipeline"} \X Resolutions
  BY DEF resolveQaFinding, ReviewTypeOK, Resolutions
<1> HIDE DEF p
<1>4. p.plan => p.scope /\ \A q \in Asked' : plans'[q] = "approved"
  BY <1>1, <1>2 DEF ApprovalCoversEdits, Asked
<1> QED BY <1>1, <1>2, <1>3, <1>4, EditStep DEF ReviewTypeOK

\* What leaves the revision as it is.
LEMMA SameRevision ==
  ASSUME ReviewTypeOK, project' \in Projects, project'.exists = project.exists,
         project'.revision = project.revision, project'.commits = project.commits,
         project'.qa = project.qa, Rank(project.approval) <= Rank(project'.approval),
         current' = current
  PROVE  /\ ProjectMoved /\ project'.exists = project.exists
         /\ IF project'.revision = project.revision THEN current' = current ELSE current' = {}
  BY DEF ProjectMoved, ReviewTypeOK, Projects

\* The ranks of approvals are ordered.
LEMMA Ranks ==
  /\ \A s \in Approvals : Rank(s) \in 0..2
  /\ Rank("NOT_REQUESTED") = 0 /\ Rank("PENDING") = 1 /\ Rank("APPROVED") = 2
  BY DEF Rank, Approvals

\* The scope is approved.
LEMMA ApproveScopeStep ==
  ASSUME ReviewTypeOK, ApprovalCoversEdits, approveScope
  PROVE  ReviewStepOK
<1>1. /\ project' \in Projects /\ project'.exists = project.exists
      /\ project'.revision = project.revision /\ project'.commits = project.commits
      /\ project'.qa = project.qa /\ project'.approval = project.approval
      /\ project'.scope /\ project'.plan = project.plan /\ project'.status = "PLANNING"
  BY DEF approveScope, ReviewTypeOK, Projects, WorkStatuses
<1>2. UNCHANGED <<plans, gates, findings, planner, current>>
  BY DEF approveScope
<1>3. Rank(project.approval) <= Rank(project'.approval)
  BY <1>1, Ranks DEF ReviewTypeOK, Projects
<1>4. ReviewTypeOK'
  BY <1>1, <1>2 DEF ReviewTypeOK
<1>5. ApprovalCoversEdits'
  BY <1>1, <1>2 DEF ApprovalCoversEdits, Asked
<1>6. StillDelivered
  BY <1>1 DEF StillDelivered
<1> QED BY <1>1, <1>2, <1>3, <1>4, <1>5, <1>6, SameRevision DEF ReviewStepOK

\* Plans are approved; with the last one, the project's.
LEMMA ApprovePlanStep ==
  ASSUME ReviewTypeOK, ApprovalCoversEdits, NEW approved, approvePlan(approved)
  PROVE  ReviewStepOK
<1> DEFINE after == [q \in Questions |->
                       IF q \in approved /\ plans[q] = "proposed" THEN "approved" ELSE plans[q]]
           complete == Asked # {} /\ \A q \in Asked : after[q] = "approved"
<1>1. /\ plans' = after /\ UNCHANGED <<gates, findings, planner, current>> /\ project.scope
      /\ project' = IF complete THEN [project EXCEPT !.plan = TRUE, !.status = "RESEARCHING"]
                    ELSE project
  BY DEF approvePlan
<1>2. after \in [Questions -> PlanStates]
  BY DEF ReviewTypeOK, PlanStates
<1>3. Asked' = Asked
  BY <1>1 DEF Asked, ReviewTypeOK
<1>4. \A q \in Asked : plans[q] = "approved" => after[q] = "approved"
  BY DEF Asked
<1>5. complete => \A q \in Asked : after[q] = "approved"
  OBVIOUS
<1> HIDE DEF after, complete
<1>6. /\ project' \in Projects /\ project'.exists = project.exists
      /\ project'.revision = project.revision /\ project'.commits = project.commits
      /\ project'.qa = project.qa /\ project'.approval = project.approval
      /\ project'.scope = project.scope /\ (project'.plan <=> complete \/ project.plan)
      /\ project'.status \in {"RESEARCHING", project.status}
  BY <1>1 DEF ReviewTypeOK, Projects, WorkStatuses
<1>7. Rank(project.approval) <= Rank(project'.approval)
  BY <1>6, Ranks DEF ReviewTypeOK, Projects
<1>8. ReviewTypeOK'
  BY <1>1, <1>2, <1>6 DEF ReviewTypeOK
<1>9. project'.plan => project'.scope /\ \A q \in Asked' : plans'[q] = "approved"
  BY <1>1, <1>3, <1>4, <1>5, <1>6 DEF ApprovalCoversEdits
<1>10. project'.approval # "NOT_REQUESTED" => project'.qa # NotPassed /\ project'.plan
  BY <1>6 DEF ApprovalCoversEdits
<1>11. /\ project'.qa # NotPassed => project'.qa.revision = project'.revision
       /\ project'.status \in {"APPROVED", "DELIVERED"} => project'.approval = "APPROVED"
  BY <1>6 DEF ApprovalCoversEdits
<1>12. ApprovalCoversEdits'
  BY <1>9, <1>10, <1>11 DEF ApprovalCoversEdits
<1>13. StillDelivered
  BY <1>6 DEF StillDelivered
<1> QED BY <1>1, <1>6, <1>7, <1>8, <1>12, <1>13, SameRevision DEF ReviewStepOK

\* A plan of a provider begins or ends; nothing of the project changes yet.
LEMMA PlannerStep ==
  ASSUME ReviewTypeOK, ApprovalCoversEdits, generateProviderPlan \/ ProviderPlanFails
  PROVE  ReviewStepOK
<1>1. UNCHANGED <<project, plans, gates, findings, current>> /\ planner' \subseteq Questions
  BY DEF generateProviderPlan, ProviderPlanFails, Asked
<1>2. ReviewTypeOK' /\ ApprovalCoversEdits'
  BY <1>1 DEF ReviewTypeOK, ApprovalCoversEdits, Asked
<1>3. StillDelivered
  BY <1>1 DEF StillDelivered
<1>4. Rank(project.approval) <= Rank(project'.approval)
  BY <1>1, Ranks DEF ReviewTypeOK, Projects
<1> QED BY <1>1, <1>2, <1>3, <1>4, SameRevision DEF ReviewStepOK, ReviewTypeOK

\* A stage of a research run commits, and the review is not told.
LEMMA CommitStep ==
  ASSUME ReviewTypeOK, ApprovalCoversEdits, commitResearchStageDomainEffects
  PROVE  ReviewStepOK
<1>1. /\ project' = [project EXCEPT !.commits = @ + 1] /\ gates' \subseteq Gates
      /\ UNCHANGED <<plans, planner, current>>
  BY DEF commitResearchStageDomainEffects
<1>2. findings' \subseteq {"engine", "pipeline"} \X Resolutions
  <2>1. <<"pipeline", "OPEN">> \in {"engine", "pipeline"} \X Resolutions
    BY DEF Resolutions
  <2>2. findings \subseteq {"engine", "pipeline"} \X Resolutions
    BY DEF ReviewTypeOK
  <2> QED BY <2>1, <2>2 DEF commitResearchStageDomainEffects
<1>3. /\ project' \in Projects /\ project'.exists = project.exists
      /\ project'.revision = project.revision /\ project'.commits = project.commits + 1
      /\ project'.qa = project.qa /\ project'.approval = project.approval
      /\ project'.scope = project.scope /\ project'.plan = project.plan
      /\ project'.status = project.status
  BY <1>1 DEF ReviewTypeOK, Projects
<1>4. Rank(project.approval) <= Rank(project'.approval)
  BY <1>3, Ranks DEF ReviewTypeOK, Projects
<1>5. ReviewTypeOK'
  BY <1>1, <1>2, <1>3 DEF ReviewTypeOK
<1>6. ApprovalCoversEdits'
  BY <1>1, <1>3 DEF ApprovalCoversEdits, Asked
<1>7. ProjectMoved /\ StillDelivered
  BY <1>3, <1>4 DEF ProjectMoved, StillDelivered, ReviewTypeOK, Projects
<1> QED BY <1>1, <1>3, <1>5, <1>6, <1>7 DEF ReviewStepOK

\* Quality review is an edit too, and passes what it has seen.
LEMMA QaStep ==
  ASSUME ReviewTypeOK, ApprovalCoversEdits, NEW found \in BOOLEAN, runProjectQa(found)
  PROVE  ReviewStepOK
<1> DEFINE after == (findings \ {<<"engine", "OPEN">>}) \cup
                      (IF found THEN {<<"engine", "OPEN">>} ELSE {})
           p == Invalidated(project, "QA")
           mark == [revision |-> p.revision, commits |-> p.commits]
           passed == Blockers(after) = {}
<1>1. /\ findings' = after /\ current' = {} /\ UNCHANGED <<plans, gates, planner>>
      /\ project' = IF passed THEN [p EXCEPT !.status = "APPROVAL_REQUIRED", !.qa = mark]
                    ELSE [p EXCEPT !.status = "QA"]
  BY DEF runProjectQa
<1>2. after \subseteq {"engine", "pipeline"} \X Resolutions
  <2>1. <<"engine", "OPEN">> \in {"engine", "pipeline"} \X Resolutions
    BY DEF Resolutions
  <2> QED BY <2>1 DEF ReviewTypeOK
<1>3. /\ p \in Projects /\ p.qa = NotPassed /\ p.approval = "NOT_REQUESTED"
      /\ p.revision = project.revision + 1 /\ p.commits = project.commits
      /\ p.exists = project.exists /\ p.scope = project.scope /\ p.plan = project.plan
  <2> DEFINE status == IF project.status \in ReviewStatuses THEN "QA" ELSE project.status
             revision == project.revision + 1
  <2>1. p = [project EXCEPT !.qa = NotPassed, !.approval = "NOT_REQUESTED", !.revision = revision,
                            !.status = status]
    BY DEF Invalidated, ReviewTypeOK, Projects
  <2>2. status \in WorkStatuses \cup ReviewStatuses /\ revision \in Nat
    BY DEF ReviewTypeOK, Projects, ReviewStatuses
  <2>3. NotPassed \in Marks /\ "NOT_REQUESTED" \in Approvals /\ revision = project.revision + 1
    BY NotPassedIs DEF Approvals
  <2> HIDE DEF status, revision, p
  <2>4. project \in Projects
    BY DEF ReviewTypeOK
  <2>5. p \in Projects
    BY <2>1, <2>2, <2>3, <2>4 DEF Projects
  <2>6. /\ p.qa = NotPassed /\ p.approval = "NOT_REQUESTED"
        /\ p.revision = revision /\ p.commits = project.commits
        /\ p.exists = project.exists /\ p.scope = project.scope /\ p.plan = project.plan
    BY <2>1, <2>4 DEF Projects
  <2> QED BY <2>3, <2>5, <2>6
<1>4. mark \in Marks /\ mark.revision = p.revision
  BY <1>3 DEF Projects, Marks
<1> HIDE DEF p, mark, passed, after
<1>5. /\ project' \in Projects /\ project'.approval = "NOT_REQUESTED"
      /\ project'.revision = p.revision /\ project'.commits = p.commits
      /\ project'.exists = p.exists /\ project'.scope = p.scope /\ project'.plan = p.plan
      /\ project'.status \in {"QA", "APPROVAL_REQUIRED"} /\ project'.qa \in {NotPassed, mark}
  BY <1>1, <1>3, <1>4 DEF Projects, ReviewStatuses
<1>6. ReviewTypeOK'
  BY <1>1, <1>2, <1>5 DEF ReviewTypeOK
<1>7. ApprovalCoversEdits'
  BY <1>1, <1>3, <1>4, <1>5 DEF ApprovalCoversEdits, Asked
<1>8. ProjectMoved /\ StillDelivered /\ project'.revision # project.revision
  BY <1>3, <1>5 DEF ProjectMoved, StillDelivered, ReviewTypeOK, Projects
<1> QED BY <1>1, <1>3, <1>5, <1>6, <1>7, <1>8 DEF ReviewStepOK

\* Approval is requested and given for what is reviewable; delivery needs a package.
LEMMA DecisionStep ==
  ASSUME ReviewTypeOK, ApprovalCoversEdits, requestApproval \/ approveProject \/ deliverProject
  PROVE  ReviewStepOK
<1>1. UNCHANGED <<plans, gates, findings, planner, current>>
  BY DEF requestApproval, approveProject, deliverProject
<1>2. project.qa # NotPassed /\ project.plan
  BY DEF requestApproval, approveProject, deliverProject, Reviewable
<1>3. /\ project' \in Projects /\ project'.exists = project.exists
      /\ project'.revision = project.revision /\ project'.commits = project.commits
      /\ project'.qa = project.qa /\ project'.scope = project.scope /\ project'.plan = project.plan
  <2>1. /\ project \in Projects /\ {"PENDING", "APPROVED"} \subseteq Approvals
        /\ {"APPROVAL_REQUIRED", "APPROVED", "DELIVERED"} \subseteq ReviewStatuses
    BY DEF ReviewTypeOK, Approvals, ReviewStatuses
  <2>2. CASE requestApproval
    BY <2>1, <2>2 DEF requestApproval, Projects
  <2>3. CASE approveProject
    BY <2>1, <2>3 DEF approveProject, Projects
  <2>4. CASE deliverProject
    BY <2>1, <2>4 DEF deliverProject, Projects
  <2> QED BY <2>2, <2>3, <2>4
<1>4. \/ /\ project.approval = "NOT_REQUESTED" /\ project'.approval = "PENDING"
         /\ project'.status = "APPROVAL_REQUIRED"
      \/ /\ project.approval = "PENDING" /\ project'.approval = "APPROVED"
         /\ project'.status = "APPROVED"
      \/ /\ project.approval = "APPROVED" /\ project'.approval = "APPROVED"
         /\ project'.status = "DELIVERED" /\ \E k \in current : k.format = "ZIP"
  BY DEF requestApproval, approveProject, deliverProject, ReviewTypeOK, Projects
<1>5. Rank(project.approval) <= Rank(project'.approval)
  BY <1>4, Ranks
<1>6. ReviewTypeOK'
  BY <1>1, <1>3 DEF ReviewTypeOK
<1>7. ApprovalCoversEdits'
  BY <1>1, <1>2, <1>3, <1>4 DEF ApprovalCoversEdits, Asked
<1>8. StillDelivered
  BY <1>3, <1>4 DEF StillDelivered
<1> QED BY <1>1, <1>3, <1>5, <1>6, <1>7, <1>8, SameRevision DEF ReviewStepOK

\* Every step of the workflow.
LEMMA ReviewStep ==
  ASSUME ReviewTypeOK, ApprovalCoversEdits, ReviewNext
  PROVE  ReviewStepOK
<1>1. CASE updateProjectScope
  BY <1>1, ScopeStep
<1>2. CASE approveScope
  BY <1>2, ApproveScopeStep
<1>3. CASE approvePlan(Questions)
  BY <1>3, ApprovePlanStep
<1>4. ASSUME NEW q \in Questions,
             approvePlan({q}) \/ addResearchQuestion(q) \/ addResearchPlan(q) \/ SaveProviderPlan(q)
      PROVE  ReviewStepOK
  <2>1. CASE approvePlan({q})
    BY <2>1, ApprovePlanStep
  <2>2. CASE addResearchQuestion(q)
    BY <2>2, QuestionStep
  <2>3. CASE addResearchPlan(q) \/ SaveProviderPlan(q)
    BY <2>3, SavePlanStep DEF addResearchPlan, SaveProviderPlan, ReviewTypeOK
  <2> QED BY <1>4, <2>1, <2>2, <2>3
<1>5. CASE updateResearchQuestion \/ addSources \/ ChangeClaims \/ addFinding \/ updateDeliverable
  BY <1>5, ContentStep
<1>6. CASE generateProviderPlan \/ ProviderPlanFails
  BY <1>6, PlannerStep
<1>7. CASE commitResearchStageDomainEffects
  BY <1>7, CommitStep
<1>8. ASSUME NEW found \in BOOLEAN, runProjectQa(found)
      PROVE  ReviewStepOK
  BY <1>8, QaStep
<1>9. ASSUME NEW f \in findings, NEW resolution \in {"RESOLVED", "ACCEPTED_RISK"},
             resolveQaFinding(f, resolution)
      PROVE  ReviewStepOK
  BY <1>9, ResolveStep
<1>10. CASE requestApproval \/ approveProject \/ deliverProject
  BY <1>10, DecisionStep
<1> QED BY <1>1, <1>2, <1>3, <1>4, <1>5, <1>6, <1>7, <1>8, <1>9, <1>10 DEF ReviewNext

-----------------------------------------------------------------------------
(* Rows, handlers, jobs and snapshots.                                     *)

\* SetRow changes one row and keeps the others.
LEMMA SetRowIs ==
  ASSUME NEW k, NEW row, SetRow(k, row)
  PROVE  /\ DOMAIN exports' = DOMAIN exports \cup {k} /\ exports'[k] = row
         /\ \A c \in DOMAIN exports \ {k} : exports'[c] = exports[c]
  BY DEF SetRow

\* An UPDATE of a row that exists.
LEMMA UpdatedRowIs ==
  ASSUME NEW k, k \in DOMAIN exports, NEW row, SetRow(k, row)
  PROVE  /\ DOMAIN exports' = DOMAIN exports /\ exports'[k] = row
         /\ \A c \in DOMAIN exports \ {k} : exports'[c] = exports[c]
<1>1. DOMAIN exports \cup {k} = DOMAIN exports
  OBVIOUS
<1> QED BY <1>1, SetRowIs

\* Goto moves one handler and keeps what it knows.
LEMMA GotoIs ==
  ASSUME NEW j \in JobIds, NEW a \in AttemptNumbers, NEW pc \in Places, TypeOK, Goto(j, a, pc)
  PROVE  \E h \in Handlers : /\ h.pc = pc /\ h.phase = handler[j][a].phase
                             /\ h.complete = handler[j][a].complete
                             /\ h.sha256 = handler[j][a].sha256
                             /\ handler' = [handler EXCEPT ![j][a] = h]
<1> DEFINE h == [handler[j][a] EXCEPT !.pc = pc]
<1>1. handler[j][a] \in Handlers
  BY DEF TypeOK
<1>2. /\ h \in Handlers /\ h.pc = pc /\ h.phase = handler[j][a].phase
      /\ h.complete = handler[j][a].complete /\ h.sha256 = handler[j][a].sha256
  BY <1>1 DEF Handlers
<1>3. handler' = [handler EXCEPT ![j][a] = h]
  BY DEF Goto
<1> HIDE DEF h
<1> QED BY <1>2, <1>3

\* What a step of the queue may do to the jobs that exist.
JobsMoved ==
  /\ jobs' \in [JobIds -> JobRows]
  /\ \A j \in JobIds : /\ jobs'[j].status = "NONE" <=> jobs[j].status = "NONE"
                       /\ jobs'[j].input = jobs[j].input
                       /\ jobs[j].attempts <= jobs'[j].attempts
                       /\ jobs[j].status = "NONE" => jobs'[j].attempts = jobs[j].attempts

\* Jobs that stay as they are.
LEMMA JobsSame ==
  ASSUME TypeOK, UNCHANGED jobs
  PROVE  JobsMoved
  BY DEF TypeOK, JobsMoved, JobRows

\* A job row that gets another status.
LEMMA StatusSet ==
  ASSUME TypeOK, NEW j \in JobIds, jobs[j].status # "NONE",
         NEW status \in JobQueueStatuses \ {"NONE"}, jobs' = [jobs EXCEPT ![j].status = status]
  PROVE  JobsMoved
<1> DEFINE row == [jobs[j] EXCEPT !.status = status]
<1>1. jobs \in [JobIds -> JobRows] /\ jobs[j] \in JobRows
  BY DEF TypeOK
<1>2. row \in JobRows /\ row.status = status /\ row.input = jobs[j].input
      /\ row.attempts = jobs[j].attempts
  BY <1>1 DEF JobRows
<1>3. jobs' = [jobs EXCEPT ![j] = row]
  OBVIOUS
<1> HIDE DEF row
<1>4. jobs' \in [JobIds -> JobRows] /\ jobs'[j] = row /\ \A i \in JobIds \ {j} : jobs'[i] = jobs[i]
  BY <1>1, <1>2, <1>3
<1>5. \A i \in JobIds : jobs[i].attempts \in Nat
  BY <1>1 DEF JobRows
<1> QED BY <1>2, <1>4, <1>5 DEF JobsMoved

\* Every step of the queue but a submission and the start of an attempt.
LEMMA QueueStep ==
  ASSUME TypeOK, NEW j \in JobIds,
         \/ LeaseExpires(j) \/ releaseJobLease(j)
         \/ requestJobCancellation(j) \/ manualRetryJob(j)
         \/ \E a \in AttemptNumbers, outcome \in Outcomes : jobs[j].status # "NONE" /\ Settle(j, a, outcome)
  PROVE  JobsMoved
<1>0. AttemptOver(j) \in {"FAILED", "QUEUED"} /\ Cancelled(j) \in {"CANCELLED", "CANCELLATION_REQUESTED"}
  BY DEF AttemptOver, Cancelled
<1>1. CASE LeaseExpires(j) \/ releaseJobLease(j)
  BY <1>0, <1>1, StatusSet DEF LeaseExpires, releaseJobLease, JobQueueStatuses
<1>2. CASE requestJobCancellation(j)
  BY <1>0, <1>2, StatusSet DEF requestJobCancellation, JobQueueStatuses
<1>3. CASE manualRetryJob(j)
  <2> DEFINE more == jobs[j].attempts + 1
             row == [jobs[j] EXCEPT !.status = "QUEUED", !.max = more]
  <2>1. jobs \in [JobIds -> JobRows] /\ jobs[j] \in JobRows /\ jobs[j].status = "FAILED"
    BY <1>3 DEF TypeOK, manualRetryJob
  <2>2. more \in 0..AttemptCap
    BY <1>3, <2>1 DEF JobRows, manualRetryJob
  <2>3. jobs' = [jobs EXCEPT ![j] = row]
    BY <1>3 DEF manualRetryJob
  <2> HIDE DEF more
  <2>4. row \in JobRows /\ row.status = "QUEUED" /\ row.input = jobs[j].input
        /\ row.attempts = jobs[j].attempts
    BY <2>1, <2>2 DEF JobRows, JobQueueStatuses
  <2> HIDE DEF row
  <2>5. jobs' \in [JobIds -> JobRows] /\ jobs'[j] = row /\ \A i \in JobIds \ {j} : jobs'[i] = jobs[i]
    BY <2>1, <2>3, <2>4
  <2>6. \A i \in JobIds : jobs[i].attempts \in Nat
    BY <2>1 DEF JobRows
  <2> QED BY <2>1, <2>4, <2>5, <2>6 DEF JobsMoved
<1>4. ASSUME NEW a \in AttemptNumbers, NEW outcome \in Outcomes, jobs[j].status # "NONE",
             Settle(j, a, outcome)
      PROVE  JobsMoved
  <2> DEFINE status == CASE outcome = "returned" -> "SUCCEEDED"
                         [] outcome = "failFatal" -> "FAILED"
                         [] outcome = "failRetryable" -> AttemptOver(j)
  <2>1. status \in JobQueueStatuses \ {"NONE"}
    BY <1>0 DEF Outcomes, JobQueueStatuses
  <2>2. \/ jobs' = jobs \/ jobs' = [jobs EXCEPT ![j].status = "CANCELLED"]
        \/ jobs' = [jobs EXCEPT ![j].status = status]
    BY <1>4 DEF Settle
  <2> HIDE DEF status
  <2> QED BY <1>4, <2>1, <2>2, JobsSame, StatusSet DEF JobQueueStatuses
<1> QED BY <1>1, <1>2, <1>3, <1>4

\* Snapshots that were taken stay in the past, and one that no longer matches the
\* project never matches again: an approval, once withdrawn, needs a new revision.
LEMMA SnapshotsAge ==
  ASSUME ReviewTypeOK, ReviewTypeOK', ProjectMoved, NEW k \in Inputs, Past(k.snapshot)
  PROVE  Past(k.snapshot)' /\ (~Unchanged(k) => ~Unchanged(k)')
<1> DEFINE s == k.snapshot
<1>1. /\ s \in Snapshots /\ s.revision \in Nat /\ s.commits \in Nat /\ s.approval \in Approvals
      /\ s = [approval |-> s.approval, qa |-> s.qa, revision |-> s.revision, commits |-> s.commits]
  BY DEF Inputs, Snapshots
<1>2. /\ project.revision \in Nat /\ project.commits \in Nat /\ project.approval \in Approvals
      /\ project'.revision \in Nat /\ project'.commits \in Nat /\ project'.approval \in Approvals
  BY DEF ReviewTypeOK, Projects
<1>3. /\ Rank(s.approval) \in Nat /\ Rank(project.approval) \in Nat /\ Rank(project'.approval) \in Nat
  BY <1>1, <1>2, Ranks
<1>4. /\ s.revision <= project.revision /\ s.commits <= project.commits
      /\ s.revision = project.revision =>
           s.qa = project.qa /\ Rank(s.approval) <= Rank(project.approval)
  BY DEF Past
<1>5. /\ project.revision <= project'.revision /\ project.commits <= project'.commits
      /\ project'.revision = project.revision =>
           project'.qa = project.qa /\ Rank(project.approval) <= Rank(project'.approval)
      /\ project'.exists => project.exists
  BY DEF ProjectMoved
<1> HIDE DEF s
<1>6. /\ s.revision <= project'.revision /\ s.commits <= project'.commits
      /\ s.revision = project'.revision =>
           s.qa = project'.qa /\ Rank(s.approval) <= Rank(project'.approval)
  BY <1>1, <1>2, <1>3, <1>4, <1>5
<1>7. ASSUME project'.exists, s = Snapshot' PROVE project.exists /\ s = Snapshot
  <2>1. /\ s.revision = project'.revision /\ s.commits = project'.commits
        /\ s.approval = project'.approval /\ s.qa = project'.qa
    BY <1>7 DEF Snapshot
  <2>2. s.revision = project.revision /\ s.commits = project.commits
    BY <1>1, <1>2, <1>4, <1>5, <2>1
  <2>3. s.qa = project.qa /\ Rank(s.approval) = Rank(project.approval)
    BY <1>3, <1>4, <1>5, <2>1, <2>2
  <2>4. s.approval = project.approval
    BY <1>1, <1>2, <2>3 DEF Approvals, Rank
  <2> QED BY <1>1, <1>5, <1>7, <2>2, <2>3, <2>4 DEF Snapshot
<1> QED BY <1>6, <1>7 DEF Past, Unchanged, s

-----------------------------------------------------------------------------
(* What the other attempts rely on survives a step.                        *)

Holds(h) == h.pc \in Persisting \/ (h.pc \in {"lookup", "read", "missing"} /\ h.phase # "fast")

\* What a step of anyone who does not hold the lock of k leaves of its row: a whole
\* object stays whole, is lost, or is being erased; what is erased stays erased.
RowKept(k) ==
  /\ exports'[k].sha256 = exports[k].sha256
  /\ exports[k].bytes # NoBytes =>
       exports'[k].bytes = exports[k].bytes \/ k \in lost' \/ ~RowFree(k)'
  /\ project'.exists /\ exports[k].retention = "ACTIVE" => exports'[k].retention = "ACTIVE"
  /\ exports[k].retention = "DELETED" => exports'[k].retention = "DELETED"
  /\ ~RowFree(k) => ~RowFree(k)' \/ exports'[k].retention = "DELETED" \/ k \in lost'

\* HoldsLock is about the handler only.
LEMMA HoldsIs ==
  \A j \in JobIds, a \in AttemptNumbers : HoldsLock(j, a) <=> Holds(handler[j][a])
  BY DEF HoldsLock, Holds, Pc

\* No attempt's bytes are the absence of bytes.
LEMMA NoBytesIs ==
  NoBytes \notin AttemptNames /\ \A j \in JobIds, a \in AttemptNumbers : <<j, a>> \in AttemptNames
  BY DEF NoBytes, AttemptNames, AttemptNumbers

\* An attempt that stands still still fits after a step of another.
LEMMA FitsKept ==
  ASSUME ReviewTypeOK, ReviewTypeOK', ProjectMoved, ErasedOK',
         NEW j \in JobIds, NEW a \in AttemptNumbers, NEW h \in Handlers, NEW k \in Inputs,
         Past(k.snapshot), Fits(j, a, h, k),
         jobs[j].attempts \in Nat, jobs'[j].attempts \in Nat, jobs[j].attempts <= jobs'[j].attempts,
         k \in DOMAIN exports => k \in DOMAIN exports' /\ exports[k] \in Rows,
         k \in lost => k \in lost', k \in unanswered => k \in unanswered',
         k \in current /\ k \notin current' => k \in Excepted' \/ ~Unchanged(k)',
         k \in current /\ k \in current' => exports'[k].sha256 = exports[k].sha256,
         k \in current' /\ k \notin current => Unchanged(k) /\ ~Holds(h),
         Holds(h) /\ k \in DOMAIN exports => RowKept(k)
  PROVE  Fits(j, a, h, k)'
<1>1. ~Unchanged(k) => ~Unchanged(k)'
  BY SnapshotsAge
<1>0. k \in Excepted => k \in Excepted'
  BY DEF Excepted
<1>2. a \in Nat
  BY DEF AttemptNumbers
<1>3. (a > jobs[j].attempts => h.pc = "none")'
  BY <1>2 DEF Fits
<1>4. h.pc \in {"load", "lock"} => h.phase = "fast"
  BY DEF Fits
<1>5. h.pc \in {"read", "missing", "recover", "put", "finalise", "failed", "late"} =>
        k \in DOMAIN exports /\ k \in DOMAIN exports'
  BY DEF Fits
<1>6. h.pc \in {"read", "missing"} /\ h.phase = "fast" =>
        k \in Excepted' \/ k \in current' \/ ~Unchanged(k)'
  BY <1>0, <1>1 DEF Fits
<1>7. h.pc = "missing" => k \in Excepted' \/ k \notin current'
  <2>1. CASE h.phase = "fast"
    BY <1>0, <2>1 DEF Fits
  <2>2. CASE h.phase # "fast"
    BY <1>0, <2>2 DEF Fits, Holds
  <2> QED BY <2>1, <2>2
<1>13. h.pc = "read" =>
         \/ exports'[k].sha256 = h.sha256
         \/ h.phase = "fast" /\ (k \in Excepted' \/ k \notin current')
  <2>1. CASE h.phase = "fast"
    BY <1>0, <2>1 DEF Fits
  <2>2. CASE h.pc = "read" /\ h.phase # "fast"
    <3>1. Holds(h) /\ exports[k].sha256 = h.sha256
      BY <2>2 DEF Fits, Holds
    <3> QED BY <1>5, <2>2, <3>1 DEF RowKept
  <2> QED BY <2>1, <2>2
<1>8. h.pc \in {"recover", "put", "finalise", "failed"} => Holds(h) /\ k \in DOMAIN exports
  BY <1>5 DEF Holds, Persisting
<1>9. h.pc = "recover" =>
        (k \in lost \/ ~RowFree(k) \/ exports[k].retention = "DELETED" \/ exports[k].bytes = exports[k].sha256)'
  <2> SUFFICES ASSUME h.pc = "recover"
               PROVE  \/ k \in lost' \/ ~RowFree(k)' \/ exports'[k].retention = "DELETED"
                      \/ exports'[k].bytes = exports'[k].sha256
    OBVIOUS
  <2>1. RowKept(k) /\ exports[k] \in Rows
    BY <1>8
  <2>2. exports[k].sha256 # NoBytes
    BY <2>1, NoBytesIs DEF Rows
  <2>3. k \in lost \/ ~RowFree(k) \/ exports[k].retention = "DELETED" \/ exports[k].bytes = exports[k].sha256
    BY DEF Fits
  <2> QED BY <2>1, <2>2, <2>3 DEF RowKept
<1>10. /\ h.pc \in {"put", "finalise"} => k \notin current'
       /\ h.pc = "failed" => k \in unanswered' \/ k \notin current'
  BY <1>8 DEF Fits
<1>11. h.pc \in {"put", "finalise"} =>
         exports'[k].sha256 = <<j, a>> /\ (project'.exists => exports'[k].retention = "ACTIVE")
  BY <1>8 DEF Fits, RowKept, ProjectMoved
<1>12. h.pc = "finalise" /\ project'.exists => k \in lost' \/ exports'[k].bytes = <<j, a>>
  <2> SUFFICES ASSUME h.pc = "finalise", project'.exists
               PROVE  k \in lost' \/ exports'[k].bytes = <<j, a>>
    OBVIOUS
  <2>1. RowKept(k) /\ project.exists /\ (k \in lost \/ exports[k].bytes = <<j, a>>)
    BY <1>8 DEF Fits, ProjectMoved
  <2>2. exports'[k].retention = "ACTIVE"
    BY <1>11
  <2>3. RowFree(k)'
    BY <2>2 DEF RowFree, ErasedOK
  <2> QED BY <2>1, <2>3, NoBytesIs DEF RowKept
<1> QED BY <1>3, <1>4, <1>5, <1>6, <1>7, <1>9, <1>10, <1>11, <1>12, <1>13 DEF Fits

-----------------------------------------------------------------------------
(* A step of one handler.                                                  *)

\* The row of k, if it changes, is one of this project still.
RowMoved(k) ==
  /\ DOMAIN exports \subseteq DOMAIN exports' /\ DOMAIN exports' \subseteq DOMAIN exports \cup {k}
  /\ \A c \in DOMAIN exports \ {k} : exports'[c] = exports[c]
  /\ k \in DOMAIN exports' =>
       /\ exports'[k] \in Rows
       /\ ~project.exists => exports'[k].retention \in {"PENDING_DELETE", "DELETED"}
       /\ ~RowFree(k) => exports'[k].leased /\ exports'[k].retention = "PENDING_DELETE"

\* The current exports change for k only, or k takes the place of its format.
CurrentMoved(k) ==
  /\ \/ current' = current
     \/ current' = current \ {k} /\ (k \in current => k \in Excepted)
     \/ MakeCurrent(k) /\ Unchanged(k)
  /\ k \in current /\ k \in current' => exports'[k].sha256 = exports[k].sha256
  /\ k \in current' =>
       /\ k \in DOMAIN exports' /\ exports'[k].status = "AVAILABLE"
       /\ exports'[k].retention = "ACTIVE"
       /\ k \in lost \/ exports'[k].bytes = exports'[k].sha256

\* Attempt a of job j, with the key k, takes a step that leaves the handler h.  It
\* touches the row of k under the lock, or as one who does not hold it may.
HandlerMove(j, a, h, k) ==
  /\ k = Key(j) /\ handler[j][a].pc # "none"
  /\ handler' = [handler EXCEPT ![j][a] = h]
  /\ UNCHANGED <<project, plans, gates, findings, planner, cleanup, lost>>
  /\ unanswered \subseteq unanswered'
  /\ JobsMoved /\ RowMoved(k) /\ CurrentMoved(k)
  /\ Holds(h) => HoldsLock(j, a) \/ LockFree(k)
  /\ HoldsLock(j, a) \/ (current' \subseteq current /\ (k \in DOMAIN exports => RowKept(k)))
  /\ Fits(j, a, h, k)'

\* The parts of the invariant, as they are used below.
LEMMA InvParts ==
  ASSUME ExportsInv
  PROVE  /\ TypeOK /\ ReviewTypeOK /\ ApprovalCoversEdits /\ KeysOK /\ LockOK /\ ErasedOK
         /\ DeletedOK /\ AttemptsOK /\ CurrentExports /\ DeliveredPackage
  BY DEF ExportsInv, TypeOK

\* An attempt that was made has a job with a key.
LEMMA AttemptHasKey ==
  ASSUME ExportsInv, NEW j \in JobIds, NEW a \in AttemptNumbers, handler[j][a].pc # "none"
  PROVE  /\ jobs[j].status # "NONE" /\ KeyOK(Key(j)) /\ Key(j) \in Inputs /\ Past(Key(j).snapshot)
         /\ handler[j][a] \in Handlers /\ Fits(j, a, handler[j][a], Key(j))
<1>1. Fits(j, a, handler[j][a], Key(j)) /\ handler[j][a] \in Handlers
  BY InvParts DEF AttemptsOK, TypeOK
<1>2. ~(a > jobs[j].attempts)
  BY <1>1 DEF Fits
<1>3. jobs[j].attempts # 0
  BY <1>2 DEF AttemptNumbers
<1>4. jobs[j].status # "NONE" /\ KeyOK(Key(j))
  BY <1>3, InvParts DEF KeysOK
<1> QED BY <1>1, <1>4 DEF KeyOK

\* A project that stays as it is.
LEMMA ProjectStays ==
  ASSUME ReviewTypeOK, ApprovalCoversEdits, UNCHANGED <<project, plans, gates, findings, planner>>
  PROVE  /\ ReviewTypeOK' /\ ApprovalCoversEdits' /\ ProjectMoved
<1>1. ReviewTypeOK' /\ ApprovalCoversEdits'
  BY DEF ReviewTypeOK, ApprovalCoversEdits, Asked
<1>2. Rank(project.approval) \in Nat
  BY Ranks DEF ReviewTypeOK, Projects
<1>3. ProjectMoved
  BY <1>2 DEF ProjectMoved, ReviewTypeOK, Projects
<1> QED BY <1>1, <1>3

\* Keys, types and the lock after a step of a handler.
LEMMA HandlerMoveTypes ==
  ASSUME ExportsInv, NEW j \in JobIds, NEW a \in AttemptNumbers, NEW h \in Handlers, NEW k,
         HandlerMove(j, a, h, k)
  PROVE  TypeOK' /\ ApprovalCoversEdits' /\ KeysOK' /\ LockOK' /\ ErasedOK' /\ DeletedOK'
<1>1. /\ k = Key(j) /\ JobsMoved /\ RowMoved(k) /\ CurrentMoved(k) /\ handler[j][a].pc # "none"
      /\ UNCHANGED <<project, plans, gates, findings, planner, cleanup, lost>>
      /\ handler' = [handler EXCEPT ![j][a] = h]
      /\ Holds(h) => HoldsLock(j, a) \/ LockFree(k)
  BY DEF HandlerMove
<1>2. /\ TypeOK /\ ReviewTypeOK /\ ApprovalCoversEdits /\ KeysOK /\ LockOK /\ ErasedOK /\ DeletedOK
  BY InvParts
<1>3. KeyOK(k) /\ jobs[j].status # "NONE"
  BY <1>1, AttemptHasKey
<1>4. /\ ReviewTypeOK' /\ ApprovalCoversEdits' /\ \A c : KeyOK(c)' <=> KeyOK(c)
  <2>1. ReviewTypeOK' /\ ApprovalCoversEdits'
    BY <1>1, <1>2, ProjectStays
  <2>2. \A c : KeyOK(c)' <=> KeyOK(c)
    BY <1>1 DEF KeyOK, Past
  <2> QED BY <2>1, <2>2
<1>5. /\ handler' \in [JobIds -> [AttemptNumbers -> Handlers]] /\ handler'[j][a] = h
      /\ \A i \in JobIds, b \in AttemptNumbers : i # j \/ b # a => handler'[i][b] = handler[i][b]
  BY <1>1, <1>2 DEF TypeOK
<1>6. current' \subseteq DOMAIN exports'
  BY <1>1, <1>2 DEF CurrentMoved, RowMoved, MakeCurrent, TypeOK
<1>7. \A c \in DOMAIN exports' : exports'[c] \in Rows
  BY <1>1, <1>2 DEF RowMoved, TypeOK
<1>8. /\ cleanup'.pc \in {"idle", "delete", "erased"}
      /\ cleanup'.pc # "idle" => cleanup'.key \in DOMAIN exports'
  BY <1>1, <1>2 DEF TypeOK, RowMoved
<1>9. jobs' \in [JobIds -> JobRows]
  BY <1>1 DEF JobsMoved
<1>10. TypeOK'
  BY <1>4, <1>5, <1>6, <1>7, <1>8, <1>9 DEF TypeOK
<1>11. KeysOK'
  <2>1. ASSUME NEW i \in JobIds
        PROVE  (IF jobs[i].status = "NONE" THEN jobs[i].attempts = 0 ELSE KeyOK(Key(i)))'
    <3>1. /\ jobs'[i].status = "NONE" <=> jobs[i].status = "NONE"
          /\ jobs'[i].input = jobs[i].input
          /\ jobs[i].status = "NONE" => jobs'[i].attempts = jobs[i].attempts
      BY <1>1 DEF JobsMoved
    <3>2. IF jobs[i].status = "NONE" THEN jobs[i].attempts = 0 ELSE KeyOK(Key(i))
      BY <1>2 DEF KeysOK
    <3>3. CASE jobs[i].status = "NONE"
      BY <3>1, <3>2, <3>3
    <3>4. CASE jobs[i].status # "NONE"
      BY <1>1, <3>1, <3>2, <3>4 DEF KeyOK, Past, Key
    <3> QED BY <3>3, <3>4
  <2>2. \A c \in DOMAIN exports' : KeyOK(c)'
    BY <1>1, <1>2, <1>3, <1>4 DEF RowMoved, KeysOK
  <2> QED BY <2>1, <2>2 DEF KeysOK
<1>12. LockOK'
  <2> SUFFICES ASSUME NEW i \in JobIds, NEW l \in JobIds, NEW b \in AttemptNumbers,
                      NEW c \in AttemptNumbers, Holds(handler'[l][c]), Holds(handler'[i][b]),
                      jobs'[l].input = jobs'[i].input
               PROVE  i = l /\ b = c
    BY HoldsIs DEF LockOK, Key, HoldsLock, Holds, Pc
  <2>1. jobs[l].input = jobs[i].input
    BY <1>1 DEF JobsMoved
  <2>2. ASSUME NEW x \in JobIds, NEW y \in AttemptNumbers, x # j \/ y # a, Holds(h),
               Holds(handler[x][y]), jobs[x].input = jobs[j].input
        PROVE  FALSE
    <3>1. HoldsLock(x, y)
      BY <2>2, HoldsIs
    <3>2. ~LockFree(k)
      BY <1>1, <2>2, <3>1 DEF LockFree, Key
    <3>3. HoldsLock(j, a)
      BY <1>1, <2>2, <3>2
    <3> QED BY <1>2, <2>2, <3>1, <3>3 DEF LockOK, Key
  <2>3. CASE (i # j \/ b # a) /\ (l # j \/ c # a)
    <3>1. HoldsLock(i, b) /\ HoldsLock(l, c)
      BY <1>5, <2>3, HoldsIs
    <3> QED BY <1>2, <2>1, <3>1 DEF LockOK, Key
  <2>4. CASE (i # j \/ b # a) /\ l = j /\ c = a
    BY <1>5, <2>1, <2>2, <2>4
  <2>5. CASE i = j /\ b = a /\ (l # j \/ c # a)
    BY <1>5, <2>1, <2>2, <2>5
  <2> QED BY <2>3, <2>4, <2>5
<1>13. ErasedOK'
  BY <1>1, <1>2 DEF ErasedOK, RowMoved, RowFree, TypeOK
<1>14. DeletedOK'
  BY <1>1, <1>2 DEF DeletedOK, RowMoved
<1> QED BY <1>4, <1>10, <1>11, <1>12, <1>13, <1>14

\* The attempts, and what exports promise, after a step of a handler.
LEMMA HandlerMoveRows ==
  ASSUME ExportsInv, NEW j \in JobIds, NEW a \in AttemptNumbers, NEW h \in Handlers, NEW k,
         HandlerMove(j, a, h, k)
  PROVE  AttemptsOK' /\ CurrentExports' /\ DeliveredPackage'
<1>1. /\ k = Key(j) /\ JobsMoved /\ RowMoved(k) /\ CurrentMoved(k) /\ handler[j][a].pc # "none"
      /\ UNCHANGED <<project, plans, gates, findings, planner, cleanup, lost>>
      /\ handler' = [handler EXCEPT ![j][a] = h] /\ Fits(j, a, h, k)'
      /\ unanswered \subseteq unanswered'
      /\ HoldsLock(j, a) \/ (current' \subseteq current /\ (k \in DOMAIN exports => RowKept(k)))
  BY DEF HandlerMove
<1>2. /\ TypeOK /\ ReviewTypeOK /\ ApprovalCoversEdits /\ KeysOK /\ LockOK /\ ErasedOK
      /\ AttemptsOK /\ CurrentExports /\ DeliveredPackage
  BY InvParts
<1>3. KeyOK(k) /\ k \in Inputs
  BY <1>1, AttemptHasKey
<1>4. /\ ReviewTypeOK' /\ ProjectMoved /\ ErasedOK'
  BY <1>1, <1>2, ProjectStays, HandlerMoveTypes
<1>5. /\ handler'[j][a] = h
      /\ \A i \in JobIds, b \in AttemptNumbers : i # j \/ b # a => handler'[i][b] = handler[i][b]
  BY <1>1, <1>2 DEF TypeOK
<1>6. \A c \in current \ current' : c \in Excepted \/ (c.format = k.format /\ c # k /\ k \in current' /\ Unchanged(k))
  BY <1>1 DEF CurrentMoved, MakeCurrent
<1>7. \A c \in current' \ current : c = k /\ Unchanged(k) /\ HoldsLock(j, a)
  BY <1>1 DEF CurrentMoved, MakeCurrent
<1>8. \A c : Unchanged(c)' <=> Unchanged(c)
  BY <1>1 DEF Unchanged, Snapshot
<1>9. \A c \in current \ current' : c \in Excepted \/ ~Unchanged(c)
  <2> SUFFICES ASSUME NEW c \in current \ current', c.format = k.format, c # k, Unchanged(k), Unchanged(c)
               PROVE  FALSE
    BY <1>6
  <2>1. c.snapshot = k.snapshot
    BY DEF Unchanged
  <2>2. c \in Inputs
    BY <1>2 DEF TypeOK, KeysOK, KeyOK
  <2> QED BY <1>3, <2>1, <2>2 DEF Inputs
<1>10. ASSUME NEW i \in JobIds, NEW b \in AttemptNumbers, i # j \/ b # a
       PROVE  Fits(i, b, handler[i][b], Key(i))'
  <2>1. PICK g : g = handler[i][b]
    OBVIOUS
  <2>2. PICK c : c = Key(i)
    OBVIOUS
  <2>3. handler'[i][b] = g /\ Key(i)' = c /\ g \in Handlers
    BY <1>1, <1>2, <1>5, <1>10, <2>1, <2>2 DEF JobsMoved, Key, TypeOK
  <2>4. CASE g.pc = "none"
    <3>1. Fits(i, b, g, c)'
      BY <2>4 DEF Fits
    <3> QED BY <2>3, <3>1 DEF Fits, Key
  <2>5. CASE g.pc # "none"
    <3>1. c \in Inputs /\ Past(c.snapshot) /\ Fits(i, b, g, c)
      BY <2>1, <2>2, <2>5, AttemptHasKey
    <3>2. /\ jobs[i].attempts \in Nat /\ jobs'[i].attempts \in Nat
          /\ jobs[i].attempts <= jobs'[i].attempts
      BY <1>1, <1>2 DEF TypeOK, JobsMoved, JobRows
    <3>3. c \in DOMAIN exports => c \in DOMAIN exports' /\ exports[c] \in Rows
      BY <1>1, <1>2 DEF RowMoved, TypeOK
    <3>4. Holds(g) /\ c = k => ~HoldsLock(j, a)
      BY <1>1, <1>2, <1>10, <2>1, <2>2, HoldsIs DEF LockOK
    <3>5. Holds(g) /\ c \in DOMAIN exports => RowKept(c)
      <4>1. CASE c = k
        BY <1>1, <3>4, <4>1
      <4>2. CASE c # k /\ c \in DOMAIN exports
        <5>1. exports'[c] = exports[c]
          BY <1>1, <4>2 DEF RowMoved
        <5> QED BY <1>1, <5>1 DEF RowKept, RowFree
      <4> QED BY <4>1, <4>2
    <3>6. c \in current' /\ c \notin current => Unchanged(c) /\ ~Holds(g)
      BY <1>7, <3>4
    <3>7. c \in current /\ c \notin current' => c \in Excepted' \/ ~Unchanged(c)'
      BY <1>1, <1>8, <1>9 DEF Excepted
    <3>8. /\ c \in lost => c \in lost'
          /\ c \in unanswered => c \in unanswered'
      BY <1>1
    <3>10. c \in current /\ c \in current' => exports'[c].sha256 = exports[c].sha256
      <4>1. CASE c = k
        BY <1>1, <4>1 DEF CurrentMoved
      <4>2. CASE c # k
        BY <1>1, <1>2, <4>2 DEF RowMoved, TypeOK
      <4> QED BY <4>1, <4>2
    <3>9. Fits(i, b, g, c)'
      BY <1>2, <1>4, <2>3, <3>1, <3>2, <3>3, <3>5, <3>6, <3>7, <3>8, <3>10, FitsKept
    <3> QED BY <2>3, <3>9 DEF Fits, Key
  <2> QED BY <2>4, <2>5
<1>11. Fits(j, a, handler[j][a], Key(j))'
  <2>1. handler'[j][a] = h /\ Key(j)' = k
    BY <1>1, <1>5 DEF JobsMoved, Key
  <2> QED BY <1>1, <2>1 DEF Fits, Key
<1>12. AttemptsOK'
  BY <1>10, <1>11 DEF AttemptsOK
<1>13. CurrentExports'
  <2> SUFFICES ASSUME NEW c \in current'
               PROVE  /\ exports'[c].status = "AVAILABLE" /\ exports'[c].retention = "ACTIVE"
                      /\ c \in lost' \/ exports'[c].bytes = exports'[c].sha256
                      /\ c.snapshot.revision = project'.revision
                      /\ c.format = "ZIP" => c.snapshot.approval = "APPROVED"
                      /\ \A d \in current' : d.format = c.format => d = c
    BY DEF CurrentExports
  <2>1. \A d \in current' : d \in current \/ (d = k /\ MakeCurrent(k) /\ Unchanged(k))
    BY <1>1 DEF CurrentMoved, MakeCurrent
  <2>2. c.snapshot.revision = project'.revision
    BY <1>1, <1>2, <2>1 DEF CurrentExports, Unchanged, Snapshot
  <2>3. c.format = "ZIP" => c.snapshot.approval = "APPROVED"
    BY <1>2, <1>3, <2>1 DEF CurrentExports, KeyOK
  <2>4. \A d \in current' : d.format = c.format => d = c
    BY <1>1, <1>2 DEF CurrentMoved, MakeCurrent, CurrentExports
  <2>5. CASE c = k
    BY <1>1, <2>2, <2>3, <2>4, <2>5 DEF CurrentMoved
  <2>6. CASE c # k
    <3>1. c \in current /\ c \in DOMAIN exports
      BY <1>2, <2>1, <2>6 DEF TypeOK
    <3>2. exports'[c] = exports[c] /\ lost' = lost
      BY <1>1, <2>6, <3>1 DEF RowMoved
    <3> QED BY <1>2, <2>2, <2>3, <2>4, <3>1, <3>2 DEF CurrentExports
  <2> QED BY <2>5, <2>6
<1>14. DeliveredPackage'
  <2> SUFFICES ASSUME project.exists, project.status = "DELIVERED"
               PROVE  \E c \in current' \cup lost' \cup unanswered' :
                        c.format = "ZIP" /\ c.snapshot.revision = project'.revision
    BY <1>1 DEF DeliveredPackage
  <2>1. PICK c \in current \cup lost \cup unanswered : c.format = "ZIP" /\ c.snapshot.revision = project.revision
    BY <1>2 DEF DeliveredPackage
  <2>2. CASE c \in current' \cup lost' \cup unanswered'
    BY <1>1, <2>1, <2>2
  <2>3. CASE c \notin current' \cup lost' \cup unanswered'
    <3>1. c \in current \ current' /\ c \notin Excepted
      BY <1>1, <2>1, <2>3 DEF Excepted
    <3>2. c.format = k.format /\ k \in current' /\ Unchanged(k)
      BY <1>6, <3>1
    <3> QED BY <1>1, <2>1, <3>2 DEF Unchanged, Snapshot
  <2> QED BY <2>2, <2>3
<1> QED BY <1>12, <1>13, <1>14

\* A step of a handler keeps the invariant.
LEMMA HandlerMoves ==
  ASSUME ExportsInv, NEW j \in JobIds, NEW a \in AttemptNumbers, NEW h \in Handlers, NEW k,
         HandlerMove(j, a, h, k)
  PROVE  ExportsInv'
  BY HandlerMoveTypes, HandlerMoveRows DEF ExportsInv

\* A handler that moves on and touches no row: only its own place is at stake.
LEMMA QuietMove ==
  ASSUME ExportsInv, NEW j \in JobIds, NEW a \in AttemptNumbers, NEW h \in Handlers, NEW k,
         k = Key(j), handler[j][a].pc # "none", handler' = [handler EXCEPT ![j][a] = h],
         UNCHANGED <<reviewVars, storageVars>>, JobsMoved,
         Holds(h) => HoldsLock(j, a) \/ LockFree(k),
         h.pc \in {"load", "lock"} => h.phase = "fast",
         h.pc \in {"read", "missing", "recover", "put", "finalise", "failed", "late"} =>
           k \in DOMAIN exports,
         h.pc \in {"read", "missing"} /\ h.phase = "fast" =>
           k \in Excepted \/ k \in current \/ ~Unchanged(k),
         h.pc = "read" =>
           \/ exports[k].sha256 = h.sha256
           \/ h.phase = "fast" /\ (k \in Excepted \/ k \notin current),
         h.pc = "missing" => k \in Excepted \/ k \notin current,
         h.pc = "recover" => exports[k].bytes = exports[k].sha256,
         h.pc \in {"put", "finalise"} => h.pc = handler[j][a].pc,
         h.pc = "failed" => k \in unanswered \/ k \notin current
  PROVE  ExportsInv'
<1>1. /\ KeyOK(k) /\ k \in Inputs /\ Fits(j, a, handler[j][a], k)
  BY AttemptHasKey
<1>2. /\ UNCHANGED <<project, plans, gates, findings, planner, cleanup, lost, unanswered>>
      /\ exports' = exports /\ current' = current
  BY DEF reviewVars, storageVars, history
<1>3. /\ TypeOK /\ DeletedOK /\ ErasedOK /\ CurrentExports
  BY InvParts
<1>4. RowMoved(k)
  BY <1>2, <1>3 DEF RowMoved, TypeOK, DeletedOK, ErasedOK, RowFree
<1>5. CurrentMoved(k)
  BY <1>2, <1>3 DEF CurrentMoved, CurrentExports, TypeOK
<1>6. current' \subseteq current /\ (k \in DOMAIN exports => RowKept(k))
  BY <1>2 DEF RowKept, RowFree
<1>7. Unchanged(k)' <=> Unchanged(k)
  BY <1>2 DEF Unchanged, Snapshot
<1>8. a > jobs'[j].attempts => h.pc = "none"
  <2>1. ~(a > jobs[j].attempts)
    BY <1>1 DEF Fits
  <2>2. jobs[j].attempts \in Nat /\ jobs'[j].attempts \in Nat /\ jobs[j].attempts <= jobs'[j].attempts
    BY <1>3 DEF TypeOK, JobsMoved, JobRows
  <2> QED BY <2>1, <2>2 DEF AttemptNumbers
<1>9. h.pc \in {"put", "finalise"} =>
        /\ k \notin current /\ exports[k].sha256 = <<j, a>>
        /\ project.exists => exports[k].retention = "ACTIVE"
        /\ h.pc = "finalise" /\ project.exists => k \in lost \/ exports[k].bytes = <<j, a>>
  BY <1>1 DEF Fits
<1>10. /\ h.pc = "failed" => k \in unanswered' \/ k \notin current'
       /\ h.pc \in {"put", "finalise"} =>
            k \notin current' /\ exports'[k].sha256 = <<j, a>> /\ (project'.exists => exports'[k].retention = "ACTIVE")
       /\ h.pc = "finalise" /\ project'.exists => k \in lost' \/ exports'[k].bytes = <<j, a>>
  BY <1>2, <1>9
<1>11. h.pc = "recover" =>
         (k \in lost \/ ~RowFree(k) \/ exports[k].retention = "DELETED" \/ exports[k].bytes = exports[k].sha256)'
  BY <1>2
<1>12. /\ h.pc \in {"read", "missing", "recover", "put", "finalise", "failed", "late"} =>
            k \in DOMAIN exports'
       /\ h.pc \in {"read", "missing"} /\ h.phase = "fast" =>
            k \in Excepted' \/ k \in current' \/ ~Unchanged(k)'
       /\ h.pc = "read" =>
            \/ exports'[k].sha256 = h.sha256
            \/ h.phase = "fast" /\ (k \in Excepted' \/ k \notin current')
       /\ h.pc = "missing" => k \in Excepted' \/ k \notin current'
  BY <1>2, <1>7 DEF Excepted
<1>13. Fits(j, a, h, k)'
  BY <1>8, <1>10, <1>11, <1>12 DEF Fits
<1>14. HandlerMove(j, a, h, k)
  BY <1>2, <1>4, <1>5, <1>6, <1>13 DEF HandlerMove
<1> QED BY <1>14, HandlerMoves

\* A handler that gives up its place for one that touches nothing.
LEMMA GiveUp ==
  ASSUME ExportsInv, NEW j \in JobIds, NEW a \in AttemptNumbers, NEW pc \in Places,
         handler[j][a].pc # "none", Goto(j, a, pc), UNCHANGED <<reviewVars, jobs, storageVars>>,
         \/ pc \in Outcomes
         \/ pc = "failed" /\ handler[j][a].pc \in {"put", "finalise"}
         \/ pc = "lookup" /\ handler[j][a].pc = "load"
         \/ pc = "recover" /\ handler[j][a].pc = "read" /\ handler[j][a].phase = "locked"
            /\ exports[Key(j)].bytes = exports[Key(j)].sha256
         \/ pc = "missing" /\ handler[j][a].pc = "read"
            /\ (Key(j) \in current => Key(j) \in Excepted)
  PROVE  ExportsInv'
<1>1. PICK k : k = Key(j)
  OBVIOUS
<1>2. TypeOK
  BY InvParts
<1>3. PICK h \in Handlers : /\ h.pc = pc /\ h.phase = handler[j][a].phase
                            /\ h.complete = handler[j][a].complete
                            /\ handler' = [handler EXCEPT ![j][a] = h]
  BY <1>2, GotoIs
<1>4. Fits(j, a, handler[j][a], k)
  BY <1>1, AttemptHasKey
<1>5. JobsMoved
  BY <1>2, JobsSame
<1>6. Holds(h) => HoldsLock(j, a)
  BY <1>3, <1>4 DEF Holds, HoldsLock, Pc, Persisting, Outcomes, Fits
<1>7. /\ h.pc \in {"load", "lock"} => h.phase = "fast"
      /\ h.pc \in {"put", "finalise"} => h.pc = handler[j][a].pc
  BY <1>3 DEF Outcomes
<1>8. h.pc \in {"read", "missing", "recover", "put", "finalise", "failed", "late"} =>
           k \in DOMAIN exports
  BY <1>3, <1>4 DEF Outcomes, Fits
<1>9. h.pc \in {"read", "missing"} /\ h.phase = "fast" =>
        k \in Excepted \/ k \in current \/ ~Unchanged(k)
  BY <1>3, <1>4 DEF Outcomes, Fits
<1>10. /\ h.pc # "read" /\ (h.pc = "missing" => k \in Excepted \/ k \notin current)
       /\ h.pc = "recover" => exports[k].bytes = exports[k].sha256
       /\ h.pc = "failed" => k \notin current
  BY <1>1, <1>3, <1>4 DEF Outcomes, Fits
<1> QED BY <1>1, <1>3, <1>5, <1>6, <1>7, <1>8, <1>9, <1>10, QuietMove

-----------------------------------------------------------------------------
(* The steps of a handler that touch no row.                               *)

\* The places of a handler are told apart, and outcomes are places.
LEMMA OutcomesArePlaces ==
  /\ Outcomes \subseteq Places /\ Persisting \subseteq Places
  /\ {"load", "lookup", "lock", "read", "missing", "late", "done"} \subseteq Places
  BY DEF Places

\* Steps that only move on or give up.
LEMMA PlainSteps ==
  ASSUME ExportsInv, NEW j \in JobIds, NEW a \in AttemptNumbers,
         loadExportData(j, a) \/ LockTimesOut(j, a) \/ LoseFence(j, a) \/ StorageFails(j, a)
  PROVE  ExportsInv'
<1>1. UNCHANGED <<reviewVars, jobs, storageVars>> /\ handler[j][a].pc # "none"
  BY DEF loadExportData, LockTimesOut, LoseFence, StorageFails, Pc
<1>2. CASE loadExportData(j, a)
  <2>1. handler[j][a].pc = "load" /\ (Goto(j, a, "lookup") \/ Goto(j, a, "failFatal"))
    BY <1>2 DEF loadExportData, Pc
  <2> QED BY <1>1, <2>1, GiveUp, OutcomesArePlaces DEF Outcomes
<1>3. CASE LockTimesOut(j, a)
  BY <1>1, <1>3, GiveUp, OutcomesArePlaces DEF LockTimesOut, Outcomes
<1>4. CASE LoseFence(j, a)
  <2>1. \/ Goto(j, a, "failed") /\ handler[j][a].pc \in {"put", "finalise"}
        \/ Goto(j, a, "failFatal")
    BY <1>4 DEF LoseFence, Pc
  <2> QED BY <1>1, <2>1, GiveUp, OutcomesArePlaces DEF Outcomes, Persisting
<1>5. CASE StorageFails(j, a)
  <2>1. \/ Goto(j, a, "failed") /\ handler[j][a].pc \in {"put", "finalise"}
        \/ Goto(j, a, "failRetryable")
    BY <1>5 DEF StorageFails, Pc
  <2> QED BY <1>1, <2>1, GiveUp, OutcomesArePlaces DEF Outcomes, Persisting
<1> QED BY <1>2, <1>3, <1>4, <1>5

\* A whole object is never reported missing while its export is current.
LEMMA ReadStep ==
  ASSUME ExportsInv, NEW j \in JobIds, NEW a \in AttemptNumbers, readVerified(j, a)
  PROVE  ExportsInv'
<1>1. UNCHANGED <<reviewVars, jobs, storageVars>> /\ handler[j][a].pc = "read"
  BY DEF readVerified, Pc
<1>2. \/ Goto(j, a, "missing") /\ Row(j).bytes # handler[j][a].sha256
      \/ /\ Goto(j, a, "recover") /\ handler[j][a].phase = "locked"
         /\ Row(j).bytes = handler[j][a].sha256
      \/ Goto(j, a, "returned")
  BY DEF readVerified
<1>3. CurrentExports /\ Fits(j, a, handler[j][a], Key(j))
  BY <1>1, InvParts, AttemptHasKey
<1>4. \/ Row(j).sha256 = handler[j][a].sha256
      \/ /\ handler[j][a].phase = "fast"
         /\ Key(j) \in Excepted \/ Key(j) \notin current
  BY <1>1, <1>3 DEF Fits, Row
<1>5. Row(j).bytes # handler[j][a].sha256 => (Key(j) \in current => Key(j) \in Excepted)
  BY <1>3, <1>4 DEF CurrentExports, Row, Excepted
<1>6. CASE Goto(j, a, "missing") /\ Row(j).bytes # handler[j][a].sha256
  BY <1>1, <1>5, <1>6, GiveUp, OutcomesArePlaces
<1>7. CASE /\ Goto(j, a, "recover") /\ handler[j][a].phase = "locked"
           /\ Row(j).bytes = handler[j][a].sha256
  BY <1>1, <1>4, <1>7, GiveUp, OutcomesArePlaces DEF Row, Persisting
<1>8. CASE Goto(j, a, "returned")
  BY <1>1, <1>8, GiveUp, OutcomesArePlaces DEF Outcomes
<1> QED BY <1>2, <1>6, <1>7, <1>8

\* The lookup: the fast one finds complete exports only.
LEMMA LookupStep ==
  ASSUME ExportsInv, NEW j \in JobIds, NEW a \in AttemptNumbers, findReusableExport(j, a)
  PROVE  ExportsInv'
<1>1. PICK k : k = Key(j)
  OBVIOUS
<1>2. TypeOK /\ JobsMoved
  BY InvParts, JobsSame DEF findReusableExport
<1> DEFINE known == k \in DOMAIN exports
           fast == handler[j][a].phase = "fast"
           whole == known /\ Complete(k)
           found == known /\ (IF fast THEN Complete(k)
                              ELSE exports[k].retention \in {"ACTIVE", "PENDING_DELETE"})
           pc == IF found THEN "read" ELSE IF fast THEN "lock" ELSE "reserve"
           sha == IF known THEN exports[k].sha256 ELSE NoBytes
           h == [handler[j][a] EXCEPT !.complete = whole, !.sha256 = sha, !.pc = pc]
<1>3. /\ handler[j][a].pc = "lookup" /\ handler' = [handler EXCEPT ![j][a] = h]
      /\ UNCHANGED <<reviewVars, jobs, storageVars>>
  BY <1>1 DEF findReusableExport
<1>4. /\ pc = "read" => known /\ (fast => k \in current)
      /\ pc = "lock" => fast
      /\ pc = "reserve" => ~fast
      /\ pc \in {"read", "lock", "reserve"} /\ whole \in BOOLEAN
      /\ pc = "read" => sha = exports[k].sha256
  BY DEF Complete
<1>9. sha \in AttemptNames \cup {NoBytes}
  BY <1>2 DEF TypeOK, Rows
<1> HIDE DEF whole, pc, sha
<1>5. handler[j][a] \in Handlers /\ pc \in Places
  BY <1>2, <1>4, OutcomesArePlaces DEF TypeOK, Persisting
<1>6. h \in Handlers /\ h.pc = pc /\ h.phase = handler[j][a].phase /\ h.sha256 = sha
  BY <1>4, <1>5, <1>9 DEF Handlers
<1> HIDE DEF h
<1>7. PICK g \in Handlers : g = h
  BY <1>6
<1>8. Holds(g) => HoldsLock(j, a)
  BY <1>3, <1>4, <1>6, <1>7 DEF Holds, HoldsLock, Pc, Persisting
<1> QED BY <1>1, <1>2, <1>3, <1>4, <1>6, <1>7, <1>8, QuietMove

\* The lock is taken when no one holds it.
LEMMA AcquireStep ==
  ASSUME ExportsInv, NEW j \in JobIds, NEW a \in AttemptNumbers, acquireExportLock(j, a)
  PROVE  ExportsInv'
<1>1. TypeOK /\ JobsMoved
  BY InvParts, JobsSame DEF acquireExportLock
<1> DEFINE h == [handler[j][a] EXCEPT !.pc = "lookup", !.phase = "locked"]
<1>2. /\ handler[j][a].pc = "lock" /\ handler' = [handler EXCEPT ![j][a] = h]
      /\ UNCHANGED <<reviewVars, jobs, storageVars>> /\ LockFree(Key(j))
  BY DEF acquireExportLock, Pc
<1>3. h \in Handlers /\ h.pc = "lookup" /\ h.phase = "locked"
  <2>1. handler[j][a] \in Handlers
    BY <1>1 DEF TypeOK
  <2> QED BY <2>1, OutcomesArePlaces DEF Handlers
<1> HIDE DEF h
<1> QED BY <1>1, <1>2, <1>3, QuietMove

\* A handler that dies, or whose outcome is settled, holds nothing.
LEMMA EndSteps ==
  ASSUME ExportsInv, NEW j \in JobIds, NEW a \in AttemptNumbers, CrashHandler(j, a) \/ Finish(j, a)
  PROVE  ExportsInv'
<1>1. TypeOK
  BY InvParts
<1>2. handler[j][a].pc # "none"
  BY DEF CrashHandler, Finish, Pc, Outcomes
<1>3. jobs[j].status # "NONE" /\ Fits(j, a, handler[j][a], Key(j))
  BY <1>2, AttemptHasKey
<1>4. JobsMoved
  <2>1. CASE CrashHandler(j, a)
    BY <1>1, <2>1, JobsSame DEF CrashHandler
  <2>2. CASE Finish(j, a)
    BY <1>1, <1>3, <2>2, QueueStep DEF Finish
  <2> QED BY <2>1, <2>2
<1>5. UNCHANGED <<reviewVars, storageVars>>
  BY DEF CrashHandler, Finish
<1>6. Ended \in Handlers /\ Ended.pc = "done" /\ Ended.phase = "fast"
  BY OutcomesArePlaces DEF Ended, NoHandler, Handlers
<1>7. CASE handler' = [handler EXCEPT ![j][a] = Ended]
  BY <1>2, <1>4, <1>5, <1>6, <1>7, QuietMove DEF Holds, Persisting
<1>8. CASE CrashHandler(j, a)
  <2> DEFINE pc == IF Pc(j, a) = "put" THEN "late" ELSE "done"
             h == [Ended EXCEPT !.pc = pc]
  <2>1. handler' = [handler EXCEPT ![j][a] = h]
    BY <1>8 DEF CrashHandler
  <2>2. pc \in {"late", "done"} /\ (pc = "late" => handler[j][a].pc = "put")
    BY DEF Pc
  <2> HIDE DEF pc
  <2>3. h \in Handlers /\ h.pc = pc /\ h.phase = "fast"
    BY <1>6, <2>2, OutcomesArePlaces DEF Handlers
  <2> HIDE DEF h
  <2>4. ~Holds(h)
    BY <2>2, <2>3 DEF Holds, Persisting
  <2>5. h.pc = "late" => Key(j) \in DOMAIN exports
    BY <1>3, <2>2, <2>3 DEF Fits
  <2> QED BY <1>2, <1>4, <1>5, <2>1, <2>2, <2>3, <2>4, <2>5, QuietMove
<1> QED BY <1>7, <1>8 DEF Finish

-----------------------------------------------------------------------------
(* The steps of a handler that change the row of its export.               *)

\* A missing object fails its export, which is no longer current.
LEMMA MissingStep ==
  ASSUME ExportsInv, NEW j \in JobIds, NEW a \in AttemptNumbers, markMissing(j, a)
  PROVE  ExportsInv'
<1>1. PICK k : k = Key(j)
  OBVIOUS
<1>2. TypeOK /\ DeletedOK /\ ErasedOK /\ JobsMoved
  BY InvParts, JobsSame DEF markMissing
<1> DEFINE pc == CASE handler[j][a].phase = "fast" -> "lock"
                   [] handler[j][a].phase = "locked" -> "reserve"
                   [] handler[j][a].phase = "available" -> "failFatal"
           row == [exports[k] EXCEPT !.status = "FAILED"]
<1>3. /\ handler[j][a].pc = "missing" /\ RowFree(k) /\ SetRow(k, row) /\ current' = current \ {k}
      /\ Goto(j, a, pc)
      /\ UNCHANGED <<project, plans, gates, findings, planner, jobs, cleanup, lost, unanswered>>
  BY <1>1 DEF markMissing, Pc, Row, history
<1>4. /\ k \in DOMAIN exports /\ (k \in Excepted \/ k \notin current) /\ ~(a > jobs[j].attempts)
      /\ k \in Inputs
  BY <1>1, <1>3, AttemptHasKey DEF Fits
<1>5. handler[j][a] \in Handlers
  BY <1>2 DEF TypeOK
<1>6. /\ handler[j][a].phase = "fast" => pc = "lock"
      /\ handler[j][a].phase # "fast" => pc \in {"reserve", "failFatal"}
  BY <1>5 DEF Handlers
<1> HIDE DEF pc
<1>7. pc \in Places
  BY <1>6, OutcomesArePlaces DEF Outcomes, Persisting
<1>8. PICK h \in Handlers : /\ h.pc = pc /\ h.phase = handler[j][a].phase
                            /\ handler' = [handler EXCEPT ![j][a] = h]
  BY <1>2, <1>3, <1>7, GotoIs
<1>9. /\ row \in Rows /\ row.retention = exports[k].retention /\ row.leased = exports[k].leased
      /\ row.sha256 = exports[k].sha256 /\ row.bytes = exports[k].bytes
  BY <1>2, <1>4 DEF TypeOK, Rows
<1> HIDE DEF row
<1>10. /\ DOMAIN exports' = DOMAIN exports /\ exports'[k] = row
       /\ \A c \in DOMAIN exports \ {k} : exports'[c] = exports[c]
  <2>1. k \in DOMAIN exports /\ SetRow(k, row)
    BY <1>3, <1>4
  <2> QED BY <2>1, UpdatedRowIs
<1>11. RowMoved(k)
  BY <1>2, <1>3, <1>4, <1>9, <1>10 DEF RowMoved, DeletedOK
<1>12. CurrentMoved(k)
  BY <1>3, <1>4 DEF CurrentMoved
<1>13. current' \subseteq current /\ RowKept(k)
  BY <1>3, <1>9, <1>10 DEF RowKept, RowFree
<1>14. Holds(h) => HoldsLock(j, a)
  BY <1>3, <1>6, <1>8 DEF Holds, HoldsLock, Pc, Persisting
<1>15. Fits(j, a, h, k)'
  <2>1. h.pc \in {"lock", "reserve", "failFatal"} /\ (h.pc = "lock" => h.phase = "fast")
    BY <1>6, <1>8
  <2> QED BY <1>3, <1>4, <2>1 DEF Fits
<1>16. HandlerMove(j, a, h, k)
  BY <1>1, <1>2, <1>3, <1>8, <1>11, <1>12, <1>13, <1>14, <1>15 DEF HandlerMove
<1> QED BY <1>8, <1>16, HandlerMoves

\* What a handler that ends in a plain place still relies on: nothing.
LEMMA PlainFits ==
  ASSUME TypeOK, NEW j \in JobIds, NEW a \in AttemptNumbers, NEW h \in Handlers, NEW k,
         handler[j][a].pc # "none", Fits(j, a, handler[j][a], k), UNCHANGED jobs,
         h.pc \in Outcomes \cup {"reserve", "done"}
  PROVE  Fits(j, a, h, k)'
<1>1. ~(a > jobs'[j].attempts)
  BY DEF Fits
<1> QED BY <1>1 DEF Fits, Outcomes

\* An interrupted export is recovered when its bytes are whole and the project is
\* what it was; otherwise it is reserved anew or left alone.
LEMMA RecoverStep ==
  ASSUME ExportsInv, NEW j \in JobIds, NEW a \in AttemptNumbers, RecoverExport(j, a)
  PROVE  ExportsInv'
<1>1. PICK k : k = Key(j)
  OBVIOUS
<1>2. TypeOK /\ DeletedOK /\ ErasedOK /\ CurrentExports /\ JobsMoved
  BY InvParts, JobsSame DEF RecoverExport
<1>3. /\ handler[j][a].pc = "recover" /\ RowFree(k)
      /\ UNCHANGED <<project, plans, gates, findings, planner, jobs, cleanup, lost, unanswered>>
      /\ \/ UNCHANGED <<exports, current>> /\ (Goto(j, a, "reserve") \/ Goto(j, a, "failRetryable"))
         \/ /\ Unchanged(k) /\ exports[k].retention # "DELETED" /\ ~exports[k].leased
            /\ SetRow(k, [exports[k] EXCEPT !.status = "AVAILABLE", !.retention = "ACTIVE"])
            /\ MakeCurrent(k) /\ Goto(j, a, "returned")
  BY <1>1 DEF RecoverExport, Pc, Row, history
<1>4. /\ k \in DOMAIN exports /\ k \in Inputs /\ Fits(j, a, handler[j][a], k)
      /\ k \in lost \/ exports[k].retention = "DELETED" \/ exports[k].bytes = exports[k].sha256
  BY <1>1, <1>3, AttemptHasKey DEF Fits
<1>5. HoldsLock(j, a)
  BY <1>3 DEF HoldsLock, Pc, Persisting
<1>6. CASE UNCHANGED <<exports, current>> /\ (Goto(j, a, "reserve") \/ Goto(j, a, "failRetryable"))
  <2>1. PICK h \in Handlers : /\ h.pc \in {"reserve", "failRetryable"}
                              /\ handler' = [handler EXCEPT ![j][a] = h]
    BY <1>2, <1>6, GotoIs, OutcomesArePlaces DEF Outcomes, Persisting
  <2>2. UNCHANGED <<reviewVars, storageVars>>
    BY <1>3, <1>6 DEF reviewVars, storageVars, history
  <2> QED BY <1>1, <1>2, <1>3, <1>5, <2>1, <2>2, QuietMove
<1>7. CASE /\ Unchanged(k) /\ exports[k].retention # "DELETED" /\ ~exports[k].leased
           /\ SetRow(k, [exports[k] EXCEPT !.status = "AVAILABLE", !.retention = "ACTIVE"])
           /\ MakeCurrent(k) /\ Goto(j, a, "returned")
  <2> DEFINE row == [exports[k] EXCEPT !.status = "AVAILABLE", !.retention = "ACTIVE"]
  <2>1. /\ row \in Rows /\ row.status = "AVAILABLE" /\ row.retention = "ACTIVE"
        /\ row.sha256 = exports[k].sha256 /\ row.bytes = exports[k].bytes
    BY <1>2, <1>4, ZenonT(60) DEF TypeOK, Rows
  <2>2. SetRow(k, row)
    BY <1>7
  <2> HIDE DEF row
  <2>3. /\ DOMAIN exports' = DOMAIN exports /\ exports'[k] = row
        /\ \A c \in DOMAIN exports \ {k} : exports'[c] = exports[c]
    <3>1. k \in DOMAIN exports /\ SetRow(k, row)
      BY <1>4, <2>2
    <3> QED BY <3>1, UpdatedRowIs
  <2>4. PICK h \in Handlers : h.pc = "returned" /\ handler' = [handler EXCEPT ![j][a] = h]
    BY <1>2, <1>7, GotoIs, OutcomesArePlaces DEF Outcomes
  <2>5. RowMoved(k)
    BY <1>3, <1>7, <2>1, <2>3 DEF RowMoved, Unchanged
  <2>6. CurrentMoved(k)
    BY <1>4, <1>7, <2>1, <2>3 DEF CurrentMoved
  <2>7. Fits(j, a, h, k)'
    BY <1>2, <1>3, <1>4, <2>4, PlainFits DEF Outcomes
  <2>8. HandlerMove(j, a, h, k)
    BY <1>1, <1>2, <1>3, <1>5, <2>4, <2>5, <2>6, <2>7 DEF HandlerMove
  <2> QED BY <2>8, HandlerMoves
<1> QED BY <1>3, <1>6, <1>7

\* The row is reserved for this attempt, unless it is whole or being deleted.
LEMMA ReserveStep ==
  ASSUME ExportsInv, NEW j \in JobIds, NEW a \in AttemptNumbers, reserveExport(j, a)
  PROVE  ExportsInv'
<1>1. PICK k : k = Key(j)
  OBVIOUS
<1>2. TypeOK /\ DeletedOK /\ ErasedOK /\ CurrentExports /\ JobsMoved
  BY InvParts, JobsSame DEF reserveExport
<1> DEFINE row == [ status |-> "UPLOADING", retention |-> "ACTIVE", leased |-> FALSE,
                    sha256 |-> <<j, a>>,
                    bytes |-> IF k \in DOMAIN exports THEN exports[k].bytes ELSE NoBytes ]
           reader == [handler[j][a] EXCEPT !.pc = "read", !.phase = "available",
                                           !.sha256 = exports[k].sha256]
<1>3. /\ handler[j][a].pc = "reserve" /\ RowFree(k)
      /\ UNCHANGED <<project, plans, gates, findings, planner, jobs, cleanup, lost, unanswered>>
      /\ \/ UNCHANGED <<exports, current>> /\ (Goto(j, a, "failFatal") \/ Goto(j, a, "failRetryable"))
         \/ /\ UNCHANGED <<exports, current>> /\ handler' = [handler EXCEPT ![j][a] = reader]
            /\ k \in DOMAIN exports /\ Complete(k)
         \/ /\ Unchanged(k) /\ (k \in DOMAIN exports => ~exports[k].leased /\ ~Complete(k))
            /\ SetRow(k, row) /\ current' = current \ {k} /\ Goto(j, a, "put")
  <2>1. /\ handler[j][a].pc = "reserve" /\ RowFree(k)
        /\ UNCHANGED <<project, plans, gates, findings, planner, jobs, cleanup, lost, unanswered>>
    BY <1>1 DEF reserveExport, Pc, history
  <2>2. CASE ~Unchanged(k)
    BY <1>1, <2>1, <2>2 DEF reserveExport
  <2>3. CASE Unchanged(k) /\ k \in DOMAIN exports /\ exports[k].leased
    BY <1>1, <2>1, <2>3 DEF reserveExport
  <2>4. CASE Unchanged(k) /\ k \in DOMAIN exports /\ ~exports[k].leased /\ Complete(k)
    <3>1. handler' = [handler EXCEPT ![j][a] = reader] /\ UNCHANGED <<exports, current>>
      BY <1>1, <2>4 DEF reserveExport
    <3> QED BY <2>1, <2>4, <3>1
  <2>5. CASE Unchanged(k) /\ (k \in DOMAIN exports => ~exports[k].leased /\ ~Complete(k))
    <3>1. /\ ~(k \in DOMAIN exports /\ exports[k].leased) /\ ~(k \in DOMAIN exports /\ Complete(k))
          /\ Unchanged(k)
      BY <2>5
    <3>2. SetRow(k, row) /\ current' = current \ {k} /\ Goto(j, a, "put")
      BY <1>1, <3>1 DEF reserveExport
    <3> QED BY <2>1, <2>5, <3>2
  <2> QED BY <2>2, <2>3, <2>4, <2>5
<1>4. k \in Inputs /\ Fits(j, a, handler[j][a], k)
  BY <1>1, <1>3, AttemptHasKey
<1>5. HoldsLock(j, a)
  BY <1>3 DEF HoldsLock, Pc, Persisting
<1>6. CASE UNCHANGED <<exports, current>> /\ (Goto(j, a, "failFatal") \/ Goto(j, a, "failRetryable"))
  BY <1>2, <1>3, <1>6, GiveUp, OutcomesArePlaces DEF Outcomes, reviewVars, storageVars, history
<1>7. CASE /\ UNCHANGED <<exports, current>> /\ handler' = [handler EXCEPT ![j][a] = reader]
           /\ k \in DOMAIN exports /\ Complete(k)
  <2>1. handler[j][a] \in Handlers /\ exports[k].sha256 \in AttemptNames
    BY <1>2, <1>7 DEF TypeOK, Rows
  <2>2. /\ reader \in Handlers /\ reader.pc = "read" /\ reader.phase = "available"
        /\ reader.sha256 = exports[k].sha256
    BY <2>1, OutcomesArePlaces DEF Handlers
  <2> HIDE DEF reader
  <2>3. PICK h \in Handlers : h = reader
    BY <2>2
  <2>4. UNCHANGED <<reviewVars, storageVars>>
    BY <1>3, <1>7 DEF reviewVars, storageVars, history
  <2> QED BY <1>1, <1>2, <1>3, <1>5, <1>7, <2>2, <2>3, <2>4, QuietMove
<1>8. CASE /\ Unchanged(k) /\ (k \in DOMAIN exports => ~exports[k].leased /\ ~Complete(k))
           /\ SetRow(k, row) /\ current' = current \ {k} /\ Goto(j, a, "put")
  <2>1. /\ row \in Rows /\ row.retention = "ACTIVE" /\ row.sha256 = <<j, a>>
    <3>1. (IF k \in DOMAIN exports THEN exports[k].bytes ELSE NoBytes) \in AttemptNames \cup {NoBytes}
      BY <1>2 DEF TypeOK, Rows
    <3> QED BY <3>1, NoBytesIs DEF Rows
  <2> HIDE DEF row
  <2>2. k \notin current
    BY <1>2, <1>8 DEF CurrentExports, Complete, TypeOK
  <2>3. /\ DOMAIN exports' = DOMAIN exports \cup {k} /\ exports'[k] = row
        /\ \A c \in DOMAIN exports \ {k} : exports'[c] = exports[c]
    BY <1>8, SetRowIs
  <2>4. PICK h \in Handlers : h.pc = "put" /\ handler' = [handler EXCEPT ![j][a] = h]
    BY <1>2, <1>8, GotoIs, OutcomesArePlaces DEF Persisting
  <2>5. RowMoved(k)
    BY <1>3, <1>8, <2>1, <2>3 DEF RowMoved, Unchanged
  <2>6. CurrentMoved(k)
    BY <1>8, <2>2 DEF CurrentMoved
  <2>7. ~(a > jobs'[j].attempts)
    BY <1>3, <1>4 DEF Fits
  <2>8. Fits(j, a, h, k)'
    BY <1>8, <2>1, <2>3, <2>4, <2>7 DEF Fits
  <2>9. HandlerMove(j, a, h, k)
    BY <1>1, <1>2, <1>3, <1>5, <2>4, <2>5, <2>6, <2>8 DEF HandlerMove
  <2> QED BY <2>9, HandlerMoves
<1> QED BY <1>3, <1>6, <1>7, <1>8

\* The bytes are put where none are; others that are there already are refused.
LEMMA PutStep ==
  ASSUME ExportsInv, NEW j \in JobIds, NEW a \in AttemptNumbers, PutExport(j, a)
  PROVE  ExportsInv'
<1>1. PICK k : k = Key(j)
  OBVIOUS
<1>2. TypeOK /\ DeletedOK /\ ErasedOK /\ CurrentExports /\ JobsMoved
  BY InvParts, JobsSame DEF PutExport
<1> DEFINE row == IF exports[k].bytes = NoBytes THEN [exports[k] EXCEPT !.bytes = <<j, a>>]
                  ELSE exports[k]
           pc == IF exports[k].bytes = NoBytes \/ exports[k].bytes = <<j, a>> THEN "finalise"
                 ELSE "failed"
<1>3. /\ handler[j][a].pc = "put"
      /\ UNCHANGED <<project, plans, gates, findings, planner, current, jobs, cleanup, lost, unanswered>>
      /\ \/ SetRow(k, row)
         \/ UNCHANGED exports /\ row = exports[k]
      /\ Goto(j, a, pc)
  BY <1>1 DEF PutExport, Pc, Row, reviewVars, history
<1>4. /\ k \in DOMAIN exports /\ k \in Inputs /\ Fits(j, a, handler[j][a], k) /\ k \notin current
      /\ exports[k].sha256 = <<j, a>> /\ (project.exists => exports[k].retention = "ACTIVE")
      /\ ~(a > jobs[j].attempts)
  BY <1>1, <1>3, AttemptHasKey DEF Fits
<1>5. HoldsLock(j, a)
  BY <1>3 DEF HoldsLock, Pc, Persisting
<1>6. /\ row \in Rows /\ row.retention = exports[k].retention /\ row.leased = exports[k].leased
      /\ row.sha256 = exports[k].sha256 /\ row.status = exports[k].status
      /\ pc = "finalise" => row.bytes = <<j, a>>
      /\ pc \in {"finalise", "failed"}
  <2>1. exports[k] \in Rows /\ <<j, a>> \in AttemptNames
    BY <1>2, <1>4, NoBytesIs DEF TypeOK
  <2> QED BY <2>1 DEF Rows
<1>7. exports' = exports => exports'[k] = exports[k] /\ DOMAIN exports' = DOMAIN exports
  OBVIOUS
<1> HIDE DEF row, pc
<1>8. /\ DOMAIN exports' = DOMAIN exports /\ exports'[k] = row
      /\ \A c \in DOMAIN exports \ {k} : exports'[c] = exports[c]
  <2>1. CASE SetRow(k, row)
    <3>1. k \in DOMAIN exports /\ SetRow(k, row)
      BY <1>4, <2>1
    <3> QED BY <3>1, UpdatedRowIs
  <2>2. CASE UNCHANGED exports /\ row = exports[k]
    BY <2>2
  <2> QED BY <1>3, <2>1, <2>2
<1>9. PICK h \in Handlers : h.pc = pc /\ handler' = [handler EXCEPT ![j][a] = h]
  BY <1>2, <1>3, <1>6, GotoIs, OutcomesArePlaces DEF Persisting
<1>10. RowMoved(k)
  BY <1>2, <1>4, <1>6, <1>8 DEF RowMoved, DeletedOK, ErasedOK, RowFree
<1>11. CurrentMoved(k)
  BY <1>3, <1>4 DEF CurrentMoved
<1>12. Fits(j, a, h, k)'
  BY <1>3, <1>4, <1>6, <1>8, <1>9 DEF Fits
<1>13. HandlerMove(j, a, h, k)
  BY <1>1, <1>2, <1>3, <1>5, <1>9, <1>10, <1>11, <1>12 DEF HandlerMove
<1> QED BY <1>13, HandlerMoves

\* The object is catalogued and current, if nothing changed meanwhile.
\* An attempt that does not learn of it goes on to take it back.
LEMMA FinaliseStep ==
  ASSUME ExportsInv, NEW j \in JobIds, NEW a \in AttemptNumbers, FinaliseTransaction(j, a),
         NEW pc \in Outcomes \cup {"failed"}, Goto(j, a, pc), unanswered \subseteq unanswered',
         pc = "failed" /\ Unchanged(Key(j)) => Key(j) \in unanswered'
  PROVE  ExportsInv'
<1>1. PICK k : k = Key(j)
  OBVIOUS
<1>2. TypeOK /\ DeletedOK /\ ErasedOK /\ CurrentExports /\ JobsMoved
  BY InvParts, JobsSame DEF FinaliseTransaction
<1> DEFINE whole == [exports[k] EXCEPT !.status = "AVAILABLE", !.retention = "ACTIVE"]
           stale == Stale(exports[k])
<1>3. /\ handler[j][a].pc = "finalise" /\ RowFree(k) /\ project.exists
      /\ UNCHANGED <<project, plans, gates, findings, planner, jobs, cleanup, lost>>
      /\ \/ /\ Unchanged(k) /\ SetRow(k, whole) /\ MakeCurrent(k)
         \/ ~Unchanged(k) /\ SetRow(k, stale) /\ current' = current \ {k}
  BY <1>1 DEF FinaliseTransaction, Pc, Row
<1>4. /\ k \in DOMAIN exports /\ k \in Inputs /\ Fits(j, a, handler[j][a], k) /\ k \notin current
      /\ exports[k].sha256 = <<j, a>> /\ (k \in lost \/ exports[k].bytes = <<j, a>>)
  BY <1>1, <1>3, AttemptHasKey DEF Fits
<1>5. HoldsLock(j, a)
  BY <1>3 DEF HoldsLock, Pc, Persisting
<1>6. exports[k] \in Rows
  BY <1>2, <1>4 DEF TypeOK
<1>7. /\ whole \in Rows /\ whole.status = "AVAILABLE" /\ whole.retention = "ACTIVE"
      /\ whole.sha256 = exports[k].sha256 /\ whole.bytes = exports[k].bytes
  BY <1>6 DEF Rows
<1>8. stale \in Rows
  BY <1>6 DEF Rows, Stale
<1> HIDE DEF whole, stale
<1>9. ASSUME NEW row \in Rows, SetRow(k, row)
      PROVE  /\ DOMAIN exports' = DOMAIN exports /\ exports'[k] = row /\ RowMoved(k)
  <2>1. /\ DOMAIN exports' = DOMAIN exports /\ exports'[k] = row
        /\ \A c \in DOMAIN exports \ {k} : exports'[c] = exports[c]
    <3>1. k \in DOMAIN exports /\ SetRow(k, row)
      BY <1>4, <1>9
    <3> QED BY <3>1, UpdatedRowIs
  <2> QED BY <1>3, <2>1 DEF RowMoved
<1>10. ASSUME RowMoved(k), CurrentMoved(k), k \in DOMAIN exports',
              pc = "failed" => k \in unanswered' \/ k \notin current'
       PROVE  ExportsInv'
  <2>1. PICK h \in Handlers : h.pc = pc /\ handler' = [handler EXCEPT ![j][a] = h]
    BY <1>2, GotoIs, OutcomesArePlaces DEF Persisting
  <2>2. Fits(j, a, h, k)'
    <3>1. CASE pc \in Outcomes
      BY <1>2, <1>3, <1>4, <2>1, <3>1, PlainFits
    <3>2. CASE pc = "failed"
      <4>1. ~(a > jobs'[j].attempts)
        BY <1>3, <1>4 DEF Fits
      <4> QED BY <1>10, <2>1, <3>2, <4>1 DEF Fits
    <3> QED BY <3>1, <3>2
  <2>3. Holds(h) => HoldsLock(j, a)
    BY <1>5
  <2>4. HandlerMove(j, a, h, k)
    BY <1>1, <1>2, <1>3, <1>5, <1>10, <2>1, <2>2, <2>3 DEF HandlerMove
  <2> QED BY <2>4, HandlerMoves
<1>11. CASE Unchanged(k) /\ SetRow(k, whole) /\ MakeCurrent(k)
  <2>1. DOMAIN exports' = DOMAIN exports /\ exports'[k] = whole /\ RowMoved(k)
    BY <1>7, <1>9, <1>11
  <2>2. CurrentMoved(k)
    BY <1>4, <1>7, <1>11, <2>1 DEF CurrentMoved
  <2> QED BY <1>1, <1>4, <1>10, <1>11, <2>1, <2>2
<1>12. CASE SetRow(k, stale) /\ current' = current \ {k}
  <2>1. DOMAIN exports' = DOMAIN exports /\ RowMoved(k)
    BY <1>8, <1>9, <1>12
  <2>2. CurrentMoved(k) /\ k \notin current'
    BY <1>4, <1>12 DEF CurrentMoved
  <2> QED BY <1>4, <1>10, <2>1, <2>2
<1> QED BY <1>3, <1>11, <1>12

\* The transaction is answered, or fails, or its answer is lost.
LEMMA FinaliseSteps ==
  ASSUME ExportsInv, NEW j \in JobIds, NEW a \in AttemptNumbers,
         FinaliseExport(j, a) \/ FinaliseThrows(j, a)
  PROVE  ExportsInv'
<1>1. CASE FinaliseExport(j, a)
  <2>1. /\ FinaliseTransaction(j, a) /\ UNCHANGED unanswered
        /\ Goto(j, a, "returned") \/ Goto(j, a, "failFatal")
    BY <1>1 DEF FinaliseExport
  <2> QED BY <2>1, FinaliseStep DEF Outcomes
<1>2. CASE FinaliseThrows(j, a)
  <2>1. handler[j][a].pc = "finalise" /\ Goto(j, a, "failed")
    BY <1>2 DEF FinaliseThrows, Pc
  <2>2. CASE UNCHANGED <<reviewVars, jobs, storageVars>>
    BY <2>1, <2>2, GiveUp, OutcomesArePlaces DEF Persisting
  <2>3. CASE /\ FinaliseTransaction(j, a)
             /\ unanswered' = IF Unchanged(Key(j)) THEN unanswered \cup {Key(j)} ELSE unanswered
    <3>1. unanswered \subseteq unanswered' /\ (Unchanged(Key(j)) => Key(j) \in unanswered')
      BY <2>3
    <3> QED BY <2>1, <2>3, <3>1, FinaliseStep
  <2> QED BY <1>2, <2>2, <2>3 DEF FinaliseThrows
<1> QED BY <1>1, <1>2

\* A failed attempt's object is left to the cleanup, unless it is erased already.
LEMMA FailureStep ==
  ASSUME ExportsInv, NEW j \in JobIds, NEW a \in AttemptNumbers, markPersistenceFailure(j, a)
  PROVE  ExportsInv'
<1>1. PICK k : k = Key(j)
  OBVIOUS
<1>2. TypeOK /\ DeletedOK /\ ErasedOK /\ CurrentExports /\ JobsMoved
  BY InvParts, JobsSame DEF markPersistenceFailure
<1> DEFINE stale == Stale(exports[k])
<1>3. /\ handler[j][a].pc = "failed" /\ RowFree(k) /\ SetRow(k, stale)
      /\ current' = current \ {k} /\ Goto(j, a, "failRetryable")
      /\ UNCHANGED <<project, plans, gates, findings, planner, jobs, cleanup, lost, unanswered>>
  BY <1>1 DEF markPersistenceFailure, Pc, Row, FailedRow, history
<1>4. /\ k \in DOMAIN exports /\ k \in Inputs /\ Fits(j, a, handler[j][a], k)
      /\ k \in current => k \in Excepted
  BY <1>1, <1>3, AttemptHasKey DEF Fits, Excepted
<1>5. HoldsLock(j, a)
  BY <1>3 DEF HoldsLock, Pc, Persisting
<1>6. exports[k] \in Rows
  BY <1>2, <1>4 DEF TypeOK
<1>7. stale \in Rows /\ stale.retention \in {"PENDING_DELETE", "DELETED"}
  BY <1>6 DEF Rows, Stale
<1> HIDE DEF stale
<1>8. /\ DOMAIN exports' = DOMAIN exports /\ exports'[k] = stale
      /\ \A c \in DOMAIN exports \ {k} : exports'[c] = exports[c]
  <2>1. k \in DOMAIN exports /\ SetRow(k, stale)
    BY <1>3, <1>4
  <2> QED BY <2>1, UpdatedRowIs
<1>9. RowMoved(k) /\ CurrentMoved(k)
  BY <1>3, <1>4, <1>7, <1>8 DEF RowMoved, CurrentMoved
<1>10. PICK h \in Handlers : h.pc = "failRetryable" /\ handler' = [handler EXCEPT ![j][a] = h]
  BY <1>2, <1>3, GotoIs, OutcomesArePlaces DEF Outcomes
<1>11. Fits(j, a, h, k)'
  BY <1>2, <1>3, <1>4, <1>10, PlainFits DEF Outcomes
<1>12. HandlerMove(j, a, h, k)
  BY <1>1, <1>2, <1>3, <1>5, <1>9, <1>10, <1>11 DEF HandlerMove
<1> QED BY <1>12, HandlerMoves

\* A write that outlived its process can only fill a gap: it finds no lock to hold.
LEMMA LateStep ==
  ASSUME ExportsInv, NEW j \in JobIds, NEW a \in AttemptNumbers, LateWrite(j, a)
  PROVE  ExportsInv'
<1>1. PICK k : k = Key(j)
  OBVIOUS
<1>2. TypeOK /\ DeletedOK /\ ErasedOK /\ CurrentExports /\ JobsMoved
  BY InvParts, JobsSame DEF LateWrite
<1> DEFINE row == IF exports[k].bytes = NoBytes THEN [exports[k] EXCEPT !.bytes = <<j, a>>]
                  ELSE exports[k]
<1>3. /\ handler[j][a].pc = "late" /\ Goto(j, a, "done")
      /\ UNCHANGED <<project, plans, gates, findings, planner, current, jobs, cleanup, lost, unanswered>>
      /\ \/ SetRow(k, row)
         \/ UNCHANGED exports /\ row = exports[k]
  BY <1>1 DEF LateWrite, Pc, Row, reviewVars, history
<1>4. k \in DOMAIN exports /\ k \in Inputs /\ Fits(j, a, handler[j][a], k)
  BY <1>1, <1>3, AttemptHasKey DEF Fits
<1>5. exports[k] \in Rows /\ exports[k].sha256 # NoBytes
  BY <1>2, <1>4, NoBytesIs DEF TypeOK, Rows
<1>6. /\ row \in Rows /\ row.retention = exports[k].retention /\ row.leased = exports[k].leased
      /\ row.sha256 = exports[k].sha256 /\ row.status = exports[k].status
      /\ exports[k].bytes # NoBytes => row.bytes = exports[k].bytes
  BY <1>5, NoBytesIs DEF Rows
<1> HIDE DEF row
<1>7. /\ DOMAIN exports' = DOMAIN exports /\ exports'[k] = row
      /\ \A c \in DOMAIN exports \ {k} : exports'[c] = exports[c]
  <2>1. CASE SetRow(k, row)
    <3>1. k \in DOMAIN exports /\ SetRow(k, row)
      BY <1>4, <2>1
    <3> QED BY <3>1, UpdatedRowIs
  <2>2. CASE UNCHANGED exports /\ row = exports[k]
    BY <2>2
  <2> QED BY <1>3, <2>1, <2>2
<1>8. RowMoved(k)
  BY <1>2, <1>4, <1>6, <1>7 DEF RowMoved, DeletedOK, ErasedOK, RowFree
<1>9. CurrentMoved(k)
  BY <1>2, <1>3, <1>4, <1>5, <1>6, <1>7 DEF CurrentMoved, CurrentExports
<1>10. current' \subseteq current /\ RowKept(k)
  BY <1>3, <1>6, <1>7 DEF RowKept, RowFree
<1>11. PICK h \in Handlers : h.pc = "done" /\ handler' = [handler EXCEPT ![j][a] = h]
  BY <1>2, <1>3, GotoIs, OutcomesArePlaces
<1>12. Fits(j, a, h, k)'
  BY <1>2, <1>3, <1>4, <1>11, PlainFits
<1>13. ~Holds(h)
  BY <1>11 DEF Holds, Persisting
<1>14. HandlerMove(j, a, h, k)
  BY <1>1, <1>2, <1>3, <1>8, <1>9, <1>10, <1>11, <1>12, <1>13 DEF HandlerMove
<1> QED BY <1>14, HandlerMoves

-----------------------------------------------------------------------------
(* Steps of others: the workflow, the queue, the cleanup and the store.    *)

\* Submitted keys stay of the past.
LEMMA KeysAge ==
  ASSUME ReviewTypeOK, ReviewTypeOK', ProjectMoved, NEW k, KeyOK(k)
  PROVE  KeyOK(k)'
<1>1. k \in Inputs /\ Past(k.snapshot)
  BY DEF KeyOK
<1>2. Past(k.snapshot)'
  BY <1>1, SnapshotsAge
<1> QED BY <1>1, <1>2 DEF KeyOK

\* The handlers stand still: what they rely on is kept if every row is.
LEMMA OtherMoves ==
  ASSUME ExportsInv, ReviewTypeOK', ApprovalCoversEdits', ProjectMoved, UNCHANGED handler, JobsMoved,
         DOMAIN exports' = DOMAIN exports,
         \A c \in DOMAIN exports : exports'[c] \in Rows /\ RowKept(c),
         lost \subseteq lost', unanswered \subseteq unanswered', current' \subseteq current,
         \A c \in current \ current' : ~Unchanged(c)',
         cleanup'.pc \in {"idle", "delete", "erased"},
         cleanup'.pc # "idle" => cleanup'.key \in DOMAIN exports,
         ErasedOK', DeletedOK', CurrentExports', DeliveredPackage'
  PROVE  ExportsInv'
<1>1. /\ TypeOK /\ ReviewTypeOK /\ KeysOK /\ LockOK /\ AttemptsOK
  BY InvParts
<1>2. TypeOK'
  <2>1. /\ handler' \in [JobIds -> [AttemptNumbers -> Handlers]] /\ current' \subseteq DOMAIN exports'
        /\ \A c \in DOMAIN exports' : exports'[c] \in Rows
    BY <1>1 DEF TypeOK
  <2>2. jobs' \in [JobIds -> JobRows]
    BY DEF JobsMoved
  <2> QED BY <2>1, <2>2 DEF TypeOK
<1>3. KeysOK'
  <2>1. ASSUME NEW i \in JobIds
        PROVE  (IF jobs[i].status = "NONE" THEN jobs[i].attempts = 0 ELSE KeyOK(Key(i)))'
    <3>1. /\ jobs'[i].status = "NONE" <=> jobs[i].status = "NONE"
          /\ jobs'[i].input = jobs[i].input
          /\ jobs[i].status = "NONE" => jobs'[i].attempts = jobs[i].attempts
      BY DEF JobsMoved
    <3>2. CASE jobs[i].status = "NONE"
      BY <1>1, <3>1, <3>2 DEF KeysOK
    <3>3. CASE jobs[i].status # "NONE"
      <4>1. PICK k : k = Key(i)
        OBVIOUS
      <4>2. KeyOK(k)'
        BY <1>1, <3>3, <4>1, KeysAge DEF KeysOK
      <4> QED BY <3>1, <3>3, <4>1, <4>2 DEF KeyOK, Past, Key
    <3> QED BY <3>2, <3>3
  <2>2. ASSUME NEW c \in DOMAIN exports' PROVE KeyOK(c)'
    BY <1>1, KeysAge DEF KeysOK
  <2> QED BY <2>1, <2>2 DEF KeysOK
<1>4. LockOK'
  <2>1. \A i \in JobIds : jobs'[i].input = jobs[i].input
    BY DEF JobsMoved
  <2> QED BY <1>1, <2>1 DEF LockOK, Key, HoldsLock, Pc
<1>5. ASSUME NEW i \in JobIds, NEW b \in AttemptNumbers
      PROVE  Fits(i, b, handler[i][b], Key(i))'
  <2>1. PICK g : g = handler[i][b]
    OBVIOUS
  <2>2. PICK c : c = Key(i)
    OBVIOUS
  <2>3. handler'[i][b] = g /\ Key(i)' = c /\ g \in Handlers
    BY <1>1, <2>1, <2>2 DEF JobsMoved, Key, TypeOK
  <2>4. CASE g.pc = "none"
    <3>1. Fits(i, b, g, c)'
      BY <2>4 DEF Fits
    <3> QED BY <2>3, <3>1 DEF Fits, Key
  <2>5. CASE g.pc # "none"
    <3>1. c \in Inputs /\ Past(c.snapshot) /\ Fits(i, b, g, c)
      BY <2>1, <2>2, <2>5, AttemptHasKey
    <3>2. /\ jobs[i].attempts \in Nat /\ jobs'[i].attempts \in Nat
          /\ jobs[i].attempts <= jobs'[i].attempts
      BY <1>1 DEF TypeOK, JobsMoved, JobRows
    <3>3. c \in DOMAIN exports => c \in DOMAIN exports' /\ exports[c] \in Rows /\ RowKept(c)
      BY <1>1 DEF TypeOK
    <3>4. /\ c \in current' => c \in current
          /\ c \in current /\ c \notin current' => ~Unchanged(c)'
          /\ c \in lost => c \in lost'
          /\ c \in unanswered => c \in unanswered'
      OBVIOUS
    <3>6. c \in current => exports'[c].sha256 = exports[c].sha256
      BY <1>1 DEF TypeOK, RowKept
    <3>5. Fits(i, b, g, c)'
      BY <1>1, <2>3, <3>1, <3>2, <3>3, <3>4, <3>6, FitsKept
    <3> QED BY <2>3, <3>5 DEF Fits, Key
  <2> QED BY <2>4, <2>5
<1>6. AttemptsOK'
  BY <1>5 DEF AttemptsOK
<1> QED BY <1>2, <1>3, <1>4, <1>6 DEF ExportsInv

\* Rows that nobody touches are kept.
LEMMA RowsKept ==
  ASSUME UNCHANGED <<exports, cleanup>>
  PROVE  \A c \in DOMAIN exports : RowKept(c)
  BY DEF RowKept, RowFree

\* The steps of the workflow.
LEMMA WorkflowStep ==
  ASSUME ExportsInv, ReviewNext, UNCHANGED <<jobs, handler, storageVars>>
  PROVE  ExportsInv'
<1>1. UNCHANGED <<exports, cleanup, lost, unanswered>>
  BY DEF storageVars, history
<1>2. TypeOK /\ ReviewTypeOK /\ KeysOK /\ ErasedOK /\ DeletedOK /\ CurrentExports /\ DeliveredPackage
  BY InvParts
<1>3. ReviewStepOK /\ JobsMoved
  BY <1>2, ReviewStep, InvParts, JobsSame
<1>4. /\ ReviewTypeOK' /\ ApprovalCoversEdits' /\ ProjectMoved /\ StillDelivered
      /\ project'.exists = project.exists
      /\ IF project'.revision = project.revision THEN current' = current ELSE current' = {}
  BY <1>3 DEF ReviewStepOK
<1>5. ASSUME NEW c \in current \ current'
      PROVE  ~Unchanged(c)'
  <2>1. KeyOK(c)
    BY <1>2 DEF TypeOK, KeysOK
  <2>2. c.snapshot.revision \in Nat /\ c.snapshot.revision <= project.revision
    BY <2>1 DEF KeyOK, Past, Inputs, Snapshots
  <2>3. /\ project'.revision # project.revision /\ project.revision <= project'.revision
        /\ project.revision \in Nat /\ project'.revision \in Nat
    BY <1>2, <1>4, <1>5 DEF ProjectMoved, ReviewTypeOK, Projects
  <2>4. c.snapshot.revision # project'.revision
    BY <2>2, <2>3
  <2> QED BY <2>4 DEF Unchanged, Snapshot
<1>6. ErasedOK' /\ DeletedOK'
  BY <1>1, <1>2, <1>4 DEF ErasedOK, DeletedOK
<1>7. CurrentExports'
  BY <1>1, <1>2, <1>4 DEF CurrentExports
<1>8. DeliveredPackage'
  <2> SUFFICES ASSUME project'.exists, project'.status = "DELIVERED"
               PROVE  \E c \in current' \cup lost' \cup unanswered' :
                        c.format = "ZIP" /\ c.snapshot.revision = project'.revision
    BY DEF DeliveredPackage
  <2>1. project'.revision = project.revision /\ current' = current /\ lost' = lost /\ unanswered' = unanswered
    BY <1>1, <1>4 DEF StillDelivered
  <2>2. CASE project.status = "DELIVERED"
    BY <1>2, <1>4, <2>1, <2>2 DEF DeliveredPackage
  <2>3. CASE \E c \in current : c.format = "ZIP"
    BY <1>2, <2>1, <2>3 DEF CurrentExports
  <2> QED BY <1>4, <2>2, <2>3 DEF StillDelivered
<1>9. /\ \A c \in DOMAIN exports : exports'[c] \in Rows /\ RowKept(c)
      /\ DOMAIN exports' = DOMAIN exports /\ lost \subseteq lost' /\ unanswered \subseteq unanswered'
      /\ cleanup'.pc \in {"idle", "delete", "erased"}
      /\ cleanup'.pc # "idle" => cleanup'.key \in DOMAIN exports
  BY <1>1, <1>2, RowsKept DEF TypeOK
<1>10. current' \subseteq current
  BY <1>4
<1> QED BY <1>3, <1>4, <1>5, <1>6, <1>7, <1>8, <1>9, <1>10, OtherMoves

\* The queue moves a job, and no handler knows.
LEMMA QueueSteps ==
  ASSUME ExportsInv, NEW j \in JobIds, AttemptLost(j) \/ OperatorSteps(j)
  PROVE  ExportsInv'
<1>1. UNCHANGED <<project, plans, gates, findings, planner, current, handler, exports, cleanup, lost, unanswered>>
  BY DEF AttemptLost, OperatorSteps, reviewVars, storageVars, history
<1>2. /\ TypeOK /\ ReviewTypeOK /\ ApprovalCoversEdits /\ ErasedOK /\ DeletedOK
      /\ CurrentExports /\ DeliveredPackage
  BY InvParts
<1>3. JobsMoved
  BY <1>2, QueueStep DEF AttemptLost, OperatorSteps
<1>4. ReviewTypeOK' /\ ApprovalCoversEdits' /\ ProjectMoved
  BY <1>1, <1>2, ProjectStays
<1>5. ErasedOK' /\ DeletedOK' /\ CurrentExports' /\ DeliveredPackage'
  BY <1>1, <1>2 DEF ErasedOK, DeletedOK, CurrentExports, DeliveredPackage
<1>6. /\ \A c \in DOMAIN exports : exports'[c] \in Rows /\ RowKept(c)
      /\ DOMAIN exports' = DOMAIN exports /\ lost \subseteq lost' /\ unanswered \subseteq unanswered'
      /\ cleanup'.pc \in {"idle", "delete", "erased"}
      /\ cleanup'.pc # "idle" => cleanup'.key \in DOMAIN exports
  BY <1>1, <1>2, RowsKept DEF TypeOK
<1> QED BY <1>1, <1>3, <1>4, <1>5, <1>6, OtherMoves

\* A job is submitted with a snapshot of the project as it is.
LEMMA SubmitStep ==
  ASSUME ExportsInv, NEW j \in JobIds, NEW format \in Formats, submitProjectExportJob(j, format)
  PROVE  ExportsInv'
<1> DEFINE key == [format |-> format, snapshot |-> Snapshot]
           job == QueuedJob(key)
<1>1. /\ UNCHANGED <<project, plans, gates, findings, planner, current, handler, exports, cleanup, lost, unanswered>>
      /\ jobs[j].status = "NONE" /\ Exportable(format) /\ jobs' = [jobs EXCEPT ![j] = job]
  BY DEF submitProjectExportJob, reviewVars, storageVars, history
<1>2. /\ TypeOK /\ ReviewTypeOK /\ ApprovalCoversEdits /\ KeysOK /\ LockOK /\ ErasedOK /\ DeletedOK
      /\ AttemptsOK /\ CurrentExports /\ DeliveredPackage
  BY InvParts
<1>3. /\ project.revision \in Nat /\ project.commits \in Nat /\ project.qa \in Marks
      /\ project.approval \in Approvals /\ Rank(project.approval) \in Nat
  BY <1>2, Ranks DEF ReviewTypeOK, Projects
<1>4. key \in Inputs
  BY <1>3 DEF Inputs, Snapshots, Snapshot
<1>5. KeyOK(key)
  <2>1. Past(key.snapshot)
    BY <1>3 DEF Past, Snapshot
  <2>2. key.format = "ZIP" => key.snapshot.approval = "APPROVED"
    BY <1>1 DEF Exportable, Snapshot
  <2> QED BY <1>4, <2>1, <2>2 DEF KeyOK
<1> HIDE DEF key
<1>6. job \in JobRows /\ job.status = "QUEUED" /\ job.attempts = 0 /\ job.input = key
  BY <1>4 DEF QueuedJob, JobRows, JobQueueStatuses
<1> HIDE DEF job
<1>7. jobs' \in [JobIds -> JobRows] /\ jobs'[j] = job /\ \A i \in JobIds \ {j} : jobs'[i] = jobs[i]
  BY <1>1, <1>2, <1>6 DEF TypeOK
<1>8. \A a \in AttemptNumbers : handler[j][a].pc = "none"
  <2>1. jobs[j].attempts = 0
    BY <1>1, <1>2 DEF KeysOK
  <2> QED BY <1>2, <2>1 DEF AttemptsOK, Fits, AttemptNumbers
<1>9. ReviewTypeOK' /\ ApprovalCoversEdits'
  BY <1>1, <1>2, ProjectStays
<1>10. TypeOK'
  BY <1>1, <1>2, <1>7, <1>9 DEF TypeOK
<1>11. KeysOK'
  <2>1. ASSUME NEW i \in JobIds
        PROVE  (IF jobs[i].status = "NONE" THEN jobs[i].attempts = 0 ELSE KeyOK(Key(i)))'
    <3>1. CASE i = j
      BY <1>1, <1>5, <1>6, <1>7, <3>1 DEF KeyOK, Past, Key
    <3>2. CASE i # j
      BY <1>1, <1>2, <1>7, <3>2 DEF KeysOK, KeyOK, Past, Key
    <3> QED BY <3>1, <3>2
  <2>2. \A c \in DOMAIN exports' : KeyOK(c)'
    BY <1>1, <1>2 DEF KeysOK, KeyOK, Past
  <2> QED BY <2>1, <2>2 DEF KeysOK
<1>12. LockOK'
  BY <1>1, <1>2, <1>7, <1>8 DEF LockOK, HoldsLock, Pc, Persisting, Key
<1>13. ErasedOK' /\ DeletedOK' /\ CurrentExports' /\ DeliveredPackage'
  BY <1>1, <1>2 DEF ErasedOK, DeletedOK, CurrentExports, DeliveredPackage
<1>14. AttemptsOK'
  <2> SUFFICES ASSUME NEW i \in JobIds, NEW b \in AttemptNumbers
               PROVE  Fits(i, b, handler[i][b], Key(i))'
    BY DEF AttemptsOK
  <2>1. CASE i = j
    BY <1>1, <1>8, <2>1 DEF Fits, Key
  <2>2. CASE i # j
    <3>1. Fits(i, b, handler[i][b], Key(i)) /\ jobs'[i] = jobs[i]
      BY <1>2, <1>7, <2>2 DEF AttemptsOK
    <3> QED BY <1>1, <3>1 DEF Fits, Key, RowFree, Unchanged, Snapshot, Excepted
  <2> QED BY <2>1, <2>2
<1> QED BY <1>9, <1>10, <1>11, <1>12, <1>13, <1>14 DEF ExportsInv

\* A new attempt begins, beside whatever its predecessors still do.
LEMMA StartStep ==
  ASSUME ExportsInv, NEW j \in JobIds, Start(j)
  PROVE  ExportsInv'
<1> DEFINE a == jobs[j].attempts + 1
           fresh == [NoHandler EXCEPT !.pc = "load"]
           job == [jobs[j] EXCEPT !.status = "RUNNING", !.attempts = a]
<1>1. /\ UNCHANGED <<project, plans, gates, findings, planner, current, exports, cleanup, lost, unanswered>>
      /\ jobs[j].status = "QUEUED" /\ jobs[j].attempts < jobs[j].max
      /\ handler' = [handler EXCEPT ![j][a] = fresh]
  BY DEF Start, StartAttempt, reviewVars, storageVars, history
<1>2. /\ TypeOK /\ ReviewTypeOK /\ ApprovalCoversEdits /\ KeysOK /\ LockOK /\ ErasedOK /\ DeletedOK
      /\ AttemptsOK /\ CurrentExports /\ DeliveredPackage
  BY InvParts
<1>3. jobs[j] \in JobRows /\ jobs \in [JobIds -> JobRows]
  BY <1>2 DEF TypeOK
<1>4. a \in AttemptNumbers /\ a > jobs[j].attempts /\ a \in 0..AttemptCap
  BY <1>1, <1>3 DEF JobRows, AttemptNumbers
<1>5. jobs' = [jobs EXCEPT ![j] = job]
  BY DEF Start, StartAttempt
<1> HIDE DEF a
<1>6. job \in JobRows /\ job.status = "RUNNING" /\ job.attempts = a /\ job.input = jobs[j].input
  BY <1>3, <1>4 DEF JobRows, JobQueueStatuses
<1> HIDE DEF job
<1>7. jobs' \in [JobIds -> JobRows] /\ jobs'[j] = job /\ \A i \in JobIds \ {j} : jobs'[i] = jobs[i]
  BY <1>3, <1>5, <1>6
<1>8. fresh \in Handlers /\ fresh.pc = "load" /\ fresh.phase = "fast"
  BY OutcomesArePlaces DEF NoHandler, Handlers
<1> HIDE DEF fresh
<1>9. /\ handler' \in [JobIds -> [AttemptNumbers -> Handlers]] /\ handler'[j][a] = fresh
      /\ \A i \in JobIds, b \in AttemptNumbers : i # j \/ b # a => handler'[i][b] = handler[i][b]
  BY <1>1, <1>2, <1>4, <1>8 DEF TypeOK
<1>10. ReviewTypeOK' /\ ApprovalCoversEdits'
  BY <1>1, <1>2, ProjectStays
<1>11. TypeOK'
  BY <1>1, <1>2, <1>7, <1>9, <1>10 DEF TypeOK
<1>12. \A i \in JobIds : jobs'[i].input = jobs[i].input /\ (jobs'[i].status = "NONE" <=> jobs[i].status = "NONE")
  BY <1>1, <1>6, <1>7
<1>13. KeysOK'
  <2>1. ASSUME NEW i \in JobIds
        PROVE  (IF jobs[i].status = "NONE" THEN jobs[i].attempts = 0 ELSE KeyOK(Key(i)))'
    <3>1. CASE i = j
      BY <1>1, <1>2, <1>6, <1>7, <3>1 DEF KeysOK, KeyOK, Past, Key
    <3>2. CASE i # j
      BY <1>1, <1>2, <1>7, <3>2 DEF KeysOK, KeyOK, Past, Key
    <3> QED BY <3>1, <3>2
  <2>2. \A c \in DOMAIN exports' : KeyOK(c)'
    BY <1>1, <1>2 DEF KeysOK, KeyOK, Past
  <2> QED BY <2>1, <2>2 DEF KeysOK
<1>14. \A i \in JobIds, b \in AttemptNumbers : HoldsLock(i, b)' => HoldsLock(i, b)
  <2> SUFFICES ASSUME NEW i \in JobIds, NEW b \in AttemptNumbers, HoldsLock(i, b)'
               PROVE  HoldsLock(i, b)
    OBVIOUS
  <2>1. CASE i = j /\ b = a
    BY <1>8, <1>9, <2>1 DEF HoldsLock, Pc, Persisting
  <2>2. CASE i # j \/ b # a
    BY <1>9, <2>2 DEF HoldsLock, Pc
  <2> QED BY <2>1, <2>2
<1>15. LockOK'
  BY <1>2, <1>12, <1>14 DEF LockOK, Key
<1>16. ErasedOK' /\ DeletedOK' /\ CurrentExports' /\ DeliveredPackage'
  BY <1>1, <1>2 DEF ErasedOK, DeletedOK, CurrentExports, DeliveredPackage
<1>17. AttemptsOK'
  <2> SUFFICES ASSUME NEW i \in JobIds, NEW b \in AttemptNumbers
               PROVE  Fits(i, b, handler[i][b], Key(i))'
    BY DEF AttemptsOK
  <2>1. CASE i = j /\ b = a
    <3>1. ~(b > jobs'[i].attempts)
      BY <1>4, <1>6, <1>7, <2>1 DEF AttemptNumbers
    <3> QED BY <1>8, <1>9, <2>1, <3>1 DEF Fits
  <2>2. CASE i # j \/ b # a
    <3>1. Fits(i, b, handler[i][b], Key(i)) /\ handler'[i][b] = handler[i][b]
      BY <1>2, <1>9, <2>2 DEF AttemptsOK
    <3>2. b > jobs'[i].attempts => b > jobs[i].attempts
      BY <1>3, <1>4, <1>6, <1>7 DEF AttemptNumbers, JobRows
    <3> QED BY <1>1, <1>12, <3>1, <3>2 DEF Fits, Key, RowFree, Unchanged, Snapshot, Excepted
  <2> QED BY <2>1, <2>2
<1> QED BY <1>10, <1>11, <1>13, <1>15, <1>16, <1>17 DEF ExportsInv

\* A step of the cleanup or of the store changes one row.
LEMMA StoreMoves ==
  ASSUME ExportsInv, NEW k \in DOMAIN exports, NEW row \in Rows, SetRow(k, row),
         UNCHANGED <<reviewVars, jobs, handler, unanswered>>, lost \subseteq lost',
         cleanup'.pc \in {"idle", "delete", "erased"},
         cleanup'.pc # "idle" => cleanup'.key \in DOMAIN exports,
         \A c \in DOMAIN exports \ {k} : ~RowFree(c) => ~RowFree(c)',
         exports'[k] = row => RowKept(k),
         cleanup'.pc = "erased" =>
           \/ cleanup'.key = k /\ row.leased /\ row.retention = "PENDING_DELETE"
           \/ UNCHANGED cleanup /\ row.leased = exports[k].leased
              /\ row.retention = exports[k].retention,
         row.retention = exports[k].retention \/ row.retention = "DELETED",
         row.status = exports[k].status, row.sha256 = exports[k].sha256,
         row.bytes = exports[k].bytes \/ k \in lost' \/ exports[k].retention # "ACTIVE",
         row.retention = "DELETED" => exports[k].retention # "ACTIVE"
  PROVE  ExportsInv'
<1>1. /\ UNCHANGED <<project, plans, gates, findings, planner, current, handler, jobs, unanswered>>
  BY DEF reviewVars
<1>2. /\ TypeOK /\ ReviewTypeOK /\ ApprovalCoversEdits /\ ErasedOK /\ DeletedOK
      /\ CurrentExports /\ DeliveredPackage /\ JobsMoved
  BY InvParts, JobsSame
<1>3. ReviewTypeOK' /\ ApprovalCoversEdits' /\ ProjectMoved
  BY <1>1, <1>2, ProjectStays
<1>4. /\ DOMAIN exports' = DOMAIN exports /\ exports'[k] = row
      /\ \A c \in DOMAIN exports \ {k} : exports'[c] = exports[c]
  <2>1. /\ DOMAIN exports' = DOMAIN exports \cup {k} /\ exports'[k] = row
        /\ \A c \in DOMAIN exports \ {k} : exports'[c] = exports[c]
    BY SetRowIs
  <2> QED BY <2>1
<1>5. \A c \in DOMAIN exports : exports'[c] \in Rows /\ RowKept(c)
  <2> SUFFICES ASSUME NEW c \in DOMAIN exports PROVE exports'[c] \in Rows /\ RowKept(c)
    OBVIOUS
  <2>1. CASE c = k
    BY <1>4, <2>1
  <2>2. CASE c # k
    BY <1>1, <1>2, <1>4, <2>2 DEF RowKept, TypeOK
  <2> QED BY <2>1, <2>2
<1>6. ErasedOK'
  BY <1>2, <1>4 DEF ErasedOK, TypeOK
<1>7. DeletedOK'
  BY <1>1, <1>2, <1>4 DEF DeletedOK
<1>8. CurrentExports'
  <2> SUFFICES ASSUME NEW c \in current
               PROVE  /\ exports'[c].status = "AVAILABLE" /\ exports'[c].retention = "ACTIVE"
                      /\ c \in lost' \/ exports'[c].bytes = exports'[c].sha256
    BY <1>1, <1>2 DEF CurrentExports
  <2>1. /\ exports[c].status = "AVAILABLE" /\ exports[c].retention = "ACTIVE"
        /\ c \in lost \/ exports[c].bytes = exports[c].sha256
        /\ c \in DOMAIN exports
    BY <1>2 DEF CurrentExports, TypeOK
  <2>2. CASE c = k
    BY <1>4, <2>1, <2>2
  <2>3. CASE c # k
    BY <1>4, <2>1, <2>3
  <2> QED BY <2>2, <2>3
<1>9. DeliveredPackage'
  BY <1>1, <1>2 DEF DeliveredPackage
<1>10. current' \subseteq current /\ \A c \in current \ current' : ~Unchanged(c)'
  BY <1>1
<1> QED BY <1>1, <1>2, <1>3, <1>4, <1>5, <1>6, <1>7, <1>8, <1>9, <1>10, OtherMoves

\* A failed object is claimed.
LEMMA ClaimStep ==
  ASSUME ExportsInv, NEW k \in DOMAIN exports, claimDeletionCandidate(k)
  PROVE  ExportsInv'
<1> DEFINE row == [exports[k] EXCEPT !.leased = TRUE]
<1>1. /\ cleanup.pc = "idle" /\ exports[k].retention = "PENDING_DELETE" /\ SetRow(k, row)
      /\ cleanup' = [pc |-> "delete", key |-> k]
      /\ UNCHANGED <<reviewVars, jobs, handler, lost, unanswered>>
  BY DEF claimDeletionCandidate, history
<1>2. exports[k] \in Rows
  BY InvParts DEF TypeOK
<1>3. /\ row \in Rows /\ row.retention = exports[k].retention /\ row.status = exports[k].status
      /\ row.sha256 = exports[k].sha256 /\ row.bytes = exports[k].bytes
  BY <1>2 DEF Rows
<1> HIDE DEF row
<1>4. \A c : RowFree(c)
  BY <1>1 DEF RowFree
<1>5. exports'[k] = row => RowKept(k)
  BY <1>3, <1>4 DEF RowKept
<1> QED BY <1>1, <1>3, <1>4, <1>5, StoreMoves

\* The claimed object's bytes are erased, or the claim is found lost.
LEMMA EraseStep ==
  ASSUME ExportsInv, deleteClaimed
  PROVE  ExportsInv'
<1>1. PICK k : k = cleanup.key
  OBVIOUS
<1> DEFINE row == [exports[k] EXCEPT !.bytes = NoBytes]
<1>2. /\ cleanup.pc = "delete" /\ UNCHANGED <<reviewVars, jobs, handler, lost, unanswered>>
      /\ \/ /\ exports[k].leased /\ exports[k].retention = "PENDING_DELETE"
            /\ SetRow(k, row) /\ cleanup' = [cleanup EXCEPT !.pc = "erased"]
         \/ UNCHANGED exports /\ cleanup' = IdleCleanup
  BY <1>1 DEF deleteClaimed, history
<1>3. k \in DOMAIN exports /\ exports[k] \in Rows
  BY <1>1, <1>2, InvParts DEF TypeOK
<1>4. /\ row \in Rows /\ row.retention = exports[k].retention /\ row.status = exports[k].status
      /\ row.sha256 = exports[k].sha256 /\ row.leased = exports[k].leased
  BY <1>3 DEF Rows
<1>5. \A c : RowFree(c)
  BY <1>2 DEF RowFree
<1>6. CASE /\ exports[k].leased /\ exports[k].retention = "PENDING_DELETE"
           /\ SetRow(k, row) /\ cleanup' = [cleanup EXCEPT !.pc = "erased"]
  <2> HIDE DEF row
  <2>1. cleanup'.pc = "erased" /\ cleanup'.key = k
    BY <1>1, <1>2, <1>6
  <2>2. ~RowFree(k)'
    BY <2>1 DEF RowFree
  <2>3. exports'[k] = row => RowKept(k)
    BY <1>4, <1>5, <1>6, <2>2 DEF RowKept
  <2> QED BY <1>2, <1>3, <1>4, <1>5, <1>6, <2>1, <2>3, StoreMoves
<1>7. CASE UNCHANGED exports /\ cleanup' = IdleCleanup
  <2>1. SetRow(k, exports[k]) \/ exports' = exports
    BY <1>7
  <2>2. cleanup'.pc = "idle"
    BY <1>7 DEF IdleCleanup
  <2>3. /\ UNCHANGED <<project, plans, gates, findings, planner, current, handler, jobs, exports, lost, unanswered>>
    BY <1>2, <1>7 DEF reviewVars
  <2>4. /\ TypeOK /\ ReviewTypeOK /\ ApprovalCoversEdits /\ ErasedOK /\ DeletedOK
        /\ CurrentExports /\ DeliveredPackage /\ JobsMoved
    BY <2>3, InvParts, JobsSame
  <2>5. ReviewTypeOK' /\ ApprovalCoversEdits' /\ ProjectMoved
    BY <2>3, <2>4, ProjectStays
  <2>6. \A c \in DOMAIN exports : exports'[c] \in Rows /\ RowKept(c)
    BY <1>5, <2>3, <2>4 DEF RowKept, TypeOK
  <2>7. ErasedOK' /\ DeletedOK' /\ CurrentExports' /\ DeliveredPackage'
    BY <2>2, <2>3, <2>4 DEF ErasedOK, DeletedOK, CurrentExports, DeliveredPackage
  <2> QED BY <2>2, <2>3, <2>4, <2>5, <2>6, <2>7, OtherMoves
<1> QED BY <1>2, <1>6, <1>7

\* The erased object is recorded as deleted, or its claim is given back.
LEMMA EraseEnds ==
  ASSUME ExportsInv, MarkDeleted \/ CleanupRollsBack
  PROVE  ExportsInv'
<1>1. PICK k : k = cleanup.key
  OBVIOUS
<1> DEFINE gone == [exports[k] EXCEPT !.retention = "DELETED", !.leased = FALSE]
           kept == [exports[k] EXCEPT !.leased = FALSE]
<1>2. /\ cleanup.pc = "erased" /\ UNCHANGED <<reviewVars, jobs, handler, unanswered>>
      /\ cleanup' = IdleCleanup
      /\ \/ SetRow(k, gone) /\ lost' = lost
         \/ SetRow(k, kept) /\ lost' = lost \cup {k}
  BY <1>1 DEF MarkDeleted, CleanupRollsBack, history
<1>3. k \in DOMAIN exports /\ exports[k] \in Rows /\ exports[k].retention = "PENDING_DELETE"
  BY <1>1, <1>2, InvParts DEF TypeOK, ErasedOK
<1>4. /\ gone \in Rows /\ gone.retention = "DELETED" /\ gone.status = exports[k].status
      /\ gone.sha256 = exports[k].sha256 /\ gone.bytes = exports[k].bytes
  BY <1>3 DEF Rows
<1>5. /\ kept \in Rows /\ kept.retention = exports[k].retention /\ kept.status = exports[k].status
      /\ kept.sha256 = exports[k].sha256 /\ kept.bytes = exports[k].bytes
  BY <1>3 DEF Rows
<1> HIDE DEF gone, kept
<1>6. cleanup'.pc = "idle"
  BY <1>2 DEF IdleCleanup
<1>7. \A c \in DOMAIN exports \ {k} : RowFree(c)
  BY <1>1 DEF RowFree
<1>8. CASE SetRow(k, gone) /\ lost' = lost
  <2>1. exports'[k] = gone => RowKept(k)
    BY <1>3, <1>4 DEF RowKept
  <2> QED BY <1>2, <1>3, <1>4, <1>6, <1>7, <1>8, <2>1, StoreMoves
<1>9. CASE SetRow(k, kept) /\ lost' = lost \cup {k}
  <2>1. exports'[k] = kept => RowKept(k)
    BY <1>3, <1>5, <1>9 DEF RowKept
  <2> QED BY <1>2, <1>3, <1>5, <1>6, <1>7, <1>9, <2>1, StoreMoves
<1> QED BY <1>2, <1>8, <1>9

\* A claim runs out, or the store loses an object.
LEMMA StoreFaults ==
  ASSUME ExportsInv, CleanupLeaseExpires \/ \E k \in DOMAIN exports : LoseBytes(k)
  PROVE  ExportsInv'
<1>1. CASE CleanupLeaseExpires
  <2>1. PICK k : k = cleanup.key
    OBVIOUS
  <2> DEFINE row == [exports[k] EXCEPT !.leased = FALSE]
  <2>2. /\ cleanup.pc = "delete" /\ SetRow(k, row)
        /\ UNCHANGED <<reviewVars, jobs, handler, cleanup, lost, unanswered>>
    BY <1>1, <2>1 DEF CleanupLeaseExpires, history
  <2>3. /\ k \in DOMAIN exports /\ exports[k] \in Rows /\ cleanup.pc \in {"idle", "delete", "erased"}
        /\ cleanup.pc # "idle" => cleanup.key \in DOMAIN exports
    BY <2>1, <2>2, InvParts DEF TypeOK
  <2>4. /\ row \in Rows /\ row.retention = exports[k].retention /\ row.status = exports[k].status
        /\ row.sha256 = exports[k].sha256 /\ row.bytes = exports[k].bytes
    BY <2>3 DEF Rows
  <2> HIDE DEF row
  <2>5. \A c : RowFree(c)
    BY <2>2 DEF RowFree
  <2>6. exports'[k] = row => RowKept(k)
    BY <2>4, <2>5 DEF RowKept
  <2> QED BY <2>2, <2>3, <2>4, <2>5, <2>6, StoreMoves
<1>2. ASSUME NEW k \in DOMAIN exports, LoseBytes(k)
      PROVE  ExportsInv'
  <2> DEFINE row == [exports[k] EXCEPT !.bytes = NoBytes]
  <2>2. /\ SetRow(k, row) /\ lost' = lost \cup {k}
        /\ UNCHANGED <<reviewVars, jobs, handler, cleanup, unanswered>>
    BY <1>2 DEF LoseBytes
  <2>3. /\ exports[k] \in Rows /\ cleanup.pc \in {"idle", "delete", "erased"}
        /\ cleanup.pc # "idle" => cleanup.key \in DOMAIN exports
    BY InvParts DEF TypeOK
  <2>4. /\ row \in Rows /\ row.retention = exports[k].retention /\ row.status = exports[k].status
        /\ row.sha256 = exports[k].sha256 /\ row.leased = exports[k].leased
    BY <2>3 DEF Rows
  <2> HIDE DEF row
  <2>5. exports'[k] = row => RowKept(k)
    BY <2>2, <2>4 DEF RowKept
  <2>6. \A c \in DOMAIN exports \ {k} : ~RowFree(c) => ~RowFree(c)'
    BY <2>2 DEF RowFree
  <2>7. row.retention = "DELETED" => exports[k].retention # "ACTIVE"
    BY <2>4
  <2>8. /\ cleanup'.pc \in {"idle", "delete", "erased"}
        /\ cleanup'.pc # "idle" => cleanup'.key \in DOMAIN exports
        /\ lost \subseteq lost' /\ k \in lost'
    BY <2>2, <2>3
  <2> QED BY <2>2, <2>4, <2>5, <2>6, <2>7, <2>8, StoreMoves
<1> QED BY <1>1, <1>2

\* Deleting the project schedules every object that is not erased yet.
LEMMA DeleteStep ==
  ASSUME ExportsInv, deleteProject
  PROVE  ExportsInv'
<1>1. /\ project' = [project EXCEPT !.exists = FALSE] /\ current' = {} /\ planner' = {}
      /\ cleanup.pc # "erased" /\ UNCHANGED <<plans, gates, findings, handler, cleanup, lost, unanswered>>
      /\ jobs' = [j \in JobIds |-> IF jobs[j].status = "QUEUED"
                                   THEN [jobs[j] EXCEPT !.status = "CANCELLED"] ELSE jobs[j]]
      /\ exports' = [k \in DOMAIN exports |->
                       IF exports[k].retention = "DELETED" THEN exports[k]
                       ELSE [exports[k] EXCEPT !.retention = "PENDING_DELETE", !.leased = FALSE]]
  BY DEF deleteProject, history
<1>2. /\ TypeOK /\ ReviewTypeOK /\ ApprovalCoversEdits
  BY InvParts
<1>3. JobsMoved
  <2>1. ASSUME NEW j \in JobIds
        PROVE  /\ jobs'[j] \in JobRows /\ (jobs'[j].status = "NONE" <=> jobs[j].status = "NONE")
               /\ jobs'[j].input = jobs[j].input /\ jobs'[j].attempts = jobs[j].attempts
               /\ jobs[j].attempts \in Nat
    <3>1. jobs[j] \in JobRows
      BY <1>2 DEF TypeOK
    <3>2. jobs'[j] = IF jobs[j].status = "QUEUED" THEN [jobs[j] EXCEPT !.status = "CANCELLED"] ELSE jobs[j]
      BY <1>1
    <3>3. CASE jobs[j].status = "QUEUED"
      BY <3>1, <3>2, <3>3 DEF JobRows, JobQueueStatuses
    <3>4. CASE jobs[j].status # "QUEUED"
      BY <3>1, <3>2, <3>4 DEF JobRows
    <3> QED BY <3>3, <3>4
  <2>2. jobs' \in [JobIds -> JobRows]
    BY <1>1, <2>1
  <2> QED BY <2>1, <2>2 DEF JobsMoved
<1>4. /\ project' \in Projects /\ ~project'.exists /\ project'.revision = project.revision
      /\ project'.commits = project.commits /\ project'.qa = project.qa
      /\ project'.approval = project.approval /\ project'.plan = project.plan
      /\ project'.scope = project.scope /\ project'.status = project.status
  BY <1>1, <1>2 DEF ReviewTypeOK, Projects
<1>5. ReviewTypeOK' /\ ApprovalCoversEdits'
  BY <1>1, <1>2, <1>4 DEF ReviewTypeOK, ApprovalCoversEdits, Asked
<1>6. ProjectMoved
  <2>1. Rank(project.approval) \in Nat
    BY <1>2, Ranks DEF ReviewTypeOK, Projects
  <2> QED BY <1>2, <1>4, <2>1 DEF ProjectMoved, ReviewTypeOK, Projects
<1>7. ASSUME NEW k \in DOMAIN exports
      PROVE  /\ exports'[k] \in Rows /\ RowKept(k)
             /\ exports'[k].retention \in {"PENDING_DELETE", "DELETED"}
  <2>1. exports[k] \in Rows
    BY <1>2 DEF TypeOK
  <2>2. /\ exports[k].retention = "DELETED" => exports'[k] = exports[k]
        /\ exports[k].retention # "DELETED" =>
             exports'[k] = [exports[k] EXCEPT !.retention = "PENDING_DELETE", !.leased = FALSE]
    BY <1>1
  <2>3. /\ exports'[k] \in Rows /\ exports'[k].retention \in {"PENDING_DELETE", "DELETED"}
        /\ exports'[k].sha256 = exports[k].sha256 /\ exports'[k].bytes = exports[k].bytes
        /\ exports[k].retention = "DELETED" => exports'[k].retention = "DELETED"
    BY <2>1, <2>2 DEF Rows
  <2>4. RowFree(k)
    BY <1>1 DEF RowFree
  <2> QED BY <1>4, <2>3, <2>4 DEF RowKept
<1>8. DOMAIN exports' = DOMAIN exports
  BY <1>1
<1>9. ErasedOK' /\ DeletedOK' /\ CurrentExports' /\ DeliveredPackage'
  BY <1>1, <1>4, <1>7, <1>8 DEF ErasedOK, DeletedOK, CurrentExports, DeliveredPackage
<1>10. /\ current' \subseteq current /\ lost \subseteq lost' /\ unanswered \subseteq unanswered'
       /\ cleanup'.pc \in {"idle", "delete", "erased"}
       /\ cleanup'.pc # "idle" => cleanup'.key \in DOMAIN exports
  BY <1>1, <1>2 DEF TypeOK
<1>11. \A c \in current \ current' : ~Unchanged(c)'
  BY <1>4 DEF Unchanged
<1> QED BY <1>1, <1>3, <1>5, <1>6, <1>7, <1>8, <1>9, <1>10, <1>11, OtherMoves

-----------------------------------------------------------------------------
(* The theorems.                                                           *)

\* The invariant holds in the initial state.
LEMMA InitInv == Init => ExportsInv
<1> SUFFICES ASSUME Init PROVE ExportsInv
  OBVIOUS
<1>1. /\ ReviewInit /\ jobs = [j \in JobIds |-> NoJob] /\ exports = << >>
      /\ handler = [j \in JobIds |-> [a \in AttemptNumbers |-> NoHandler]]
      /\ cleanup = IdleCleanup
  BY DEF Init
<1>2. /\ project.exists /\ project.status = "RESEARCHING" /\ project.scope /\ project.plan
      /\ project.qa = NotPassed /\ project.approval = "NOT_REQUESTED"
      /\ project.revision = 0 /\ project.commits = 0 /\ project \in Projects
  BY <1>1, NotPassedIs DEF ReviewInit, Projects, WorkStatuses, Approvals
<1>3. plans = [q \in Questions |-> IF q \in Planned THEN "approved" ELSE "none"]
      /\ gates = Gates /\ findings = {} /\ planner = {} /\ current = {}
  BY <1>1 DEF ReviewInit
<1>4. ReviewTypeOK
  BY <1>2, <1>3 DEF ReviewTypeOK, PlanStates
<1>5. ApprovalCoversEdits
  BY <1>2, <1>3 DEF ApprovalCoversEdits, Asked
<1>6. NoJob \in JobRows /\ NoJob.status = "NONE" /\ NoJob.attempts = 0
  BY DEF NoJob, JobRows, JobQueueStatuses
<1>7. NoHandler \in Handlers /\ NoHandler.pc = "none"
  BY DEF NoHandler, Handlers, Places
<1>8. DOMAIN exports = {}
  BY <1>1
<1>9. cleanup.pc = "idle"
  BY <1>1 DEF IdleCleanup
<1>10. TypeOK
  BY <1>1, <1>3, <1>4, <1>6, <1>7, <1>8, <1>9 DEF TypeOK
<1>11. KeysOK
  BY <1>1, <1>6, <1>8 DEF KeysOK
<1>12. \A j \in JobIds, a \in AttemptNumbers : handler[j][a].pc = "none"
  BY <1>1, <1>7
<1>13. LockOK
  BY <1>12 DEF LockOK, HoldsLock, Pc, Persisting
<1>14. ErasedOK /\ DeletedOK /\ CurrentExports
  BY <1>3, <1>8, <1>9 DEF ErasedOK, DeletedOK, CurrentExports
<1>15. DeliveredPackage
  BY <1>2 DEF DeliveredPackage
<1>16. AttemptsOK
  BY <1>12 DEF AttemptsOK, Fits
<1> QED BY <1>5, <1>10, <1>11, <1>13, <1>14, <1>15, <1>16 DEF ExportsInv

\* Every step of a handler.
LEMMA HandlerSteps ==
  ASSUME ExportsInv, NEW j \in JobIds, NEW a \in AttemptNumbers, HandlerStep(j, a)
  PROVE  ExportsInv'
<1>1. CASE loadExportData(j, a) \/ LockTimesOut(j, a) \/ LoseFence(j, a)
  BY <1>1, PlainSteps
<1>2. CASE findReusableExport(j, a)
  BY <1>2, LookupStep
<1>3. CASE readVerified(j, a)
  BY <1>3, ReadStep
<1>4. CASE markMissing(j, a)
  BY <1>4, MissingStep
<1>5. CASE acquireExportLock(j, a)
  BY <1>5, AcquireStep
<1>6. CASE RecoverExport(j, a)
  BY <1>6, RecoverStep
<1>7. CASE reserveExport(j, a)
  BY <1>7, ReserveStep
<1>8. CASE PutExport(j, a)
  BY <1>8, PutStep
<1>9. CASE FinaliseExport(j, a)
  BY <1>9, FinaliseSteps
<1>10. CASE markPersistenceFailure(j, a)
  BY <1>10, FailureStep
<1>11. CASE LateWrite(j, a)
  BY <1>11, LateStep
<1>12. CASE Finish(j, a)
  BY <1>12, EndSteps
<1> QED BY <1>1, <1>2, <1>3, <1>4, <1>5, <1>6, <1>7, <1>8, <1>9, <1>10, <1>11, <1>12 DEF HandlerStep

\* The invariant is kept by every step.
LEMMA NextInv == ExportsInv /\ [Next]_vars => ExportsInv'
<1> SUFFICES ASSUME ExportsInv, [Next]_vars PROVE ExportsInv'
  OBVIOUS
<1>1. CASE Work
  <2>1. CASE ReviewNext /\ UNCHANGED <<jobs, handler, storageVars>>
    BY <2>1, WorkflowStep
  <2>2. ASSUME NEW j \in JobIds,
               \/ \E format \in Formats : submitProjectExportJob(j, format)
               \/ Start(j) \/ AttemptLost(j)
               \/ \E a \in AttemptNumbers : HandlerStep(j, a)
        PROVE  ExportsInv'
    BY <2>2, SubmitStep, StartStep, QueueSteps, HandlerSteps
  <2>3. CASE \E k \in DOMAIN exports : claimDeletionCandidate(k)
    BY <2>3, ClaimStep
  <2>4. CASE deleteClaimed
    BY <2>4, EraseStep
  <2>5. CASE MarkDeleted
    BY <2>5, EraseEnds
  <2>6. CASE deleteProject
    BY <2>6, DeleteStep
  <2> QED BY <1>1, <2>1, <2>2, <2>3, <2>4, <2>5, <2>6 DEF Work
<1>2. CASE Fault
  <2>1. ASSUME NEW j \in JobIds, OperatorSteps(j)
        PROVE  ExportsInv'
    BY <2>1, QueueSteps
  <2>2. ASSUME NEW j \in JobIds, NEW a \in AttemptNumbers,
               StorageFails(j, a) \/ FinaliseThrows(j, a) \/ CrashHandler(j, a)
        PROVE  ExportsInv'
    BY <2>2, PlainSteps, FinaliseSteps, EndSteps
  <2>3. CASE \E k \in DOMAIN exports : LoseBytes(k)
    BY <2>3, StoreFaults
  <2>4. CASE CleanupRollsBack
    BY <2>4, EraseEnds
  <2>5. CASE CleanupLeaseExpires
    BY <2>5, StoreFaults
  <2> QED BY <1>2, <2>1, <2>2, <2>3, <2>4, <2>5 DEF Fault
<1>3. CASE UNCHANGED vars
  <2>1. /\ UNCHANGED <<project, plans, gates, findings, planner, current, handler, jobs,
                       exports, cleanup, lost, unanswered>>
    BY <1>3 DEF vars, reviewVars
  <2>2. /\ TypeOK /\ ReviewTypeOK /\ ApprovalCoversEdits /\ ErasedOK /\ DeletedOK
        /\ CurrentExports /\ DeliveredPackage /\ JobsMoved
    BY <2>1, InvParts, JobsSame
  <2>3. ReviewTypeOK' /\ ApprovalCoversEdits' /\ ProjectMoved
    BY <2>1, <2>2, ProjectStays
  <2>4. ErasedOK' /\ DeletedOK' /\ CurrentExports' /\ DeliveredPackage'
    BY <2>1, <2>2 DEF ErasedOK, DeletedOK, CurrentExports, DeliveredPackage
  <2>5. /\ \A c \in DOMAIN exports : exports'[c] \in Rows /\ RowKept(c)
        /\ cleanup'.pc \in {"idle", "delete", "erased"}
        /\ cleanup'.pc # "idle" => cleanup'.key \in DOMAIN exports
    BY <2>1, <2>2, RowsKept DEF TypeOK
  <2> QED BY <2>1, <2>2, <2>3, <2>4, <2>5, OtherMoves
<1> QED BY <1>1, <1>2, <1>3 DEF Next

\* The invariant of exports and of the workflow beside them: what every attempt at
\* every place of worker/export-handler.ts relies on, in every behaviour.
THEOREM ExportsInvariant == Spec => []ExportsInv
  BY InitInv, NextInv, PTL DEF Spec

\* No edit, from a person or from a provider's late plan, slips past the review:
\* what is under approval, approved or delivered passed QA after the last edit
\* (review-state.ts, qa.ts, approval.ts).
THEOREM ApprovalCoversEditsHolds == Spec => []ApprovalCoversEdits
<1>1. ExportsInv => ApprovalCoversEdits
  BY DEF ExportsInv
<1> QED BY <1>1, ExportsInvariant, PTL

\* A current export is of the present revision and whole, whatever failed or late
\* attempts and the cleanup did to its row (export-storage.ts, orphan-cleanup.ts).
THEOREM CurrentExportsHolds == Spec => []CurrentExports
<1>1. ExportsInv => CurrentExports
  BY DEF ExportsInv
<1> QED BY <1>1, ExportsInvariant, PTL

\* A delivered project keeps its package (deliverProject of approval.ts beside
\* every step of export-storage.ts that takes an export off the current ones), or
\* it is one of the two kinds that may go: its bytes are lost, or the attempt that
\* made it current was not told so.
THEOREM DeliveredPackageHolds == Spec => []DeliveredPackage
<1>1. ExportsInv => DeliveredPackage
  BY DEF ExportsInv
<1> QED BY <1>1, ExportsInvariant, PTL

\* What a step may not do: make a snapshot current that is not the present one, or,
\* of a deleted project, bring an erased object back.
Careful ==
  /\ \A k \in current' \ current : k.snapshot = Snapshot
  /\ ~project.exists =>
       \A k \in DOMAIN exports :
         exports[k].retention = "DELETED" => exports'[k].retention = "DELETED"

\* Steps that keep the exports, or change one row that does not come back.
LEMMA CarefulRow ==
  ASSUME current' \subseteq current \/ \E k : Unchanged(k) /\ MakeCurrent(k),
         \/ UNCHANGED exports
         \/ project.exists /\ \E k, row : SetRow(k, row)
         \/ \E k \in DOMAIN exports : \E row :
              /\ SetRow(k, row)
              /\ exports[k].retention = "DELETED" => row.retention = "DELETED"
  PROVE  Careful
<1>1. \A k \in current' \ current : k.snapshot = Snapshot
  BY DEF Unchanged, MakeCurrent
<1>2. ASSUME ~project.exists, NEW c \in DOMAIN exports, exports[c].retention = "DELETED"
      PROVE  exports'[c].retention = "DELETED"
  <2>1. CASE UNCHANGED exports
    BY <1>2, <2>1
  <2>2. ASSUME NEW k \in DOMAIN exports, NEW row, SetRow(k, row),
               exports[k].retention = "DELETED" => row.retention = "DELETED"
        PROVE  exports'[c].retention = "DELETED"
    <3>1. exports'[k] = row /\ \A d \in DOMAIN exports \ {k} : exports'[d] = exports[d]
      BY <2>2, SetRowIs
    <3> QED BY <1>2, <2>2, <3>1
  <2>3. CASE project.exists
    BY <1>2, <2>3
  <2>4. CASE \E k \in DOMAIN exports : \E row :
               /\ SetRow(k, row)
               /\ exports[k].retention = "DELETED" => row.retention = "DELETED"
    BY <2>2, <2>4
  <2> QED BY <2>1, <2>3, <2>4
<1> QED BY <1>1, <1>2 DEF Careful

\* The steps of a handler are careful.
LEMMA CarefulHandler ==
  ASSUME ExportsInv, NEW j \in JobIds, NEW a \in AttemptNumbers,
         HandlerStep(j, a) \/ FinaliseTransaction(j, a)
  PROVE  Careful
<1>1. PICK k : k = Key(j)
  OBVIOUS
<1>2. CASE \/ loadExportData(j, a) \/ findReusableExport(j, a) \/ readVerified(j, a)
           \/ acquireExportLock(j, a) \/ LockTimesOut(j, a) \/ LoseFence(j, a) \/ Finish(j, a)
  <2>1. current' = current /\ exports' = exports
    BY <1>2 DEF loadExportData, findReusableExport, readVerified, acquireExportLock, LockTimesOut,
                LoseFence, Finish, reviewVars, storageVars
  <2> QED BY <2>1, CarefulRow
<1>3. handler[j][a].pc \in {"missing", "recover", "put", "finalise", "failed", "late"} =>
        k \in DOMAIN exports /\ exports[k] \in Rows
  <2>1. handler[j][a].pc # "none" => Fits(j, a, handler[j][a], k)
    BY <1>1, AttemptHasKey
  <2> QED BY <2>1, InvParts DEF Fits, TypeOK
<1>4. CASE markMissing(j, a)
  <2> DEFINE row == [exports[k] EXCEPT !.status = "FAILED"]
  <2>1. SetRow(k, row) /\ current' = current \ {k} /\ handler[j][a].pc = "missing"
    BY <1>1, <1>4 DEF markMissing, Pc, Row
  <2>2. row.retention = exports[k].retention
    BY <1>3, <2>1 DEF Rows
  <2> HIDE DEF row
  <2> QED BY <1>3, <2>1, <2>2, CarefulRow
<1>5. CASE RecoverExport(j, a)
  <2>1. \/ UNCHANGED <<exports, current>>
        \/ Unchanged(k) /\ MakeCurrent(k)
           /\ SetRow(k, [exports[k] EXCEPT !.status = "AVAILABLE", !.retention = "ACTIVE"])
    BY <1>1, <1>5 DEF RecoverExport, Row
  <2>2. Unchanged(k) => project.exists
    BY DEF Unchanged
  <2> QED BY <2>1, <2>2, CarefulRow
<1>6. CASE reserveExport(j, a)
  <2>1. \/ UNCHANGED <<exports, current>>
        \/ /\ Unchanged(k) /\ current' = current \ {k}
           /\ \E row : SetRow(k, row)
    <3>1. CASE ~Unchanged(k)
      BY <1>1, <1>6, <3>1 DEF reserveExport
    <3>2. CASE Unchanged(k)
      BY <1>1, <1>6, <3>2 DEF reserveExport
    <3> QED BY <3>1, <3>2
  <2>2. Unchanged(k) => project.exists
    BY DEF Unchanged
  <2> QED BY <2>1, <2>2, CarefulRow
<1>7. CASE PutExport(j, a) \/ LateWrite(j, a)
  <2> DEFINE row == [exports[k] EXCEPT !.bytes = <<j, a>>]
  <2>1. /\ UNCHANGED exports \/ SetRow(k, row)
        /\ current' = current /\ handler[j][a].pc \in {"put", "late"}
    BY <1>1, <1>7 DEF PutExport, LateWrite, Pc, Row, reviewVars
  <2>2. row.retention = exports[k].retention
    BY <1>3, <2>1 DEF Rows
  <2> HIDE DEF row
  <2> QED BY <1>3, <2>1, <2>2, CarefulRow
<1>8. CASE FinaliseTransaction(j, a)
  <2>1. /\ project.exists
        /\ \/ /\ Unchanged(k) /\ MakeCurrent(k) /\ \E row : SetRow(k, row)
           \/ current' = current \ {k} /\ \E row : SetRow(k, row)
    BY <1>1, <1>8 DEF FinaliseTransaction
  <2> QED BY <2>1, CarefulRow
<1>9. CASE markPersistenceFailure(j, a)
  <2> DEFINE row == Stale(exports[k])
  <2>1. SetRow(k, row) /\ current' = current \ {k} /\ handler[j][a].pc = "failed"
    BY <1>1, <1>9 DEF markPersistenceFailure, Pc, Row, FailedRow
  <2>2. exports[k].retention = "DELETED" => row.retention = "DELETED"
    BY <1>3, <2>1 DEF Rows, Stale
  <2> HIDE DEF row
  <2> QED BY <1>3, <2>1, <2>2, CarefulRow
<1> QED BY <1>2, <1>4, <1>5, <1>6, <1>7, <1>8, <1>9 DEF HandlerStep, FinaliseExport

\* The steps of the cleanup and of the store are careful.
LEMMA CarefulStore ==
  ASSUME ExportsInv,
         \/ \E k \in DOMAIN exports : claimDeletionCandidate(k) \/ LoseBytes(k)
         \/ deleteClaimed \/ MarkDeleted \/ CleanupRollsBack \/ CleanupLeaseExpires
  PROVE  Careful
<1>1. current' = current
  BY DEF claimDeletionCandidate, LoseBytes, deleteClaimed, MarkDeleted, CleanupRollsBack,
         CleanupLeaseExpires, reviewVars
<1>2. cleanup.pc # "idle" => cleanup.key \in DOMAIN exports /\ exports[cleanup.key] \in Rows
  BY InvParts DEF TypeOK
<1>3. ASSUME NEW k \in DOMAIN exports, NEW row,
             \/ row = [exports[k] EXCEPT !.leased = TRUE]
             \/ row = [exports[k] EXCEPT !.leased = FALSE]
             \/ row = [exports[k] EXCEPT !.bytes = NoBytes]
             \/ row = [exports[k] EXCEPT !.retention = "DELETED", !.leased = FALSE]
      PROVE  exports[k].retention = "DELETED" => row.retention = "DELETED"
  <2>1. exports[k] \in Rows
    BY InvParts DEF TypeOK
  <2> QED BY <1>3, <2>1 DEF Rows
<1>4. ASSUME NEW k \in DOMAIN exports, claimDeletionCandidate(k) \/ LoseBytes(k)
      PROVE  Careful
  BY <1>1, <1>3, <1>4, CarefulRow DEF claimDeletionCandidate, LoseBytes
<1>5. CASE deleteClaimed \/ MarkDeleted \/ CleanupRollsBack \/ CleanupLeaseExpires
  <2>1. PICK k : k = cleanup.key
    OBVIOUS
  <2>2. k \in DOMAIN exports
    BY <1>2, <1>5, <2>1 DEF deleteClaimed, MarkDeleted, CleanupRollsBack, CleanupLeaseExpires
  <2>3. \/ UNCHANGED exports
        \/ SetRow(k, [exports[k] EXCEPT !.leased = FALSE])
        \/ SetRow(k, [exports[k] EXCEPT !.bytes = NoBytes])
        \/ SetRow(k, [exports[k] EXCEPT !.retention = "DELETED", !.leased = FALSE])
    BY <1>5, <2>1 DEF deleteClaimed, MarkDeleted, CleanupRollsBack, CleanupLeaseExpires
  <2> QED BY <1>1, <1>3, <2>2, <2>3, CarefulRow
<1> QED BY <1>4, <1>5

\* Every step is.
LEMMA CarefulNext ==
  ASSUME ExportsInv, [Next]_vars
  PROVE  Careful
<1>1. CASE Work
  <2>1. CASE ReviewNext /\ UNCHANGED <<jobs, handler, storageVars>>
    <3>1. ReviewStepOK /\ exports' = exports
      BY <2>1, ReviewStep, InvParts DEF storageVars
    <3>2. current' \subseteq current
      BY <3>1 DEF ReviewStepOK
    <3> QED BY <3>1, <3>2, CarefulRow
  <2>2. ASSUME NEW j \in JobIds,
               \/ \E format \in Formats : submitProjectExportJob(j, format)
               \/ Start(j) \/ AttemptLost(j)
        PROVE  Careful
    <3>1. exports' = exports /\ current' = current
      BY <2>2 DEF submitProjectExportJob, Start, AttemptLost, reviewVars, storageVars
    <3> QED BY <3>1, CarefulRow
  <2>3. CASE \E k \in DOMAIN exports : claimDeletionCandidate(k)
    BY <2>3, CarefulStore
  <2>4. CASE deleteClaimed \/ MarkDeleted
    BY <2>4, CarefulStore
  <2>5. CASE deleteProject
    BY <2>5 DEF deleteProject, Careful
  <2> QED BY <1>1, <2>1, <2>2, <2>3, <2>4, <2>5, CarefulHandler DEF Work
<1>2. CASE Fault
  <2>1. ASSUME NEW j \in JobIds, OperatorSteps(j)
        PROVE  Careful
    <3>1. exports' = exports /\ current' = current
      BY <2>1 DEF OperatorSteps, reviewVars, storageVars
    <3> QED BY <3>1, CarefulRow
  <2>2. ASSUME NEW j \in JobIds, NEW a \in AttemptNumbers,
               StorageFails(j, a) \/ FinaliseThrows(j, a) \/ CrashHandler(j, a)
        PROVE  Careful
    <3>1. FinaliseTransaction(j, a) \/ (exports' = exports /\ current' = current)
      BY <2>2 DEF StorageFails, FinaliseThrows, CrashHandler, reviewVars, storageVars
    <3> QED BY <3>1, CarefulHandler, CarefulRow
  <2>3. CASE \E k \in DOMAIN exports : LoseBytes(k)
    BY <2>3, CarefulStore
  <2>4. CASE CleanupRollsBack \/ CleanupLeaseExpires
    BY <2>4, CarefulStore
  <2> QED BY <1>2, <2>1, <2>2, <2>3, <2>4 DEF Fault
<1>3. CASE UNCHANGED vars
  <2>1. exports' = exports /\ current' = current
    BY <1>3 DEF vars, reviewVars
  <2> QED BY <2>1, CarefulRow
<1> QED BY <1>1, <1>2, <1>3 DEF Next

\* An artifact of an older snapshot never becomes current, neither after a revision
\* nor after a commit of a research run (validateSnapshot of export-storage.ts).
THEOREM BecomesCurrentFreshHolds == Spec => BecomesCurrentFresh
<1>1. ExportsInv /\ [Next]_vars => [\A k \in current' \ current : k.snapshot = Snapshot]_vars
  BY CarefulNext DEF Careful
<1> QED BY <1>1, ExportsInvariant, PTL DEF Spec, BecomesCurrentFresh

\* The objects of a deleted project stay scheduled until they are erased, and what
\* is erased stays so (deleteProject of projects.ts, orphan-cleanup.ts).
THEOREM DeletedStaysDeletedHolds == Spec => DeletedStaysDeleted
<1>1. ExportsInv /\ [Next]_vars =>
        [~project.exists =>
           \A k \in DOMAIN exports :
             /\ exports[k].retention \in {"PENDING_DELETE", "DELETED"}
             /\ exports[k].retention = "DELETED" => exports'[k].retention = "DELETED"]_vars
  BY CarefulNext, InvParts DEF Careful, DeletedOK
<1> QED BY <1>1, ExportsInvariant, PTL DEF Spec, DeletedStaysDeleted
=============================================================================
