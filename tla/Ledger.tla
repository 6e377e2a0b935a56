------------------------------- MODULE Ledger -------------------------------
(***************************************************************************)
(* The evidence ledger of one project and the QA engine that reads it:     *)
(* lib/domain/research.ts, lib/domain/qa.ts and ledger.ts, sources.ts,     *)
(* qa.ts, the scope of projects.ts and the questions of workflow.ts in     *)
(* lib/services, beside the stage commits of research-orchestrator.ts.     *)
(*                                                                         *)
(* Every operation but one takes the project's row lock before it reads    *)
(* what it depends on, so it is one step.  linkClaimEvidence reads the     *)
(* claim's links, computes the status and only then waits for the claim's  *)
(* and the project's rows: it is two, and requests overlap between them.   *)
(* What a row says (its text, its dates) is fixed by its identifier; words *)
(* are sets of the numbers, units and dates the QA engine picks out of     *)
(* them.                                                                   *)
(***************************************************************************)
EXTENDS Integers, FiniteSets

CONSTANTS
  Clients,        \* requests of operators that may be under way at once
  Sources,        \* source rows
  Evidence,       \* evidence rows
  Claims,         \* claim rows
  StageEvidence,  \* the evidence rows a research run inserts
  StageClaims,    \* the claim rows a research run inserts
  SourceOf,       \* source -> [published, words, content, publisher]
  EvidenceOf,     \* evidence -> [source, words]
  ClaimOf,        \* claim -> [key, possible, mixed, words]
  Numbers, Units, \* words that are numbers, and units (the others are dates)
  Scopes,         \* [day, maxAge] an operator may set
  Entries,        \* [verification, extent] an operator may give evidence
  Reports,        \* [cites, empty, lines] an operator may save
  Reviews,        \* [include, within, notes] an operator may decide of a claim
  GapEdits,       \* [status, text] an operator may give the question's gap
  None,           \* SQL's NULL
  MaxSettled      \* bound: findings that a person has settled

\* The rows of the tables (migrations/001_initial.sql); NULL is none of them.
SourceRows ==
  [freshness : {"CURRENT", "AGING", "OUTDATED", "UNKNOWN"}, duplicate : BOOLEAN]
EvidenceRows ==
  [ verification : {"PENDING", "VERIFIED", "REJECTED"}, extent : {"FULL", "PARTIAL"},
    current : BOOLEAN ]
Supports ==
  {"SUPPORTED", "PARTIALLY_SUPPORTED", "UNSUPPORTED", "CONTESTED", "OUTDATED",
   "NOT_VERIFIABLE"}
ClaimRows ==
  [ support : Supports, include : BOOLEAN, within : BOOLEAN, notes : BOOLEAN,
    current : BOOLEAN ]
Relationships == {"SUPPORTS", "REFUTES", "CONTEXT"}

\* A research run inserts claims with verification_possible.
ASSUME LedgerAssumption ==
  /\ StageEvidence \subseteq Evidence /\ StageClaims \subseteq Claims
  /\ \A e \in Evidence : EvidenceOf[e].source \in Sources
  /\ \A c \in Claims : ClaimOf[c].possible \in BOOLEAN
  /\ \A c \in StageClaims : ClaimOf[c].possible
  /\ \A sc \in Scopes : sc.day \in Nat /\ sc.maxAge \in Nat
  /\ Entries \subseteq [verification : {"PENDING", "VERIFIED", "REJECTED"},
                        extent : {"FULL", "PARTIAL"}]
  /\ Reviews \subseteq [include : BOOLEAN, within : BOOLEAN, notes : BOOLEAN]
  /\ GapEdits \subseteq [status : {"NONE", "OPEN", "ACCEPTED", "RESOLVED"}, text : BOOLEAN]
  /\ None \notin SourceRows \cup EvidenceRows \cup ClaimRows
  /\ MaxSettled \in Nat

VARIABLES
  scope,     \* research_date (a day number) and source_max_age_days
  sources,   \* each source: None or [freshness, duplicate]
  evidence,  \* each evidence: None or [verification, extent, current]
  claims,    \* each claim: None or [support, include, within, notes, current]
  links,     \* claim_evidence: the relationship of a claim and an evidence, or None
  gap,       \* the question: [status, text, generated]
  report,    \* the deliverable's sections
  findings,  \* the BLOCKER rows of qa_findings
  passed,    \* qa_passed_at is set
  linking,   \* each client: None or the linkClaimEvidence it has under way
  loose,     \* claims whose status was computed from what has changed since, or asserted
  behind     \* a stage has committed since QA passed

vars == <<scope, sources, evidence, claims, links, gap, report, findings, passed,
          linking, loose, behind>>

Existing(table) == {x \in DOMAIN table : table[x] # None}
Current(table) == {x \in Existing(table) : table[x].current}

Init ==
  /\ scope \in Scopes
  /\ sources = [s \in Sources |-> None]
  /\ evidence = [e \in Evidence |-> None]
  /\ claims = [c \in Claims |-> None]
  /\ links = [c \in Claims |-> [e \in Evidence |-> None]]
  /\ gap = [status |-> "NONE", text |-> FALSE, generated |-> FALSE]
  /\ report \in Reports
  /\ findings = {}
  /\ passed = FALSE /\ behind = FALSE
  /\ linking = [k \in Clients |-> None]
  /\ loose = {}

-----------------------------------------------------------------------------
(* lib/domain/research.ts.                                                 *)

CeilOfFourFifths(n) == (4 * n + 4) \div 5

\* The age in whole days of a source against the scope's date and limit.
assessSourceFreshness(published, sc) ==
  CASE published = None -> "UNKNOWN"
    [] published # None /\ sc.day < published -> "UNKNOWN"
    [] published # None /\ sc.day - published > sc.maxAge -> "OUTDATED"
    [] published # None /\ sc.day - published \in CeilOfFourFifths(sc.maxAge) .. sc.maxAge
                        /\ sc.maxAge > 0 -> "AGING"
    [] OTHER -> "CURRENT"

\* assessed is a set of [relationship, verification, freshness, extent].
calculateClaimSupportStatus(assessed, possible) ==
  LET verified(r) == {a \in assessed : a.verification = "VERIFIED" /\ a.relationship = r}
      usable == {a \in verified("SUPPORTS") :
                   a.extent = "FULL" /\ a.freshness \in {"CURRENT", "AGING"}}
  IN CASE ~possible -> "NOT_VERIFIABLE"
       [] possible /\ verified("SUPPORTS") = {} -> "UNSUPPORTED"
       [] possible /\ verified("SUPPORTS") # {} /\ verified("REFUTES") # {} -> "CONTESTED"
       [] OTHER ->
            IF \A a \in verified("SUPPORTS") : a.freshness = "OUTDATED" THEN "OUTDATED"
            ELSE IF usable # {} THEN "SUPPORTED" ELSE "PARTIALLY_SUPPORTED"

\* What refreshClaimSupport stores for claim c, from the links ls of it and the
\* freshness column srcs of the sources.
SupportOf(c, ls, srcs) ==
  calculateClaimSupportStatus(
    { [ relationship |-> ls[e], verification |-> evidence[e].verification,
        freshness |-> srcs[EvidenceOf[e].source].freshness, extent |-> evidence[e].extent ]
      : e \in {x \in Current(evidence) : ls[x] # None} },
    ClaimOf[c].possible)

-----------------------------------------------------------------------------
(* Edits.                                                                  *)

\* Variant: the edit leaves qa_passed_at alone.
InvalidateApprovalOnly == UNCHANGED <<passed, behind>>

\* invalidateDownstreamReview, as far as QA is concerned.
invalidateDownstreamReview == passed' = FALSE /\ behind' = FALSE

\* A source whose content the project already holds is marked as its duplicate.
addSource(s) ==
  /\ sources[s] = None
  /\ sources' = [sources EXCEPT ![s] =
       [ freshness |-> assessSourceFreshness(SourceOf[s].published, scope),
         duplicate |-> SourceOf[s].content # None /\
           \E t \in Existing(sources) : SourceOf[t].content = SourceOf[s].content ]]
  /\ invalidateDownstreamReview
  /\ UNCHANGED <<scope, evidence, claims, links, gap, report, findings, linking, loose>>

addEvidence(e, entry) ==
  /\ e \notin StageEvidence /\ evidence[e] = None /\ sources[EvidenceOf[e].source] # None
  /\ evidence' = [evidence EXCEPT ![e] =
       [verification |-> entry.verification, extent |-> entry.extent, current |-> TRUE]]
  /\ invalidateDownstreamReview
  /\ UNCHANGED <<scope, sources, claims, links, gap, report, findings, linking, loose>>

ClaimRow(support, include) ==
  [support |-> support, include |-> include, within |-> TRUE, notes |-> FALSE, current |-> TRUE]

addClaim(c, include) ==
  /\ c \notin StageClaims /\ claims[c] = None
  /\ claims' = [claims EXCEPT ![c] =
       ClaimRow(IF ClaimOf[c].possible THEN "UNSUPPORTED" ELSE "NOT_VERIFIABLE", include)]
  /\ invalidateDownstreamReview
  /\ UNCHANGED <<scope, sources, evidence, links, gap, report, findings, linking, loose>>

\* linkClaimEvidence up to the status refreshClaimSupport computes: the rows are
\* checked, the link is upserted (a second upsert of the pair waits for the first
\* to end) and the claim's links are read, which no lock protects.
LinkRead(k, c, e, relationship) ==
  /\ linking[k] = None
  /\ c \in Current(claims) /\ e \in Current(evidence)
  /\ \A l \in Clients : linking[l] # None => <<linking[l].claim, linking[l].evidence>> # <<c, e>>
  /\ linking' = [linking EXCEPT ![k] =
       [ claim |-> c, evidence |-> e, relationship |-> relationship, fresh |-> TRUE,
         support |-> SupportOf(c, [links[c] EXCEPT ![e] = relationship], sources) ]]
  /\ UNCHANGED <<scope, sources, evidence, claims, links, gap, report, findings, passed,
                 loose, behind>>

\* The UPDATE of the claim at the end of refreshClaimSupport.
Stored(row, support) == [row EXCEPT !.support = support]

\* Links under way that have read what a commit for the claims cs changes.
Overtaken(pending, cs) ==
  [k \in Clients |-> IF pending[k] # None /\ pending[k].claim \in cs
                     THEN [pending[k] EXCEPT !.fresh = FALSE] ELSE pending[k]]

\* The rest of it: the claim's row, then the project's, then the commit.
LinkCommit(k) ==
  LET l == linking[k] IN
  /\ l # None
  /\ links' = [links EXCEPT ![l.claim][l.evidence] = l.relationship]
  /\ claims' = [claims EXCEPT ![l.claim] = Stored(@, l.support)]
  /\ loose' = IF l.fresh THEN loose \ {l.claim} ELSE loose \cup {l.claim}
  /\ linking' = Overtaken([linking EXCEPT ![k] = None], {l.claim})
  /\ invalidateDownstreamReview
  /\ UNCHANGED <<scope, sources, evidence, gap, report, findings>>

\* The request fails: its connection is lost, or it waits in a cycle with an
\* updateProjectScope, which takes the two rows the other way round.
LinkRolledBack(k) ==
  /\ linking[k] # None /\ linking' = [linking EXCEPT ![k] = None]
  /\ UNCHANGED <<scope, sources, evidence, claims, links, gap, report, findings, passed,
                 loose, behind>>

updateClaimReview(c, r) ==
  /\ c \in Current(claims)
  /\ claims' = [claims EXCEPT ![c] =
       [@ EXCEPT !.include = r.include, !.within = r.within, !.notes = r.notes]]
  /\ invalidateDownstreamReview
  /\ UNCHANGED <<scope, sources, evidence, links, gap, report, findings, linking, loose>>

\* Variant: the claims keep the status they had under the old scope.
RefreshNone(srcs) == claims

\* refreshProjectClaimSupport.
refreshProjectClaimSupport(srcs) ==
  [c \in Claims |-> IF c \in Current(claims)
                    THEN [claims[c] EXCEPT !.support = SupportOf(c, links[c], srcs)]
                    ELSE claims[c]]

updateProjectScope(sc) ==
  /\ scope # sc /\ scope' = sc
  /\ sources' = [s \in Sources |->
       IF sources[s] = None THEN None
       ELSE [sources[s] EXCEPT !.freshness = assessSourceFreshness(SourceOf[s].published, sc)]]
  /\ claims' = refreshProjectClaimSupport(sources')
  /\ loose' = loose \ Current(claims)
  /\ linking' = Overtaken(linking, Claims)
  /\ invalidateDownstreamReview
  /\ UNCHANGED <<evidence, links, gap, report, findings>>

\* COALESCE keeps the description; who generated the gap is not touched.
updateResearchQuestion(g) ==
  /\ gap' = [gap EXCEPT !.status = g.status, !.text = @ \/ g.text]
  /\ invalidateDownstreamReview
  /\ UNCHANGED <<scope, sources, evidence, claims, links, report, findings, linking, loose>>

updateDeliverable(r) ==
  /\ report # r /\ report' = r
  /\ invalidateDownstreamReview
  /\ UNCHANGED <<scope, sources, evidence, claims, links, gap, findings, linking, loose>>

-----------------------------------------------------------------------------
(* Stages of research runs, whose commit holds the project's row lock and  *)
(* leaves the review as it was.                                            *)

\* The stage's earlier rows, of any run of the project, stop being current.
Superseded(table, ids) ==
  [x \in DOMAIN table |-> IF x \in ids /\ table[x] # None
                          THEN [table[x] EXCEPT !.current = FALSE] ELSE table[x]]

commitEvidence(new) ==
  /\ new \subseteq {e \in StageEvidence :
                      evidence[e] = None /\ sources[EvidenceOf[e].source] # None}
  /\ evidence' = [e \in Evidence |->
       IF e \in new THEN [verification |-> "PENDING", extent |-> "FULL", current |-> TRUE]
       ELSE Superseded(evidence, StageEvidence)[e]]
  /\ behind' = passed
  /\ UNCHANGED <<scope, sources, claims, links, gap, report, findings, passed, linking, loose>>

\* The evidence of the sources a claim names supports it; one verified piece makes
\* it SUPPORTED, whatever its extent and the age of its source.
commitClaims(c, named) ==
  LET proposed == {e \in Current(evidence) : EvidenceOf[e].source \in named}
      proven == \E e \in proposed : evidence[e].verification = "VERIFIED"
  IN
  /\ c \in StageClaims /\ claims[c] = None
  /\ claims' = [Superseded(claims, StageClaims) EXCEPT ![c] =
       ClaimRow(IF proven THEN "SUPPORTED" ELSE "UNSUPPORTED", FALSE)]
  /\ links' = [links EXCEPT ![c] =
       [e \in Evidence |-> IF e \in proposed THEN "SUPPORTS" ELSE None]]
  /\ loose' = IF proven THEN loose \cup {c} ELSE loose
  /\ behind' = passed
  /\ UNCHANGED <<scope, sources, evidence, gap, report, findings, passed, linking>>

\* The stage's earlier open gap is withdrawn; a gap a person settled or wrote is kept.
commitResearchGaps(found) ==
  LET withdrawn == IF gap.generated /\ gap.status = "OPEN"
                   THEN [status |-> "NONE", text |-> FALSE, generated |-> FALSE] ELSE gap
  IN
  /\ gap' = IF /\ withdrawn.status \notin {"ACCEPTED", "RESOLVED"}
               /\ withdrawn.generated \/ (withdrawn.status = "NONE" /\ ~withdrawn.text)
            THEN [status |-> IF found THEN "OPEN" ELSE "NONE", text |-> found,
                  generated |-> found]
            ELSE withdrawn
  /\ behind' = passed
  /\ UNCHANGED <<scope, sources, evidence, claims, links, report, findings, passed,
                 linking, loose>>

\* An issue of BLOCKER severity, or none: the findings of commitSourceConflicts
\* are HIGH at most.
commitQaSuggestions(found) ==
  /\ findings' = {f \in findings : f.rule # "AI_QA_REVISION"} \cup
       (IF found THEN {[rule |-> "AI_QA_REVISION", about |-> "report", status |-> "OPEN"]}
        ELSE {})
  /\ behind' = passed
  /\ UNCHANGED <<scope, sources, evidence, claims, links, gap, report, passed, linking, loose>>

-----------------------------------------------------------------------------
(* The QA engine.                                                          *)

Reported == {c \in Current(claims) : claims[c].include}
VerifiedFor(c, relationship) ==
  {e \in Current(evidence) :
     links[c][e] = relationship /\ evidence[e].verification = "VERIFIED"}

\* The words of evidence and of its source's publication date.
WordsOf(es) ==
  UNION {EvidenceOf[e].words \cup SourceOf[EvidenceOf[e].source].words : e \in es}

Cited == report.cites \cap Existing(sources)

\* Statements with numbers in them: the reported claims and the report's lines,
\* with the verified evidence that speaks for each.
ClaimAssertions ==
  {[about |-> c, words |-> ClaimOf[c].words, proof |-> VerifiedFor(c, "SUPPORTS")]
     : c \in {x \in Reported : ClaimOf[x].words \cap Numbers # {}}}
LineAssertions ==
  LET matching(line) == {c \in Reported : /\ ClaimOf[c].words \cap Numbers # {}
                                          /\ ClaimOf[c].words \cap Numbers \subseteq line.words}
      speaksFor(line) ==
        {e \in Current(evidence) :
           /\ evidence[e].verification = "VERIFIED"
           /\ \/ EvidenceOf[e].source \in line.cites
              \/ \E c \in matching(line) : links[c][e] = "SUPPORTS"}
  IN {[about |-> "report", words |-> line.words, proof |-> speaksFor(line)]
        : line \in {x \in report.lines : x.words \cap Numbers # {}}}
Assertions == ClaimAssertions \cup LineAssertions

\* Words of one kind in an assertion that its evidence does not contain.
Missing(a, kind) == a.proof # {} /\ ~(a.words \cap kind \subseteq WordsOf(a.proof))
Dates == UNION {a.words : a \in Assertions} \ (Numbers \cup Units)

Rule(code, abouts) == {[rule |-> code, about |-> x] : x \in abouts}

ClaimRules ==
  Rule("UNSOURCED_KEY_CLAIM",
       {c \in Reported : ClaimOf[c].key /\ VerifiedFor(c, "SUPPORTS") = {}})
  \cup Rule("UNRESOLVED_SOURCE_CONFLICT",
       {c \in Current(claims) : /\ VerifiedFor(c, "SUPPORTS") # {}
                                /\ VerifiedFor(c, "REFUTES") # {}
                                /\ ~claims[c].notes})
  \cup Rule("FACT_INFERENCE_MIX", {c \in Reported : ClaimOf[c].mixed})
  \cup Rule("OUT_OF_SCOPE_CONTENT", {c \in Reported : ~claims[c].within})

NumberRules ==
  Rule("UNSUPPORTED_NUMBER", {a.about : a \in {x \in Assertions : x.proof = {}}})
  \cup Rule("SOURCE_NUMBER_MISMATCH",
            {a.about : a \in {x \in Assertions : Missing(x, Numbers)}})
  \cup Rule("DATE_OR_UNIT_MISMATCH",
            {a.about : a \in {x \in Assertions : Missing(x, Units) \/ Missing(x, Dates)}})

SourceRules ==
  LET named == {s \in Cited : SourceOf[s].publisher # None}
      of(p) == {s \in named : SourceOf[s].publisher = p}
  IN
  Rule("INVALID_CITATION_ID", report.cites \ Existing(sources))
  \cup Rule("OUTDATED_SOURCE",
            {s \in Cited : assessSourceFreshness(SourceOf[s].published, scope) = "OUTDATED"})
  \cup Rule("DUPLICATE_SOURCE", {s \in Existing(sources) : sources[s].duplicate})
  \cup Rule("SOURCE_CONCENTRATION",
            {SourceOf[s].publisher : s \in {x \in named :
               Cardinality(named) >= 3 /\
               2 * Cardinality(of(SourceOf[x].publisher)) > Cardinality(named)}})
  \cup Rule("UNREFERENCED_SOURCE", Existing(sources) \ Cited)

ReportRules ==
  Rule("OPEN_RESEARCH_GAP", IF gap.status = "OPEN" THEN {"question"} ELSE {})
  \cup Rule("EMPTY_REQUIRED_SECTION", IF report.empty THEN {"section"} ELSE {})

runQaRules == ClaimRules \cup NumberRules \cup SourceRules \cup ReportRules

\* QA_RULE_DEFINITIONS: the rules whose findings stop an approval.
BlockerRules ==
  {"UNSOURCED_KEY_CLAIM", "INVALID_CITATION_ID", "UNRESOLVED_SOURCE_CONFLICT",
   "UNSUPPORTED_NUMBER", "SOURCE_NUMBER_MISMATCH", "OPEN_RESEARCH_GAP",
   "EMPTY_REQUIRED_SECTION"}

\* The engine's own rows that are still open are replaced by what it finds now.
runProjectQa ==
  LET kept == {f \in findings : f.status # "OPEN" \/ f.rule = "AI_QA_REVISION"}
      found == {[rule |-> f.rule, about |-> f.about, status |-> "OPEN"]
                  : f \in {x \in runQaRules : x.rule \in BlockerRules}}
  IN
  /\ findings' = kept \cup found
  /\ passed' = \A f \in kept \cup found : f.status = "RESOLVED"
  /\ behind' = FALSE
  /\ UNCHANGED <<scope, sources, evidence, claims, links, gap, report, linking, loose>>

\* A finding may be settled and settled again; QA has to be run again either way.
resolveQaFinding(f, resolution) ==
  /\ f \in findings
  /\ f.status = "OPEN" => Cardinality({x \in findings : x.status # "OPEN"}) < MaxSettled
  /\ findings' = (findings \ {f}) \cup {[f EXCEPT !.status = resolution]}
  /\ invalidateDownstreamReview
  /\ UNCHANGED <<scope, sources, evidence, claims, links, gap, report, linking, loose>>

-----------------------------------------------------------------------------

EditNext ==
  \/ \E s \in Sources : addSource(s)
  \/ \E e \in Evidence, entry \in Entries : addEvidence(e, entry)
  \/ \E c \in Claims, include \in BOOLEAN : addClaim(c, include)
  \/ \E c \in Claims, r \in Reviews : updateClaimReview(c, r)
  \/ \E sc \in Scopes : updateProjectScope(sc)
  \/ \E g \in GapEdits : updateResearchQuestion(g)
  \/ \E r \in Reports : updateDeliverable(r)

LinkNext ==
  \E k \in Clients :
    \/ \E c \in Claims, e \in Evidence, r \in Relationships :
         LinkRead(k, c, e, r)
    \/ LinkCommit(k) \/ LinkRolledBack(k)

StageNext ==
  \/ \E new \in SUBSET StageEvidence : commitEvidence(new)
  \/ \E c \in StageClaims, named \in SUBSET Existing(sources) : commitClaims(c, named)
  \/ \E found \in BOOLEAN : commitResearchGaps(found) \/ commitQaSuggestions(found)

QaNext ==
  \/ runProjectQa
  \/ \E f \in findings, r \in {"RESOLVED", "ACCEPTED_RISK"} : resolveQaFinding(f, r)

Next == EditNext \/ LinkNext \/ StageNext \/ QaNext

Spec == Init /\ [][Next]_vars

-----------------------------------------------------------------------------
(* What the ledger promises.                                               *)

\* "Support status is recalculated from verification, relationship, freshness, and
\* support extent after evidence/scope mutations" (docs/RESEARCH_WORKFLOW.md): the
\* status stored with a claim is the one its current evidence gives, under the
\* scope of the day, and for a claim of a research run too once it is refreshed.
\* The exceptions are those in loose: a claim linked by two requests at once, a
\* link overtaken by a change of scope, and a claim a stage declared SUPPORTED.
SupportRecalculated ==
  \A c \in Current(claims) \ loose : claims[c].support = SupportOf(c, links[c], sources)

\* While qa_passed_at stands, and no stage has committed since, what the report
\* says is borne out by the ledger as it is now: a key claim has verified evidence,
\* every number of a reported claim is in evidence that supports it, what is
\* contested is explained, no gap is open and no citation hangs in the air.
PassedReportHolds ==
  passed /\ ~behind =>
    /\ \A c \in Current(claims) :
         /\ SupportOf(c, links[c], sources) = "CONTESTED" => claims[c].notes
         /\ claims[c].include =>
              /\ ClaimOf[c].key => VerifiedFor(c, "SUPPORTS") # {}
              /\ \A n \in ClaimOf[c].words \cap Numbers :
                   \E e \in VerifiedFor(c, "SUPPORTS") : n \in WordsOf({e})
    /\ gap.status # "OPEN" /\ ~report.empty
    /\ report.cites \subseteq Existing(sources)
    /\ \A f \in findings : f.status = "RESOLVED"
=============================================================================
