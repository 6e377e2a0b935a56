---------------------------- MODULE LedgerProofs ----------------------------
(***************************************************************************)
(* Proofs about Ledger, for every set of rows, requests and edits.  The    *)
(* status of a claim is a function of the verified evidence linked to it   *)
(* (SupportOf reads nothing else), so an operation keeps a stored status   *)
(* right when it leaves the verified evidence of the claim alone or        *)
(* computes the status anew.  A report that passed QA is borne out because *)
(* no blocker rule fired on the very state the pass is recorded for.       *)
(***************************************************************************)
EXTENDS Ledger, TLAPS

USE LedgerAssumption DEF LedgerAssumption

-----------------------------------------------------------------------------
(* The inductive invariant.                                                *)

Gaps ==
  [ status : {"NONE", "OPEN", "ACCEPTED", "RESOLVED"}, text : BOOLEAN,
    generated : BOOLEAN ]

\* What a finding may be about.
Abouts == Claims \cup {"report", "question", "section"} \cup UNION {r.cites : r \in Reports}
Findings ==
  [ rule : BlockerRules \cup {"AI_QA_REVISION"}, about : Abouts,
    status : {"OPEN", "RESOLVED", "ACCEPTED_RISK"} ]

\* A linkClaimEvidence under way.
Linkings ==
  [ claim : Claims, evidence : Evidence, relationship : Relationships, fresh : BOOLEAN,
    support : Supports ]

TypeOK ==
  /\ scope \in Scopes
  /\ sources \in [Sources -> SourceRows \cup {None}]
  /\ evidence \in [Evidence -> EvidenceRows \cup {None}]
  /\ claims \in [Claims -> ClaimRows \cup {None}]
  /\ links \in [Claims -> [Evidence -> Relationships \cup {None}]]
  /\ gap \in Gaps
  /\ report \in Reports
  /\ findings \subseteq Findings
  /\ passed \in BOOLEAN /\ behind \in BOOLEAN
  /\ DOMAIN linking = Clients
  /\ \A k \in Clients : linking[k] = None \/ linking[k] \in Linkings
  /\ loose \subseteq Claims

\* Foreign keys, and the evidence of research runs, which nobody verifies.
RowsOK ==
  /\ \A e \in Existing(evidence) : sources[EvidenceOf[e].source] # None
  /\ \A e \in StageEvidence : evidence[e] # None => evidence[e].verification = "PENDING"
  /\ \A c \in Claims, e \in Evidence :
       links[c][e] # None => claims[c] # None /\ evidence[e] # None

\* A link under way holds its rows, and the status it has computed is right
\* until a commit for its claim overtakes it.
LinkingOK ==
  \A k \in Clients : linking[k] # None =>
    LET l == linking[k] IN
    /\ claims[l.claim] # None /\ evidence[l.evidence] # None
    /\ l.fresh => l.support = SupportOf(l.claim,
                       [links[l.claim] EXCEPT ![l.evidence] = l.relationship], sources)

LedgerInv ==
  TypeOK /\ RowsOK /\ LinkingOK /\ SupportRecalculated /\ PassedReportHolds

-----------------------------------------------------------------------------
(* The status of a claim is a function of its verified evidence.           *)

\* The assessments of evidence calculateClaimSupportStatus looks at.
VerifiedPart(assessed, r) ==
  {a \in assessed : a.verification = "VERIFIED" /\ a.relationship = r}

\* The evidence rows in ev, and their links ls, that a status depends on.
Speaking(ls, ev) == {e \in Current(ev) : ls[e] # None /\ ev[e].verification = "VERIFIED"}

\* What refreshClaimSupport hands to calculateClaimSupportStatus.
Assessed(ls, srcs, ev) ==
  { [ relationship |-> ls[e], verification |-> ev[e].verification,
      freshness |-> srcs[EvidenceOf[e].source].freshness, extent |-> ev[e].extent ]
    : e \in {x \in Current(ev) : ls[x] # None} }

\* SupportOf, of evidence that is given.
SupportIn(c, ls, srcs, ev) ==
  calculateClaimSupportStatus(Assessed(ls, srcs, ev), ClaimOf[c].possible)

\* The status of calculateClaimSupportStatus, case by case, read from the verified
\* assessments alone.
LEMMA StatusByParts ==
  ASSUME NEW A, NEW possible \in BOOLEAN
  PROVE  calculateClaimSupportStatus(A, possible) =
           IF ~possible THEN "NOT_VERIFIABLE"
           ELSE IF VerifiedPart(A, "SUPPORTS") = {} THEN "UNSUPPORTED"
           ELSE IF VerifiedPart(A, "REFUTES") # {} THEN "CONTESTED"
           ELSE IF \A a \in VerifiedPart(A, "SUPPORTS") : a.freshness = "OUTDATED"
             THEN "OUTDATED"
           ELSE IF {a \in VerifiedPart(A, "SUPPORTS") :
                      a.extent = "FULL" /\ a.freshness \in {"CURRENT", "AGING"}} # {}
             THEN "SUPPORTED" ELSE "PARTIALLY_SUPPORTED"
  BY DEF calculateClaimSupportStatus, VerifiedPart

\* Assessments with the same verified part give the same status.
LEMMA StatusSame ==
  ASSUME NEW A, NEW B, NEW possible \in BOOLEAN,
         VerifiedPart(A, "SUPPORTS") = VerifiedPart(B, "SUPPORTS"),
         VerifiedPart(A, "REFUTES") = VerifiedPart(B, "REFUTES")
  PROVE  calculateClaimSupportStatus(A, possible) = calculateClaimSupportStatus(B, possible)
  BY StatusByParts

\* Every status calculateClaimSupportStatus returns is one of the column's.
LEMMA StatusTyped ==
  ASSUME NEW c \in Claims, NEW ls, NEW srcs, NEW ev
  PROVE  SupportIn(c, ls, srcs, ev) \in Supports
  BY StatusByParts DEF SupportIn, Supports

\* A contested claim has verified evidence on both sides.
LEMMA ContestedHasBoth ==
  ASSUME NEW c \in Claims, NEW ls, NEW srcs, NEW ev,
         SupportIn(c, ls, srcs, ev) = "CONTESTED"
  PROVE  \A r \in {"SUPPORTS", "REFUTES"} :
           \E e \in Current(ev) : ls[e] = r /\ ev[e].verification = "VERIFIED"
<1>1. /\ VerifiedPart(Assessed(ls, srcs, ev), "SUPPORTS") # {}
      /\ VerifiedPart(Assessed(ls, srcs, ev), "REFUTES") # {}
  <2> DEFINE A == Assessed(ls, srcs, ev)
  <2> HIDE DEF A
  <2>1. calculateClaimSupportStatus(A, ClaimOf[c].possible) = "CONTESTED"
    BY DEF SupportIn, A
  <2>2. VerifiedPart(A, "SUPPORTS") # {} /\ VerifiedPart(A, "REFUTES") # {}
    BY <2>1, StatusByParts
  <2> QED BY <2>2 DEF A
<1> SUFFICES ASSUME NEW r \in {"SUPPORTS", "REFUTES"}
             PROVE  \E e \in Current(ev) : ls[e] = r /\ ev[e].verification = "VERIFIED"
  OBVIOUS
<1>2. PICK a \in Assessed(ls, srcs, ev) : a.verification = "VERIFIED" /\ a.relationship = r
  BY <1>1 DEF VerifiedPart
<1>3. PICK e \in Current(ev) : a = [ relationship |-> ls[e], verification |-> ev[e].verification,
      freshness |-> srcs[EvidenceOf[e].source].freshness, extent |-> ev[e].extent ]
  BY DEF Assessed
<1> QED BY <1>2, <1>3

\* Where the verified evidence of one ledger is found alike in another, so are its
\* assessments.
LEMMA PartIncluded ==
  ASSUME NEW ls1, NEW ls2, NEW srcs1, NEW srcs2, NEW ev1, NEW ev2,
         NEW r \in {"SUPPORTS", "REFUTES"},
         Speaking(ls1, ev1) \subseteq Speaking(ls2, ev2),
         \A e \in Speaking(ls1, ev1) :
           /\ ls1[e] = ls2[e] /\ ev1[e] = ev2[e]
           /\ srcs1[EvidenceOf[e].source].freshness = srcs2[EvidenceOf[e].source].freshness
  PROVE  VerifiedPart(Assessed(ls1, srcs1, ev1), r)
           \subseteq VerifiedPart(Assessed(ls2, srcs2, ev2), r)
<1> SUFFICES ASSUME NEW a \in Assessed(ls1, srcs1, ev1),
                    a.verification = "VERIFIED", a.relationship = r
             PROVE  a \in Assessed(ls2, srcs2, ev2)
  BY DEF VerifiedPart
<1>1. PICK e \in {x \in Current(ev1) : ls1[x] # None} :
        a = [ relationship |-> ls1[e], verification |-> ev1[e].verification,
      freshness |-> srcs1[EvidenceOf[e].source].freshness, extent |-> ev1[e].extent ]
  BY DEF Assessed
<1>2. e \in Speaking(ls1, ev1)
  BY <1>1 DEF Speaking
<1>3. e \in {x \in Current(ev2) : ls2[x] # None}
  BY <1>2 DEF Speaking
<1>4. a = [ relationship |-> ls2[e], verification |-> ev2[e].verification,
      freshness |-> srcs2[EvidenceOf[e].source].freshness, extent |-> ev2[e].extent ]
  BY <1>1, <1>2
<1> QED BY <1>3, <1>4 DEF Assessed

\* Two ledgers with the same verified evidence of a claim give it the same status.
LEMMA SupportSame ==
  ASSUME NEW c \in Claims,
         NEW ls1, NEW ls2, NEW srcs1, NEW srcs2, NEW ev1, NEW ev2,
         Speaking(ls1, ev1) = Speaking(ls2, ev2),
         \A e \in Speaking(ls1, ev1) :
           /\ ls1[e] = ls2[e] /\ ev1[e] = ev2[e]
           /\ srcs1[EvidenceOf[e].source].freshness = srcs2[EvidenceOf[e].source].freshness
  PROVE  SupportIn(c, ls1, srcs1, ev1) = SupportIn(c, ls2, srcs2, ev2)
<1>1. /\ Speaking(ls1, ev1) \subseteq Speaking(ls2, ev2)
      /\ Speaking(ls2, ev2) \subseteq Speaking(ls1, ev1)
      /\ \A e \in Speaking(ls2, ev2) :
           /\ ls2[e] = ls1[e] /\ ev2[e] = ev1[e]
           /\ srcs2[EvidenceOf[e].source].freshness = srcs1[EvidenceOf[e].source].freshness
  OBVIOUS
<1>3. ASSUME NEW r \in {"SUPPORTS", "REFUTES"}
      PROVE  VerifiedPart(Assessed(ls1, srcs1, ev1), r) = VerifiedPart(Assessed(ls2, srcs2, ev2), r)
  <2>1. VerifiedPart(Assessed(ls1, srcs1, ev1), r) \subseteq VerifiedPart(Assessed(ls2, srcs2, ev2), r)
    BY <1>1, PartIncluded
  <2>2. VerifiedPart(Assessed(ls2, srcs2, ev2), r) \subseteq VerifiedPart(Assessed(ls1, srcs1, ev1), r)
    BY <1>1, PartIncluded
  <2> QED BY <2>1, <2>2
<1> DEFINE A == Assessed(ls1, srcs1, ev1)
           B == Assessed(ls2, srcs2, ev2)
<1>2. /\ VerifiedPart(A, "SUPPORTS") = VerifiedPart(B, "SUPPORTS")
      /\ VerifiedPart(A, "REFUTES") = VerifiedPart(B, "REFUTES")
  BY <1>3
<1> HIDE DEF A, B
<1>4. calculateClaimSupportStatus(A, ClaimOf[c].possible)
        = calculateClaimSupportStatus(B, ClaimOf[c].possible)
  BY <1>2, StatusSame
<1> QED BY <1>4 DEF SupportIn, A, B

-----------------------------------------------------------------------------
(* Steps that leave the verified evidence alone.                           *)

\* No row is deleted, no source ages, and evidence that changes is not verified.
RowsKept ==
  /\ \A s \in Sources : sources[s] # None =>
       sources'[s] # None /\ sources'[s].freshness = sources[s].freshness
  /\ \A e \in Evidence : evidence[e] # None =>
       /\ evidence'[e] # None
       /\ \/ evidence'[e] = evidence[e]
          \/ evidence[e].verification # "VERIFIED" /\ evidence'[e].verification # "VERIFIED"

\* SupportOf is SupportIn of the evidence table.
LEMMA SupportOfIsIn ==
  ASSUME NEW c, NEW ls, NEW srcs
  PROVE  SupportOf(c, ls, srcs) = SupportIn(c, ls, srcs, evidence)
  BY DEF SupportOf, SupportIn, Assessed

\* ... and so is it after a step.
LEMMA SupportOfIsInNext ==
  ASSUME NEW c \in Claims
  PROVE  (SupportOf(c, links[c], sources))' = SupportIn(c, links'[c], sources', evidence')
  BY DEF SupportOf, SupportIn, Assessed, Current, Existing

\* Links to existing evidence give a claim the status they gave it.
LEMMA StatusKept ==
  ASSUME TypeOK, TypeOK', RowsOK, RowsKept, NEW c \in Claims,
         NEW ls, \A e \in Evidence : ls[e] # None => evidence[e] # None
  PROVE  SupportIn(c, ls, sources, evidence) = SupportIn(c, ls, sources', evidence')
<1>1. DOMAIN evidence = Evidence /\ DOMAIN evidence' = Evidence
  BY DEF TypeOK
<1>2. ASSUME NEW e \in Evidence, ls[e] # None
      PROVE  /\ evidence[e] # None /\ evidence'[e] # None
             /\ (evidence[e].current /\ evidence[e].verification = "VERIFIED") <=>
                  (evidence'[e].current /\ evidence'[e].verification = "VERIFIED")
             /\ evidence[e].verification = "VERIFIED" => evidence'[e] = evidence[e]
             /\ sources[EvidenceOf[e].source] # None
             /\ sources'[EvidenceOf[e].source].freshness = sources[EvidenceOf[e].source].freshness
  BY <1>1, <1>2 DEF RowsKept, RowsOK, Existing
<1>3. Speaking(ls, evidence) = Speaking(ls, evidence')
  BY <1>1, <1>2 DEF Speaking, Current, Existing
<1>4. \A e \in Speaking(ls, evidence) :
        /\ ls[e] = ls[e] /\ evidence[e] = evidence'[e]
        /\ sources[EvidenceOf[e].source].freshness = sources'[EvidenceOf[e].source].freshness
  BY <1>1, <1>2 DEF Speaking, Current, Existing
<1> QED BY <1>3, <1>4, SupportSame

\* A step that keeps the verified evidence, the links of existing claims and the
\* requests under way keeps what those requests have computed.
LEMMA LinkingKept ==
  ASSUME LedgerInv, TypeOK', RowsKept,
         \A c \in Claims : claims[c] # None => claims'[c] # None /\ links'[c] = links[c],
         \A k \in Clients : linking'[k] # None => linking'[k] = linking[k]
  PROVE  LinkingOK'
<1> SUFFICES ASSUME NEW k \in Clients, linking'[k] # None
             PROVE  /\ claims'[linking'[k].claim] # None
                    /\ evidence'[linking'[k].evidence] # None
                    /\ linking'[k].fresh => linking'[k].support =
                         SupportIn(linking'[k].claim, [links'[linking'[k].claim] EXCEPT
                           ![linking'[k].evidence] = linking'[k].relationship],
                           sources', evidence')
  BY DEF LinkingOK, SupportOf, SupportIn, Assessed, Current, Existing
<1> DEFINE l == linking[k]
           ls == [links[l.claim] EXCEPT ![l.evidence] = l.relationship]
<1>1. linking'[k] = l /\ l \in Linkings
  BY DEF LedgerInv, TypeOK
<1>2. l.claim \in Claims /\ l.evidence \in Evidence
  BY <1>1 DEF Linkings
<1>3. /\ claims[l.claim] # None /\ evidence[l.evidence] # None
      /\ l.fresh => l.support = SupportIn(l.claim, ls, sources, evidence)
  BY <1>1, SupportOfIsIn DEF LedgerInv, LinkingOK
<1>4. claims'[l.claim] # None /\ links'[l.claim] = links[l.claim]
  BY <1>2, <1>3
<1>5. evidence'[l.evidence] # None
  BY <1>2, <1>3 DEF RowsKept
<1>6. \A e \in Evidence : ls[e] # None => evidence[e] # None
  BY <1>2, <1>3 DEF LedgerInv, TypeOK, RowsOK
<1> HIDE DEF ls
<1>7. SupportIn(l.claim, ls, sources, evidence) = SupportIn(l.claim, ls, sources', evidence')
  BY <1>2, <1>6, StatusKept DEF LedgerInv
<1> QED BY <1>1, <1>3, <1>4, <1>5, <1>7 DEF ls

\* Such a step keeps the statuses that are stored, where it stores no other.
LEMMA StatusesKept ==
  ASSUME LedgerInv, TypeOK', RowsKept,
         \A c \in Current(claims)' \ loose' :
           \/ /\ c \in Current(claims) \ loose /\ links'[c] = links[c]
              /\ claims'[c].support = claims[c].support
           \/ claims'[c].support = SupportIn(c, links'[c], sources', evidence')
  PROVE  SupportRecalculated'
<1> SUFFICES ASSUME NEW c \in Current(claims)' \ loose'
             PROVE  claims'[c].support = SupportIn(c, links'[c], sources', evidence')
  BY DEF SupportRecalculated, SupportOf, SupportIn, Assessed, Current, Existing
<1>1. c \in Claims
  BY DEF TypeOK, Current, Existing
<1>2. CASE /\ c \in Current(claims) \ loose /\ links'[c] = links[c]
           /\ claims'[c].support = claims[c].support
  <2>1. claims[c].support = SupportIn(c, links[c], sources, evidence)
    BY <1>2, SupportOfIsIn DEF LedgerInv, SupportRecalculated
  <2>2. \A e \in Evidence : links[c][e] # None => evidence[e] # None
    BY <1>1 DEF LedgerInv, RowsOK
  <2>3. SupportIn(c, links[c], sources, evidence) = SupportIn(c, links[c], sources', evidence')
    BY <1>1, <2>2, StatusKept DEF LedgerInv
  <2> QED BY <1>2, <2>1, <2>3
<1> QED BY <1>2

-----------------------------------------------------------------------------
(* The operations, one by one.                                             *)

\* After invalidateDownstreamReview there is no pass to honour.
LEMMA Invalidated ==
  ASSUME invalidateDownstreamReview
  PROVE  PassedReportHolds'
  BY DEF invalidateDownstreamReview, PassedReportHolds

\* A stage that commits leaves a pass behind.
LEMMA LeftBehind ==
  ASSUME LedgerInv, behind' = passed, passed' = passed
  PROVE  PassedReportHolds'
  BY DEF PassedReportHolds, LedgerInv, TypeOK

\* What a pass says of the ledger and the report.
BorneOut ==
  /\ \A c \in Current(claims) :
       /\ SupportOf(c, links[c], sources) = "CONTESTED" => claims[c].notes
       /\ claims[c].include =>
            /\ ClaimOf[c].key => VerifiedFor(c, "SUPPORTS") # {}
            /\ \A n \in ClaimOf[c].words \cap Numbers :
                 \E e \in VerifiedFor(c, "SUPPORTS") : n \in WordsOf({e})
  /\ gap.status # "OPEN" /\ ~report.empty
  /\ report.cites \subseteq Existing(sources)

\* A step that changes neither keeps it.
LEMMA BorneOutKept ==
  ASSUME TypeOK, TypeOK', BorneOut,
         UNCHANGED <<sources, evidence, claims, links, gap, report>>
  PROVE  BorneOut'
<1>1. /\ (Current(claims))' = Current(claims) /\ (Existing(sources))' = Existing(sources)
      /\ Current(claims) \subseteq Claims
  BY DEF Current, Existing, TypeOK
<1>2. ASSUME NEW c \in Claims
      PROVE  /\ (SupportOf(c, links[c], sources))' = SupportOf(c, links[c], sources)
             /\ (VerifiedFor(c, "SUPPORTS"))' = VerifiedFor(c, "SUPPORTS")
  <2>1. (SupportOf(c, links[c], sources))' = SupportOf(c, links[c], sources)
    BY SupportOfIsIn, SupportOfIsInNext
  <2>2. (VerifiedFor(c, "SUPPORTS"))' = VerifiedFor(c, "SUPPORTS")
    BY DEF VerifiedFor, Current, Existing
  <2> QED BY <2>1, <2>2
<1>3. ASSUME NEW c \in Current(claims)
      PROVE  /\ (SupportOf(c, links[c], sources))' = "CONTESTED" => claims'[c].notes
             /\ claims'[c].include =>
                  /\ ClaimOf[c].key => (VerifiedFor(c, "SUPPORTS"))' # {}
                  /\ \A n \in ClaimOf[c].words \cap Numbers :
                       \E e \in (VerifiedFor(c, "SUPPORTS"))' : n \in WordsOf({e})
  BY <1>1, <1>2 DEF BorneOut
<1>4. /\ gap'.status # "OPEN" /\ ~report'.empty
      /\ report'.cites \subseteq (Existing(sources))'
  BY <1>1 DEF BorneOut
<1> QED BY <1>1, <1>3, <1>4 DEF BorneOut

\* ... and with the findings, the pass.
LEMMA PassedKept ==
  ASSUME LedgerInv, TypeOK',
         UNCHANGED <<sources, evidence, claims, links, gap, report, findings, passed, behind>>
  PROVE  PassedReportHolds'
<1>1. CASE passed /\ ~behind
  <2>1. BorneOut /\ \A f \in findings : f.status = "RESOLVED"
    BY <1>1 DEF BorneOut, LedgerInv, PassedReportHolds
  <2>2. BorneOut'
    BY <2>1, BorneOutKept DEF LedgerInv
  <2> QED BY <2>1, <2>2 DEF BorneOut, PassedReportHolds
<1>2. CASE ~(passed /\ ~behind)
  BY <1>2 DEF PassedReportHolds
<1> QED BY <1>1, <1>2

\* addSource: no evidence can be on a source that was not there.
LEMMA AddSourceStep ==
  ASSUME LedgerInv, NEW s \in Sources, addSource(s)
  PROVE  LedgerInv'
<1> USE DEF LedgerInv
<1>1. assessSourceFreshness(SourceOf[s].published, scope) \in
        {"CURRENT", "AGING", "OUTDATED", "UNKNOWN"}
  BY DEF assessSourceFreshness
<1> DEFINE row ==
       [ freshness |-> assessSourceFreshness(SourceOf[s].published, scope),
         duplicate |-> SourceOf[s].content # None /\
           \E t \in Existing(sources) : SourceOf[t].content = SourceOf[s].content ]
<1>2. row \in SourceRows
  BY <1>1 DEF SourceRows
<1>3. sources' = [sources EXCEPT ![s] = row] /\ sources[s] = None
  BY DEF addSource
<1> HIDE DEF row
<1>4. TypeOK'
  <2>1. sources' \in [Sources -> SourceRows \cup {None}]
    BY <1>2, <1>3 DEF TypeOK
  <2> QED BY <2>1 DEF addSource, TypeOK, invalidateDownstreamReview
<1>5. RowsKept
  BY <1>3 DEF RowsKept, addSource, TypeOK
<1>6. RowsOK'
  BY <1>2, <1>3 DEF addSource, RowsOK, TypeOK, Existing
<1>7. LinkingOK'
  BY <1>4, <1>5, LinkingKept DEF addSource
<1>8. SupportRecalculated'
  BY <1>4, <1>5, StatusesKept DEF addSource, Current, Existing
<1>9. PassedReportHolds'
  BY Invalidated DEF addSource
<1> QED BY <1>4, <1>6, <1>7, <1>8, <1>9

\* addEvidence: no claim is linked to evidence that was not there.
LEMMA AddEvidenceStep ==
  ASSUME LedgerInv, NEW e \in Evidence, NEW entry \in Entries, addEvidence(e, entry)
  PROVE  LedgerInv'
<1> USE DEF LedgerInv
<1> DEFINE row ==
       [verification |-> entry.verification, extent |-> entry.extent, current |-> TRUE]
<1>2. row \in EvidenceRows
  BY DEF EvidenceRows
<1>3. /\ evidence' = [evidence EXCEPT ![e] = row] /\ evidence[e] = None
      /\ e \notin StageEvidence /\ sources[EvidenceOf[e].source] # None
  BY DEF addEvidence
<1> HIDE DEF row
<1>4. TypeOK'
  <2>1. evidence' \in [Evidence -> EvidenceRows \cup {None}]
    BY <1>2, <1>3 DEF TypeOK
  <2> QED BY <2>1 DEF addEvidence, TypeOK, invalidateDownstreamReview
<1>5. RowsKept
  BY <1>3 DEF RowsKept, addEvidence, TypeOK
<1>6. RowsOK'
  BY <1>2, <1>3 DEF addEvidence, RowsOK, TypeOK, Existing
<1>7. LinkingOK'
  BY <1>4, <1>5, LinkingKept DEF addEvidence
<1>8. SupportRecalculated'
  BY <1>4, <1>5, StatusesKept DEF addEvidence, Current, Existing
<1>9. PassedReportHolds'
  BY Invalidated DEF addEvidence
<1> QED BY <1>4, <1>6, <1>7, <1>8, <1>9

\* A claim without links is unsupported, or not verifiable.
LEMMA UnlinkedStatus ==
  ASSUME NEW c \in Claims, NEW ls, NEW srcs, NEW ev,
         \A e \in Current(ev) : ls[e] # None => ev[e].verification # "VERIFIED"
  PROVE  SupportIn(c, ls, srcs, ev) =
           IF ClaimOf[c].possible THEN "UNSUPPORTED" ELSE "NOT_VERIFIABLE"
<1> DEFINE A == Assessed(ls, srcs, ev)
<1>1. VerifiedPart(A, "SUPPORTS") = {}
  BY DEF VerifiedPart, Assessed
<1> HIDE DEF A
<1>2. calculateClaimSupportStatus(A, ClaimOf[c].possible) =
        IF ClaimOf[c].possible THEN "UNSUPPORTED" ELSE "NOT_VERIFIABLE"
  BY <1>1, StatusByParts
<1> QED BY <1>2 DEF SupportIn, A

\* addClaim: the claim starts with the status of a claim without evidence.
LEMMA AddClaimStep ==
  ASSUME LedgerInv, NEW c \in Claims, NEW include \in BOOLEAN, addClaim(c, include)
  PROVE  LedgerInv'
<1> USE DEF LedgerInv
<1> DEFINE support == IF ClaimOf[c].possible THEN "UNSUPPORTED" ELSE "NOT_VERIFIABLE"
           row == ClaimRow(support, include)
<1>1. support \in Supports
  BY DEF Supports
<1>2. row \in ClaimRows /\ row.support = support
  BY <1>1 DEF ClaimRows, ClaimRow
<1>3. claims' = [claims EXCEPT ![c] = row] /\ claims[c] = None
  BY DEF addClaim
<1>10. \A e \in Evidence : links[c][e] = None
  BY <1>3 DEF RowsOK
<1>11. SupportIn(c, links'[c], sources', evidence') = support
  <2>1. \A e \in Current(evidence') : links'[c][e] # None => evidence'[e].verification # "VERIFIED"
    BY <1>10 DEF addClaim, Current, Existing, TypeOK
  <2> QED BY <2>1, UnlinkedStatus
<1> HIDE DEF row, support
<1>4. TypeOK'
  <2>1. claims' \in [Claims -> ClaimRows \cup {None}]
    BY <1>2, <1>3 DEF TypeOK
  <2> QED BY <2>1 DEF addClaim, TypeOK, invalidateDownstreamReview
<1>5. RowsKept
  BY DEF RowsKept, addClaim
<1>6. RowsOK'
  BY <1>2, <1>3 DEF addClaim, RowsOK, TypeOK, Existing
<1>7. LinkingOK'
  BY <1>2, <1>3, <1>4, <1>5, LinkingKept DEF addClaim, TypeOK
<1>8. SupportRecalculated'
  <2>1. ASSUME NEW d \in Current(claims)' \ loose'
        PROVE  \/ /\ d \in Current(claims) \ loose /\ links'[d] = links[d]
                  /\ claims'[d].support = claims[d].support
               \/ claims'[d].support = SupportIn(d, links'[d], sources', evidence')
    <3>1. d \in Claims /\ claims'[d] # None /\ claims'[d].current
      BY <1>4 DEF Current, Existing, TypeOK
    <3>2. CASE d = c
      BY <3>2, <1>2, <1>3, <1>11, <3>1 DEF TypeOK
    <3>3. CASE d # c
      BY <3>1, <3>3, <1>3 DEF addClaim, Current, Existing, TypeOK
    <3> QED BY <3>2, <3>3
  <2> QED BY <1>4, <1>5, <2>1, StatusesKept
<1>9. PassedReportHolds'
  BY Invalidated DEF addClaim
<1> QED BY <1>4, <1>6, <1>7, <1>8, <1>9

\* The read half of linkClaimEvidence: what it computes is right when it is read.
LEMMA LinkReadStep ==
  ASSUME LedgerInv, NEW k \in Clients, NEW c \in Claims, NEW e \in Evidence,
         NEW r \in Relationships, LinkRead(k, c, e, r)
  PROVE  LedgerInv'
<1> USE DEF LedgerInv
<1> DEFINE ls == [links[c] EXCEPT ![e] = r]
           support == SupportOf(c, ls, sources)
           l == [ claim |-> c, evidence |-> e, relationship |-> r, fresh |-> TRUE,
                  support |-> support ]
<1>1. linking' = [linking EXCEPT ![k] = l]
  BY DEF LinkRead
<1>2. UNCHANGED <<scope, sources, evidence, claims, links, gap, report, findings, passed,
                  loose, behind>>
  BY DEF LinkRead
<1>3. claims[c] # None /\ evidence[e] # None
  BY DEF LinkRead, Current, Existing
<1>4. support = SupportIn(c, ls, sources, evidence) /\ support \in Supports
  BY SupportOfIsIn, StatusTyped
<1>5. l \in Linkings
  BY <1>4 DEF Linkings
<1>6. TypeOK'
  BY <1>1, <1>2, <1>5 DEF TypeOK
<1>7. RowsOK'
  BY <1>2 DEF RowsOK, Existing
<1>8. LinkingOK'
  <2> SUFFICES ASSUME NEW j \in Clients, linking'[j] # None
               PROVE  /\ claims[linking'[j].claim] # None
                      /\ evidence[linking'[j].evidence] # None
                      /\ linking'[j].fresh => linking'[j].support =
                           SupportIn(linking'[j].claim, [links[linking'[j].claim] EXCEPT
                             ![linking'[j].evidence] = linking'[j].relationship],
                             sources, evidence)
    BY <1>2, SMTT(30) DEF LinkingOK, SupportOf, SupportIn, Assessed, Current, Existing
  <2>1. CASE j = k
    <3>1. linking'[j] = l
      BY <1>1, <2>1 DEF TypeOK
    <3>2. l.claim = c /\ l.evidence = e /\ l.relationship = r /\ l.support = support
      OBVIOUS
    <3> HIDE DEF l, support
    <3> QED BY <3>1, <3>2, <1>3, <1>4
  <2>2. CASE j # k
    <3>1. linking'[j] = linking[j]
      BY <1>1, <2>2 DEF TypeOK
    <3> QED BY <3>1, SupportOfIsIn DEF LinkingOK
  <2> QED BY <2>1, <2>2
<1>9. SupportRecalculated'
  <2>1. RowsKept
    BY <1>2 DEF RowsKept
  <2> QED BY <1>2, <1>6, <2>1, StatusesKept DEF Current, Existing
<1>10. PassedReportHolds'
  BY <1>2, <1>6, PassedKept
<1> QED BY <1>6, <1>7, <1>8, <1>9, <1>10

\* The commit of linkClaimEvidence: the status it stores is right when no commit
\* has overtaken it, and those it overtakes itself are told apart.
LEMMA LinkCommitStep ==
  ASSUME LedgerInv, NEW k \in Clients, LinkCommit(k)
  PROVE  LedgerInv'
<1> USE DEF LedgerInv
<1> DEFINE l == linking[k]
           c == l.claim
           e == l.evidence
<1>1. l \in Linkings
  BY DEF LinkCommit, TypeOK
<1>2. c \in Claims /\ e \in Evidence /\ l.relationship \in Relationships
      /\ l.support \in Supports /\ l.fresh \in BOOLEAN
  BY <1>1 DEF Linkings
<1>3. claims[c] # None /\ claims[c] \in ClaimRows /\ evidence[e] # None
  BY <1>2 DEF LinkCommit, LinkingOK, TypeOK
<1> DEFINE row == Stored(claims[c], l.support)
<1>4. row \in ClaimRows /\ row.support = l.support /\ row.current = claims[c].current
  BY <1>2, <1>3 DEF Stored, ClaimRows
<1>5. /\ claims' = [claims EXCEPT ![c] = row]
      /\ links' = [links EXCEPT ![c][e] = l.relationship]
      /\ loose' = IF l.fresh THEN loose \ {c} ELSE loose \cup {c}
      /\ linking' = Overtaken([linking EXCEPT ![k] = None], {c})
      /\ UNCHANGED <<scope, sources, evidence, gap, report, findings>>
  BY DEF LinkCommit
<1>6. /\ links'[c] = [links[c] EXCEPT ![e] = l.relationship]
      /\ links'[c] \in [Evidence -> Relationships \cup {None}]
      /\ \A d \in Claims \ {c} : links'[d] = links[d]
  BY <1>2, <1>5 DEF TypeOK
<1>7. ASSUME NEW j \in Clients
      PROVE  /\ j = k => linking'[j] = None
             /\ j # k => linking'[j] = IF linking[j] # None /\ linking[j].claim = c
                                       THEN [linking[j] EXCEPT !.fresh = FALSE]
                                       ELSE linking[j]
  BY <1>5 DEF Overtaken, TypeOK
<1>20. l.fresh => l.support = SupportIn(c, links'[c], sources, evidence)
  BY <1>2, <1>6, SupportOfIsIn DEF LinkingOK, LinkCommit
<1>21. DOMAIN linking' = Clients
  BY <1>5 DEF Overtaken
<1> HIDE DEF row, c, e, l
<1>8. ASSUME NEW j \in Clients, linking'[j] # None
      PROVE  /\ linking[j] # None /\ linking[j] \in Linkings /\ linking'[j] \in Linkings
             /\ linking'[j].claim = linking[j].claim /\ linking'[j].evidence = linking[j].evidence
             /\ linking'[j].fresh => linking'[j] = linking[j] /\ linking[j].claim # c
  <2>1. j # k /\ linking[j] # None
    BY <1>7, <1>8
  <2>2. linking[j] \in Linkings
    BY <2>1 DEF TypeOK
  <2>3. [linking[j] EXCEPT !.fresh = FALSE] \in Linkings
        /\ [linking[j] EXCEPT !.fresh = FALSE].claim = linking[j].claim
        /\ [linking[j] EXCEPT !.fresh = FALSE].evidence = linking[j].evidence
        /\ [linking[j] EXCEPT !.fresh = FALSE].fresh = FALSE
    BY <2>2 DEF Linkings
  <2> QED BY <1>7, <2>1, <2>2, <2>3
<1>9. TypeOK'
  <2>1. claims' \in [Claims -> ClaimRows \cup {None}]
    BY <1>4, <1>5 DEF TypeOK
  <2>2. links' \in [Claims -> [Evidence -> Relationships \cup {None}]]
    BY <1>2, <1>5, <1>6 DEF TypeOK
  <2>3. loose' \subseteq Claims
    BY <1>2, <1>5 DEF TypeOK
  <2> QED BY <1>5, <1>8, <1>21, <2>1, <2>2, <2>3 DEF TypeOK, LinkCommit, invalidateDownstreamReview
<1>10. \A d \in Claims : claims[d] # None => claims'[d] # None
  BY <1>4, <1>5 DEF TypeOK
<1>11. RowsOK'
  <2>1. \A d \in Claims, x \in Evidence :
          links'[d][x] # None => claims'[d] # None /\ evidence[x] # None
    <3> SUFFICES ASSUME NEW d \in Claims, NEW x \in Evidence, links'[d][x] # None
                 PROVE  claims'[d] # None /\ evidence[x] # None
      OBVIOUS
    <3>1. CASE d = c /\ x = e
      BY <1>2, <1>3, <1>10, <3>1
    <3>2. CASE ~(d = c /\ x = e)
      <4>1. links'[d][x] = links[d][x]
        BY <1>2, <1>6, <3>2, ZenonT(60) DEF TypeOK
      <4> QED BY <1>10, <4>1 DEF RowsOK
    <3> QED BY <3>1, <3>2
  <2> QED BY <1>5, <2>1 DEF RowsOK, Existing
<1>12. LinkingOK'
  <2> SUFFICES ASSUME NEW j \in Clients, linking'[j] # None
               PROVE  /\ claims'[linking'[j].claim] # None
                      /\ evidence[linking'[j].evidence] # None
                      /\ linking'[j].fresh => linking'[j].support =
                           SupportIn(linking'[j].claim, [links'[linking'[j].claim] EXCEPT
                             ![linking'[j].evidence] = linking'[j].relationship],
                             sources', evidence')
    BY <1>5 DEF LinkingOK, SupportOf, SupportIn, Assessed, Current, Existing
  <2>1. linking[j].claim \in Claims
    BY <1>8 DEF Linkings
  <2>2. /\ claims[linking[j].claim] # None /\ evidence[linking[j].evidence] # None
        /\ linking[j].fresh => linking[j].support =
             SupportIn(linking[j].claim, [links[linking[j].claim] EXCEPT
               ![linking[j].evidence] = linking[j].relationship], sources, evidence)
    BY <1>8, SupportOfIsIn DEF LinkingOK
  <2>3. linking'[j].fresh => links'[linking[j].claim] = links[linking[j].claim]
    BY <1>6, <1>8, <2>1
  <2> QED BY <1>5, <1>8, <1>10, <2>1, <2>2, <2>3
<1>13. SupportRecalculated'
  <2>1. RowsKept
    BY <1>5 DEF RowsKept
  <2>2. ASSUME NEW d \in Current(claims)' \ loose'
        PROVE  \/ /\ d \in Current(claims) \ loose /\ links'[d] = links[d]
                  /\ claims'[d].support = claims[d].support
               \/ claims'[d].support = SupportIn(d, links'[d], sources', evidence')
    <3>1. d \in Claims /\ claims'[d] # None /\ claims'[d].current
      BY <1>9 DEF Current, Existing, TypeOK
    <3>2. CASE d = c
      <4>1. l.fresh
        BY <1>5, <2>2, <3>2
      <4> QED BY <1>2, <1>4, <1>5, <1>20, <3>2, <4>1 DEF TypeOK
    <3>3. CASE d # c
      <4>1. d \notin loose /\ claims'[d] = claims[d] /\ links'[d] = links[d]
        BY <1>5, <1>6, <2>2, <3>1, <3>3 DEF TypeOK
      <4> QED BY <3>1, <4>1 DEF Current, Existing, TypeOK
    <3> QED BY <3>2, <3>3
  <2> QED BY <1>9, <2>1, <2>2, StatusesKept
<1>14. PassedReportHolds'
  BY Invalidated DEF LinkCommit
<1> QED BY <1>9, <1>11, <1>12, <1>13, <1>14

\* The request that fails has stored nothing.
LEMMA LinkRolledBackStep ==
  ASSUME LedgerInv, NEW k \in Clients, LinkRolledBack(k)
  PROVE  LedgerInv'
<1> USE DEF LedgerInv
<1>1. TypeOK'
  BY DEF LinkRolledBack, TypeOK
<1>2. RowsOK'
  BY DEF LinkRolledBack, RowsOK, Existing
<1> RowsKept
  BY DEF RowsKept, LinkRolledBack
<1>3. LinkingOK'
  BY <1>1, LinkingKept DEF LinkRolledBack, TypeOK
<1>4. SupportRecalculated'
  BY <1>1, StatusesKept DEF LinkRolledBack, Current, Existing
<1>5. PassedReportHolds'
  BY <1>1, PassedKept DEF LinkRolledBack
<1> QED BY <1>1, <1>2, <1>3, <1>4, <1>5

\* updateClaimReview touches nothing a status depends on.
LEMMA UpdateClaimReviewStep ==
  ASSUME LedgerInv, NEW c \in Claims, NEW r \in Reviews, updateClaimReview(c, r)
  PROVE  LedgerInv'
<1> USE DEF LedgerInv
<1> DEFINE row == [claims[c] EXCEPT !.include = r.include, !.within = r.within,
                                    !.notes = r.notes]
<1>1. claims[c] # None /\ claims[c] \in ClaimRows
  BY DEF updateClaimReview, Current, Existing, TypeOK
<1>2. /\ row \in ClaimRows /\ row.support = claims[c].support
      /\ row.current = claims[c].current
  BY <1>1 DEF ClaimRows
<1>3. claims' = [claims EXCEPT ![c] = row]
  BY DEF updateClaimReview
<1> HIDE DEF row
<1>4. TypeOK'
  <2>1. claims' \in [Claims -> ClaimRows \cup {None}]
    BY <1>2, <1>3 DEF TypeOK
  <2> QED BY <2>1 DEF updateClaimReview, TypeOK, invalidateDownstreamReview
<1>5. RowsKept
  BY DEF RowsKept, updateClaimReview
<1>6. \A d \in Claims : /\ claims[d] # None <=> claims'[d] # None
                        /\ claims'[d].support = claims[d].support
                        /\ claims'[d].current = claims[d].current
  BY <1>1, <1>2, <1>3 DEF TypeOK
<1>7. RowsOK'
  BY <1>6 DEF updateClaimReview, RowsOK, Existing
<1>8. LinkingOK'
  BY <1>4, <1>5, <1>6, LinkingKept DEF updateClaimReview
<1>9. SupportRecalculated'
  <2>1. \A d \in Current(claims)' \ loose' :
          /\ d \in Current(claims) \ loose /\ links'[d] = links[d]
          /\ claims'[d].support = claims[d].support
    BY <1>4, <1>6 DEF updateClaimReview, Current, Existing, TypeOK
  <2> QED BY <1>4, <1>5, <2>1, StatusesKept
<1>10. PassedReportHolds'
  BY Invalidated DEF updateClaimReview
<1> QED BY <1>4, <1>7, <1>8, <1>9, <1>10

\* updateProjectScope computes every status of the project anew, and what the
\* requests under way have computed counts no longer.
LEMMA UpdateProjectScopeStep ==
  ASSUME LedgerInv, NEW sc \in Scopes, updateProjectScope(sc)
  PROVE  LedgerInv'
<1> USE DEF LedgerInv
<1>1. /\ scope' = sc
      /\ UNCHANGED <<evidence, links, gap, report, findings>>
      /\ loose' = loose \ Current(claims)
  BY DEF updateProjectScope
<1>2. ASSUME NEW s \in Sources
      PROVE  /\ sources'[s] \in SourceRows \cup {None}
             /\ sources[s] # None <=> sources'[s] # None
  <2>1. assessSourceFreshness(SourceOf[s].published, sc) \in
          {"CURRENT", "AGING", "OUTDATED", "UNKNOWN"}
    BY DEF assessSourceFreshness
  <2>2. sources'[s] = IF sources[s] = None THEN None ELSE [sources[s] EXCEPT
          !.freshness = assessSourceFreshness(SourceOf[s].published, sc)]
    BY DEF updateProjectScope
  <2>3. sources[s] # None => sources[s] \in SourceRows
    BY DEF TypeOK
  <2>4. sources[s] # None => sources'[s] \in SourceRows
    BY <2>1, <2>2, <2>3 DEF SourceRows
  <2> QED BY <2>2, <2>4
<1>3. ASSUME NEW c \in Claims
      PROVE  claims'[c] = IF c \in Current(claims)
                          THEN [claims[c] EXCEPT
                                  !.support = SupportIn(c, links[c], sources', evidence)]
                          ELSE claims[c]
  BY SupportOfIsIn DEF updateProjectScope, refreshProjectClaimSupport
<1>4. ASSUME NEW c \in Claims
      PROVE  /\ claims'[c] \in ClaimRows \cup {None}
             /\ claims[c] # None <=> claims'[c] # None
             /\ c \in Current(claims) => claims'[c].support =
                  SupportIn(c, links[c], sources', evidence)
             /\ c \notin Current(claims) => claims'[c] = claims[c]
  <2>1. CASE c \in Current(claims)
    <3>1. claims[c] # None /\ claims[c] \in ClaimRows
      BY <2>1 DEF Current, Existing, TypeOK
    <3>2. SupportIn(c, links[c], sources', evidence) \in Supports
      BY StatusTyped
    <3> DEFINE new == SupportIn(c, links[c], sources', evidence)
    <3> HIDE DEF new
    <3>3. [claims[c] EXCEPT !.support = new] \in ClaimRows
          /\ [claims[c] EXCEPT !.support = new].support = new
      BY <3>1, <3>2 DEF ClaimRows, new
    <3>4. claims'[c] = [claims[c] EXCEPT !.support = new]
      BY <1>3, <2>1 DEF new
    <3> QED BY <2>1, <3>1, <3>3, <3>4 DEF new
  <2>2. CASE c \notin Current(claims)
    BY <1>3, <2>2 DEF TypeOK
  <2> QED BY <2>1, <2>2
<1>5. ASSUME NEW j \in Clients
      PROVE  /\ linking'[j] # None => /\ linking[j] # None /\ linking'[j] \in Linkings
                                      /\ linking'[j].claim = linking[j].claim
                                      /\ linking'[j].evidence = linking[j].evidence
                                      /\ ~linking'[j].fresh
  <2>1. linking'[j] = IF linking[j] # None /\ linking[j].claim \in Claims
                      THEN [linking[j] EXCEPT !.fresh = FALSE] ELSE linking[j]
    BY DEF updateProjectScope, Overtaken
  <2>2. linking[j] # None => linking[j] \in Linkings
    BY DEF TypeOK
  <2>3. linking[j] # None => linking[j].claim \in Claims
        /\ [linking[j] EXCEPT !.fresh = FALSE] \in Linkings
        /\ [linking[j] EXCEPT !.fresh = FALSE].claim = linking[j].claim
        /\ [linking[j] EXCEPT !.fresh = FALSE].evidence = linking[j].evidence
        /\ ~[linking[j] EXCEPT !.fresh = FALSE].fresh
    BY <2>2 DEF Linkings
  <2> QED BY <2>1, <2>3
<1>6. TypeOK'
  <2>1. sources' \in [Sources -> SourceRows \cup {None}]
    BY <1>2 DEF updateProjectScope
  <2>2. claims' \in [Claims -> ClaimRows \cup {None}]
    BY <1>4 DEF updateProjectScope, refreshProjectClaimSupport
  <2>3. DOMAIN linking' = Clients
    BY DEF updateProjectScope, Overtaken
  <2>4. loose' \subseteq Claims
    BY <1>1 DEF TypeOK
  <2> QED BY <1>1, <1>5, <2>1, <2>2, <2>3, <2>4
       DEF TypeOK, updateProjectScope, invalidateDownstreamReview
<1>7. RowsOK'
  BY <1>1, <1>2, <1>4 DEF RowsOK, TypeOK, Existing
<1>8. LinkingOK'
  <2> SUFFICES ASSUME NEW j \in Clients, linking'[j] # None
               PROVE  /\ claims'[linking'[j].claim] # None
                      /\ evidence'[linking'[j].evidence] # None
                      /\ ~linking'[j].fresh
    BY DEF LinkingOK
  <2>1. linking[j] \in Linkings /\ claims[linking[j].claim] # None
        /\ evidence[linking[j].evidence] # None
    BY <1>5 DEF LinkingOK, TypeOK
  <2> QED BY <1>1, <1>4, <1>5, <2>1 DEF Linkings
<1>9. SupportRecalculated'
  <2> SUFFICES ASSUME NEW c \in Current(claims)' \ loose'
               PROVE  claims'[c].support = SupportIn(c, links'[c], sources', evidence')
    BY DEF SupportRecalculated, SupportOf, SupportIn, Assessed, Current, Existing
  <2>1. c \in Claims /\ claims'[c] # None /\ claims'[c].current
    BY <1>6 DEF Current, Existing, TypeOK
  <2>2. c \in Current(claims)
    BY <1>4, <2>1 DEF Current, Existing, TypeOK
  <2> QED BY <1>1, <1>4, <2>1, <2>2
<1>10. PassedReportHolds'
  BY Invalidated DEF updateProjectScope
<1> QED BY <1>6, <1>7, <1>8, <1>9, <1>10

\* The question and the report are no part of a status.
LEMMA UpdateQuestionStep ==
  ASSUME LedgerInv, NEW g \in GapEdits, updateResearchQuestion(g)
  PROVE  LedgerInv'
<1> USE DEF LedgerInv
<1>1. gap' \in Gaps
  BY DEF updateResearchQuestion, TypeOK, Gaps
<1>2. TypeOK'
  BY <1>1 DEF updateResearchQuestion, TypeOK, invalidateDownstreamReview
<1> RowsKept
  BY DEF RowsKept, updateResearchQuestion
<1>3. RowsOK'
  BY DEF updateResearchQuestion, RowsOK, Existing
<1>4. LinkingOK'
  BY <1>2, LinkingKept DEF updateResearchQuestion
<1>5. SupportRecalculated'
  BY <1>2, StatusesKept DEF updateResearchQuestion, Current, Existing
<1>6. PassedReportHolds'
  BY Invalidated DEF updateResearchQuestion
<1> QED BY <1>2, <1>3, <1>4, <1>5, <1>6

\* updateDeliverable.
LEMMA UpdateDeliverableStep ==
  ASSUME LedgerInv, NEW r \in Reports, updateDeliverable(r)
  PROVE  LedgerInv'
<1> USE DEF LedgerInv
<1>2. TypeOK'
  BY DEF updateDeliverable, TypeOK, invalidateDownstreamReview
<1> RowsKept
  BY DEF RowsKept, updateDeliverable
<1>3. RowsOK'
  BY DEF updateDeliverable, RowsOK, Existing
<1>4. LinkingOK'
  BY <1>2, LinkingKept DEF updateDeliverable
<1>5. SupportRecalculated'
  BY <1>2, StatusesKept DEF updateDeliverable, Current, Existing
<1>6. PassedReportHolds'
  BY Invalidated DEF updateDeliverable
<1> QED BY <1>2, <1>3, <1>4, <1>5, <1>6

\* A stage inserts evidence nobody has verified and withdraws what none has.
LEMMA CommitEvidenceStep ==
  ASSUME LedgerInv, NEW new \in SUBSET StageEvidence, commitEvidence(new)
  PROVE  LedgerInv'
<1> USE DEF LedgerInv
<1>1. /\ UNCHANGED <<scope, sources, claims, links, gap, report, findings, passed,
                     linking, loose>>
      /\ behind' = passed
      /\ \A e \in new : evidence[e] = None /\ sources[EvidenceOf[e].source] # None
  BY DEF commitEvidence
<1>2. ASSUME NEW e \in Evidence
      PROVE  /\ evidence'[e] \in EvidenceRows \cup {None}
             /\ e \in new => evidence'[e] # None /\ evidence'[e].verification = "PENDING"
             /\ e \notin new => /\ evidence[e] # None <=> evidence'[e] # None
                                /\ \/ evidence'[e] = evidence[e]
                                   \/ /\ e \in StageEvidence
                                      /\ evidence'[e].verification = evidence[e].verification
  <2>1. CASE e \in new
    <3>1. evidence'[e] = [verification |-> "PENDING", extent |-> "FULL", current |-> TRUE]
      BY <2>1 DEF commitEvidence
    <3>2. evidence'[e] \in EvidenceRows /\ evidence'[e].verification = "PENDING"
      BY <3>1 DEF EvidenceRows
    <3> QED BY <2>1, <3>2
  <2>2. CASE e \notin new /\ e \in StageEvidence /\ evidence[e] # None
    <3>1. evidence'[e] = [evidence[e] EXCEPT !.current = FALSE]
      BY <2>2 DEF commitEvidence, Superseded, TypeOK
    <3>2. evidence[e] \in EvidenceRows
      BY <2>2 DEF TypeOK
    <3>3. evidence'[e] \in EvidenceRows /\ evidence'[e].verification = evidence[e].verification
      BY <3>1, <3>2 DEF EvidenceRows
    <3> QED BY <2>2, <3>3
  <2>3. CASE e \notin new /\ ~(e \in StageEvidence /\ evidence[e] # None)
    BY <2>3 DEF commitEvidence, Superseded, TypeOK
  <2> QED BY <2>1, <2>2, <2>3
<1>3. DOMAIN evidence' = Evidence
  BY DEF commitEvidence
<1>4. TypeOK'
  <2>1. evidence' \in [Evidence -> EvidenceRows \cup {None}]
    BY <1>2 DEF commitEvidence
  <2> QED BY <1>1, <2>1 DEF TypeOK
<1>5. RowsKept
  BY <1>1, <1>2 DEF RowsKept, RowsOK
<1>6. RowsOK'
  <2>1. \A e \in Existing(evidence)' : sources'[EvidenceOf[e].source] # None
    BY <1>1, <1>2, <1>3 DEF RowsOK, Existing, TypeOK
  <2>2. \A e \in StageEvidence : evidence'[e] # None => evidence'[e].verification = "PENDING"
    BY <1>2 DEF RowsOK
  <2>3. \A c \in Claims, e \in Evidence :
          links'[c][e] # None => claims'[c] # None /\ evidence'[e] # None
    BY <1>1, <1>2 DEF RowsOK
  <2> QED BY <2>1, <2>2, <2>3 DEF RowsOK
<1>7. LinkingOK'
  BY <1>1, <1>4, <1>5, LinkingKept
<1>8. SupportRecalculated'
  BY <1>1, <1>4, <1>5, StatusesKept DEF Current, Existing
<1>9. PassedReportHolds'
  BY <1>1, LeftBehind
<1> QED BY <1>4, <1>6, <1>7, <1>8, <1>9

\* A stage declares a claim UNSUPPORTED when none of its evidence is verified, and
\* then it is; when some is, the claim is among the exceptions.
LEMMA CommitClaimsStep ==
  ASSUME LedgerInv, NEW c \in StageClaims, NEW named \in SUBSET Existing(sources),
         commitClaims(c, named)
  PROVE  LedgerInv'
<1> USE DEF LedgerInv
<1> DEFINE proposed == {e \in Current(evidence) : EvidenceOf[e].source \in named}
           proven == \E e \in proposed : evidence[e].verification = "VERIFIED"
           row == ClaimRow(IF proven THEN "SUPPORTED" ELSE "UNSUPPORTED", FALSE)
           ls == [e \in Evidence |-> IF e \in proposed THEN "SUPPORTS" ELSE None]
<1>1. /\ claims[c] = None
      /\ claims' = [Superseded(claims, StageClaims) EXCEPT ![c] = row]
      /\ links' = [links EXCEPT ![c] = ls]
      /\ loose' = IF proven THEN loose \cup {c} ELSE loose
      /\ behind' = passed
      /\ UNCHANGED <<scope, sources, evidence, gap, report, findings, passed, linking>>
  BY DEF commitClaims
<1>2. /\ row \in ClaimRows
      /\ row.support = IF proven THEN "SUPPORTED" ELSE "UNSUPPORTED"
  BY DEF ClaimRow, ClaimRows, Supports
<1>3. \A e \in Evidence : ls[e] \in Relationships \cup {None}
                          /\ (ls[e] # None => e \in proposed)
  BY DEF Relationships
<1>4. ls \in [Evidence -> Relationships \cup {None}]
  BY <1>3
<1>5. proposed \subseteq Evidence /\ \A e \in proposed : evidence[e] # None
  BY DEF Current, Existing, TypeOK
<1>6. ~proven => SupportIn(c, ls, sources, evidence) = "UNSUPPORTED"
  <2>1. ASSUME ~proven
        PROVE  \A e \in Current(evidence) : ls[e] # None => evidence[e].verification # "VERIFIED"
    BY <1>3, <2>1 DEF Current, Existing, TypeOK
  <2> HIDE DEF ls
  <2>2. ClaimOf[c].possible /\ c \in Claims
    OBVIOUS
  <2> QED BY <2>1, <2>2, UnlinkedStatus
<1> HIDE DEF row, ls, proven, proposed
<1>7. DOMAIN Superseded(claims, StageClaims) = Claims
  BY DEF Superseded, TypeOK
<1>8. ASSUME NEW d \in Claims, d # c
      PROVE  /\ claims'[d] \in ClaimRows \cup {None}
             /\ claims[d] # None <=> claims'[d] # None
             /\ claims'[d] = claims[d] \/ ~claims'[d].current
  <2>1. claims'[d] = Superseded(claims, StageClaims)[d]
    BY <1>1, <1>7, <1>8
  <2>2. claims'[d] = IF d \in StageClaims /\ claims[d] # None
                     THEN [claims[d] EXCEPT !.current = FALSE] ELSE claims[d]
    BY <2>1 DEF Superseded, TypeOK
  <2>3. claims[d] # None => claims[d] \in ClaimRows
    BY DEF TypeOK
  <2>4. claims[d] # None => /\ [claims[d] EXCEPT !.current = FALSE] \in ClaimRows
                            /\ ~[claims[d] EXCEPT !.current = FALSE].current
    BY <2>3 DEF ClaimRows
  <2> QED BY <2>2, <2>3, <2>4
<1>9. /\ claims'[c] = row /\ DOMAIN claims' = Claims
      /\ links'[c] = ls /\ \A d \in Claims \ {c} : links'[d] = links[d]
  BY <1>1, <1>7 DEF TypeOK
<1>10. TypeOK'
  <2>1. claims' \in [Claims -> ClaimRows \cup {None}]
    <3>1. \A d \in Claims : claims'[d] \in ClaimRows \cup {None}
      BY <1>2, <1>8, <1>9
    <3> QED BY <1>1, <1>7, <1>9, <3>1
  <2>2. links' \in [Claims -> [Evidence -> Relationships \cup {None}]]
    BY <1>1, <1>4 DEF TypeOK
  <2>3. loose' \subseteq Claims
    BY <1>1 DEF TypeOK
  <2> QED BY <1>1, <2>1, <2>2, <2>3 DEF TypeOK
<1>11. RowsKept
  BY <1>1 DEF RowsKept
<1>12. RowsOK'
  <2>1. \A d \in Claims, e \in Evidence :
          links'[d][e] # None => claims'[d] # None /\ evidence[e] # None
    BY <1>2, <1>3, <1>5, <1>8, <1>9 DEF RowsOK
  <2> QED BY <1>1, <2>1 DEF RowsOK, Existing
<1>13. LinkingOK'
  <2>1. \A d \in Claims : claims[d] # None => claims'[d] # None /\ links'[d] = links[d]
    BY <1>1, <1>8, <1>9
  <2> QED BY <1>1, <1>10, <1>11, <2>1, LinkingKept
<1>14. SupportRecalculated'
  <2>1. ASSUME NEW d \in Current(claims)' \ loose'
        PROVE  \/ /\ d \in Current(claims) \ loose /\ links'[d] = links[d]
                  /\ claims'[d].support = claims[d].support
               \/ claims'[d].support = SupportIn(d, links'[d], sources', evidence')
    <3>1. d \in Claims /\ claims'[d] # None /\ claims'[d].current
      BY <1>10 DEF Current, Existing, TypeOK
    <3>2. CASE d = c
      BY <1>1, <1>2, <1>6, <1>9, <2>1, <3>2
    <3>3. CASE d # c
      <4>1. d \notin loose /\ claims'[d] = claims[d] /\ links'[d] = links[d]
        BY <1>1, <1>8, <1>9, <2>1, <3>1, <3>3
      <4> QED BY <3>1, <4>1 DEF Current, Existing, TypeOK
    <3> QED BY <3>2, <3>3
  <2> QED BY <1>10, <1>11, <2>1, StatusesKept
<1>15. PassedReportHolds'
  BY <1>1, LeftBehind
<1> QED BY <1>10, <1>12, <1>13, <1>14, <1>15

\* commitResearchGaps.
LEMMA CommitGapsStep ==
  ASSUME LedgerInv, NEW found \in BOOLEAN, commitResearchGaps(found)
  PROVE  LedgerInv'
<1> USE DEF LedgerInv
<1>1. gap' \in Gaps
  BY DEF commitResearchGaps, TypeOK, Gaps
<1>2. TypeOK'
  BY <1>1 DEF commitResearchGaps, TypeOK
<1> RowsKept
  BY DEF RowsKept, commitResearchGaps
<1>3. RowsOK'
  BY DEF commitResearchGaps, RowsOK, Existing
<1>4. LinkingOK'
  BY <1>2, LinkingKept DEF commitResearchGaps
<1>5. SupportRecalculated'
  BY <1>2, StatusesKept DEF commitResearchGaps, Current, Existing
<1>6. PassedReportHolds'
  BY LeftBehind DEF commitResearchGaps
<1> QED BY <1>2, <1>3, <1>4, <1>5, <1>6

\* commitQaSuggestions.
LEMMA CommitSuggestionsStep ==
  ASSUME LedgerInv, NEW found \in BOOLEAN, commitQaSuggestions(found)
  PROVE  LedgerInv'
<1> USE DEF LedgerInv
<1>1. [rule |-> "AI_QA_REVISION", about |-> "report", status |-> "OPEN"] \in Findings
  BY DEF Findings, Abouts
<1>2. findings' \subseteq Findings
  BY <1>1 DEF commitQaSuggestions, TypeOK
<1>3. TypeOK'
  BY <1>2 DEF commitQaSuggestions, TypeOK
<1> RowsKept
  BY DEF RowsKept, commitQaSuggestions
<1>4. RowsOK'
  BY DEF commitQaSuggestions, RowsOK, Existing
<1>5. LinkingOK'
  BY <1>3, LinkingKept DEF commitQaSuggestions
<1>6. SupportRecalculated'
  BY <1>3, StatusesKept DEF commitQaSuggestions, Current, Existing
<1>7. PassedReportHolds'
  BY LeftBehind DEF commitQaSuggestions
<1> QED BY <1>3, <1>4, <1>5, <1>6, <1>7

-----------------------------------------------------------------------------
(* The QA engine.                                                          *)

\* A finding of a rule carries the rule's name and what it was found about.
LEMMA RuleMember ==
  ASSUME NEW code, NEW abouts, NEW f \in Rule(code, abouts)
  PROVE  f.rule = code /\ f.about \in abouts
  BY DEF Rule

\* The rules that stop an approval speak of claims, citations and the report.
LEMMA BlockersTyped ==
  ASSUME TypeOK, NEW f \in runQaRules, f.rule \in BlockerRules
  PROVE  f.about \in Abouts
<1>1. Current(claims) \subseteq Claims
  BY DEF Current, Existing, TypeOK
<1>2. CASE f \in ClaimRules
  <2>1. f.about \in Claims
    BY <1>1, <1>2, RuleMember DEF ClaimRules, Reported
  <2> QED BY <2>1 DEF Abouts
<1>3. CASE f \in NumberRules
  <2>1. \A a \in Assertions : a.about \in Claims \cup {"report"}
    BY <1>1 DEF Assertions, ClaimAssertions, LineAssertions, Reported
  <2>2. f.about \in Claims \cup {"report"}
    BY <1>3, <2>1, RuleMember DEF NumberRules
  <2> QED BY <2>2 DEF Abouts
<1>4. CASE f \in SourceRules
  <2>1. f \in Rule("INVALID_CITATION_ID", report.cites \ Existing(sources))
    BY <1>4, RuleMember DEF SourceRules, BlockerRules
  <2>2. f.about \in report.cites
    BY <2>1, RuleMember
  <2> QED BY <2>2 DEF Abouts, TypeOK
<1>5. CASE f \in ReportRules
  <2>1. f.about \in {"question", "section"}
    BY <1>5, RuleMember DEF ReportRules
  <2> QED BY <2>1 DEF Abouts
<1> QED BY <1>2, <1>3, <1>4, <1>5 DEF runQaRules

\* Where no blocker rule finds anything, the report is borne out.
LEMMA QaBearsOut ==
  ASSUME TypeOK, \A f \in runQaRules : f.rule \notin BlockerRules
  PROVE  BorneOut
<1>1. ASSUME NEW code \in BlockerRules, NEW abouts, Rule(code, abouts) \subseteq runQaRules
      PROVE  abouts = {}
  <2> SUFFICES ASSUME NEW x \in abouts PROVE FALSE
    OBVIOUS
  <2> DEFINE f == [rule |-> code, about |-> x]
  <2>1. f \in Rule(code, abouts) /\ f.rule = code
    BY DEF Rule
  <2> HIDE DEF f
  <2> QED BY <1>1, <2>1
<1>2. {c \in Reported : ClaimOf[c].key /\ VerifiedFor(c, "SUPPORTS") = {}} = {}
  BY <1>1 DEF BlockerRules, runQaRules, ClaimRules
<1>3. {c \in Current(claims) : /\ VerifiedFor(c, "SUPPORTS") # {}
                               /\ VerifiedFor(c, "REFUTES") # {} /\ ~claims[c].notes} = {}
  BY <1>1 DEF BlockerRules, runQaRules, ClaimRules
<1>4. {a.about : a \in {x \in Assertions : x.proof = {}}} = {}
  BY <1>1 DEF BlockerRules, runQaRules, NumberRules
<1>5. {a.about : a \in {x \in Assertions : Missing(x, Numbers)}} = {}
  BY <1>1 DEF BlockerRules, runQaRules, NumberRules
<1>6. report.cites \ Existing(sources) = {}
  BY <1>1 DEF BlockerRules, runQaRules, SourceRules
<1>7. (IF gap.status = "OPEN" THEN {"question"} ELSE {}) = {}
  BY <1>1 DEF BlockerRules, runQaRules, ReportRules
<1>8. (IF report.empty THEN {"section"} ELSE {}) = {}
  BY <1>1 DEF BlockerRules, runQaRules, ReportRules
<1>9. ASSUME NEW c \in Current(claims), SupportOf(c, links[c], sources) = "CONTESTED"
      PROVE  claims[c].notes
  <2>1. c \in Claims
    BY DEF Current, Existing, TypeOK
  <2>2. \A r \in {"SUPPORTS", "REFUTES"} :
          \E e \in Current(evidence) : links[c][e] = r /\ evidence[e].verification = "VERIFIED"
    BY <1>9, <2>1, SupportOfIsIn, ContestedHasBoth
  <2>3. VerifiedFor(c, "SUPPORTS") # {} /\ VerifiedFor(c, "REFUTES") # {}
    BY <2>2 DEF VerifiedFor
  <2> QED BY <1>3, <2>3
<1>10. ASSUME NEW c \in Current(claims), claims[c].include, ClaimOf[c].key
       PROVE  VerifiedFor(c, "SUPPORTS") # {}
  BY <1>2, <1>10 DEF Reported
<1>11. ASSUME NEW c \in Current(claims), claims[c].include,
              NEW n \in ClaimOf[c].words \cap Numbers
       PROVE  \E e \in VerifiedFor(c, "SUPPORTS") : n \in WordsOf({e})
  <2> DEFINE a == [about |-> c, words |-> ClaimOf[c].words, proof |-> VerifiedFor(c, "SUPPORTS")]
  <2>1. a \in Assertions
    BY <1>11 DEF Assertions, ClaimAssertions, Reported
  <2>2. a.words = ClaimOf[c].words /\ a.proof = VerifiedFor(c, "SUPPORTS")
    OBVIOUS
  <2> HIDE DEF a
  <2>3. a.proof # {} /\ ~Missing(a, Numbers)
    BY <1>4, <1>5, <2>1
  <2>4. n \in WordsOf(a.proof)
    BY <2>2, <2>3 DEF Missing
  <2>5. PICK e \in a.proof :
          n \in EvidenceOf[e].words \cup SourceOf[EvidenceOf[e].source].words
    BY <2>4 DEF WordsOf
  <2>6. n \in WordsOf({e})
    BY <2>5 DEF WordsOf
  <2> QED BY <2>2, <2>5, <2>6
<1> QED BY <1>6, <1>7, <1>8, <1>9, <1>10, <1>11 DEF BorneOut

\* runProjectQa passes a project only when no blocker rule has found anything.
LEMMA RunQaStep ==
  ASSUME LedgerInv, runProjectQa
  PROVE  LedgerInv'
<1> USE DEF LedgerInv
<1> DEFINE kept == {f \in findings : f.status # "OPEN" \/ f.rule = "AI_QA_REVISION"}
           found == {[rule |-> f.rule, about |-> f.about, status |-> "OPEN"]
                       : f \in {x \in runQaRules : x.rule \in BlockerRules}}
<1>1. /\ findings' = kept \cup found
      /\ passed' = (\A f \in kept \cup found : f.status = "RESOLVED")
      /\ behind' = FALSE
      /\ UNCHANGED <<scope, sources, evidence, claims, links, gap, report, linking, loose>>
  BY DEF runProjectQa
<1>2. found \subseteq Findings
  BY BlockersTyped DEF Findings
<1>3. passed' => \A f \in runQaRules : f.rule \notin BlockerRules
  <2> SUFFICES ASSUME NEW f \in runQaRules, f.rule \in BlockerRules, passed'
               PROVE  FALSE
    OBVIOUS
  <2>1. [rule |-> f.rule, about |-> f.about, status |-> "OPEN"] \in found
    OBVIOUS
  <2> HIDE DEF found, kept
  <2>2. [rule |-> f.rule, about |-> f.about, status |-> "OPEN"].status = "RESOLVED"
    BY <1>1, <2>1
  <2> QED BY <2>2
<1> HIDE DEF found
<1>4. TypeOK'
  <2>1. findings' \subseteq Findings
    BY <1>1, <1>2 DEF TypeOK
  <2>2. passed' \in BOOLEAN
    BY <1>1
  <2> QED BY <1>1, <2>1, <2>2 DEF TypeOK
<1> RowsKept
  BY <1>1 DEF RowsKept
<1>5. RowsOK'
  BY <1>1 DEF RowsOK, Existing
<1>6. LinkingOK'
  BY <1>1, <1>4, LinkingKept
<1>7. SupportRecalculated'
  BY <1>1, <1>4, StatusesKept DEF Current, Existing
<1>8. PassedReportHolds'
  <2>1. CASE passed'
    <3>1. BorneOut'
      BY <1>1, <1>3, <1>4, <2>1, QaBearsOut, BorneOutKept
    <3>2. \A f \in findings' : f.status = "RESOLVED"
      BY <1>1, <2>1
    <3> QED BY <3>1, <3>2 DEF BorneOut, PassedReportHolds
  <2>2. CASE ~passed'
    BY <2>2 DEF PassedReportHolds
  <2> QED BY <2>1, <2>2
<1> QED BY <1>4, <1>5, <1>6, <1>7, <1>8

\* resolveQaFinding withdraws the pass: QA has to be run again.
LEMMA ResolveFindingStep ==
  ASSUME LedgerInv, NEW f \in findings, NEW r \in {"RESOLVED", "ACCEPTED_RISK"},
         resolveQaFinding(f, r)
  PROVE  LedgerInv'
<1> USE DEF LedgerInv
<1>1. f \in Findings
  BY DEF TypeOK
<1>2. [f EXCEPT !.status = r] \in Findings
  BY <1>1 DEF Findings
<1>3. findings' \subseteq Findings
  BY <1>2 DEF resolveQaFinding, TypeOK
<1>4. TypeOK'
  BY <1>3 DEF resolveQaFinding, TypeOK, invalidateDownstreamReview
<1> RowsKept
  BY DEF RowsKept, resolveQaFinding
<1>5. RowsOK'
  BY DEF resolveQaFinding, RowsOK, Existing
<1>6. LinkingOK'
  BY <1>4, LinkingKept DEF resolveQaFinding
<1>7. SupportRecalculated'
  BY <1>4, StatusesKept DEF resolveQaFinding, Current, Existing
<1>8. PassedReportHolds'
  BY Invalidated DEF resolveQaFinding
<1> QED BY <1>4, <1>5, <1>6, <1>7, <1>8

-----------------------------------------------------------------------------
(* The theorems.                                                           *)

\* An empty ledger holds the invariant.
LEMMA InitHolds == Init => LedgerInv
<1> SUFFICES ASSUME Init PROVE LedgerInv
  OBVIOUS
<1>1. TypeOK
  BY DEF Init, TypeOK, Gaps
<1>2. Existing(sources) = {} /\ Existing(evidence) = {} /\ Existing(claims) = {}
  BY DEF Init, Existing
<1>3. RowsOK
  BY <1>2 DEF Init, RowsOK
<1>4. LinkingOK
  BY DEF Init, LinkingOK
<1>5. SupportRecalculated
  BY <1>2 DEF SupportRecalculated, Current
<1>6. PassedReportHolds
  BY DEF Init, PassedReportHolds
<1> QED BY <1>1, <1>3, <1>4, <1>5, <1>6 DEF LedgerInv

\* Every operation keeps it.
LEMMA StepHolds == LedgerInv /\ [Next]_vars => LedgerInv'
<1> SUFFICES ASSUME LedgerInv, [Next]_vars PROVE LedgerInv'
  OBVIOUS
<1>1. CASE EditNext
  BY <1>1, AddSourceStep, AddEvidenceStep, AddClaimStep, UpdateClaimReviewStep,
     UpdateProjectScopeStep, UpdateQuestionStep, UpdateDeliverableStep DEF EditNext
<1>2. CASE LinkNext
  BY <1>2, LinkReadStep, LinkCommitStep, LinkRolledBackStep DEF LinkNext
<1>3. CASE StageNext
  BY <1>3, CommitEvidenceStep, CommitClaimsStep, CommitGapsStep, CommitSuggestionsStep
     DEF StageNext
<1>4. CASE QaNext
  BY <1>4, RunQaStep, ResolveFindingStep DEF QaNext
<1>5. CASE UNCHANGED vars
  <2> USE <1>5 DEF vars, LedgerInv
  <2>1. TypeOK'
    BY DEF TypeOK
  <2> RowsKept
    BY DEF RowsKept
  <2>2. RowsOK'
    BY DEF RowsOK, Existing
  <2>3. LinkingOK'
    BY <2>1, LinkingKept
  <2>4. SupportRecalculated'
    BY <2>1, StatusesKept DEF Current, Existing
  <2>5. PassedReportHolds'
    BY <2>1, PassedKept
  <2> QED BY <2>1, <2>2, <2>3, <2>4, <2>5
<1> QED BY <1>1, <1>2, <1>3, <1>4, <1>5 DEF Next

\* The inductive invariant: types, foreign keys, what the requests under way have
\* computed, and the two promises.
THEOREM LedgerInvariant == Spec => []LedgerInv
<1> QED BY InitHolds, StepHolds, PTL DEF Spec

\* The status stored with a claim is the one its current evidence gives it, but for
\* the claims in loose.
THEOREM SupportRecalculatedHolds == Spec => []SupportRecalculated
<1>1. LedgerInv => SupportRecalculated
  BY DEF LedgerInv
<1> QED BY <1>1, LedgerInvariant, PTL

\* While qa_passed_at stands, and no stage has committed since, the ledger bears the
\* report out.
THEOREM PassedReportHoldsAlways == Spec => []PassedReportHolds
<1>1. LedgerInv => PassedReportHolds
  BY DEF LedgerInv
<1> QED BY <1>1, LedgerInvariant, PTL
=============================================================================
