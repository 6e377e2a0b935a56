------------------------------ MODULE MCLedger ------------------------------
(* A source that ages; two pieces of evidence on it, one with the claim's     *)
(* number and one with another, and one of a research run; a key claim of an  *)
(* operator and one of a research run.                                        *)
EXTENDS Ledger, TLC

CONSTANTS s1, s2, e1, e2, g1, c1, a1, unknown

MCSourceOf ==
  s1 :> [published |-> 1, words |-> {}, content |-> "same", publisher |-> "press"] @@
  s2 :> [published |-> None, words |-> {}, content |-> "same", publisher |-> "press"]
MCEvidenceOf ==
  e1 :> [source |-> s1, words |-> {"18"}] @@
  e2 :> [source |-> s1, words |-> {"7", "percent"}] @@
  g1 :> [source |-> s1, words |-> {"18"}]
MCClaimOf ==
  c1 :> [key |-> TRUE, possible |-> TRUE, mixed |-> FALSE, words |-> {"18", "percent"}] @@
  a1 :> [key |-> TRUE, possible |-> TRUE, mixed |-> FALSE, words |-> {}]

\* Ten days after s1 was published it is AGING with a limit of 12 and OUTDATED
\* with one of 9.
MCScopes == {[day |-> 11, maxAge |-> 12], [day |-> 11, maxAge |-> 9]}

MCReports ==
  { [cites |-> {s1}, empty |-> FALSE, lines |-> {[words |-> {"18"}, cites |-> {s1}]}],
    [cites |-> {unknown}, empty |-> TRUE, lines |-> {}] }

MCEntries ==
  { [verification |-> "VERIFIED", extent |-> "FULL"],
    [verification |-> "VERIFIED", extent |-> "PARTIAL"] }
MCReviews ==
  { [include |-> TRUE, within |-> TRUE, notes |-> FALSE],
    [include |-> TRUE, within |-> FALSE, notes |-> TRUE] }
MCGapEdits == {[status |-> "OPEN", text |-> TRUE], [status |-> "RESOLVED", text |-> FALSE]}

ClientSymmetry == Permutations(Clients)

\* Bound: what the QA engine has left behind is kept apart from requests that
\* overlap and from the rows of research runs, and two links overlap under one
\* scope only, without the evidence of a run.
Quiet == /\ \A k \in Clients : linking[k] = None
         /\ loose = {} /\ g1 \notin Existing(evidence) /\ a1 \notin Existing(claims)
SmallLedger ==
  /\ Cardinality(Existing(evidence)) <= 2 /\ Cardinality(Existing(claims)) <= 1
  /\ findings # {} \/ gap.status # "NONE" \/ gap.text \/ report.empty => Quiet
  /\ e2 \in Existing(evidence) => e1 \in Existing(evidence)
  /\ findings # {} \/ gap.status # "NONE" \/ gap.text => Cardinality(Existing(evidence)) <= 1
  /\ (\E f \in findings : f.status # "OPEN") => ~report.empty
  /\ (\A k \in Clients : linking[k] # None) =>
       /\ g1 \notin Existing(evidence) /\ scope.maxAge = 12
       /\ \A c \in Existing(claims) : ~claims[c].notes
=============================================================================
