---------------------------- MODULE MCDocuments ----------------------------
(***************************************************************************)
(* Instances of Documents for TLC.                                         *)
(***************************************************************************)
EXTENDS Documents, TLC

MCAfterScan == "scan" :> "autoExtract"
UploadSymmetry == Permutations(Uploads)

\* The attempt is over: every fenced call it may still make is refused, and
\* until it reaches the object store its remaining steps change nothing.
Spent(j, a) ==
  /\ ~Fenced(j, a)
  /\ Pc(j, a) \in {"state", "begin", "commit", "after", "enqueue", "recordFailure"} \cup Outcomes
  /\ j # CleanupJob \/ Pc(j, a) \in Outcomes

\* An upload that has ended, or that would find its document and its scan job.
UploadOver(u) ==
  \/ upload[u] \in {"done", "refused"}
  \/ /\ upload[u] \in {"start", "scan"} /\ doc.status # "NONE"
     /\ jobs[InitialScan].status # "NONE" \/ doc.file # BytesOf[u]

\* The history matters while the object is, or can still be, catalogued.
UnlinkedView == {o \in unlinked : rows[o].retention = "ACTIVE" \/ doc.status # "DELETED"}

DocumentView ==
  <<doc, versions, rows, blobs, UnlinkedView, jobs, faults,
    [u \in Uploads |-> IF UploadOver(u) THEN <<>> ELSE <<upload[u], BytesOf[u]>>],
    [j \in JobIds |-> [a \in AttemptNumbers |-> IF Spent(j, a) THEN Ended ELSE handler[j][a]]]>>

\* Bound: while an upload is under way no extraction is recorded, and the
\* handlers of one job at most are running.
UploadsEarly ==
  (\E u \in Uploads : upload[u] \notin UploadsAtRest /\ ~UploadOver(u)) =>
    /\ Recorded = {}
    /\ \A j, k \in JobIds : \A a, b \in AttemptNumbers :
         Pc(j, a) \in {"none", "done"} \/ Pc(k, b) \in {"none", "done"} \/ j = k

\* Bound: two faults only while a rescan and an extraction are not both asked for.
FewFaults ==
  faults >= 2 => jobs["rescan"].status = "NONE" \/ jobs["extract"].status = "NONE"
=============================================================================
