---------------------------- MODULE MCStageCalls ----------------------------
(***************************************************************************)
(* StageCalls for TLC: the stage's first job and the job of a resume.      *)
(***************************************************************************)
EXTENDS StageCalls, TLC

CONSTANTS j1, j2, r1, r2

CallSymmetry == Permutations({j1, j2}) \cup Permutations({r1, r2})

\* Bound: two faults while the stage has one job, one once it has been resumed.
FewFaults == faults <= 1 \/ Cardinality({j \in JobIds : jobs[j].status # "NONE"}) <= 1
=============================================================================
