------------------------------ MODULE MCGrading ------------------------------
(* Small instances of Grading for TLC.                                      *)
EXTENDS Grading, TLC

CONSTANTS r1, r2,  \* repositories
          e1,      \* the enrollment of both
          w1, w2,  \* grading workers
          v1, v2   \* grading revisions

OneEnrollment == [r \in Repo |-> e1]
OwnEnrollment == [r \in Repo |-> r]
OneRepo == [s \in Sub |-> r1]
TwoRepos == [s \in Sub |-> IF s = 2 THEN r2 ELSE r1]
Symmetry == Permutations(Worker) \cup Permutations(Revision)
=============================================================================
