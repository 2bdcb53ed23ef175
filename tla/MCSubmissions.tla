--------------------------- MODULE MCSubmissions ---------------------------
(* Small instances of Submissions for TLC.                                  *)
EXTENDS Submissions, TLC

CONSTANTS r1, r2,  \* repositories
          e1,      \* the enrollment of both
          a, b     \* commits

MCEnrollmentOf == [r \in Repo |-> e1]
DueAt1 == [r \in Repo |-> 1]
DueAt2 == [r \in Repo |-> 2]
DueAt3 == [r \in Repo |-> 3]
Symmetry == Permutations(Sha)
FullSymmetry == Permutations(Sha) \cup Permutations(Repo)
=============================================================================
