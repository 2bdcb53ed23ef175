\* Two workers; two enrollments with a repository and a submission each.
SPECIFICATION Spec
CONSTANTS
    r1 = r1
    r2 = r2
    e1 = e1
    w1 = w1
    w2 = w2
    v1 = v1
    v2 = v2
    None = None
    Repo = {r1, r2}
    EnrollmentOf <- OwnEnrollment
    Sub = {1, 2}
    RepoOf <- TwoRepos
    Revision = {v1}
    Worker = {w1, w2}
    Outcome = {"completed", "timed_out"}
    MaxRuns = 2
    MaxLeases = 2
    MaxAttempts = 2
    MaxPublic = 2
    MaxPosts = 2
SYMMETRY Symmetry
INVARIANTS
    OneLiveLease
PROPERTIES
    ResultIsFinal
    ResultOfHolder
