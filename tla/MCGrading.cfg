\* Two submissions of one repository, one worker, two graders: the life of the runs.
SPECIFICATION Spec
CONSTANTS
    r1 = r1
    r2 = r2
    e1 = e1
    w1 = w1
    w2 = w2
    v1 = v1
    v2 = v2
    None = None
    Repo = {r1}
    EnrollmentOf <- OneEnrollment
    Sub = {1, 2}
    RepoOf <- OneRepo
    Revision = {v1, v2}
    Worker = {w1}
    Outcome = {"completed", "timed_out"}
    MaxRuns = 3
    MaxLeases = 2
    MaxAttempts = 2
    MaxPublic = 1
    MaxPosts = 1
SYMMETRY Symmetry
INVARIANTS
    TypeOK
    PrivateIsPinned
    FinalIsGraded
