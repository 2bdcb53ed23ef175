\* Each service on its own: one operation of an administrator and two
\* dispatchers; two worker loops on one repository and on one grade; one grading
\* lease, public or private; two builders of one cache.
SPECIFICATION MCSpec
CONSTANTS
    a1 = a1
    a2 = a2
    s1 = s1
    s2 = s2
    w1 = w1
    w2 = w2
    l1 = l1
    l2 = l2
    None = None
    Op = {o1}
    Account = {a1, a2}
    Session = {s1}
    OwnerOf <- MCOwnerOf
    Dispatcher = {d1, d2}
    Offered = {"course", "exercises", "regrade", "admin_revoke", "private_grade"}
    Unfit <- MCUnfit
    MaxActive = 1
    SweepSteps = 2
    MaxElsewhere = 1
    MaxFaults = 1
    Worker = {w1, w2}
    Serves <- MCServes
    Nobody = Nobody
    MaxMishaps = 1
    Publisher = {w1, w2}
    NoPublisher = Nobody
    MaxHitches = 2
    Token = {l1, l2}
    Private = {l2}
    NoToken = None
    RequestId = {q1, q2}
    Body = {x, y}
    MaxLogEntries = 2
    MaxLogBytes = 2
    MaxFindings = 1
    MaxLeases = 1
    MaxTrouble = 2
    Builder = {b1, b2}
    NoBuilder = Nobody
    Build = {i1, i2}
    NoBuild = None
    MaxWrites = 2
    MaxDeaths = 1
INVARIANTS
    PortalTypeOK
    AppliedOnce
    StaleIsRefused
    OutcomeIsTrue
    NoWriteWhenLocked
    InvitedOnlySeeded
    OneCheckPerSender
    PostedIsAcceptable
    PodKeepsItsFiles
    NoJobOutlivesItsRun
    ReferredIsIntact
    OneJobPerKey
PROPERTIES
    AlwaysAnAdmin
    OperationsSettle
    ClosedBecomesReadOnly
    GradeGetsPublished
    AnsweredOnce
    StagingIsReclaimed
    KeyIsFreed
CHECK_DEADLOCK FALSE
