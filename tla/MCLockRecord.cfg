\* Sync and a lock task on one repository, without any failure: the record of the
\* lock may be lost.
SPECIFICATION LockSpec
CONSTANTS
    a1 = a1
    a2 = a2
    s1 = s1
    s2 = s2
    w1 = w1
    w2 = w2
    l1 = l1
    l2 = l2
    None = None
    Op = {o1}
    Account = {a1, a2}
    Session = {s1}
    OwnerOf <- MCOwnerOf
    Dispatcher = {d1, d2}
    Offered = {"course", "exercises", "regrade", "admin_revoke", "private_grade"}
    Unfit <- MCUnfit
    MaxActive = 1
    SweepSteps = 2
    MaxElsewhere = 1
    MaxFaults = 1
    Worker = {w1, w2}
    Serves <- MCServes
    Nobody = Nobody
    MaxMishaps = 0
    Publisher = {w1, w2}
    NoPublisher = Nobody
    MaxHitches = 2
    Token = {l1, l2}
    Private = {l2}
    NoToken = None
    RequestId = {q1, q2}
    Body = {x, y}
    MaxLogEntries = 2
    MaxLogBytes = 2
    MaxFindings = 1
    MaxLeases = 1
    MaxTrouble = 2
    Builder = {b1, b2}
    NoBuilder = Nobody
    Build = {i1, i2}
    NoBuild = None
    MaxWrites = 2
    MaxDeaths = 1
PROPERTIES
    LockIsRecorded
CHECK_DEADLOCK FALSE
