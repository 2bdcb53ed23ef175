\* The lock loop of gradingctl work beside a loop that serves every kind.
SPECIFICATION FairSpec
CONSTANTS
    snap = snap
    prov = prov
    lock = lock
    w1 = w1
    w2 = w2
    None = None
    Task = {lock, prov}
    Worker = {w1, w2}
    Token = {1, 2, 3, 4}
    KindOf <- MCKindOf
    Serves <- MixedKinds
    MaxAttempts = 2
    LeaseTerm = 1
    Backoff <- MCBackoff
    RetryAfter = 1
    PollDelay = 1
PROPERTIES
    EveryTaskSettles
