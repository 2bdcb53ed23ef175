\* Two worker processes that serve every kind race for two tasks.
SPECIFICATION Spec
CONSTANTS
    snap = snap
    prov = prov
    lock = lock
    w1 = w1
    w2 = w2
    None = None
    Task = {snap, prov}
    Worker = {w1, w2}
    Token = {1, 2, 3, 4}
    KindOf <- MCKindOf
    Serves <- AllKinds
    MaxAttempts = 2
    LeaseTerm = 1
    Backoff <- MCBackoff
    RetryAfter = 1
    PollDelay = 1
SYMMETRY Symmetry
INVARIANTS
    TypeOK
    PendingIsLeasable
    TokenNamesOwner
PROPERTIES
    StaleWorkerChangesNothing
    BoardSpec
