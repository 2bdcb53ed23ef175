\* An extension commits while a close is under way.
SPECIFICATION Spec
CONSTANTS
    r1 = r1
    r2 = r2
    e1 = e1
    a = a
    b = b
    None = None
    Repo = {r1}
    Sha = {a}
    EnrollmentOf <- MCEnrollmentOf
    MaxTime = 3
    Opens = 1
    Deadline <- DueAt1
    MaxEvents = 0
    MaxInFlight = 0
    MaxExtending = 1
    MaxFetching = 0
    MaxActive = 1
SYMMETRY Symmetry
INVARIANTS
    ClosedAfterDeadline
