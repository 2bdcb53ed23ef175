\* Three receipts recorded out of order.
SPECIFICATION Spec
CONSTANTS
    r1 = r1
    r2 = r2
    e1 = e1
    a = a
    b = b
    None = None
    Repo = {r1}
    Sha = {a, b}
    EnrollmentOf <- MCEnrollmentOf
    MaxTime = 4
    Opens = 1
    Deadline <- DueAt3
    MaxEvents = 3
    MaxInFlight = 2
    MaxExtending = 0
    MaxFetching = 0
    MaxActive = 1
SYMMETRY Symmetry
INVARIANTS
    FreezesLastReceipt
