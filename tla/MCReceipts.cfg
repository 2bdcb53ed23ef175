\* Receipts of one repository in any order, closure and an extension; no fetches.
SPECIFICATION Spec
CONSTANTS
    r1 = r1
    r2 = r2
    e1 = e1
    a = a
    b = b
    None = None
    Repo = {r1}
    Sha = {a, b}
    EnrollmentOf <- MCEnrollmentOf
    MaxTime = 4
    Opens = 1
    Deadline <- DueAt2
    MaxEvents = 3
    MaxInFlight = 2
    MaxExtending = 1
    MaxFetching = 0
    MaxActive = 1
SYMMETRY Symmetry
INVARIANTS
    FinalIsNewest
    
    InOrderFreezesLastReceipt
PROPERTIES
    WebhookNeverSilent
