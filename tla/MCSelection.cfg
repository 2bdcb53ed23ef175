\* A superseded submission is selected after closure.
SPECIFICATION Spec
CONSTANTS
    r1 = r1
    r2 = r2
    e1 = e1
    a = a
    b = b
    None = None
    Repo = {r1}
    Sha = {a, b}
    EnrollmentOf <- MCEnrollmentOf
    MaxTime = 3
    Opens = 1
    Deadline <- DueAt2
    MaxEvents = 2
    MaxInFlight = 1
    MaxExtending = 0
    MaxFetching = 0
    MaxActive = 1
SYMMETRY Symmetry
INVARIANTS
    SelectedWillBeCaptured
