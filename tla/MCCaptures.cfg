\* Two repositories of one enrollment that share one fetch place; two worker loops.
SPECIFICATION Spec
CONSTANTS
    r1 = r1
    r2 = r2
    e1 = e1
    a = a
    b = b
    None = None
    Repo = {r1, r2}
    Sha = {a}
    EnrollmentOf <- MCEnrollmentOf
    MaxTime = 2
    Opens = 1
    Deadline <- DueAt1
    MaxEvents = 2
    MaxInFlight = 1
    MaxExtending = 0
    MaxFetching = 2
    MaxActive = 1
SYMMETRY FullSymmetry
INVARIANTS
    TypeOK
    FinalWillBeCaptured
    DoneIsCaptured
PROPERTIES
    ScheduleRespectsCap
