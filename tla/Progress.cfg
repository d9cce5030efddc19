SPECIFICATION MCFairSpec
CONSTANTS
    Parts = {"log", "service", "reload"}
    Threads = {t1, t2}
    Records = {1, 2, 3}
    MaxLines = 2
    Tears = {"torn"}
    Rotations = {x1, x2}
    ClockMonotonic = TRUE
    MaxTime = 0
    MaxIds = 1
    NoThread = NoThread
    NoRecord = 0
    Requests = {r1, r2}
    AuthModes = {TRUE, FALSE}
    AuditModes = {"sync", "async", "none"}
    AuthSlots = 1
    WorkSlots = 1
    MaxBatch = 1
    MaxReloads = 0
    Policies = {p1, p2}
    Schema = schema
    Contents = {c1}
    MaxFiles = 1
    MaxSighups = 1
    MaxEdits = 2
    MaxReadErrors = 1
    Absent = Absent
    Bad = Bad
CHECK_DEADLOCK FALSE
INVARIANTS NoEditForgotten ServesOnlyValid
PROPERTIES
    CallsReturn
    RequestsEnd
    ServesStoreEventually
