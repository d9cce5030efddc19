SPECIFICATION MCSpec
CONSTANTS
    Parts = {"log", "service"}
    Threads = {t1, t2}
    Records = {1, 2, 3, 4, 5}
    MaxLines = 2
    Tears = {"torn"}
    Rotations = {}
    ClockMonotonic = TRUE
    MaxTime = 1
    MaxIds = 2
    NoThread = NoThread
    NoRecord = 0
    Requests = {r1, r2}
    AuthModes = {TRUE, FALSE}
    AuditModes = {"sync", "async", "none"}
    AuthSlots = 1
    WorkSlots = 1
    MaxBatch = 2
    MaxReloads = 1
    Policies = {p1, p2}
    Schema = schema
    Contents = {c1}
    MaxFiles = 1
    MaxSighups = 1
    MaxEdits = 2
    MaxReadErrors = 1
    Absent = Absent
    Bad = Bad
CHECK_DEADLOCK FALSE
SYMMETRY Symmetry
INVARIANTS
    HandleExtendsDisk
    AckedPersisted
    ReopensOwnLog
    PermitsConserved
    AnswersAudited
    OneGeneration
    BatchComplete
    DecisionsCounted
PROPERTY ImplementsTrail
