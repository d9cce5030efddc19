SPECIFICATION MCSpec
CONSTANTS
    r1 = r1
    r2 = r2
    t1 = t1
    t2 = t2
    Nobody = Nobody
    Recorders = {r1, r2}
    Decisions <- MCDecisions
    Fallbacks <- MCFallbacks
    KeyOf <- LabelKey
    ShownAs <- Rendered
    Bounds = {1, 2}
    Times = {2}
    LabelCap = 2
    MaxDecisions = 4
    MaxEvents = 3
    MaxScrapes = 1
    Tasks = {t1, t2}
    BreakAfter = 5
    QueueCap = 2
    MaxEmits = 4
    MaxCrashes = 1
    q1 = q1
    q2 = q2
    Requests = {q1, q2}
    Launches <- MCLaunches
    MaxHups = 1
    MaxProbes = 2
    NoValue = NoValue
    Bodies <- MCBodies
    Callers <- MCCallers
    Subjects = {"alice", "bob"}
    MaxLines = 2
    MaxRotations = 2
    MaxBegun = 2
    Events <- MCEvents
    Errors <- MCErrors
    Debounce = 2
    PathCap = 2
    ErrorCap = 1
    ErrorLength = 1
    MaxSignals = 4
CHECK_DEADLOCK FALSE
INVARIANT ErrorsOnce
