SPECIFICATION Spec
CONSTANTS
    Threads = {t1}
    Records = {r1, r2}
    MaxLines = 2
    Tears = {"noeol"}
    Rotations = {}
    ClockMonotonic = TRUE
    MaxTime = 0
    MaxIds = 1
    NoThread = NoThread
    NoRecord = NoRecord
INVARIANT AckedPersisted
