SPECIFICATION ServiceSpec
CONSTANTS
    Requests = {r1}
    AuthModes = {FALSE}
    AuditModes = {"sync"}
    AuthSlots = 1
    WorkSlots = 1
    MaxBatch = 2
    MaxReloads = 0
CHECK_DEADLOCK FALSE
INVARIANT EveryDecisionCounted
