SPECIFICATION KeyFileFairSpec
CONSTANTS
    KeyIds = {k1}
    Operators = {o1}
    MaxReplacements = 1
    MaxCommands = 1
    MaxReadErrors = 1
    NoFile = NoFile
    Bad = Bad
CHECK_DEADLOCK FALSE
PROPERTY FailuresLeaveKeys
