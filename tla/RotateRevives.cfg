SPECIFICATION MCSpec
CONSTANTS
    Parts = {"registry"}
    a = a
    b = b
    c = c
    i1 = i1
    i2 = i2
    i3 = i3
    KeyIds = {k1, k2}
    Operators = {o1, o2}
    MaxReplacements = 1
    MaxCommands = 2
    MaxReadErrors = 1
    NoFile = NoFile
    Bad = Bad
    NoKid = NoKid
    NoExp = NoExp
    Kids = {i1, i2, i3}
    Keys = {a, b, c}
    Algs = {"EdDSA", "RS256"}
    EdDSA = "EdDSA"
    Cap = 2
    Graces = {1}
    OwnKids = {i2}
    Documents <- MCDocuments
    Thumbprint <- MCThumbprint
    Tokens <- MCTokens
    Skew = 1
    IntMax = 7
    MaxAttempts = 3
    MaxOps = 3
    MaxTime = 2
    None = None
    Verifiers = {v1, v2}
    Jtis = {j1, j2}
    Defects = {"segments", "typ", "kty", "thumbprint", "signature", "htu", "no jti"}
    Ttl = 4
    SweepInterval = 1
    MaxEntries = 1
    MaxPause = 1
    MaxReplayTime = 8
CHECK_DEADLOCK FALSE
PROPERTY NoKeyRevived
