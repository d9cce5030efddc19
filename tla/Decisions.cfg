SPECIFICATION MCSpec
CONSTANTS
    Parts = {"cache", "grants", "revocation"}
    Threads = {t1, t2}
    r1 = r1
    e1 = e1
    Questions <- MCQuestions
    Cedar <- MCCedar
    Settings <- MCSettings
    DefaultCapacity = 1
    DefaultAllowTtl = 1
    DefaultDenyTtl = 1
    MaxTtl = 8
    MaxReloads = 1
    MaxUpkeep = 1
    MaxTime = 1
    MaxCalls = 3
    Unset = Unset
    Bad = Bad
    NoQuestion = NoQuestion
    p1 = p1
    p2 = p2
    s1 = s1
    s2 = s2
    view = view
    edit = edit
    Processes = {p1, p2}
    Signers = {s1, s2}
    Kid <- MCKid
    Specs <- MCSpecs
    Actions = {view, edit}
    Resources <- MCResources
    Facts <- MCFacts
    Literals <- MCLiterals
    Match <- GlobMatch
    Holds <- Satisfied
    MaxTokens = 2
    MaxStoreCalls = 3
    MaxWall = 4
    Timeout = 6
    DefaultSkew = 1
    MaxSkew = 1
    NoConstraints = NoConstraints
    NoSigner = NoSigner
CHECK_DEADLOCK FALSE
SYMMETRY Symmetry
INVARIANTS
    HitsPostdateInvalidation
    HitsWithinTtl
    CacheBounded
    Attenuation
    MatchingSound
PROPERTIES
    ImplementsEvaluation
    RevokedStaysRevoked
