CONSTANTS
    Multipliers = {"m1", "m2"}
    Timestamps <- MCTimestamps
    MinI64 = 0
    MaxI64 = 100
    OldMultiplier = "m1"
    NewMultiplier = "m2"
    ActivationDelay = 1
    BlockhashLife = 2
    MaxClock = 4
    MaxBoots = 2
    MaxLegs = 3
    MaxMounts = 2
    MaxEvents = 4
    None = None
SPECIFICATION Spec
INVARIANTS
    MovesOnlyAsConfirmed
    AttestationsAreTrue
    ResultsAreReal
    FailureClaimsAreTrue
    EvidenceIsBacked
    NobodyHangs
CHECK_DEADLOCK FALSE
