CONSTANTS
    Multipliers = {"m1", "m2"}
    Timestamps <- MCTimestamps
    MinI64 = 0
    MaxI64 = 100
    OldMultiplier = "m1"
    NewMultiplier = "m2"
    ActivationDelay = 1
    BlockhashLife = 2
    MaxClock = 4
    MaxBoots = 1
    MaxLegs = 1
    MaxMounts = 1
    MaxEvents = 1
    None = None
SPECIFICATION Spec
INVARIANT NothingSignedHeadline
CHECK_DEADLOCK FALSE
