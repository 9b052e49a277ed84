CONSTANTS
    Multipliers = {"m1", "m2", "m3"}
    Timestamps <- MCTimestamps
    MinI64 = 0
    MaxI64 = 100
    Wallets = {"W1"}
    InitialMultiplier = "m1"
    Scenarios = {"m2", "m3"}
    FirstScenario = "m2"
    ActivationDelay = 1
    MinRemaining = 0
    DemoWindow = 1
    BlockhashLife = 2
    DemoMintAmount = 4
    MaxPrefix = 1
    MaxPolls = 1
    MaxConnects = 2
    RewrittenStates <- MCRewrittenStates
    ClockSteps = {1}
    MaxHeight = 5
    MaxAttempts = 2
    MaxSent = 4
    MaxRewrites = 1
    None = None
SPECIFICATION FairSpec
INVARIANTS
    ExecutesAsReviewed
    HeldIsSubmittedOnce
    ClaimsAreTrue
PROPERTIES
    HeldIsResolved
CONSTRAINT Bounded
CHECK_DEADLOCK FALSE
