CONSTANTS
    Multipliers = {"m1", "m2", "m3"}
    Timestamps <- MCTimestamps
    MinI64 = 0
    MaxI64 = 100
    Wallets = {"W1", "W2"}
    InitialMultiplier = "m1"
    Scenarios = {"m2"}
    ActivationDelay = 2
    MaxSignLead = 1
    BlockhashLife = 2
    DemoMintAmount = 4
    MaxPrefix = 1
    MaxPolls = 2
    RewrittenStates <- MCRewrittenStates
    ClockSteps = {0, 1}
    MaxHeight = 6
    MaxAttempts = 1
    MaxSent = 3
    MaxRewrites = 1
    None = None
SPECIFICATION FairSpec
INVARIANTS
    StaleAuthorizationNeverExecutes
    ClaimsAreTrue
    ExecutesAsReviewed
PROPERTIES
    SignedFlowsEnd
CHECK_DEADLOCK FALSE
