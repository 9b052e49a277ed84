CONSTANTS
    Multipliers = {"m1", "m2"}
    Timestamps <- MCTimestamps
    MinI64 = 0
    MaxI64 = 100
    Wallets = {"W1"}
    InitialMultiplier = "m1"
    Scenarios = {"m2"}
    FirstScenario = "m2"
    ActivationDelay = 1
    MinRemaining = 0
    DemoWindow = 1
    BlockhashLife = 1
    DemoMintAmount = 4
    MaxPrefix = 0
    MaxPolls = 1
    MaxConnects = 3
    RewrittenStates = {}
    ClockSteps = {2}
    MaxHeight = 3
    MaxAttempts = 2
    MaxSent = 3
    MaxRewrites = 0
    None = None
SPECIFICATION Spec
INVARIANT ExpiredNeverLanded
CHECK_DEADLOCK FALSE
