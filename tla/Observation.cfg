CONSTANTS
    Multipliers = {"m1", "m2"}
    Timestamps <- MCTimestamps
    MinI64 = 0
    MaxI64 = 1000
    Mints <- MCMints
    Null = Null
    Tracked = "KOx"
    MintOrder <- MCOrder
    FirstMint <- MCFirst
    MintStates <- MCStates
    FirstApi <- MCFirstApi
    ApiStates <- MCApiStates
    ErrorCodes = {"AccountNotFound", "InvalidMintData"}
    Spans <- MCSpans
    Tools = {"t1", "t2"}
    Budgets <- MCBudgets
SPECIFICATION CaptureSpec
INVARIANTS
    TimelineIsExact
    GoodEvidenceMissesNothing
    CorrelationIsTrue
    SealedCopiesAreExact
CHECK_DEADLOCK FALSE
