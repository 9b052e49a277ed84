CONSTANTS
    Multipliers = {"m1", "m2"}
    Timestamps <- ThreeTimes
    MinI64 = 0
    MaxI64 = 3
    Mints = {"EQ", "NEW", "SPL"}
    USDC = "USDC"
    KnownAssets = {"EQ"}
    MintAccounts <- MCMintAccounts
    Requests <- MCRequests
    Builds <- MCBuilds
    Windows <- PointWindows
    Clusters = {"devnet", "mainnet-beta"}
    Reviewed = "reviewed"
    Other = "other"
    ProgramStates <- UpgradablePrograms
    None = None
SPECIFICATION Spec
INVARIANTS
    SettlesAtQuotedMultiplier
    UnprotectedOnlyWhenOrdinary
    RejectionsFollowChanges
    ImmutableMeansReviewed
CHECK_DEADLOCK FALSE
