CONSTANTS
    Multipliers = {"m1", "m2"}
    Timestamps <- MCTimestamps
    MinI64 = 0
    MaxI64 = 3
    Mints = {"EQ"}
    USDC = "USDC"
    KnownAssets = {"EQ"}
    MintAccounts <- FixedMints
    Requests <- MCRequests
    Builds <- OneBuild
    Windows <- MCWindows
    Clusters = {"devnet", "mainnet-beta", "unknown"}
    Reviewed = "reviewed"
    Other = "other"
    ProgramStates <- MovingPrograms
    None = None
SPECIFICATION Spec
INVARIANT ReverifiedIsSameProgram
CHECK_DEADLOCK FALSE
