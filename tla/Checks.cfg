CONSTANTS
    Multipliers = {m1, m2}
    Timestamps <- MCTimestamps
    MinI64 = 0
    MaxI64 = 3
    Txs = {t1}
    Windows <- MCWindows
    None = None
    Ata <- MCAta
    Equity = "EQ"
    Decode <- MCDecode
    Transfers <- MCTransfers
    Befores <- MCBefores
    Builds <- MCBuilds
    Taker = "wallet"
    Payers = {"wallet", "payer"}
    ComputeUnitLimit = 7
    LookedUp = "venue"
    TableAnswers = {"venue", "venue2"}
    EditAddresses = {"other EQ"}
    EditData <- MCEditData
    EditPrograms = {"Wrapper", "Token-2022"}
    ExtraInstructions <- MCExtraInstructions
    MaxEdits = 2
    Mints = {"EQ-A", "EQ-B"}
    Underlying = "EQ"
    InputMint = "USDC"
    Evidence <- MCEvidence
    Offers <- MCOffers
    Preferred = "EQ-A"
    Alternative = "EQ-B"
    Inputs = {1, 2}
    PolicyMax = 1667
    AcceptedMaxes = {0, 1667}
    ValidForSlots = 1
    MaxSlot = 2
SPECIFICATION ChecksSpec
INVARIANTS
    TypeOK
    ExecutesAtAuthorizedMultiplier
    ExecutesOutsideTransition
    RejectionsAreJustified
    AcceptedIsCommitted
    AcceptedIsOneOwnTrade
    BuiltIsAccepted
    ClientMirrorsProgram
    EligibilityIsExact
    EvidenceBearsExecution
    DisclosedCostIsExact
CHECK_DEADLOCK FALSE
