CONSTANTS
    Mints = {"EQ-A", "EQ-B"}
    None = None
    Preferred = "EQ-A"
    Alternative = "EQ-B"
    Observations <- MCObservations
    Offers <- MCOffers
    RouteAnswers = {TRUE}
    Recompares = {TRUE}
    Underlying = "EQ"
    InputMint = "USDC"
    Inputs = {1}
    Recipients = {r1, r2}
    PolicyMax = 1667
    AcceptedMaxes = {0}
    ExecutorPolicy = 1
    ValidForSlots = 1
    MaxSlot = 2
    ConsentIds = {c1}
    PlanIds = {p1, p2}
    Executors = {e1, e2}
SPECIFICATION Spec
INVARIANTS
    OneConsentOnePlan
    NoSecondAttempt
    DeliveredAsConsented
PROPERTY PlansAreSingleUse
SYMMETRY Symmetry
CHECK_DEADLOCK FALSE
