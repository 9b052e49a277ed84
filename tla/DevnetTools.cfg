CONSTANTS
    Mints = {"EQ-A", "EQ-B"}
    Underlying = "DEMO"
    InputMint = "FIXTURE"
    None = None
    Multipliers = {4, 5, 6, 7, 8}
    Timestamps <- MCTimestamps
    MinI64 <- MCMinI64
    MaxI64 = 100
    Tools = {t1, t2}
    Preferred = "EQ-A"
    Alternative = "EQ-B"
    OutputsRaw <- MCOutputsRaw
    DemoPolicy <- MCDemoPolicy
    ReroutePolicyMax = 25
    AcceptedMax = 20
    TransitionLead = 2
    Target <- MCTarget
    InitialMultiplier = 4
    MultiplierScale = 4
    ScenarioWindow <- MCScenarioWindow
    ScenarioLead = 6
    LandingMargin = 2
    ScenarioRequests <- MCScenarioRequests
    Scheduled <- MCScheduled
    MaxClock = 9
SPECIFICATION Spec
INVARIANTS
    PendingProbesAreRefused
    RunDeliversOnce
    TransitionStepsMatch
SYMMETRY Symmetry
CHECK_DEADLOCK FALSE
