------------------------------- MODULE DevnetTools ------------------------------
(***************************************************************************)
(* The operator's devnet tools, which share one wallet and two test mints:    *)
(* the demo (runDevnetDemo in scripts/demo/devnet-execution.ts) and the admin *)
(* commands (scripts/devnet/cli.ts, scenarios.ts).  Several may run at once:  *)
(* each resets or schedules multipliers under the feet of the others.         *)
(*                                                                            *)
(* A tool reads the chain, signs a transaction made from what it read and     *)
(* waits for it.  The reads between a decision and the signature (balances,   *)
(* blockhash, genesis hash) change nothing a transaction contains, and it may *)
(* land arbitrarily late, so a read and the send that follows are one step.   *)
(* Multipliers are integers: the multiple of 1 / MultiplierScale.             *)
(***************************************************************************)
EXTENDS Adapters, GuardCheck, Sequences

CONSTANTS
    Tools,              \* processes an operator may start
    OutputsRaw,         \* the quote fixture: what each asset delivers
    DemoPolicy,         \* DEVNET_DEMO_POLICY
    ReroutePolicyMax,   \* DEVNET_DEMO_REROUTE_POLICY.maxAdditionalCostBps
    AcceptedMax,        \* DEVNET_DEMO_CONSENT.maxAdditionalCostBps
    TransitionLead,     \* PREFERRED_TRANSITION_LEAD_SECS
    Target,             \* DEVNET_DEMO_TARGET
    InitialMultiplier,  \* create-mints
    MultiplierScale,    \* the unit multipliers are counted in
    ScenarioWindow,     \* protection window of the scenarios
    ScenarioLead,       \* --lead-seconds of the transition scenario
    LandingMargin,      \* LANDING_MARGIN_SECS
    ScenarioRequests,   \* scenarios that may be asked for: name, label
    Scheduled,          \* what schedule may be asked for: label, multiplier, inSeconds
    MaxClock            \* bound: chain time

\* How far ahead of the chain time a change is dated.
Leads == {0, TransitionLead, ScenarioLead} \cup {s.inSeconds : s \in Scheduled}

\* The chain times and the timestamps made from them are i64, those of the
\* scenario's window too.
ASSUME ToolConstants ==
    /\ Multipliers \subseteq Nat \ {0}
    /\ {Target.effective, Target.scheduled, Target.alternative, InitialMultiplier}
         \subseteq Multipliers
    /\ {TransitionLead, ScenarioLead, LandingMargin, MaxClock} \subseteq Nat
    /\ ScenarioLead > ScenarioWindow.beforeSecs + 2 * LandingMargin
    /\ ScenarioWindow \in ProtectionWindow
    /\ {DemoPolicy.beforeSecs, DemoPolicy.afterSecs} \subseteq Nat
    /\ Preferred # Alternative
    /\ ScenarioRequests \subseteq [name : {"safe", "stale", "transition"},
                                   label : {Preferred, Alternative}]
    /\ Scheduled \subseteq [label : {Preferred, Alternative}, multiplier : Multipliers,
                            inSeconds : Nat]
    /\ \A lead \in Leads : 0 .. MaxClock + lead \subseteq Timestamps
    /\ MinI64 <= 0
    /\ MaxClock + ScenarioLead + ScenarioWindow.afterSecs <= MaxI64
    /\ None \notin Int \cup {"Ok"} \cup ProtectedState \cup AssertSafeExecution

VARIABLES
    clock,  \* Clock::unix_timestamp
    mint,   \* the protected state of each test mint
    tool    \* what each process holds

vars == <<clock, mint, tool>>

Idle == [pc |-> "idle", kind |-> None, asset |-> None, now |-> None, T |-> None,
         seen |-> None, request |-> None, expected |-> None, plan |-> None, tx |-> None,
         checkedAt |-> None, got |-> <<>>, reported |-> FALSE]

Init ==
    /\ clock = 0
    /\ mint = [m \in {Preferred, Alternative} |->
                 [multiplier |-> InitialMultiplier, newMultiplier |-> InitialMultiplier,
                  effectiveTimestamp |-> 0]]
    /\ tool = [t \in Tools |-> Idle]

ClockAdvances ==
    /\ clock < MaxClock
    /\ clock' = clock + 1
    /\ UNCHANGED <<mint, tool>>

Becomes(t, new) == tool' = [tool EXCEPT ![t] = new] /\ UNCHANGED <<clock, mint>>

\* A tool has thrown or returned: nothing more happens in it.  What a demo run
\* delivered, and the plan it had, are history.
Ended(t) ==
    IF tool[t].got = <<>> THEN [Idle EXCEPT !.pc = "ended"]
    ELSE [Idle EXCEPT !.pc = "ended", !.kind = tool[t].kind, !.plan = tool[t].plan,
                      !.got = tool[t].got]
-------------------------------------------------------------------------------
\* Transactions

\* getScheduleMultiplierInstruction; the token program applies a timestamp that
\* has passed at once.
ScheduleMultiplier(state, update) ==
    [multiplier |-> IF update.at <= clock THEN update.multiplier ELSE state.multiplier,
     newMultiplier |-> update.multiplier, effectiveTimestamp |-> update.at]

\* The instructions of a transaction run in order; none has more than two updates.
ApplyUpdates(state, updates) ==
    IF updates = <<>> THEN state
    ELSE LET first == ScheduleMultiplier(state, updates[1])
         IN  IF Len(updates) = 1 THEN first ELSE ScheduleMultiplier(first, updates[2])

UpdateTx(m, updates) ==
    [mint |-> m, updates |-> updates, request |-> None, outcome |-> None,
     landedAt |-> None, landedOn |-> None]

\* guardedDeliveryInstructions, buildGuardedTransferChecked: [create ATA, guard,
\* TransferChecked], to a recipient no other transaction of this mint has.
GuardedTx(m, request) ==
    [mint |-> m, updates |-> <<>>, request |-> request, outcome |-> None,
     landedAt |-> None, landedOn |-> None]

\* sendInstructions: the signed transaction is with the network.
Sends(t, pc, tx) == [tool[t] EXCEPT !.pc = pc, !.tx = tx]

Awaits == {"reset preferred", "reset alternative", "probing", "executing", "scheduled",
           "updated", "scheduling", "transferring"}

\* The transaction is included: its updates apply in order, or the guard decides
\* the delivery.
Land(t) ==
    LET tx == tool[t].tx
        m  == tx.mint
        verdict == Check(tx.request, mint[m], clock)
        landed  == IF tx.request = None THEN [tx EXCEPT !.outcome = "Ok"]
                   ELSE [tx EXCEPT !.outcome = verdict, !.landedAt = clock, !.landedOn = mint[m]]
    IN  /\ tool[t].pc \in Awaits
        /\ tx.outcome = None
        /\ mint' = [mint EXCEPT ![m] = ApplyUpdates(@, tx.updates)]
        /\ tool' = [tool EXCEPT ![t].tx = landed,
                                ![t].got = IF tool[t].kind = "demo" /\ landed.landedOn # None
                                              /\ landed.outcome = "Ok"
                                           THEN Append(@, landed) ELSE @]
        /\ UNCHANGED clock

\* waitForConfirmation and fetchOutcome.
Confirmed(t, pc) == tool[t].pc = pc /\ tool[t].tx.outcome # None

\* TransactionTimeoutError: the blockhash ran out, or the landed transaction
\* cannot be read back.  It cannot land later.
TimedOut(t) == tool[t].pc \in Awaits /\ Becomes(t, Ended(t))

\* A read fails, the genesis hash is not devnet's, the plan is no longer fresh, or
\* the process dies: every call throws through to the command line.
Fails(t) == tool[t].pc \notin Awaits \cup {"idle", "ended"} /\ Becomes(t, Ended(t))
-------------------------------------------------------------------------------
\* The demo: runDevnetDemo

\* fetchChainObservation of a test mint, which decodes and is never paused.
Observation(m) ==
    [kind |-> "decoded", at |-> clock, paused |-> FALSE,
     scheduled |-> HasScheduledChange(mint[m]), activation |-> mint[m].effectiveTimestamp,
     econ |-> [mint |-> m, scale |-> MultiplierScale,
               effective |-> EffectiveMultiplier(mint[m], clock),
               stored |-> [state |-> mint[m], phase |-> PhaseAt(mint[m], clock)]]]

\* resolveDevnetAsset: chain evidence only.
ResolveDevnetAsset(m, observation) ==
    Resolved([representation |-> [underlying |-> Underlying, mint |-> m],
              chain |-> observation, policy |-> DemoPolicy],
             ClassifyChainEvidence(observation, DemoPolicy), "chain")

FixtureRoute(m, representation) ==
    RouteObservation([mint |-> m, outputRaw |-> OutputsRaw[m], context |-> 0], 1, representation)

\* planDevnetDemo: decide without consent, let the demo user accept that very
\* disclosure, decide again.  A consent that grantConsent refuses ends the run as
\* a decision that is not executable does.
PlanDevnetDemo(observedP, observedA) ==
    LET preferred   == ResolveDevnetAsset(Preferred, observedP)
        alternative == ResolveDevnetAsset(Alternative, observedA)
        routes      == [preferred |-> FixtureRoute(Preferred, preferred),
                        alternative |-> FixtureRoute(Alternative, alternative)]
        comparison  == FreshComparison(routes.preferred, routes.alternative)
        base == [preferred |-> preferred, alternative |-> alternative, inputRaw |-> 1,
                 comparison |-> comparison, routes |-> routes, consent |-> None,
                 maxAdditionalCostBps |-> ReroutePolicyMax, currentSlot |-> 0,
                 consentSpent |-> FALSE]
        consentOff == DecideExecution(base).stateDecision
        record  == ConsentRecord(1, consentOff, comparison, AcceptedMax, 0, 1)
        consent ==
          IF /\ consentOff.decision = "REQUIRES_CONSENT"
             /\ ConsentIssues(record, FALSE, consentOff, comparison, ReroutePolicyMax, 0) = {}
          THEN record ELSE None
    IN  [decision |-> DecideExecution([base EXCEPT !.consent = consent]),
         preferredState |-> preferred.state]

\* Faulty variant: the guard is given no protection window.
RequestWithoutWindow(econ) ==
    [expected |-> econ.stored.state, expectedPhase |-> econ.stored.phase,
     window |-> [beforeSecs |-> 0, afterSecs |-> 0]]

\* The expectation of a guarded delivery: the bound state under the demo's policy.
BoundRequest(econ) ==
    [expected |-> econ.stored.state, expectedPhase |-> econ.stored.phase,
     window |-> [beforeSecs |-> DemoPolicy.beforeSecs, afterSecs |-> DemoPolicy.afterSecs]]

\* runDevnetDemo starts on a recorded ABI v2 deployment of the pinned program.
StartDemo(t) ==
    /\ tool[t].pc = "idle"
    /\ Becomes(t, [tool[t] EXCEPT !.pc = "snapshot", !.kind = "demo"])

\* The preferred asset's change is a fixed lead ahead of the chain time read.
ScheduledTimestamp(now) == now + TransitionLead

\* planDemoSetup, its step for the preferred asset: one transaction, two updates.
PreferredUpdates(now) ==
    <<[multiplier |-> Target.effective, at |-> now],
      [multiplier |-> Target.scheduled, at |-> ScheduledTimestamp(now)]>>

\* resetDemoState: the alternative's snapshot dates both steps and decides
\* whether the second is needed; the first is sent.
ResetPreferred(t) ==
    /\ tool[t].pc = "snapshot"
    /\ Becomes(t, [Sends(t, "reset preferred", UpdateTx(Preferred, PreferredUpdates(clock)))
                     EXCEPT !.now = clock, !.seen = mint[Alternative]])

AlternativeAtTarget(state) ==
    state.multiplier = Target.alternative /\ state.newMultiplier = Target.alternative

ResetAlternative(t) ==
    /\ Confirmed(t, "reset preferred")
    /\ Becomes(t, IF AlternativeAtTarget(tool[t].seen)
                  THEN [tool[t] EXCEPT !.pc = "verify preferred", !.seen = None, !.tx = None]
                  ELSE [Sends(t, "reset alternative",
                              UpdateTx(Alternative, <<[multiplier |-> Target.alternative,
                                                       at |-> tool[t].now]>>))
                          EXCEPT !.seen = None])

ResetConfirmed(t) ==
    /\ Confirmed(t, "reset alternative")
    /\ Becomes(t, [tool[t] EXCEPT !.pc = "verify preferred", !.tx = None])

\* demoSetupMismatches, over two reads.
PreferredAtTarget(state, now) ==
    state = [multiplier |-> Target.effective, newMultiplier |-> Target.scheduled,
             effectiveTimestamp |-> ScheduledTimestamp(now)]

VerifyPreferred(t) ==
    /\ tool[t].pc = "verify preferred"
    /\ Becomes(t, IF PreferredAtTarget(mint[Preferred], tool[t].now)
                  THEN [tool[t] EXCEPT !.pc = "verify alternative", !.now = None]
                  ELSE Ended(t))

VerifyAlternative(t) ==
    /\ tool[t].pc = "verify alternative"
    /\ Becomes(t, IF AlternativeAtTarget(mint[Alternative])
                  THEN [tool[t] EXCEPT !.pc = "observe preferred"]
                  ELSE Ended(t))

ObservePreferred(t) ==
    /\ tool[t].pc = "observe preferred"
    /\ Becomes(t, [tool[t] EXCEPT !.pc = "observe alternative", !.seen = Observation(Preferred)])

\* The second observation, the decision and the plan.  A preferred asset that is
\* not SAFE is probed first.
ObserveAndPlan(t) ==
    /\ tool[t].pc = "observe alternative"
    /\ LET planned == PlanDevnetDemo(tool[t].seen, Observation(Alternative))
       IN  Becomes(t,
             IF planned.decision.executionEligibility # "EXECUTABLE"
             THEN Ended(t)
             ELSE [tool[t] EXCEPT !.plan = planned.decision.executableQuote,
                                  !.pc = IF planned.preferredState = "SAFE"
                                         THEN "execute" ELSE "probe"])

\* submitRejectionProbe: the live state is read once more, and a SAFE one aborts.
SubmitRejectionProbe(t) ==
    /\ tool[t].pc = "probe"
    /\ Becomes(t, IF ClassifyChainEvidence(Observation(Preferred), DemoPolicy) = "SAFE"
                  THEN Ended(t)
                  ELSE Sends(t, "probing", GuardedTx(Preferred, BoundRequest(tool[t].seen.econ))))

\* Faulty variant: a probe that was delivered is reported and forgotten.
ProbeReturnedUnchecked(t) ==
    /\ Confirmed(t, "probing")
    /\ Becomes(t, [tool[t] EXCEPT !.pc = "execute", !.tx = None])

\* A probe that succeeded is a DevnetDemoAbortError.
ProbeReturned(t) ==
    /\ Confirmed(t, "probing")
    /\ Becomes(t, IF tool[t].tx.outcome = "Ok" THEN Ended(t)
                  ELSE [tool[t] EXCEPT !.pc = "execute", !.tx = None])

\* executeGuardedPlan on the plan this run has just made.
ExecutePlan(t) ==
    /\ tool[t].pc = "execute"
    /\ Becomes(t, Sends(t, "executing",
                        GuardedTx(tool[t].plan.mint, BoundRequest(tool[t].plan.state))))

\* devnetExecutionResult: a signature is reported for a delivery that succeeded.
Report(t) ==
    /\ Confirmed(t, "executing")
    /\ Becomes(t, [Ended(t) EXCEPT !.reported = tool[t].tx.outcome = "Ok"])
-------------------------------------------------------------------------------
\* The admin commands: cli.ts

\* schedule
ScheduleCommand(t) ==
    /\ tool[t].pc = "idle"
    /\ \E s \in Scheduled :
         Becomes(t, [Sends(t, "scheduled", UpdateTx(s.label, <<[multiplier |-> s.multiplier,
                                                               at |-> clock + s.inSeconds]>>))
                       EXCEPT !.kind = "schedule"])

ScheduleConfirmed(t) ==
    /\ Confirmed(t, "scheduled")
    /\ Becomes(t, Ended(t))

StartScenario(t) ==
    /\ tool[t].pc = "idle"
    /\ \E s \in ScenarioRequests :
         Becomes(t, [tool[t] EXCEPT !.pc = s.name, !.kind = s.name, !.asset = s.label])

\* expectationFromSnapshot of a fresh snapshot.
FreshRequest(m) == ExpectationFromSnapshot(mint[m], clock, ScenarioWindow)

\* guardedTransfer: send request and expect a result of it.
Transfers(t, request, expected, step) ==
    [Sends(t, "transferring", GuardedTx(tool[t].asset, request))
       EXCEPT !.expected = [step |-> step, result |-> expected]]

\* describeExpected and describeObserved agree; the recipient's balance moves
\* exactly when the transaction succeeds.
MatchedExpectation(expected, tx) == expected.result = tx.outcome

\* runSafe
RunSafe(t) ==
    /\ tool[t].pc = "safe"
    /\ Becomes(t, Transfers(t, FreshRequest(tool[t].asset), "Ok", "safe"))

\* The scenarios move the multiplier in force up by a quarter.  Multipliers bounds
\* how often.
NextMultiplier(m) == EffectiveMultiplier(mint[m], clock) + 1

\* runStale: a request is built, then the multiplier is changed at once.
StaleUpdate(t) ==
    LET m == tool[t].asset
    IN  /\ tool[t].pc = "stale"
        /\ NextMultiplier(m) \in Multipliers
        /\ Becomes(t, [Sends(t, "updated",
                             UpdateTx(m, <<[multiplier |-> NextMultiplier(m), at |-> 0]>>))
                         EXCEPT !.request = FreshRequest(m)])

\* storedStateError: the first field that differs.
StoredStateError(expected, actual) ==
    CASE expected.multiplier # actual.multiplier -> "MultiplierChanged"
      [] expected.multiplier = actual.multiplier
           /\ expected.newMultiplier # actual.newMultiplier -> "NewMultiplierChanged"
      [] [expected EXCEPT !.effectiveTimestamp = 0] = [actual EXCEPT !.effectiveTimestamp = 0]
           /\ expected # actual -> "EffectiveTimestampChanged"
      [] OTHER -> None

\* The stale request is sent and must fail with the field that changed.
StaleTransfer(t) ==
    /\ Confirmed(t, "updated")
    /\ LET changed == mint[tool[t].asset]
           error   == StoredStateError(tool[t].request.expected, changed)
       IN  Becomes(t, IF error = None THEN Ended(t)
                      ELSE [Transfers(t, tool[t].request, error, "stale")
                              EXCEPT !.request = FreshRequest(tool[t].asset)])

\* runTransition: a change is scheduled at T.
ScheduleTransition(t) ==
    LET m == tool[t].asset
        T == clock + ScenarioLead
    IN  /\ tool[t].pc = "transition"
        /\ NextMultiplier(m) \in Multipliers
        /\ Becomes(t, [Sends(t, "scheduling",
                             UpdateTx(m, <<[multiplier |-> NextMultiplier(m), at |-> T]>>))
                         EXCEPT !.T = T])

\* The request that every pending step replays.
ReadPending(t) ==
    /\ Confirmed(t, "scheduling")
    /\ LET m == tool[t].asset
       IN  Becomes(t, IF PhaseAt(mint[m], clock) = "Pending" /\ HasScheduledChange(mint[m])
                      THEN [tool[t] EXCEPT !.pc = "before window", !.tx = None,
                                           !.request = FreshRequest(m)]
                      ELSE Ended(t))

\* Faulty variant: the gap between reading the Clock and landing is ignored.
DeadlineAtTheWindow(T) == T - ScenarioWindow.beforeSecs

BeforeWindowDeadline(T) == T - ScenarioWindow.beforeSecs - LandingMargin

BeforeWindow(t) ==
    /\ tool[t].pc = "before window"
    /\ Becomes(t, IF clock > BeforeWindowDeadline(tool[t].T) THEN Ended(t)
                  ELSE [Transfers(t, tool[t].request, "Ok", "before")
                          EXCEPT !.checkedAt = clock])

\* waitForChainTime, then assertBytesUnchanged, then the pending request again.
ReplayAfter(t, pc, target, result, step) ==
    /\ tool[t].pc = pc
    /\ clock >= target
    /\ Becomes(t, IF mint[tool[t].asset] # tool[t].request.expected THEN Ended(t)
                  ELSE [Transfers(t, tool[t].request, result, step) EXCEPT !.checkedAt = clock])

InsideWindow(t) ==
    ReplayAfter(t, "inside window", tool[t].T - ScenarioWindow.beforeSecs + 1,
                "InsideTransitionWindow", "inside")

AfterWindow(t) ==
    ReplayAfter(t, "after window", tool[t].T + ScenarioWindow.afterSecs + LandingMargin,
                "ActivationPhaseChanged", "after")

FreshActivated(t) ==
    /\ tool[t].pc = "activated"
    /\ LET m == tool[t].asset
       IN  Becomes(t, IF PhaseAt(mint[m], clock) = "Activated"
                      THEN [Transfers(t, FreshRequest(m), "Ok", "fresh")
                              EXCEPT !.checkedAt = clock]
                      ELSE Ended(t))

\* The step that follows a record.
NextStep ==
    [safe |-> "ended", stale |-> "stale retry", retry |-> "ended", before |-> "inside window",
     inside |-> "after window", after |-> "activated", fresh |-> "ended"]

\* guardedTransfer returns its record.  A mismatch makes the command fail, after
\* its last step.
TransferRecorded(t) ==
    /\ Confirmed(t, "transferring")
    /\ LET next == NextStep[tool[t].expected.step]
       IN  Becomes(t, IF next = "ended" THEN Ended(t)
                      ELSE [tool[t] EXCEPT !.pc = next, !.tx = None, !.expected = None,
                                           !.checkedAt = None])

StaleRetry(t) ==
    /\ tool[t].pc = "stale retry"
    /\ Becomes(t, Transfers(t, tool[t].request, "Ok", "retry"))

Next ==
    \/ ClockAdvances
    \/ \E t \in Tools :
         \/ Land(t) \/ TimedOut(t) \/ Fails(t)
         \/ StartDemo(t) \/ ResetPreferred(t) \/ ResetAlternative(t) \/ ResetConfirmed(t)
         \/ VerifyPreferred(t) \/ VerifyAlternative(t) \/ ObservePreferred(t)
         \/ ObserveAndPlan(t) \/ SubmitRejectionProbe(t) \/ ProbeReturned(t)
         \/ ExecutePlan(t) \/ Report(t)
         \/ ScheduleCommand(t) \/ ScheduleConfirmed(t) \/ StartScenario(t)
         \/ RunSafe(t) \/ StaleUpdate(t) \/ StaleTransfer(t) \/ StaleRetry(t)
         \/ ScheduleTransition(t) \/ ReadPending(t) \/ BeforeWindow(t)
         \/ InsideWindow(t) \/ AfterWindow(t) \/ FreshActivated(t) \/ TransferRecorded(t)

Spec == Init /\ [][Next]_vars
-------------------------------------------------------------------------------
\* submitRejectionProbe: whatever other tools do to the mint and however late the
\* probe lands, a probe bound to a change that is still pending delivers nothing.
PendingProbesAreRefused ==
    \A t \in Tools : \A i \in DOMAIN tool[t].got :
        LET tx == tool[t].got[i]
        IN  tx.mint # tool[t].plan.mint => tx.request.expectedPhase = "Activated"

\* DevnetDemoAbortError: a run never delivers twice, and a run that reports a
\* signature delivered the planned quote, at the multiplier it was compared at.
RunDeliversOnce ==
    \A t \in Tools : tool[t].kind = "demo" =>
        /\ Len(tool[t].got) <= 1
        /\ tool[t].reported =>
             LET tx == tool[t].got[1]
             IN  /\ tx.mint = tool[t].plan.mint
                 /\ EffectiveMultiplier(tx.landedOn, tx.landedAt)
                      = tool[t].plan.state.effective

\* LANDING_MARGIN_SECS: as long as the mint keeps the change this scenario has
\* scheduled and the transaction lands less than the margin after the Clock was
\* read, every step of the transition scenario gets the answer it is there to
\* show.  The step inside the window has to land before its end.
TransitionStepsMatch ==
    \A t \in Tools :
        /\ tool[t].kind = "transition"
        /\ Confirmed(t, "transferring")
        /\ tool[t].tx.landedOn = tool[t].request.expected
        /\ tool[t].request.expected.effectiveTimestamp = tool[t].T
        /\ tool[t].tx.landedAt - tool[t].checkedAt < LandingMargin
        /\ tool[t].expected.step = "inside" =>
             tool[t].tx.landedAt <= tool[t].T + ScenarioWindow.afterSecs
        => MatchedExpectation(tool[t].expected, tool[t].tx)
===============================================================================
