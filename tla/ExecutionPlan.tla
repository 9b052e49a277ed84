----------------------------- MODULE ExecutionPlan -----------------------------
(***************************************************************************)
(* From a decision to a submitted delivery: consents and execution plans as   *)
(* single-use capabilities (consent.ts, execution-plan.ts) and the devnet     *)
(* executor that spends them (scripts/demo/devnet-execution.ts, send.ts).     *)
(*                                                                            *)
(* The library's calls are synchronous, so each is one step.  The caller's    *)
(* reads and the executor's calls are asynchronous: the chain, the slot and   *)
(* other executors move at every await.  A call that throws without having    *)
(* changed anything is no step.                                               *)
(***************************************************************************)
EXTENDS RerouteDecision

CONSTANTS
    Observations,            \* the resolved states a representation may be in
    Offers,                  \* quotes on the market: mint, outputRaw, context
    RouteAnswers,            \* whether the preferred asset may have a route
    Recompares,              \* whether the caller compares anew or keeps a comparison
    Inputs,                  \* input amounts the caller may ask for
    Recipients,              \* delivery targets
    PolicyMax,               \* ReroutePolicy.maxAdditionalCostBps
    AcceptedMaxes,           \* the most a user may accept to pay, in bps
    ExecutorPolicy,          \* the transition policy the executor is configured for
    ValidForSlots,           \* lifetime of consents and plans
    MaxSlot,                 \* bound on the chain's slot
    ConsentIds, PlanIds,     \* identities of consent records and plans
    Executors                \* calls of executeGuardedPlan

ASSUME PlanConstants ==
    /\ PolicyMax \in Nat
    /\ AcceptedMaxes \subseteq Nat
    /\ Observations \subseteq ResolvedRepresentationState
    /\ Offers \subseteq MarketOffer
    /\ RouteAnswers \subseteq BOOLEAN /\ Recompares \subseteq BOOLEAN
    /\ ValidForSlots \in Nat \ {0}
    /\ None \notin ConsentIds \cup PlanIds
    /\ None \notin Nat
    /\ MaxSlot \in Nat

VARIABLES
    slot,      \* the chain's slot
    live,      \* what each representation resolves to at this moment
    view,      \* what the caller has read: the input of decideExecution
    decision,  \* the caller's last ExecutionDecision
    consents,  \* issued consent records
    spent,     \* consumed, as consent ids
    plans,     \* issuedPlans
    used,      \* consumedPlans
    exec       \* the calls of executeGuardedPlan

vars == <<slot, live, view, decision, consents, spent, plans, used, exec>>

\* The downstream commitment of a guarded delivery: a hash of everything in it.
DeliveryCommitment(mint, state, policy, amount, recipient) ==
    <<mint, state, policy, amount, recipient>>

IdleCall == [pc |-> "idle", plan |-> None, recipient |-> None, signedAt |-> None,
             landed |-> None]

Init ==
    /\ slot = 0
    /\ live \in [{Preferred, Alternative} -> Observations]
    /\ \A m \in {Preferred, Alternative} : live[m].mint = m
    /\ view = None
    /\ decision = None
    /\ consents = [c \in ConsentIds |-> None]
    /\ spent = {}
    /\ plans = [p \in PlanIds |-> None]
    /\ used = {}
    /\ exec = [e \in Executors |-> IdleCall]

\* Slots pass.
SlotAdvances ==
    /\ slot < MaxSlot
    /\ slot' = slot + 1
    /\ UNCHANGED <<live, view, decision, consents, spent, plans, used, exec>>

\* An issuer acts, or the clock moves a representation into or out of its
\* transition interval.
StateChanges ==
    /\ \E m \in {Preferred, Alternative}, o \in Observations :
         /\ o.mint = m
         /\ o # live[m]
         /\ live' = [live EXCEPT ![m] = o]
    /\ UNCHANGED <<slot, view, decision, consents, spent, plans, used, exec>>
-------------------------------------------------------------------------------
\* The caller reads the preferred representation; its slot is the slot of the
\* whole evaluation.
ObservePreferred ==
    /\ \E inputRaw \in Inputs :
         view' = [preferred  |-> live[Preferred], alternative |-> None,
                  routes     |-> [preferred |-> None, alternative |-> None],
                  comparison |-> IF view = None THEN None ELSE view.comparison,
                  inputRaw   |-> inputRaw, maxAdditionalCostBps |-> PolicyMax,
                  currentSlot |-> slot]
    /\ UNCHANGED <<slot, live, decision, consents, spent, plans, used, exec>>

\* One await later: the alternative, routes for both, and a comparison of the
\* new quotes.  The caller may keep an earlier comparison instead.
ObserveAlternative ==
    /\ view # None
    /\ view.alternative = None
    /\ \E offerP \in {o \in Offers : o.mint = Preferred},
          offerA \in {o \in Offers : o.mint = Alternative},
          routed \in RouteAnswers, fresh \in Recompares :
         LET alternative == live[Alternative]
             routeP == IF routed THEN RouteObservation(offerP, view.inputRaw, view.preferred)
                       ELSE Unavailable(Preferred)
             routeA == RouteObservation(offerA, view.inputRaw, alternative)
             comparison == IF fresh THEN FreshComparison(routeP, routeA) ELSE view.comparison
         IN  view' = [view EXCEPT !.alternative = alternative,
                                  !.routes = [preferred |-> routeP, alternative |-> routeA],
                                  !.comparison = comparison]
    /\ UNCHANGED <<slot, live, decision, consents, spent, plans, used, exec>>

\* decideExecution with a consent the caller holds, or with none.
Evaluate ==
    /\ view # None
    /\ \E id \in {c \in ConsentIds : consents[c] # None} \cup {None} :
         LET consent == IF id = None THEN None ELSE consents[id]
             input   == [preferred |-> view.preferred, alternative |-> view.alternative,
                         comparison |-> view.comparison, routes |-> view.routes,
                         inputRaw |-> view.inputRaw,
                         maxAdditionalCostBps |-> view.maxAdditionalCostBps,
                         consent |-> consent, consentSpent |-> id \in spent,
                         currentSlot |-> view.currentSlot]
         IN  decision' = [result |-> DecideExecution(input), of |-> input]
    /\ UNCHANGED <<slot, live, view, consents, spent, plans, used, exec>>

\* grantConsent: the record is issued only if it would authorize this very
\* decision; otherwise it is consumed and never handed out.
GrantConsent(c, accepted) ==
    /\ consents[c] = None
    /\ decision # None
    /\ decision.result.stateDecision.decision = "REQUIRES_CONSENT"
    /\ LET stateDecision == decision.result.stateDecision
           comparison    == decision.result.comparison
           record == ConsentRecord(c, stateDecision, comparison, accepted,
                                   decision.of.currentSlot, ValidForSlots)
       IN  /\ ConsentIssues(record, FALSE, stateDecision, comparison, PolicyMax,
                            decision.of.currentSlot) = {}
           /\ consents' = [consents EXCEPT ![c] = record]
    /\ UNCHANGED <<slot, live, view, decision, spent, plans, used, exec>>

\* Faulty variant: the consent that decideExecution accepted is not verified
\* again when the plan is made.
CreateWithoutConsuming(p, recipient) ==
    /\ plans[p] = None
    /\ decision # None
    /\ AssertExecutable(decision.result)
    /\ LET result   == decision.result
           rerouted == result.stateDecision.decision = "USE_ALTERNATIVE"
           quote    == result.executableQuote
       IN  /\ spent' = IF rerouted THEN spent \cup {result.consent.consentId} ELSE spent
           /\ plans' = [plans EXCEPT ![p] =
                [quote |-> quote, policy |-> result.transitionPolicy,
                 comparisonKey |-> IF rerouted THEN result.comparison.comparisonKey ELSE None,
                 consentId |-> IF rerouted THEN result.consent.consentId ELSE None,
                 expiresAtSlot |-> decision.of.currentSlot + ValidForSlots,
                 downstream |-> DeliveryCommitment(quote.mint, quote.state,
                                  result.transitionPolicy, quote.outputRaw, recipient)]]
    /\ UNCHANGED <<slot, live, view, decision, consents, used, exec>>

\* createExecutionPlan, for the delivery to recipient that the caller built.  A
\* reroute's consent is verified again and consumed in the same call.
CreateExecutionPlan(p, recipient) ==
    /\ plans[p] = None
    /\ decision # None
    /\ AssertExecutable(decision.result)
    /\ decision.result.transitionPolicy # None
    /\ LET result        == decision.result
           stateDecision == result.stateDecision
           rerouted      == stateDecision.decision = "USE_ALTERNATIVE"
           quote         == result.executableQuote
           currentSlot   == decision.of.currentSlot
       IN  /\ \/ ~rerouted /\ UNCHANGED spent
              \/ /\ rerouted
                 /\ stateDecision.disclosure.content.comparisonKey
                      = result.comparison.comparisonKey
                 /\ ConsentIssues(result.consent, result.consent.consentId \in spent,
                                  [stateDecision EXCEPT !.decision = "REQUIRES_CONSENT",
                                                        !.reasonCode = "CONSENT_REQUIRED"],
                                  result.comparison, result.reroutePolicy, currentSlot) = {}
                 /\ spent' = spent \cup {result.consent.consentId}
           /\ plans' = [plans EXCEPT ![p] =
                [quote |-> quote, policy |-> result.transitionPolicy,
                 comparisonKey |-> IF rerouted THEN result.comparison.comparisonKey ELSE None,
                 consentId |-> IF rerouted THEN result.consent.consentId ELSE None,
                 expiresAtSlot |-> currentSlot + ValidForSlots,
                 downstream |-> DeliveryCommitment(quote.mint, quote.state,
                                  result.transitionPolicy, quote.outputRaw, recipient)]]
    /\ UNCHANGED <<slot, live, view, decision, consents, used, exec>>
-------------------------------------------------------------------------------
\* verifyExecutionPlan for a plan object: plans are frozen when they are issued,
\* so their digest and their fields always agree.
VerifyExecutionPlan(p, quote, comparison) ==
    /\ plans[p] # None
    /\ p \notin used
    /\ SameQuote(plans[p].quote, quote)
    /\ plans[p].comparisonKey # None =>
         /\ comparison # None
         /\ comparison.comparisonKey = plans[p].comparisonKey
         /\ SameQuote(comparison.alternativeQuote, plans[p].quote)

\* executeGuardedPlan up to its first await: the caller presents the quote and
\* the comparison it holds, then the delivery is built.
StartExecution(e, p, recipient) ==
    /\ exec[e].pc = "idle"
    /\ view # None
    /\ view.alternative # None
    /\ \E route \in {view.routes.preferred, view.routes.alternative} :
         VerifyExecutionPlan(p, route.quote, view.comparison)
    /\ plans[p].policy = ExecutorPolicy
    /\ exec' = [exec EXCEPT ![e] = [IdleCall EXCEPT !.pc = "building", !.plan = p,
                                                    !.recipient = recipient]]
    /\ UNCHANGED <<slot, live, view, decision, consents, spent, plans, used>>

\* Faulty variant: the verification before the await is trusted.
SpendUnverified(e) ==
    /\ exec[e].pc = "building"
    /\ used' = used \cup {exec[e].plan}
    /\ exec' = [exec EXCEPT ![e].pc = "spent"]
    /\ UNCHANGED <<slot, live, view, decision, consents, spent, plans>>

\* After the build: assertPlanDownstream, then consumeExecutionPlan, which
\* verifies again.  Plan and presented quote are immutable, so the answer can
\* differ only in whether another call has used the plan.
SpendPlan(e) ==
    LET p    == exec[e].plan
        plan == plans[p]
        ok   == /\ plan.downstream = DeliveryCommitment(plan.quote.mint, plan.quote.state,
                                       plan.policy, plan.quote.outputRaw, exec[e].recipient)
                /\ p \notin used
    IN  /\ exec[e].pc = "building"
        /\ used' = IF ok THEN used \cup {p} ELSE used
        /\ exec' = [exec EXCEPT ![e].pc = IF ok THEN "spent" ELSE "refused"]
        /\ UNCHANGED <<slot, live, view, decision, consents, spent, plans>>

\* The answer of getSlot arrives: assertPlanFresh.
CheckFresh(e) ==
    /\ exec[e].pc = "spent"
    /\ exec' = [exec EXCEPT ![e].pc =
                  IF slot > plans[exec[e].plan].expiresAtSlot THEN "burned" ELSE "fresh"]
    /\ UNCHANGED <<slot, live, view, decision, consents, spent, plans, used>>

\* getSlot, a balance read, the blockhash or the genesis check fails, or the
\* process dies: the plan stays consumed.
CallFails(e) ==
    /\ exec[e].pc \in {"spent", "fresh"}
    /\ exec' = [exec EXCEPT ![e].pc = "burned"]
    /\ UNCHANGED <<slot, live, view, decision, consents, spent, plans, used>>

\* Faulty variant: a delivery that is built is signed, consumed or not.
SignBuilt(e) ==
    /\ exec[e].pc \in {"building", "fresh"}
    /\ exec' = [exec EXCEPT ![e].pc = "sent", ![e].signedAt = slot]
    /\ UNCHANGED <<slot, live, view, decision, consents, spent, plans, used>>

\* submitGuardedDelivery and sendInstructions: three more reads after the slot
\* check, then the signature and the submission.
SignAndSend(e) ==
    /\ exec[e].pc = "fresh"
    /\ exec' = [exec EXCEPT ![e].pc = "sent", ![e].signedAt = slot]
    /\ UNCHANGED <<slot, live, view, decision, consents, spent, plans, used>>

\* Faulty variant: only the transition interval is asserted.
GuardAcceptsAnyState(plan, observation) ==
    observation.state \notin {"TRANSITION", "PAUSED"}

\* The guard asserts plan.economicState under plan.policy; the token program
\* refuses a paused mint.
GuardAccepts(plan, observation) ==
    /\ observation.econ = plan.quote.state
    /\ observation.state \notin {"TRANSITION", "PAUSED"}

\* The transaction is included and decided atomically.
LandDelivery(e) ==
    /\ exec[e].pc = "sent"
    /\ LET plan        == plans[exec[e].plan]
           observation == live[plan.quote.mint]
       IN  exec' = [exec EXCEPT
             ![e].pc = IF GuardAccepts(plan, observation) THEN "delivered" ELSE "rejected",
             ![e].landed = observation]
    /\ UNCHANGED <<slot, live, view, decision, consents, spent, plans, used>>

\* The blockhash runs out before the transaction is included; whatever the
\* polling of waitForConfirmation reports, the call is over.
Lapse(e) ==
    /\ exec[e].pc = "sent"
    /\ exec' = [exec EXCEPT ![e].pc = "lost"]
    /\ UNCHANGED <<slot, live, view, decision, consents, spent, plans, used>>

Next ==
    \/ SlotAdvances
    \/ StateChanges
    \/ ObservePreferred
    \/ ObserveAlternative
    \/ Evaluate
    \/ \E c \in ConsentIds, accepted \in AcceptedMaxes : GrantConsent(c, accepted)
    \/ \E p \in PlanIds, recipient \in Recipients : CreateExecutionPlan(p, recipient)
    \/ \E e \in Executors, p \in PlanIds, recipient \in Recipients :
         StartExecution(e, p, recipient)
    \/ \E e \in Executors :
         \/ SpendPlan(e) \/ CheckFresh(e) \/ CallFails(e)
         \/ SignAndSend(e) \/ LandDelivery(e) \/ Lapse(e)

Spec == Init /\ [][Next]_vars
-------------------------------------------------------------------------------
Spends == {"spent", "fresh", "burned", "sent", "delivered", "rejected", "lost"}

\* consumeConsent in createExecutionPlan: one consent, one plan, however often
\* the consent was evaluated and whichever decisions it was accepted by.
OneConsentOnePlan ==
    \A p, q \in PlanIds :
        /\ plans[p] # None /\ plans[q] # None
        /\ plans[p].consentId # None
        /\ plans[p].consentId = plans[q].consentId
        => p = q

\* consumeExecutionPlan before any signing: a plan one call has spent is never
\* attempted by another, even if the first call failed or its outcome is unknown.
NoSecondAttempt ==
    \A d, e \in Executors :
        /\ exec[d].pc \in Spends /\ exec[e].pc \in Spends
        /\ exec[d].plan = exec[e].plan
        => d = e

\* The whole pipeline: whatever moved between evaluation, consent, plan,
\* signature and block, a reroute that was delivered costs no more against the
\* preferred quote of its consent than the user accepted, measured with the
\* multiplier the alternative really had when the delivery landed.
DeliveredAsConsented ==
    \A e \in Executors : exec[e].pc = "delivered" =>
        LET plan == plans[exec[e].plan]
        IN  \/ plan.consentId = None
            \/ LET consent   == consents[plan.consentId]
                   delivered == [plan.quote EXCEPT !.state = exec[e].landed.econ]
               IN  /\ exec[e].landed.mint = plan.quote.mint
                   /\ AdditionalCostBps(consent.quoteKeys[1], delivered)
                        <= consent.maxAdditionalCostBps

\* A plan as a single-use capability, spent and performed by the calls of
\* executeGuardedPlan: which of them have consumed it, which have signed it.
PlanLedger ==
    [p \in PlanIds |->
       [issued      |-> plans[p] # None,
        spentBy     |-> {e \in Executors : exec[e].plan = p /\ exec[e].pc \in Spends},
        performedBy |-> {e \in Executors : exec[e].plan = p /\ exec[e].signedAt # None}]]

Capability == INSTANCE AtMostOnce WITH Ids <- PlanIds, Users <- Executors, ledger <- PlanLedger

\* execution-plan.ts implements a single-use capability: a plan is issued, consumed
\* by one call before anything is signed, and signed by that call only, once.
PlansAreSingleUse == Capability!Spec
===============================================================================
