----------------------------- MODULE RerouteCheck -----------------------------
(***************************************************************************)
(* A caller of the decision layer: it evaluates a trade, may obtain consent   *)
(* to the disclosure it was shown, and evaluates again later, with any new    *)
(* evidence and quotes and with its old comparison or a new one.  Every       *)
(* evaluation is compared with what decideExecution is meant to allow.        *)
(***************************************************************************)
EXTENDS Adapters

CONSTANTS
    Evidence,       \* what may be known of a representation
    Offers,         \* quotes on the market: mint, outputRaw, context
    Inputs,         \* input amounts
    PolicyMax,      \* ReroutePolicy.maxAdditionalCostBps
    AcceptedMaxes,  \* the most the user may accept to pay, in bps
    ValidForSlots,  \* lifetime of the consent
    MaxSlot         \* bound on the slot of an evaluation

ASSUME CheckConstants ==
    /\ None \notin RepresentationStates \cup StateSources \cup {"unknown"}
    /\ None \notin Int \cup QuoteIdentity \cup RerouteDisclosure
                    \cup ResolvedRepresentationState
    /\ {Underlying, InputMint} \subseteq STRING
    /\ Inputs \subseteq Nat
    /\ Evidence \subseteq RepresentationEvidence
    /\ Offers \subseteq MarketOffer
    /\ PolicyMax \in Nat
    /\ AcceptedMaxes \subseteq Nat
    /\ ValidForSlots \in Nat \ {0}

VARIABLES
    input,    \* the last input of decideExecution
    evidence, \* what its two representations were resolved from
    result,   \* its result
    consent   \* the consent the caller holds

checkVars == <<input, evidence, result, consent>>

\* decideExecution on evidence of any kind.  held is the comparison the caller
\* has from before: it is presented when recompare is false.
Decides(held, recompare, presented, spent, currentSlot) ==
    \E evidenceP \in {e \in Evidence : e.representation.mint = Preferred},
       evidenceA \in {e \in Evidence : e.representation.mint = Alternative} \cup {None},
       offerP \in {o \in Offers : o.mint = Preferred},
       offerA \in {o \in Offers : o.mint = Alternative},
       routed \in BOOLEAN, inputRaw \in Inputs :
         LET preferred == Resolve(evidenceP)
             alternative == IF evidenceA = None THEN None ELSE Resolve(evidenceA)
             routeP == IF routed THEN RouteObservation(offerP, inputRaw, preferred)
                       ELSE Unavailable(Preferred)
             routeA == IF alternative = None THEN Unavailable(Alternative)
                       ELSE RouteObservation(offerA, inputRaw, alternative)
             next   == [preferred |-> preferred, alternative |-> alternative,
                        comparison |-> IF recompare THEN FreshComparison(routeP, routeA)
                                       ELSE held,
                        routes |-> [preferred |-> routeP, alternative |-> routeA],
                        inputRaw |-> inputRaw, maxAdditionalCostBps |-> PolicyMax,
                        consent |-> presented, consentSpent |-> spent,
                        currentSlot |-> currentSlot]
         IN  /\ input' = next
             /\ evidence' = [preferred |-> evidenceP, alternative |-> evidenceA]
             /\ result' = DecideExecution(next)

CheckInit == input = None /\ evidence = None /\ result = None /\ consent = None

\* The first evaluation: nothing was consented to yet.
Evaluate ==
    /\ input = None
    /\ Decides(None, TRUE, None, FALSE, 0)
    /\ UNCHANGED consent

\* grantConsent: the user accepts the disclosure that was shown.
Grant ==
    /\ consent = None
    /\ input # None
    /\ result.stateDecision.decision = "REQUIRES_CONSENT"
    /\ \E accepted \in AcceptedMaxes :
         LET record == ConsentRecord("consent", result.stateDecision, input.comparison,
                                     accepted, input.currentSlot, ValidForSlots)
         IN  /\ ConsentIssues(record, FALSE, result.stateDecision, input.comparison,
                              PolicyMax, input.currentSlot) = {}
             /\ consent' = record
    /\ UNCHANGED <<input, evidence, result>>

\* A later evaluation presents the consent, used or not.
Reevaluate ==
    /\ consent # None
    /\ input.consent = None
    /\ \E recompare \in BOOLEAN, spent \in BOOLEAN, currentSlot \in 0 .. MaxSlot :
         Decides(input.comparison, recompare, consent, spent, currentSlot)
    /\ UNCHANGED consent

CheckNext == Evaluate \/ Grant \/ Reevaluate

CheckSpec == CheckInit /\ [][CheckNext]_checkVars
-------------------------------------------------------------------------------
\* decideExecution against its declarative reading: an evaluation is EXECUTABLE
\* exactly when the preferred representation may be used or a reroute may.
EligibilityIsExact ==
    input # None =>
        (result.executionEligibility = "EXECUTABLE"
           <=> MayUsePreferred(input) \/ MayReroute(input))

\* No executable trade rests on evidence that does not bear it: the selected
\* mint was decoded with its chain time, was not paused and was outside the
\* protection interval of a scheduled change, and live API evidence about an
\* Ondo representation was still valid and said active.  Historical evidence
\* has no say.
EvidenceBearsExecution ==
    (input # None /\ result.executionEligibility = "EXECUTABLE") =>
        LET e == IF result.selected = Preferred THEN evidence.preferred
                 ELSE evidence.alternative
        IN  /\ e.chain # None
            /\ e.chain.kind = "decoded"
            /\ e.chain.at # None
            /\ e.chain.paused # TRUE
            /\ e.chain.scheduled =>
                  \/ e.chain.at < e.chain.activation - e.policy.beforeSecs
                  \/ e.chain.at > e.chain.activation + e.policy.afterSecs
            /\ (/\ e.representation.issuer = "Ondo"
                /\ e.api # None
                /\ e.api.sourceClass = "LIVE_API_STATE") =>
                  /\ e.api.status = "active"
                  /\ None \notin {e.evaluatedAt, e.api.validUntil}
                  /\ e.evaluatedAt <= e.api.validUntil

\* compareQuotes rounds the cost of switching up, a benefit down: the disclosed
\* number is the least integer not below the exact difference.
DisclosedCostIsExact ==
    (input # None /\ input.comparison # None) =>
        LET comparison == input.comparison
            p   == SharesEquivalent(comparison.preferredQuote)
            a   == SharesEquivalent(comparison.alternativeQuote)
            num == (p.num * a.den - a.num * p.den) * BPS
            den == p.num * a.den
        IN  /\ comparison.additionalCostBps * den >= num
            /\ (comparison.additionalCostBps - 1) * den < num
===============================================================================
