---------------------------- MODULE RerouteDecision ----------------------------
(***************************************************************************)
(* The decision layer of representation-state, as operators: normalized      *)
(* comparison of two quotes (compare.ts, normalize.ts), the state-level       *)
(* decision (decision.ts), consent to one disclosure (consent.ts) and the     *)
(* execution eligibility (execution.ts).                                      *)
(*                                                                            *)
(* Canonical keys and SHA-256 digests are injective in the code's own         *)
(* reading, so a key is the value it was made from.  Result texts are left    *)
(* out, except a representation's reason, which is part of the disclosure.    *)
(***************************************************************************)
EXTENDS Integers, Absent

CONSTANTS
    Mints,       \* the representations of the equities considered
    Preferred,   \* the mint the trade names
    Alternative, \* the mint it may be rerouted to
    Underlying,  \* the equity they stand for
    InputMint    \* the token that is spent

BPS == 10000

\* mint, 10^decimals, the effective multiplier, and everything else that
\* identifies the state (stored bytes, timestamp, phase, paused flag).
EconomicState == [mint : Mints, scale : Nat \ {0}, effective : Nat \ {0}, stored : Nat]

\* context stands for the route, the minimum output and the quote's origin.
QuoteIdentity ==
    [underlying : STRING, inputMint : STRING, mint : Mints, inputRaw : Nat,
     outputRaw : Nat, context : Nat, state : EconomicState]

\* A quote on the market: what one route of a mint delivers.
MarketOffer == [mint : Mints, outputRaw : Nat, context : Nat]

RepresentationStates == {"SAFE", "TRANSITION", "PAUSED", "UNKNOWN"}

StateSources == {"chain", "api", "both-agree", "conflict"}

\* What the adapters resolve of one representation.  econ is economicStateOf its
\* chain observation: None when that is missing or has no chain time.
ResolvedRepresentationState ==
    [underlying : STRING, mint : Mints, source : StateSources \cup {None},
     state : RepresentationStates \cup {None}, reason : Int,
     econ : EconomicState \cup {None}, policy : Nat \cup {None}]
-------------------------------------------------------------------------------
\* Faulty variant: integer division that rounds toward zero.
TruncDiv(n, d) == IF n >= 0 THEN n \div d ELSE -((-n) \div d)

\* Division that rounds up, for a positive divisor.
CeilDiv(n, d) == IF n >= 0 THEN (n + d - 1) \div d ELSE -((-n) \div d)

SharesEquivalent(quote) ==
    [num |-> quote.outputRaw * quote.state.effective, den |-> quote.state.scale]

Quote(offer, inputRaw, state) ==
    [underlying |-> Underlying, inputMint |-> InputMint, mint |-> offer.mint,
     inputRaw |-> inputRaw, outputRaw |-> offer.outputRaw, context |-> offer.context,
     state |-> state]

\* fixtureRoute: no quote without a chain state to bind.
RouteObservation(offer, inputRaw, representation) ==
    [mint   |-> offer.mint,
     status |-> "AVAILABLE",
     quote  |-> IF representation.econ = None THEN None
                ELSE Quote(offer, inputRaw, representation.econ)]

Unavailable(mint) == [mint |-> mint, status |-> "UNAVAILABLE", quote |-> None]

\* quoteMismatches finds none.
SameQuote(expected, actual) == expected = actual

\* Two quotes that compareQuotes does not reject.
Comparable(preferred, alternative) ==
    /\ preferred.underlying = alternative.underlying
    /\ preferred.inputMint = alternative.inputMint
    /\ preferred.inputRaw = alternative.inputRaw
    /\ preferred.state.mint = preferred.mint
    /\ alternative.state.mint = alternative.mint
    /\ SharesEquivalent(preferred).num # 0

AdditionalCostBps(preferred, alternative) ==
    LET p == SharesEquivalent(preferred)
        a == SharesEquivalent(alternative)
    IN  CeilDiv((p.num * a.den - a.num * p.den) * BPS, p.num * a.den)

CompareQuotes(preferred, alternative) ==
    [underlying        |-> preferred.underlying,
     preferredMint     |-> preferred.mint,
     alternativeMint   |-> alternative.mint,
     inputRaw          |-> preferred.inputRaw,
     preferredQuote    |-> preferred,
     alternativeQuote  |-> alternative,
     comparisonKey     |-> <<preferred, alternative>>,
     additionalCostBps |-> AdditionalCostBps(preferred, alternative)]
\* The comparison of the quotes two routes carry, if there is one.
FreshComparison(routeP, routeA) ==
    IF /\ routeP.quote # None
       /\ routeA.quote # None
       /\ Comparable(routeP.quote, routeA.quote)
    THEN CompareQuotes(routeP.quote, routeA.quote)
    ELSE None
-------------------------------------------------------------------------------
\* decision.ts

Unusable(state) ==
    CASE state.source = "conflict" -> "conflict"
      [] state.source # "conflict" /\ state.state \in {None, "UNKNOWN"} -> "unknown"
      [] OTHER -> None

ComparisonBindingMismatch(comparison, preferred, alternative, inputRaw) ==
    \/ comparison.underlying # preferred.underlying
    \/ comparison.preferredMint # preferred.mint
    \/ comparison.alternativeMint # alternative.mint
    \/ comparison.inputRaw # inputRaw

\* A representation without decoded chain state matches nothing.
ComparisonStateMismatch(comparison, preferred, alternative) ==
    \/ preferred.econ = None
    \/ alternative.econ = None
    \/ comparison.preferredQuote.state # preferred.econ
    \/ comparison.alternativeQuote.state # alternative.econ

\* The one-sided policy bound.
ExceedsCostLimit(comparison, maxAdditionalCostBps) ==
    \/ comparison.alternativeQuote.outputRaw <= 0
    \/ comparison.additionalCostBps > maxAdditionalCostBps

\* What a reroute shows the user, and what its digest is made of.
RepresentationSummary ==
    [mint : Mints, state : RepresentationStates \cup {None},
     source : StateSources \cup {None}]

DisclosedContent ==
    [underlying : STRING, original : RepresentationSummary,
     alternative : RepresentationSummary, reason : Int, additionalCostBps : Int,
     comparisonKey : QuoteIdentity \X QuoteIdentity, inputRaw : Nat, policyMax : Nat]

RerouteDisclosure == [content : DisclosedContent, disclosureDigest : DisclosedContent]

Summary(state) == [mint |-> state.mint, state |-> state.state, source |-> state.source]

DisclosureContent(preferred, alternative, comparison, inputRaw, maxAdditionalCostBps) ==
    [underlying        |-> preferred.underlying,
     original          |-> Summary(preferred),
     alternative       |-> Summary(alternative),
     reason            |-> preferred.reason,
     additionalCostBps |-> comparison.additionalCostBps,
     comparisonKey     |-> comparison.comparisonKey,
     inputRaw          |-> inputRaw,
     policyMax         |-> maxAdditionalCostBps]

DisclosureFor(preferred, alternative, comparison, inputRaw, maxAdditionalCostBps) ==
    LET content == DisclosureContent(preferred, alternative, comparison, inputRaw,
                                     maxAdditionalCostBps)
    IN  [content |-> content, disclosureDigest |-> content]

DecisionResult(decision, reasonCode, disclosure) ==
    [decision |-> decision, reasonCode |-> reasonCode, disclosure |-> disclosure]

\* decide, for an input with a non-negative maxAdditionalCostBps.  The branches
\* are tried in order.
Decide(input) ==
    LET preferred   == input.preferred
        alternative == input.alternative
        comparison  == input.comparison
        result(decision, reasonCode) == DecisionResult(decision, reasonCode, None)
    IN  IF Unusable(preferred) = "conflict"
          THEN result("UNKNOWN_STATE", "PREFERRED_STATE_CONFLICT")
        ELSE IF Unusable(preferred) = "unknown"
          THEN result("UNKNOWN_STATE", "PREFERRED_STATE_UNKNOWN")
        ELSE IF preferred.state = "SAFE"
          THEN result("USE_PREFERRED", "PREFERRED_SAFE")
        ELSE IF alternative = None
          THEN result("NO_SAFE_ROUTE", "NO_ALTERNATIVE")
        ELSE IF \/ alternative.underlying # preferred.underlying
                \/ alternative.mint = preferred.mint
          THEN result("NO_SAFE_ROUTE", "ALTERNATIVE_NOT_SAME_UNDERLYING")
        ELSE IF Unusable(alternative) = "conflict"
          THEN result("UNKNOWN_STATE", "ALTERNATIVE_STATE_CONFLICT")
        ELSE IF Unusable(alternative) = "unknown"
          THEN result("UNKNOWN_STATE", "ALTERNATIVE_STATE_UNKNOWN")
        ELSE IF alternative.state # "SAFE"
          THEN result("NO_SAFE_ROUTE", "ALTERNATIVE_NOT_SAFE")
        ELSE IF comparison = None
          THEN result("UNKNOWN_STATE", "ALTERNATIVE_QUOTE_UNAVAILABLE")
        ELSE IF ComparisonBindingMismatch(comparison, preferred, alternative, input.inputRaw)
          THEN result("UNKNOWN_STATE", "QUOTE_COMPARISON_MISMATCH")
        ELSE IF ComparisonStateMismatch(comparison, preferred, alternative)
          THEN result("UNKNOWN_STATE", "QUOTE_COMPARISON_STALE_STATE")
        ELSE IF ExceedsCostLimit(comparison, input.maxAdditionalCostBps)
          THEN result("NO_ACCEPTABLE_ROUTE", "ALTERNATIVE_OUTSIDE_TOLERANCE")
        ELSE DecisionResult("REQUIRES_CONSENT", "CONSENT_REQUIRED",
               DisclosureFor(preferred, alternative, comparison, input.inputRaw,
                             input.maxAdditionalCostBps))
-------------------------------------------------------------------------------
\* consent.ts

\* The record grantConsent freezes.
ConsentRecord(id, decision, comparison, acceptedBps, slot, validFor) ==
    [consentId            |-> id,
     comparisonKey        |-> decision.disclosure.content.comparisonKey,
     disclosureDigest     |-> decision.disclosure.disclosureDigest,
     trade                |-> <<comparison.underlying, comparison.preferredMint,
                                comparison.alternativeMint, comparison.inputRaw>>,
     quoteKeys            |-> <<comparison.preferredQuote, comparison.alternativeQuote>>,
     additionalCostBps    |-> comparison.additionalCostBps,
     maxAdditionalCostBps |-> acceptedBps,
     issuedAtSlot         |-> slot,
     expiresAtSlot        |-> slot + validFor]

\* consentIssues for an issued record; spent says whether it is in consumed.
ConsentIssues(consent, spent, decision, comparison, policyMax, currentSlot) ==
    LET disclosure == decision.disclosure
        use  == {code \in {"CONSUMED", "EXPIRED"} :
                   \/ code = "CONSUMED" /\ spent
                   \/ code = "EXPIRED" /\ currentSlot > consent.expiresAtSlot}
    IN  IF decision.decision # "REQUIRES_CONSENT" \/ disclosure = None
        THEN use \cup {"NOT_A_CONSENT_DECISION"}
        ELSE use \cup
          (IF \/ consent.comparisonKey # comparison.comparisonKey
              \/ disclosure.content.comparisonKey # comparison.comparisonKey
             THEN {"COMPARISON_MISMATCH"} ELSE {}) \cup
          (IF \/ consent.disclosureDigest # disclosure.disclosureDigest
              \/ disclosure.content # disclosure.disclosureDigest
             THEN {"DISCLOSURE_MISMATCH"} ELSE {}) \cup
          (IF consent.trade # <<comparison.underlying, comparison.preferredMint,
                                comparison.alternativeMint, comparison.inputRaw>>
             THEN {"TRADE_MISMATCH"} ELSE {}) \cup
          (IF consent.quoteKeys # <<comparison.preferredQuote, comparison.alternativeQuote>>
             THEN {"QUOTE_MISMATCH"} ELSE {}) \cup
          (IF consent.additionalCostBps # comparison.additionalCostBps
             THEN {"COST_MISMATCH"} ELSE {}) \cup
          (IF comparison.additionalCostBps > consent.maxAdditionalCostBps
             THEN {"COST_ABOVE_ACCEPTED_MAX"} ELSE {}) \cup
          (IF ExceedsCostLimit(comparison, policyMax)
             THEN {"OUTSIDE_POLICY_COST_LIMIT"} ELSE {})
-------------------------------------------------------------------------------
\* execution.ts

\* A presented consent turns REQUIRES_CONSENT into USE_ALTERNATIVE.
ApplyConsent(base, input) ==
    IF base.decision # "REQUIRES_CONSENT" \/ input.consent = None \/ input.comparison = None
    THEN [stateDecision |-> base, consent |-> None, issues |-> {}]
    ELSE LET issues == ConsentIssues(input.consent, input.consentSpent, base, input.comparison,
                                     input.maxAdditionalCostBps, input.currentSlot)
         IN  IF issues # {}
             THEN [stateDecision |-> base, consent |-> None, issues |-> issues]
             ELSE [stateDecision |->
                     [base EXCEPT !.decision = "USE_ALTERNATIVE", !.reasonCode = "CONSENT_GIVEN"],
                   consent |-> input.consent, issues |-> {}]

\* An available route's observation, or None: routeFor and the status check.
AvailableRoute(route, representation) ==
    IF /\ route # None
       /\ representation # None
       /\ route.mint = representation.mint
       /\ route.status = "AVAILABLE"
    THEN route
    ELSE None

\* decideExecution on an applied decision, branch USE_PREFERRED.
PreferredEligibility(input) ==
    LET preferred == input.preferred
        route     == AvailableRoute(input.routes.preferred, preferred)
    IN  IF preferred.econ = None THEN "STATE_UNKNOWN"
        ELSE IF route = None THEN "ROUTE_UNAVAILABLE"
        ELSE IF route.quote = None THEN "QUOTE_UNAVAILABLE"
        ELSE IF \/ route.quote.mint # preferred.mint
                \/ route.quote.underlying # preferred.underlying
                \/ route.quote.inputRaw # input.inputRaw
          THEN "QUOTE_MISMATCH"
        ELSE IF route.quote.state # preferred.econ THEN "STALE_COMPARISON"
        ELSE IF preferred.policy = None THEN "POLICY_MISMATCH"
        ELSE "EXECUTABLE"

\* Faulty variant: the route is taken as it is now, not as it was consented to.
AlternativeEligibilityOfAnyQuote(input, consent) ==
    LET route == AvailableRoute(input.routes.alternative, input.alternative)
    IN  IF input.alternative.econ = None \/ input.preferred.econ = None THEN "STATE_UNKNOWN"
        ELSE IF route = None THEN "ROUTE_UNAVAILABLE"
        ELSE IF route.quote = None THEN "QUOTE_UNAVAILABLE"
        ELSE IF \/ input.alternative.policy = None
                \/ input.alternative.policy # input.preferred.policy
          THEN "POLICY_MISMATCH"
        ELSE "EXECUTABLE"

\* Branch USE_ALTERNATIVE.
AlternativeEligibility(input, consent) ==
    LET alternative == input.alternative
        preferred   == input.preferred
        comparison  == input.comparison
        route       == AvailableRoute(input.routes.alternative, alternative)
    IN  IF alternative.econ = None \/ preferred.econ = None THEN "STATE_UNKNOWN"
        ELSE IF route = None THEN "ROUTE_UNAVAILABLE"
        ELSE IF route.quote = None THEN "QUOTE_UNAVAILABLE"
        ELSE IF \/ ExceedsCostLimit(comparison, input.maxAdditionalCostBps)
                \/ comparison.additionalCostBps > consent.maxAdditionalCostBps
          THEN "ALTERNATIVE_OUTSIDE_TOLERANCE"
        ELSE IF ~SameQuote(comparison.alternativeQuote, route.quote) THEN "QUOTE_MISMATCH"
        ELSE IF \/ alternative.policy = None
                \/ preferred.policy = None
                \/ alternative.policy # preferred.policy
          THEN "POLICY_MISMATCH"
        ELSE "EXECUTABLE"

\* Branch UNKNOWN_STATE.
UnknownEligibility(input, reasonCode) ==
    CASE reasonCode = "ALTERNATIVE_QUOTE_UNAVAILABLE" ->
           IF AvailableRoute(input.routes.alternative, input.alternative) = None
           THEN "ROUTE_UNAVAILABLE" ELSE "QUOTE_UNAVAILABLE"
      [] reasonCode = "QUOTE_COMPARISON_MISMATCH" -> "QUOTE_MISMATCH"
      [] reasonCode = "QUOTE_COMPARISON_STALE_STATE" -> "STALE_COMPARISON"
      [] OTHER -> "STATE_UNKNOWN"

DecideExecution(input) ==
    LET applied  == ApplyConsent(Decide(input), input)
        decision == applied.stateDecision.decision
        eligibility ==
          CASE decision = "USE_PREFERRED" -> PreferredEligibility(input)
            [] decision = "USE_ALTERNATIVE" -> AlternativeEligibility(input, applied.consent)
            [] decision = "REQUIRES_CONSENT" ->
                 IF applied.issues # {} THEN "CONSENT_INVALID" ELSE "CONSENT_REQUIRED"
            [] decision = "NO_ACCEPTABLE_ROUTE" -> "ALTERNATIVE_OUTSIDE_TOLERANCE"
            [] decision = "NO_SAFE_ROUTE" -> "STATE_UNSAFE"
            [] decision = "UNKNOWN_STATE" ->
                 UnknownEligibility(input, applied.stateDecision.reasonCode)
        executable == eligibility = "EXECUTABLE"
        chosen     == IF decision = "USE_PREFERRED" THEN input.preferred ELSE input.alternative
    IN  [stateDecision        |-> applied.stateDecision,
         comparison           |-> input.comparison,
         executionEligibility |-> eligibility,
         selected             |-> IF decision \in {"USE_PREFERRED", "USE_ALTERNATIVE"}
                                  THEN chosen.mint ELSE None,
         executableQuote      |-> IF ~executable THEN None
                                  ELSE IF decision = "USE_PREFERRED"
                                    THEN input.routes.preferred.quote
                                  ELSE input.comparison.alternativeQuote,
         consent              |-> applied.consent,
         reroutePolicy        |-> input.maxAdditionalCostBps,
         transitionPolicy     |-> IF executable THEN chosen.policy ELSE None]

\* assertExecutable
AssertExecutable(decision) ==
    /\ decision.executionEligibility = "EXECUTABLE"
    /\ decision.selected # None
    /\ decision.executableQuote # None
    /\ decision.executableQuote.mint = decision.selected
    /\ decision.executableQuote.state.mint = decision.selected
-------------------------------------------------------------------------------
\* What decideExecution is meant to allow, stated as one condition per outcome.

\* The preferred representation may be used as it is.
MayUsePreferred(input) ==
    LET preferred == input.preferred
        route     == input.routes.preferred
    IN  /\ preferred.state = "SAFE" /\ preferred.source # "conflict"
        /\ preferred.econ # None /\ preferred.policy # None
        /\ route # None
        /\ route.status = "AVAILABLE"
        /\ route.quote # None
        /\ route.quote.mint = preferred.mint
        /\ route.quote.underlying = preferred.underlying
        /\ route.quote.inputRaw = input.inputRaw
        /\ route.quote.state = preferred.econ

\* A reroute may be executed: the preferred representation is known to be
\* unsafe, the alternative known to be safe, the comparison is of the two states
\* of this moment and of the quote that would be executed, and the user accepted
\* exactly its disclosure, not yet used and not expired.
MayReroute(input) ==
    LET preferred   == input.preferred
        alternative == input.alternative
        comparison  == input.comparison
        consent     == input.consent
        route       == input.routes.alternative
    IN  /\ preferred.state \in {"TRANSITION", "PAUSED"} /\ preferred.source # "conflict"
        /\ alternative # None /\ comparison # None /\ consent # None /\ route # None
        /\ alternative.state = "SAFE" /\ alternative.source # "conflict"
        /\ alternative.underlying = preferred.underlying
        /\ alternative.mint # preferred.mint
        /\ preferred.econ # None /\ alternative.econ # None
        /\ preferred.policy # None /\ alternative.policy = preferred.policy
        /\ comparison.preferredQuote.state = preferred.econ
        /\ comparison.alternativeQuote = route.quote
        /\ route.quote.state = alternative.econ
        /\ route.quote.underlying = preferred.underlying
        /\ route.quote.inputRaw = input.inputRaw
        /\ route.quote.outputRaw > 0
        /\ comparison.additionalCostBps <= input.maxAdditionalCostBps
        /\ comparison.additionalCostBps <= consent.maxAdditionalCostBps
        /\ consent.quoteKeys = comparison.comparisonKey
        /\ consent.disclosureDigest.reason = preferred.reason
        /\ consent.disclosureDigest.original = Summary(preferred)
        /\ consent.disclosureDigest.alternative = Summary(alternative)
        /\ ~input.consentSpent
        /\ input.currentSlot <= consent.expiresAtSlot
===============================================================================
