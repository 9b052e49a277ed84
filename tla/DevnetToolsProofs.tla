--------------------------- MODULE DevnetToolsProofs ---------------------------
(***************************************************************************)
(* Theorems about RerouteCheck: the decision layer, for every set of       *)
(* evidence, every quote and amount, every policy and every lifetime of a  *)
(* consent; and about DevnetTools, for every number of tools, every        *)
(* schedule of multipliers and every length of the windows: what a demo    *)
(* run delivers, what a rejection probe can never deliver, and why the     *)
(* margins of the transition scenario are enough.  Both rest on the        *)
(* decision layer and the adapters, so they are here together.             *)
(*                                                                         *)
(* The inductive invariant of the tools, IInv, says, step of a tool by     *)
(* step, what the fields it will still use were read from: a snapshot of a *)
(* mint at a time that has passed.  Two parts relate a tool to what others *)
(* do meanwhile: chain time only grows, and a change that is still         *)
(* scheduled was dated after the transaction that scheduled it landed, so  *)
(* that a state which is gone when its activation has passed never comes   *)
(* back.  The one of the decision layer, CheckInv, says what an            *)
(* evaluation's input was made from.                                       *)
(***************************************************************************)
EXTENDS DevnetTools, RerouteCheck, TLAPS

\* Integer division by a positive number.
LEMMA DivBounds ==
    ASSUME NEW n \in Int, NEW d \in Nat \ {0}
    PROVE  /\ n \div d \in Int
           /\ (n \div d) * d <= n
           /\ n < (n \div d) * d + d
  OBVIOUS

\* ceilDiv rounds up: it is the least integer whose product is not below n.
LEMMA CeilDivIsCeiling ==
    ASSUME NEW n \in Int, NEW d \in Nat \ {0}
    PROVE  /\ CeilDiv(n, d) \in Int
           /\ CeilDiv(n, d) * d >= n
           /\ (CeilDiv(n, d) - 1) * d < n
  <1>1. CASE n >= 0
    <2>1. n + d - 1 \in Int /\ CeilDiv(n, d) = (n + d - 1) \div d
      BY <1>1 DEF CeilDiv
    <2>2. PICK q \in Int : /\ q = (n + d - 1) \div d
                           /\ q * d <= n + d - 1
                           /\ n + d - 1 < q * d + d
      BY <2>1, DivBounds
    <2>3. (q - 1) * d = q * d - d /\ q * d \in Int
      OBVIOUS
    <2>4. q * d >= n /\ q * d - d < n
      BY <2>2, <2>3
    <2> QED
      BY <2>1, <2>2, <2>3, <2>4
  <1>2. CASE n < 0
    <2>1. -n \in Int /\ CeilDiv(n, d) = -((-n) \div d)
      BY <1>2 DEF CeilDiv
    <2>2. PICK q \in Int : /\ q = (-n) \div d
                           /\ q * d <= -n
                           /\ -n < q * d + d
      BY <2>1, DivBounds
    <2>3. (-q) * d = -(q * d) /\ (-q - 1) * d = -(q * d) - d /\ q * d \in Int
      OBVIOUS
    <2>4. (-q) * d >= n /\ (-q - 1) * d < n
      BY <2>2, <2>3
    <2> QED
      BY <2>1, <2>2, <2>4
  <1> QED
    BY <1>1, <1>2
-------------------------------------------------------------------------------
\* What decide requires before it offers a reroute.
RerouteOffered(in) ==
    /\ in.preferred.source # "conflict"
    /\ in.preferred.state \notin {None, "UNKNOWN", "SAFE"}
    /\ in.alternative # None
    /\ in.alternative.underlying = in.preferred.underlying
    /\ in.alternative.mint # in.preferred.mint
    /\ in.alternative.source # "conflict"
    /\ in.alternative.state = "SAFE"
    /\ in.comparison # None
    /\ ~ComparisonBindingMismatch(in.comparison, in.preferred, in.alternative, in.inputRaw)
    /\ ~ComparisonStateMismatch(in.comparison, in.preferred, in.alternative)
    /\ ~ExceedsCostLimit(in.comparison, in.maxAdditionalCostBps)

OfferedDisclosure(in) ==
    DisclosureFor(in.preferred, in.alternative, in.comparison, in.inputRaw,
                  in.maxAdditionalCostBps)

\* null is none of the names of states and sources.
LEMMA NoneIsNoName ==
    None \notin {"conflict", "unknown", "UNKNOWN", "SAFE", "TRANSITION", "PAUSED"}
  <1>1. None \notin RepresentationStates \cup StateSources \cup {"unknown"}
    BY CheckConstants
  <1> QED
    BY <1>1 DEF RepresentationStates, StateSources

\* A representation is unusable when its evidence conflicts or says nothing.
LEMMA UnusableCases ==
    ASSUME NEW state
    PROVE  /\ Unusable(state) = "conflict" <=> state.source = "conflict"
           /\ Unusable(state) = "unknown" <=>
                state.source # "conflict" /\ state.state \in {None, "UNKNOWN"}
  BY NoneIsNoName DEF Unusable

\* decide answers USE_PREFERRED exactly for a preferred representation known to be
\* safe, and asks for consent exactly when a reroute may be offered.
LEMMA DecideCases ==
    ASSUME NEW in
    PROVE  /\ Decide(in).decision = "USE_PREFERRED" <=>
                in.preferred.source # "conflict" /\ in.preferred.state = "SAFE"
           /\ Decide(in).decision = "REQUIRES_CONSENT" <=> RerouteOffered(in)
           /\ RerouteOffered(in) =>
                Decide(in) = DecisionResult("REQUIRES_CONSENT", "CONSENT_REQUIRED",
                                            OfferedDisclosure(in))
           /\ Decide(in).decision \in {"USE_PREFERRED", "REQUIRES_CONSENT", "UNKNOWN_STATE",
                                      "NO_SAFE_ROUTE", "NO_ACCEPTABLE_ROUTE"}
  <1>1. CASE in.preferred.source = "conflict" \/ in.preferred.state \in {None, "UNKNOWN"}
    <2>1. Decide(in).decision = "UNKNOWN_STATE"
      BY <1>1, UnusableCases DEF Decide, DecisionResult
    <2> QED
      BY <1>1, <2>1, NoneIsNoName DEF RerouteOffered
  <1>2. CASE in.preferred.source # "conflict" /\ in.preferred.state = "SAFE"
    <2>1. Decide(in).decision = "USE_PREFERRED"
      BY <1>2, UnusableCases, NoneIsNoName DEF Decide, DecisionResult
    <2> QED
      BY <1>2, <2>1 DEF RerouteOffered
  <1>3. CASE in.preferred.source # "conflict" /\ in.preferred.state \notin {None, "UNKNOWN", "SAFE"}
    <2>1. CASE RerouteOffered(in)
      <3>1. Decide(in) = DecisionResult("REQUIRES_CONSENT", "CONSENT_REQUIRED",
                                        OfferedDisclosure(in))
        BY <2>1, UnusableCases, NoneIsNoName DEF Decide, RerouteOffered, OfferedDisclosure
      <3>2. Decide(in).decision = "REQUIRES_CONSENT"
        BY <3>1 DEF DecisionResult
      <3> QED
        BY <1>3, <2>1, <3>1, <3>2
    <2>2. CASE ~RerouteOffered(in)
      <3>1. Decide(in).decision \in {"UNKNOWN_STATE", "NO_SAFE_ROUTE", "NO_ACCEPTABLE_ROUTE"}
        BY <1>3, <2>2, UnusableCases, NoneIsNoName
           DEF Decide, RerouteOffered, DecisionResult
      <3> QED
        BY <1>3, <2>2, <3>1
    <2> QED
      BY <2>1, <2>2
  <1> QED
    BY <1>1, <1>2, <1>3

\* What it takes for consentIssues to find nothing.
Agrees(record, spent, disclosure, comparison, policyMax, currentSlot) ==
    /\ ~spent
    /\ ~(currentSlot > record.expiresAtSlot)
    /\ record.comparisonKey = comparison.comparisonKey
    /\ disclosure.content.comparisonKey = comparison.comparisonKey
    /\ record.disclosureDigest = disclosure.disclosureDigest
    /\ disclosure.content = disclosure.disclosureDigest
    /\ record.trade = <<comparison.underlying, comparison.preferredMint,
                         comparison.alternativeMint, comparison.inputRaw>>
    /\ record.quoteKeys = <<comparison.preferredQuote, comparison.alternativeQuote>>
    /\ record.additionalCostBps = comparison.additionalCostBps
    /\ ~(comparison.additionalCostBps > record.maxAdditionalCostBps)
    /\ ~ExceedsCostLimit(comparison, policyMax)

LEMMA IssuesEmpty ==
    ASSUME NEW record, NEW spent \in BOOLEAN, NEW decision, NEW comparison, NEW policyMax,
           NEW currentSlot
    PROVE  ConsentIssues(record, spent, decision, comparison, policyMax, currentSlot) = {}
             <=> /\ decision.decision = "REQUIRES_CONSENT"
                 /\ decision.disclosure # None
                 /\ Agrees(record, spent, decision.disclosure, comparison, policyMax, currentSlot)
  <1> DEFINE use == {code \in {"CONSUMED", "EXPIRED"} :
                       \/ code = "CONSUMED" /\ spent
                       \/ code = "EXPIRED" /\ currentSlot > record.expiresAtSlot}
             issues == ConsentIssues(record, spent, decision, comparison, policyMax, currentSlot)
  <1>1. use = {} <=> ~spent /\ ~(currentSlot > record.expiresAtSlot)
    <2>1. "CONSUMED" \in use <=> spent
      OBVIOUS
    <2>2. "EXPIRED" \in use <=> currentSlot > record.expiresAtSlot
      OBVIOUS
    <2>3. use \subseteq {"CONSUMED", "EXPIRED"}
      OBVIOUS
    <2> HIDE DEF use
    <2> QED
      BY <2>1, <2>2, <2>3
  <1> HIDE DEF use
  <1>2. CASE decision.decision # "REQUIRES_CONSENT" \/ decision.disclosure = None
    <2>1. "NOT_A_CONSENT_DECISION" \in issues
      BY <1>2 DEF ConsentIssues
    <2> HIDE DEF issues
    <2> QED
      BY <1>2, <2>1 DEF issues
  <1>3. CASE decision.decision = "REQUIRES_CONSENT" /\ decision.disclosure # None
    <2>1. issues = use \cup
          (IF \/ record.comparisonKey # comparison.comparisonKey
              \/ decision.disclosure.content.comparisonKey # comparison.comparisonKey
             THEN {"COMPARISON_MISMATCH"} ELSE {}) \cup
          (IF \/ record.disclosureDigest # decision.disclosure.disclosureDigest
              \/ decision.disclosure.content # decision.disclosure.disclosureDigest
             THEN {"DISCLOSURE_MISMATCH"} ELSE {}) \cup
          (IF record.trade # <<comparison.underlying, comparison.preferredMint,
                                comparison.alternativeMint, comparison.inputRaw>>
             THEN {"TRADE_MISMATCH"} ELSE {}) \cup
          (IF record.quoteKeys # <<comparison.preferredQuote, comparison.alternativeQuote>>
             THEN {"QUOTE_MISMATCH"} ELSE {}) \cup
          (IF record.additionalCostBps # comparison.additionalCostBps
             THEN {"COST_MISMATCH"} ELSE {}) \cup
          (IF comparison.additionalCostBps > record.maxAdditionalCostBps
             THEN {"COST_ABOVE_ACCEPTED_MAX"} ELSE {}) \cup
          (IF ExceedsCostLimit(comparison, policyMax)
             THEN {"OUTSIDE_POLICY_COST_LIMIT"} ELSE {})
      BY <1>3 DEF ConsentIssues, use
    <2> QED
      BY <1>1, <1>3, <2>1 DEF Agrees
  <1> QED
    BY <1>2, <1>3

\* A presented consent is applied exactly when a reroute is offered and
\* consentIssues finds nothing against it.
Applies(in) ==
    /\ RerouteOffered(in)
    /\ in.consent # None
    /\ ConsentIssues(in.consent, in.consentSpent, Decide(in), in.comparison,
                     in.maxAdditionalCostBps, in.currentSlot) = {}

LEMMA AppliedDecision ==
    ASSUME NEW in
    PROVE  LET applied == ApplyConsent(Decide(in), in)
           IN  /\ Applies(in) => /\ applied.stateDecision.decision = "USE_ALTERNATIVE"
                                 /\ applied.consent = in.consent
               /\ ~Applies(in) => applied.stateDecision = Decide(in)
  <1> DEFINE applied == ApplyConsent(Decide(in), in)
             issues == ConsentIssues(in.consent, in.consentSpent, Decide(in), in.comparison,
                                     in.maxAdditionalCostBps, in.currentSlot)
  <1>1. CASE Applies(in)
    <2>1. PICK base : base = Decide(in)
      OBVIOUS
    <2>2. base = DecisionResult("REQUIRES_CONSENT", "CONSENT_REQUIRED", OfferedDisclosure(in))
      BY <1>1, <2>1, DecideCases DEF Applies
    <2>3. base.decision = "REQUIRES_CONSENT" /\ "decision" \in DOMAIN base
      BY <2>2 DEF DecisionResult
    <2>5. [base EXCEPT !.decision = "USE_ALTERNATIVE", !.reasonCode = "CONSENT_GIVEN"]
            = DecisionResult("USE_ALTERNATIVE", "CONSENT_GIVEN", OfferedDisclosure(in))
      <3>1. PICK shown : shown = OfferedDisclosure(in)
        OBVIOUS
      <3>2. [base EXCEPT !.decision = "USE_ALTERNATIVE"]
              = DecisionResult("USE_ALTERNATIVE", "CONSENT_REQUIRED", shown)
        BY <2>2, <3>1 DEF DecisionResult
      <3>3. [DecisionResult("USE_ALTERNATIVE", "CONSENT_REQUIRED", shown)
               EXCEPT !.reasonCode = "CONSENT_GIVEN"]
              = DecisionResult("USE_ALTERNATIVE", "CONSENT_GIVEN", shown)
        BY DEF DecisionResult
      <3>4. [base EXCEPT !.decision = "USE_ALTERNATIVE", !.reasonCode = "CONSENT_GIVEN"]
              = [[base EXCEPT !.decision = "USE_ALTERNATIVE"]
                   EXCEPT !.reasonCode = "CONSENT_GIVEN"]
        OBVIOUS
      <3> QED
        BY <3>1, <3>2, <3>3, <3>4
    <2>4. applied = [stateDecision |->
                       [base EXCEPT !.decision = "USE_ALTERNATIVE",
                                    !.reasonCode = "CONSENT_GIVEN"],
                     consent |-> in.consent, issues |-> {}]
      <3>1. /\ in.consent # None /\ in.comparison # None
            /\ ConsentIssues(in.consent, in.consentSpent, base, in.comparison,
                             in.maxAdditionalCostBps, in.currentSlot) = {}
        BY <1>1, <2>1 DEF Applies, RerouteOffered
      <3>2. applied = ApplyConsent(base, in)
        BY <2>1
      <3> QED
        BY <2>3, <3>1, <3>2, Zenon DEF ApplyConsent
    <2>6. PICK given : given = DecisionResult("USE_ALTERNATIVE", "CONSENT_GIVEN",
                                              OfferedDisclosure(in))
      OBVIOUS
    <2>7. applied = [stateDecision |-> given, consent |-> in.consent, issues |-> {}]
      BY <2>4, <2>5, <2>6, Zenon
    <2>8. given.decision = "USE_ALTERNATIVE"
      BY <2>6 DEF DecisionResult
    <2>9. applied.stateDecision = given /\ applied.consent = in.consent
      BY <2>7
    <2> QED
      BY <1>1, <2>8, <2>9
  <1>2. CASE ~Applies(in)
    <2>1. \/ Decide(in).decision # "REQUIRES_CONSENT"
          \/ in.consent = None
          \/ in.comparison = None
          \/ issues # {}
      BY <1>2, DecideCases DEF Applies
    <2>2. applied.stateDecision = Decide(in)
      BY <2>1 DEF ApplyConsent
    <2> QED
      BY <1>2, <2>2
  <1> QED
    BY <1>1, <1>2

\* The two ways to an executable decision.
LEMMA ExecutableCases ==
    ASSUME NEW in
    PROVE  LET outcome == DecideExecution(in)
           IN  /\ outcome.executionEligibility = "EXECUTABLE" <=>
                    \/ /\ in.preferred.source # "conflict" /\ in.preferred.state = "SAFE"
                       /\ PreferredEligibility(in) = "EXECUTABLE"
                    \/ /\ Applies(in)
                       /\ AlternativeEligibility(in, in.consent) = "EXECUTABLE"
               /\ in.preferred.state = "SAFE" /\ in.preferred.source # "conflict" =>
                    outcome.selected = in.preferred.mint
               /\ Applies(in) => outcome.selected = in.alternative.mint
  <1> DEFINE outcome == DecideExecution(in)
  <1>1. PICK applied : applied = ApplyConsent(Decide(in), in)
    OBVIOUS
  <1>2. PICK decision : decision = applied.stateDecision.decision
    OBVIOUS
  <1>3. /\ Applies(in) => decision = "USE_ALTERNATIVE" /\ applied.consent = in.consent
        /\ ~Applies(in) => decision = Decide(in).decision
    BY <1>1, <1>2, AppliedDecision
  <1>4. decision = "USE_PREFERRED" <=>
          in.preferred.source # "conflict" /\ in.preferred.state = "SAFE"
    BY <1>3, DecideCases DEF Applies
  <1>5. decision = "USE_ALTERNATIVE" <=> Applies(in)
    BY <1>3, DecideCases
  <1>6. /\ decision = "USE_PREFERRED" =>
             /\ outcome.executionEligibility = PreferredEligibility(in)
             /\ outcome.selected = in.preferred.mint
        /\ decision = "USE_ALTERNATIVE" =>
             /\ outcome.executionEligibility = AlternativeEligibility(in, applied.consent)
             /\ outcome.selected = in.alternative.mint
    BY <1>1, <1>2 DEF DecideExecution
  <1>7. decision \notin {"USE_PREFERRED", "USE_ALTERNATIVE"} =>
          outcome.executionEligibility # "EXECUTABLE"
    <2>1. decision \in {"USE_PREFERRED", "USE_ALTERNATIVE", "REQUIRES_CONSENT",
                       "UNKNOWN_STATE", "NO_SAFE_ROUTE", "NO_ACCEPTABLE_ROUTE"}
      BY <1>3, DecideCases
    <2>2. \A reasonCode : UnknownEligibility(in, reasonCode) # "EXECUTABLE"
      BY DEF UnknownEligibility
    <2> QED
      BY <1>1, <1>2, <2>1, <2>2 DEF DecideExecution
  <1> QED
    BY <1>3, <1>4, <1>5, <1>6, <1>7
-------------------------------------------------------------------------------
\* A comparison that compareQuotes made of two quotes for the trade's mints.
IsComparison(comparison) ==
    \E p, a \in QuoteIdentity :
        /\ p.mint = Preferred /\ a.mint = Alternative
        /\ Comparable(p, a)
        /\ comparison = CompareQuotes(p, a)

\* A consent that grantConsent issued: it names one pair of quotes throughout.
ConsentFits(record) ==
    \E p, a \in QuoteIdentity :
        LET digest == record.disclosureDigest
        IN  /\ record.quoteKeys = <<p, a>> /\ record.comparisonKey = <<p, a>>
            /\ record.trade = <<p.underlying, p.mint, a.mint, p.inputRaw>>
            /\ record.additionalCostBps = AdditionalCostBps(p, a)
            /\ record.maxAdditionalCostBps \in Nat
            /\ record.expiresAtSlot \in Int
            /\ digest = [underlying |-> p.underlying, original |-> digest.original,
                         alternative |-> digest.alternative, reason |-> digest.reason,
                         additionalCostBps |-> AdditionalCostBps(p, a),
                         comparisonKey |-> <<p, a>>, inputRaw |-> p.inputRaw,
                         policyMax |-> PolicyMax]

\* An input of decideExecution that the caller can present.
InputFits(in) ==
    /\ in.preferred \in ResolvedRepresentationState
    /\ in.preferred.mint = Preferred
    /\ in.routes.preferred.mint = Preferred
    /\ in.alternative # None =>
         /\ in.alternative \in ResolvedRepresentationState
         /\ in.alternative.mint = Alternative
         /\ in.routes.alternative.mint = Alternative
         /\ in.routes.alternative.status = "AVAILABLE"
    /\ in.comparison = None \/ IsComparison(in.comparison)
    /\ in.consent = None \/ ConsentFits(in.consent)
    /\ in.consentSpent \in BOOLEAN
    /\ in.currentSlot \in Int
    /\ in.inputRaw \in Nat
    /\ in.maxAdditionalCostBps = PolicyMax

\* The cost of a comparison is the exact difference, rounded up.
LEMMA CostIsCeiling ==
    ASSUME NEW p \in QuoteIdentity, NEW a \in QuoteIdentity, Comparable(p, a)
    PROVE  LET ps  == SharesEquivalent(p)
               as  == SharesEquivalent(a)
               num == (ps.num * as.den - as.num * ps.den) * BPS
               den == ps.num * as.den
           IN  /\ AdditionalCostBps(p, a) \in Int
               /\ AdditionalCostBps(p, a) * den >= num
               /\ (AdditionalCostBps(p, a) - 1) * den < num
  <1>1. PICK pn \in Nat \ {0}, pd \in Nat \ {0}, an \in Nat, ad \in Nat \ {0} :
          SharesEquivalent(p) = [num |-> pn, den |-> pd]
            /\ SharesEquivalent(a) = [num |-> an, den |-> ad]
    <2>1. /\ p.outputRaw \in Nat /\ p.state.effective \in Nat \ {0} /\ p.state.scale \in Nat \ {0}
          /\ a.outputRaw \in Nat /\ a.state.effective \in Nat \ {0} /\ a.state.scale \in Nat \ {0}
      BY DEF QuoteIdentity, EconomicState
    <2>2. p.outputRaw * p.state.effective \in Nat /\ a.outputRaw * a.state.effective \in Nat
      BY <2>1
    <2>3. p.outputRaw * p.state.effective # 0
      BY DEF Comparable, SharesEquivalent
    <2> QED
      BY <2>1, <2>2, <2>3 DEF SharesEquivalent
  <1>2. pn * ad \in Nat \ {0} /\ (pn * ad - an * pd) * BPS \in Int
    BY DEF BPS
  <1>3. AdditionalCostBps(p, a) = CeilDiv((pn * ad - an * pd) * BPS, pn * ad)
    BY <1>1 DEF AdditionalCostBps
  <1>4. PICK num \in Int, den \in Nat \ {0} : num = (pn * ad - an * pd) * BPS /\ den = pn * ad
    BY <1>2
  <1>5. CeilDiv(num, den) \in Int /\ CeilDiv(num, den) * den >= num
        /\ (CeilDiv(num, den) - 1) * den < num
    BY CeilDivIsCeiling
  <1> QED
    BY <1>1, <1>3, <1>4, <1>5

LEMMA PreferredIsExact ==
    ASSUME NEW in, InputFits(in)
    PROVE  MayUsePreferred(in) <=>
             /\ in.preferred.source # "conflict" /\ in.preferred.state = "SAFE"
             /\ PreferredEligibility(in) = "EXECUTABLE"
  <1>1. /\ in.preferred # None
        /\ in.preferred.mint = Preferred /\ in.routes.preferred.mint = Preferred
    BY CheckConstants DEF InputFits
  <1> QED
    BY <1>1 DEF MayUsePreferred, PreferredEligibility, AvailableRoute

\* The disclosure that decide offers is one.
LEMMA OfferedIsDisclosure ==
    ASSUME NEW in, InputFits(in), RerouteOffered(in)
    PROVE  OfferedDisclosure(in) # None
  <1>1. PICK p \in QuoteIdentity, a \in QuoteIdentity :
          Comparable(p, a) /\ in.comparison = CompareQuotes(p, a)
    BY DEF InputFits, RerouteOffered, IsComparison
  <1>2. /\ in.comparison.additionalCostBps = AdditionalCostBps(p, a)
        /\ in.comparison.comparisonKey = <<p, a>>
    BY <1>1 DEF CompareQuotes
  <1>3. AdditionalCostBps(p, a) \in Int
    BY <1>1, CostIsCeiling
  <1>4. /\ Summary(in.preferred) \in RepresentationSummary
        /\ Summary(in.alternative) \in RepresentationSummary
    BY DEF InputFits, RerouteOffered, Summary, RepresentationSummary,
           ResolvedRepresentationState
  <1>5. /\ in.preferred.underlying \in STRING /\ in.preferred.reason \in Int
        /\ in.inputRaw \in Nat /\ in.maxAdditionalCostBps \in Nat
    BY CheckConstants DEF InputFits, ResolvedRepresentationState
  <1>6. PICK content : content = DisclosureContent(in.preferred, in.alternative, in.comparison,
                                   in.inputRaw, in.maxAdditionalCostBps)
    OBVIOUS
  <1>7. content \in DisclosedContent
    BY <1>2, <1>3, <1>4, <1>5, <1>6 DEF DisclosureContent, DisclosedContent
  <1>8. OfferedDisclosure(in) = [content |-> content, disclosureDigest |-> content]
    BY <1>6 DEF OfferedDisclosure, DisclosureFor
  <1>9. OfferedDisclosure(in) \in RerouteDisclosure
    BY <1>7, <1>8 DEF RerouteDisclosure
  <1> QED
    BY <1>9, CheckConstants

\* Executing a reroute is allowed only as MayReroute says.
LEMMA RerouteIsAllowed ==
    ASSUME NEW in, InputFits(in), Applies(in),
           AlternativeEligibility(in, in.consent) = "EXECUTABLE"
    PROVE  MayReroute(in)
  <1>1. PICK p \in QuoteIdentity, a \in QuoteIdentity :
          Comparable(p, a) /\ in.comparison = CompareQuotes(p, a)
    BY DEF InputFits, Applies, RerouteOffered, IsComparison
  <1>2. /\ in.comparison.additionalCostBps = AdditionalCostBps(p, a)
        /\ in.comparison.comparisonKey = <<p, a>>
        /\ in.comparison.preferredQuote = p /\ in.comparison.alternativeQuote = a
        /\ in.comparison.underlying = p.underlying
        /\ in.comparison.inputRaw = p.inputRaw
    BY <1>1 DEF CompareQuotes
  <1>3. /\ AdditionalCostBps(p, a) \in Int /\ a.outputRaw \in Nat
        /\ p.underlying = a.underlying /\ p.inputRaw = a.inputRaw
    BY <1>1, CostIsCeiling DEF QuoteIdentity, Comparable
  <1>4. /\ in.consent.maxAdditionalCostBps \in Nat /\ in.consent.expiresAtSlot \in Int
        /\ in.currentSlot \in Int /\ in.consentSpent \in BOOLEAN
        /\ in.maxAdditionalCostBps \in Nat
    BY CheckConstants DEF InputFits, Applies, ConsentFits
  <1>5. Decide(in) = DecisionResult("REQUIRES_CONSENT", "CONSENT_REQUIRED",
                                    OfferedDisclosure(in))
    BY DecideCases DEF Applies
  <1>6. Agrees(in.consent, in.consentSpent, OfferedDisclosure(in), in.comparison,
               in.maxAdditionalCostBps, in.currentSlot)
    <2>1. Decide(in).disclosure = OfferedDisclosure(in)
      BY <1>5 DEF DecisionResult
    <2> QED
      BY <1>4, <2>1, IssuesEmpty DEF Applies
  <1>7. /\ in.consent.disclosureDigest.reason = in.preferred.reason
        /\ in.consent.disclosureDigest.original = Summary(in.preferred)
        /\ in.consent.disclosureDigest.alternative = Summary(in.alternative)
    <2>1. in.consent.disclosureDigest
            = DisclosureContent(in.preferred, in.alternative, in.comparison, in.inputRaw,
                                in.maxAdditionalCostBps)
      BY <1>6 DEF Agrees, OfferedDisclosure, DisclosureFor
    <2> QED
      BY <2>1 DEF DisclosureContent
  <1>8. /\ in.alternative.econ # None /\ in.preferred.econ # None
        /\ in.routes.alternative # None
        /\ in.routes.alternative.quote = a
        /\ in.alternative.policy = in.preferred.policy /\ in.preferred.policy # None
    BY <1>2 DEF AlternativeEligibility, AvailableRoute, SameQuote
  <1>9. /\ a.state = in.alternative.econ /\ p.state = in.preferred.econ
        /\ p.underlying = in.preferred.underlying /\ p.inputRaw = in.inputRaw
        /\ a.outputRaw > 0
        /\ AdditionalCostBps(p, a) <= in.maxAdditionalCostBps
    BY <1>2, <1>3, <1>4 DEF Applies, RerouteOffered, ComparisonStateMismatch,
                            ComparisonBindingMismatch, ExceedsCostLimit
  <1>10. /\ AdditionalCostBps(p, a) <= in.consent.maxAdditionalCostBps
         /\ ~in.consentSpent /\ in.currentSlot <= in.consent.expiresAtSlot
         /\ in.consent.quoteKeys = <<p, a>>
    BY <1>2, <1>3, <1>4, <1>6 DEF Agrees
  <1>11. in.preferred.state \in {"TRANSITION", "PAUSED"}
    BY DEF Applies, RerouteOffered, InputFits, ResolvedRepresentationState, RepresentationStates
  <1> QED
    BY <1>2, <1>3, <1>7, <1>8, <1>9, <1>10, <1>11 DEF MayReroute, Applies, RerouteOffered

\* Whatever MayReroute allows is executable.
LEMMA AllowedIsRerouted ==
    ASSUME NEW in, InputFits(in), MayReroute(in)
    PROVE  Applies(in) /\ AlternativeEligibility(in, in.consent) = "EXECUTABLE"
  <1>1. PICK p \in QuoteIdentity, a \in QuoteIdentity :
          /\ p.mint = Preferred /\ a.mint = Alternative
          /\ Comparable(p, a) /\ in.comparison = CompareQuotes(p, a)
    BY DEF InputFits, MayReroute, IsComparison
  <1>2. /\ in.comparison.additionalCostBps = AdditionalCostBps(p, a)
        /\ in.comparison.comparisonKey = <<p, a>>
        /\ in.comparison.preferredQuote = p /\ in.comparison.alternativeQuote = a
        /\ in.comparison.underlying = p.underlying
        /\ in.comparison.preferredMint = Preferred
        /\ in.comparison.alternativeMint = Alternative
        /\ in.comparison.inputRaw = p.inputRaw
    BY <1>1 DEF CompareQuotes
  <1>3. /\ AdditionalCostBps(p, a) \in Int /\ a.outputRaw \in Nat
        /\ p.underlying = a.underlying /\ p.inputRaw = a.inputRaw
    BY <1>1, CostIsCeiling DEF QuoteIdentity, Comparable
  <1>4. /\ in.routes.alternative.quote = a
        /\ a.state = in.alternative.econ /\ p.state = in.preferred.econ
        /\ p.underlying = in.preferred.underlying /\ p.inputRaw = in.inputRaw
        /\ a.outputRaw > 0
        /\ AdditionalCostBps(p, a) <= in.maxAdditionalCostBps
        /\ AdditionalCostBps(p, a) <= in.consent.maxAdditionalCostBps
        /\ in.consent.quoteKeys = <<p, a>>
    BY <1>2, <1>3 DEF MayReroute
  <1>5. /\ in.consent.maxAdditionalCostBps \in Nat /\ in.consent.expiresAtSlot \in Int
        /\ in.currentSlot \in Int /\ in.consentSpent \in BOOLEAN
        /\ in.maxAdditionalCostBps \in Nat
        /\ in.preferred.mint = Preferred /\ in.alternative.mint = Alternative
        /\ in.routes.alternative.mint = Alternative
        /\ in.routes.alternative.status = "AVAILABLE"
    BY CheckConstants DEF InputFits, MayReroute, ConsentFits
  <1>6. ~ExceedsCostLimit(in.comparison, in.maxAdditionalCostBps)
    BY <1>2, <1>3, <1>4, <1>5 DEF ExceedsCostLimit
  <1>7. RerouteOffered(in)
    <2>1. ~ComparisonBindingMismatch(in.comparison, in.preferred, in.alternative, in.inputRaw)
      BY <1>2, <1>4, <1>5 DEF ComparisonBindingMismatch
    <2>2. ~ComparisonStateMismatch(in.comparison, in.preferred, in.alternative)
      BY <1>2, <1>4 DEF ComparisonStateMismatch, MayReroute
    <2> QED
      BY <1>6, <2>1, <2>2, NoneIsNoName DEF RerouteOffered, MayReroute
  <1>8. Agrees(in.consent, in.consentSpent, OfferedDisclosure(in), in.comparison,
               in.maxAdditionalCostBps, in.currentSlot)
    <2>0. PICK digest : digest = in.consent.disclosureDigest
      OBVIOUS
    <2>1. PICK q \in QuoteIdentity, b \in QuoteIdentity :
            /\ in.consent.quoteKeys = <<q, b>> /\ in.consent.comparisonKey = <<q, b>>
            /\ in.consent.trade = <<q.underlying, q.mint, b.mint, q.inputRaw>>
            /\ in.consent.additionalCostBps = AdditionalCostBps(q, b)
            /\ digest = [underlying |-> q.underlying, original |-> digest.original,
                         alternative |-> digest.alternative, reason |-> digest.reason,
                         additionalCostBps |-> AdditionalCostBps(q, b),
                         comparisonKey |-> <<q, b>>, inputRaw |-> q.inputRaw,
                         policyMax |-> PolicyMax]
      BY <2>0 DEF InputFits, MayReroute, ConsentFits
    <2>2. q = p /\ b = a
      BY <1>4, <2>1
    <2>3. digest = DisclosureContent(in.preferred, in.alternative, in.comparison, in.inputRaw,
                                     in.maxAdditionalCostBps)
      <3>1. /\ digest.reason = in.preferred.reason
            /\ digest.original = Summary(in.preferred)
            /\ digest.alternative = Summary(in.alternative)
            /\ in.maxAdditionalCostBps = PolicyMax
        BY <2>0, <2>1 DEF MayReroute, InputFits
      <3> QED
        BY <1>2, <1>4, <2>1, <2>2, <3>1 DEF DisclosureContent
    <2>4. PICK shown : shown = OfferedDisclosure(in)
      OBVIOUS
    <2>5. shown.content = digest /\ shown.disclosureDigest = digest
      BY <2>3, <2>4 DEF OfferedDisclosure, DisclosureFor
    <2>6. digest.comparisonKey = <<p, a>>
      BY <2>1, <2>2
    <2>7. ~in.consentSpent /\ ~(in.currentSlot > in.consent.expiresAtSlot)
          /\ ~(AdditionalCostBps(p, a) > in.consent.maxAdditionalCostBps)
      BY <1>3, <1>4, <1>5 DEF MayReroute
    <2> QED
      BY <1>1, <1>2, <1>6, <2>0, <2>1, <2>2, <2>4, <2>5, <2>6, <2>7 DEF Agrees
  <1>9. Applies(in)
    <2>1. Decide(in) = DecisionResult("REQUIRES_CONSENT", "CONSENT_REQUIRED",
                                      OfferedDisclosure(in))
      BY <1>7, DecideCases
    <2>2. /\ Decide(in).decision = "REQUIRES_CONSENT"
          /\ Decide(in).disclosure = OfferedDisclosure(in)
      BY <2>1 DEF DecisionResult
    <2>3. OfferedDisclosure(in) # None
      BY <1>7, OfferedIsDisclosure
    <2>4. ConsentIssues(in.consent, in.consentSpent, Decide(in), in.comparison,
                        in.maxAdditionalCostBps, in.currentSlot) = {}
      BY <1>5, <1>8, <2>2, <2>3, IssuesEmpty
    <2> QED
      BY <1>7, <2>4 DEF Applies, MayReroute
  <1>10. AlternativeEligibility(in, in.consent) = "EXECUTABLE"
    <2>1. a # None
      BY CheckConstants
    <2>2. ~(in.comparison.additionalCostBps > in.consent.maxAdditionalCostBps)
      BY <1>2, <1>3, <1>4, <1>5
    <2>3. AvailableRoute(in.routes.alternative, in.alternative) = in.routes.alternative
      BY <1>5 DEF AvailableRoute, MayReroute
    <2> QED
      BY <1>2, <1>4, <1>6, <2>1, <2>2, <2>3 DEF AlternativeEligibility, SameQuote, MayReroute
  <1> QED
    BY <1>9, <1>10

\* decideExecution against its declarative reading.
LEMMA DecisionIsExact ==
    ASSUME NEW in, InputFits(in)
    PROVE  DecideExecution(in).executionEligibility = "EXECUTABLE"
             <=> MayUsePreferred(in) \/ MayReroute(in)
  BY ExecutableCases, PreferredIsExact, RerouteIsAllowed, AllowedIsRerouted
-------------------------------------------------------------------------------
\* Only a decoded mint read at a known time has an economic state.
LEMMA EconomicStateType ==
    ASSUME NEW chain \in ChainEvidence \cup {None}
    PROVE  /\ EconomicStateOf(chain) \in EconomicState \cup {None}
           /\ EconomicStateOf(chain) # None =>
                chain # None /\ chain.kind = "decoded" /\ chain.at \in Int /\ chain.at # None
  <1>1. CASE chain = None
    BY <1>1 DEF EconomicStateOf
  <1>2. CASE chain # None /\ chain.kind = "decode-error"
    BY <1>2 DEF EconomicStateOf
  <1>3. CASE chain # None /\ chain.kind # "decode-error"
    <2>1. chain.kind = "decoded" /\ chain.at \in Int \cup {None} /\ chain.econ \in EconomicState
      BY <1>3 DEF ChainEvidence
    <2> QED
      BY <1>3, <2>1 DEF EconomicStateOf
  <1> QED
    BY <1>1, <1>2, <1>3

LEMMA ClassifiedType ==
    ASSUME NEW chain, NEW policy
    PROVE  ClassifyChainEvidence(chain, policy) \in RepresentationStates
  BY DEF ClassifyChainEvidence, RepresentationStates

\* Live API evidence that has not expired stands for its status, any other for
\* nothing or for UNKNOWN.
LEMMA ApiUse ==
    ASSUME NEW api \in ApiObservation \cup {None}, NEW at \in Int \cup {None}
    PROVE  /\ ApiEvidenceUse(api, at) \in RepresentationStates \cup {None}
           /\ ApiEvidenceUse(api, at) \in {None, "SAFE"} /\ api # None
                /\ api.sourceClass = "LIVE_API_STATE" =>
                  /\ api.status = "active"
                  /\ at # None /\ api.validUntil # None
                  /\ at <= api.validUntil
  <1>1. CASE api = None
    BY <1>1 DEF ApiEvidenceUse
  <1>2. CASE api # None
    <2>1. /\ api.status \in {"active", "paused", "transition", "unknown"}
          /\ api.sourceClass \in {"LIVE_API_STATE", "HISTORICAL_API_STATE"}
          /\ api.validUntil \in Int \cup {None}
      BY <1>2 DEF ApiObservation
    <2>2. /\ ApiStatusToState[api.status] \in {"SAFE", "PAUSED", "TRANSITION", "UNKNOWN"}
          /\ ApiStatusToState[api.status] = "SAFE" => api.status = "active"
      BY <2>1 DEF ApiStatusToState
    <2>3. CASE api.sourceClass = "HISTORICAL_API_STATE"
      BY <1>2, <2>3 DEF ApiEvidenceUse
    <2>4. CASE api.sourceClass = "LIVE_API_STATE" /\ (api.validUntil = None \/ at = None)
      BY <1>2, <2>4, NoneIsNoName DEF ApiEvidenceUse, RepresentationStates
    <2>5. CASE api.sourceClass = "LIVE_API_STATE" /\ api.validUntil # None /\ at # None
      <3>1. at \in Int /\ api.validUntil \in Int
        BY <2>1, <2>5
      <3>2. ApiEvidenceUse(api, at) =
              IF at > api.validUntil THEN "UNKNOWN" ELSE ApiStatusToState[api.status]
        BY <1>2, <2>5 DEF ApiEvidenceUse
      <3> QED
        BY <2>2, <2>5, <3>1, <3>2, NoneIsNoName DEF RepresentationStates
    <2> QED
      BY <2>1, <2>3, <2>4, <2>5
  <1> QED
    BY <1>1, <1>2

\* What an adapter resolves from evidence.
LEMMA ResolvedType ==
    ASSUME NEW e \in RepresentationEvidence, NEW state \in RepresentationStates \cup {None},
           NEW source \in StateSources \cup {None}
    PROVE  Resolved(e, state, source) \in ResolvedRepresentationState
  <1>1. /\ e.representation.underlying \in STRING /\ e.representation.mint \in Mints
        /\ e.chain \in ChainEvidence \cup {None} /\ e.policy.id \in Nat
    BY DEF RepresentationEvidence
  <1>2. PICK econ \in EconomicState \cup {None} : econ = EconomicStateOf(e.chain)
    BY <1>1, EconomicStateType
  <1>3. PICK reason \in Int : reason = ReasonTime(e.chain, e.policy)
    BY <1>1 DEF ReasonTime, ClassifyChainEvidence, ChainEvidence
  <1>4. (IF e.chain = None THEN None ELSE e.policy.id) \in Nat \cup {None}
    BY <1>1
  <1> QED
    BY <1>1, <1>2, <1>3, <1>4 DEF Resolved, ResolvedRepresentationState

\* The state of a resolved representation, and what it takes to be SAFE.
LEMMA ResolveCases ==
    ASSUME NEW e \in RepresentationEvidence
    PROVE  \E state \in RepresentationStates \cup {None}, source \in StateSources \cup {None} :
             /\ Resolve(e) = Resolved(e, state, source)
             /\ state = "SAFE" /\ e.chain # None =>
                  /\ ClassifyChainEvidence(e.chain, e.policy) = "SAFE"
                  /\ e.representation.issuer = "Ondo" =>
                       ApiEvidenceUse(e.api, e.evaluatedAt) \in {None, "SAFE"}
  <1>1. /\ e.api \in ApiObservation \cup {None} /\ e.evaluatedAt \in Int \cup {None}
        /\ e.representation.issuer \in {"xStocks", "Ondo"}
    BY DEF RepresentationEvidence
  <1>2. PICK classified \in RepresentationStates :
          classified = ClassifyChainEvidence(e.chain, e.policy)
    BY ClassifiedType
  <1>3. CASE e.representation.issuer = "xStocks"
    <2>1. Resolve(e) = Resolved(e, classified, "chain")
      BY <1>2, <1>3 DEF Resolve, ResolveXStocksState
    <2> QED
      BY <1>2, <1>3, <2>1 DEF StateSources
  <1>4. CASE e.representation.issuer = "Ondo"
    <2>1. PICK api \in RepresentationStates \cup {None} : api = ApiEvidenceUse(e.api, e.evaluatedAt)
      BY <1>1, ApiUse
    <2>2. Resolve(e) = ResolveOndoState(e)
      BY <1>4 DEF Resolve
    <2>3. classified # None
      BY NoneIsNoName DEF RepresentationStates
    <2>4. CASE e.chain = None /\ api = None
      <3>1. ResolveOndoState(e) = Resolved(e, "UNKNOWN", None)
        BY <2>1, <2>4 DEF ResolveOndoState
      <3> QED
        BY <2>2, <2>4, <3>1 DEF RepresentationStates
    <2>5. CASE e.chain # None /\ api = None
      <3>1. ResolveOndoState(e) = Resolved(e, classified, "chain")
        BY <1>2, <2>1, <2>3, <2>5 DEF ResolveOndoState
      <3> QED
        BY <1>2, <2>1, <2>2, <2>5, <3>1 DEF StateSources
    <2>6. CASE e.chain = None /\ api # None
      <3>1. ResolveOndoState(e) = Resolved(e, api, "api")
        BY <2>1, <2>6 DEF ResolveOndoState
      <3> QED
        BY <2>1, <2>2, <2>6, <3>1 DEF StateSources
    <2>7. CASE e.chain # None /\ api # None /\ classified = api
      <3>1. ResolveOndoState(e) = Resolved(e, classified, "both-agree")
        BY <1>2, <2>1, <2>3, <2>7 DEF ResolveOndoState
      <3> QED
        BY <1>2, <2>1, <2>2, <2>7, <3>1 DEF StateSources
    <2>8. CASE e.chain # None /\ api # None /\ classified # api
      <3>1. ResolveOndoState(e) = Resolved(e, None, "conflict")
        BY <1>2, <2>1, <2>3, <2>8 DEF ResolveOndoState
      <3> QED
        BY <2>2, <3>1, NoneIsNoName DEF StateSources
    <2> QED
      BY <2>4, <2>5, <2>6, <2>7, <2>8
  <1> QED
    BY <1>1, <1>3, <1>4

LEMMA ResolveType ==
    ASSUME NEW e \in RepresentationEvidence
    PROVE  /\ Resolve(e) \in ResolvedRepresentationState
           /\ Resolve(e).mint = e.representation.mint
  <1>1. PICK state \in RepresentationStates \cup {None}, source \in StateSources \cup {None} :
          Resolve(e) = Resolved(e, state, source)
    BY ResolveCases
  <1>2. Resolved(e, state, source) \in ResolvedRepresentationState
    BY ResolvedType
  <1>3. Resolved(e, state, source).mint = e.representation.mint
    BY DEF Resolved
  <1> QED
    BY <1>1, <1>2, <1>3

\* Evidence that bears the execution of a trade in its representation.
Bears(e) ==
    /\ e.chain # None
    /\ e.chain.kind = "decoded"
    /\ e.chain.at # None
    /\ e.chain.paused # TRUE
    /\ e.chain.scheduled =>
          \/ e.chain.at < e.chain.activation - e.policy.beforeSecs
          \/ e.chain.at > e.chain.activation + e.policy.afterSecs
    /\ (/\ e.representation.issuer = "Ondo"
        /\ e.api # None
        /\ e.api.sourceClass = "LIVE_API_STATE") =>
          /\ e.api.status = "active"
          /\ None \notin {e.evaluatedAt, e.api.validUntil}
          /\ e.evaluatedAt <= e.api.validUntil

\* A representation that is SAFE and has an economic state rests on such evidence.
LEMMA SafeEvidenceBears ==
    ASSUME NEW e \in RepresentationEvidence, Resolve(e).state = "SAFE", Resolve(e).econ # None
    PROVE  Bears(e)
  <1>1. PICK state \in RepresentationStates \cup {None}, source \in StateSources \cup {None} :
          /\ Resolve(e) = Resolved(e, state, source)
          /\ state = "SAFE" /\ e.chain # None =>
               /\ ClassifyChainEvidence(e.chain, e.policy) = "SAFE"
               /\ e.representation.issuer = "Ondo" =>
                    ApiEvidenceUse(e.api, e.evaluatedAt) \in {None, "SAFE"}
    BY ResolveCases
  <1>2. state = "SAFE" /\ EconomicStateOf(e.chain) # None
    BY <1>1 DEF Resolved
  <1>3. /\ e.chain \in ChainEvidence \cup {None} /\ e.api \in ApiObservation \cup {None}
        /\ e.evaluatedAt \in Int \cup {None}
        /\ e.policy.beforeSecs \in Nat /\ e.policy.afterSecs \in Nat
    BY DEF RepresentationEvidence
  <1>4. e.chain # None /\ e.chain.kind = "decoded" /\ e.chain.at \in Int /\ e.chain.at # None
    BY <1>2, <1>3, EconomicStateType
  <1>5. e.chain.activation \in Int /\ e.chain.scheduled \in BOOLEAN
    BY <1>3, <1>4 DEF ChainEvidence
  <1>6. /\ e.chain.paused # TRUE
        /\ e.chain.scheduled =>
             e.chain.at \notin e.chain.activation - e.policy.beforeSecs
                               .. e.chain.activation + e.policy.afterSecs
    BY <1>1, <1>2, <1>4 DEF ClassifyChainEvidence
  <1>7. e.chain.scheduled =>
          \/ e.chain.at < e.chain.activation - e.policy.beforeSecs
          \/ e.chain.at > e.chain.activation + e.policy.afterSecs
    BY <1>3, <1>4, <1>5, <1>6
  <1> QED
    BY <1>1, <1>2, <1>3, <1>4, <1>6, <1>7, ApiUse DEF Bears
-------------------------------------------------------------------------------
\* The two representations of an input were resolved from these evidences.
EvidenceFits(in, ev) ==
    /\ ev.preferred \in RepresentationEvidence
    /\ in.preferred = Resolve(ev.preferred)
    /\ in.alternative # None =>
         /\ ev.alternative \in RepresentationEvidence
         /\ in.alternative = Resolve(ev.alternative)

\* The inductive invariant: the last input is one the caller can present, its
\* representations come from the recorded evidence, the result is its decision,
\* and a consent the caller holds names one pair of quotes throughout.
CheckInv ==
    /\ input # None =>
         /\ InputFits(input)
         /\ EvidenceFits(input, evidence)
         /\ result = DecideExecution(input)
    /\ consent # None =>
         /\ ConsentFits(consent)
         /\ input.comparison = None \/ IsComparison(input.comparison)

\* The quote of a route is for the offered mint and the observed state.
LEMMA RouteQuote ==
    ASSUME NEW offer \in MarketOffer, NEW inputRaw \in Nat,
           NEW r \in ResolvedRepresentationState,
           RouteObservation(offer, inputRaw, r).quote # None
    PROVE  /\ RouteObservation(offer, inputRaw, r).quote \in QuoteIdentity
           /\ RouteObservation(offer, inputRaw, r).quote.mint = offer.mint
  <1>1. /\ r.econ \in EconomicState
        /\ RouteObservation(offer, inputRaw, r).quote = Quote(offer, inputRaw, r.econ)
    BY DEF RouteObservation, ResolvedRepresentationState
  <1>2. offer.mint \in Mints /\ offer.outputRaw \in Nat /\ offer.context \in Nat
    BY DEF MarketOffer
  <1>3. Underlying \in STRING /\ InputMint \in STRING
    BY CheckConstants
  <1>4. Quote(offer, inputRaw, r.econ) \in QuoteIdentity
    BY <1>1, <1>2, <1>3 DEF Quote, QuoteIdentity
  <1> QED
    BY <1>1, <1>4 DEF Quote

\* An evaluation of evidence and quotes of any kind.
LEMMA DecidesFits ==
    ASSUME NEW held, held = None \/ IsComparison(held),
           NEW recompare \in BOOLEAN,
           NEW presented, presented = None \/ ConsentFits(presented),
           NEW spent \in BOOLEAN, NEW currentSlot \in Int,
           Decides(held, recompare, presented, spent, currentSlot)
    PROVE  InputFits(input') /\ EvidenceFits(input', evidence') /\ result' = DecideExecution(input')
  <1>1. PICK evidenceP \in {e \in Evidence : e.representation.mint = Preferred},
             evidenceA \in {e \in Evidence : e.representation.mint = Alternative} \cup {None},
             offerP \in {o \in Offers : o.mint = Preferred},
             offerA \in {o \in Offers : o.mint = Alternative},
             routed \in BOOLEAN, inputRaw \in Inputs :
           LET preferred == Resolve(evidenceP)
               alternative == IF evidenceA = None THEN None ELSE Resolve(evidenceA)
               routeP == IF routed THEN RouteObservation(offerP, inputRaw, preferred)
                         ELSE Unavailable(Preferred)
               routeA == IF alternative = None THEN Unavailable(Alternative)
                         ELSE RouteObservation(offerA, inputRaw, alternative)
               next   == [preferred |-> preferred, alternative |-> alternative,
                          comparison |-> IF recompare THEN FreshComparison(routeP, routeA)
                                         ELSE held,
                          routes |-> [preferred |-> routeP, alternative |-> routeA],
                          inputRaw |-> inputRaw, maxAdditionalCostBps |-> PolicyMax,
                          consent |-> presented, consentSpent |-> spent,
                          currentSlot |-> currentSlot]
           IN  /\ input' = next
               /\ evidence' = [preferred |-> evidenceP, alternative |-> evidenceA]
               /\ result' = DecideExecution(next)
    BY Zenon DEF Decides
  <1>2. PICK preferred : preferred = Resolve(evidenceP)
    OBVIOUS
  <1>3. PICK alternative : alternative = IF evidenceA = None THEN None ELSE Resolve(evidenceA)
    OBVIOUS
  <1>4. PICK routeP : routeP = IF routed THEN RouteObservation(offerP, inputRaw, preferred)
                               ELSE Unavailable(Preferred)
    OBVIOUS
  <1>5. PICK routeA : routeA = IF alternative = None THEN Unavailable(Alternative)
                               ELSE RouteObservation(offerA, inputRaw, alternative)
    OBVIOUS
  <1>6. PICK comparison : comparison = IF recompare THEN FreshComparison(routeP, routeA) ELSE held
    OBVIOUS
  <1>7. /\ input' = [preferred |-> preferred, alternative |-> alternative,
                     comparison |-> comparison,
                     routes |-> [preferred |-> routeP, alternative |-> routeA],
                     inputRaw |-> inputRaw, maxAdditionalCostBps |-> PolicyMax,
                     consent |-> presented, consentSpent |-> spent,
                     currentSlot |-> currentSlot]
        /\ evidence' = [preferred |-> evidenceP, alternative |-> evidenceA]
        /\ result' = DecideExecution(input')
    BY <1>1, <1>2, <1>3, <1>4, <1>5, <1>6, Zenon
  <1>8. /\ evidenceP \in RepresentationEvidence /\ evidenceP.representation.mint = Preferred
        /\ evidenceA # None => /\ evidenceA \in RepresentationEvidence
                               /\ evidenceA.representation.mint = Alternative
        /\ offerP \in MarketOffer /\ offerP.mint = Preferred
        /\ offerA \in MarketOffer /\ offerA.mint = Alternative
        /\ inputRaw \in Nat
    BY CheckConstants
  <1>9. /\ preferred \in ResolvedRepresentationState /\ preferred.mint = Preferred
        /\ alternative # None => /\ alternative \in ResolvedRepresentationState
                                 /\ alternative.mint = Alternative
                                 /\ evidenceA # None /\ alternative = Resolve(evidenceA)
    BY <1>2, <1>3, <1>8, ResolveType
  <1>10. /\ routeP.mint = Preferred /\ routeA.mint = Alternative
         /\ alternative # None => routeA.status = "AVAILABLE"
    BY <1>4, <1>5, <1>8 DEF RouteObservation, Unavailable
  <1>11. comparison = None \/ IsComparison(comparison)
    <2> SUFFICES ASSUME recompare, FreshComparison(routeP, routeA) # None
                 PROVE  IsComparison(comparison)
      BY <1>6
    <2>1. /\ routeP.quote # None /\ routeA.quote # None
          /\ Comparable(routeP.quote, routeA.quote)
          /\ comparison = CompareQuotes(routeP.quote, routeA.quote)
      BY <1>6 DEF FreshComparison
    <2>2. routeP.quote \in QuoteIdentity /\ routeP.quote.mint = Preferred
      <3>1. routeP = RouteObservation(offerP, inputRaw, preferred)
        BY <1>4, <2>1 DEF Unavailable
      <3> QED
        BY <1>8, <1>9, <2>1, <3>1, RouteQuote
    <2>3. routeA.quote \in QuoteIdentity /\ routeA.quote.mint = Alternative
      <3>1. alternative # None /\ routeA = RouteObservation(offerA, inputRaw, alternative)
        BY <1>5, <2>1 DEF Unavailable
      <3> QED
        BY <1>8, <1>9, <2>1, <3>1, RouteQuote
    <2> QED
      BY <2>1, <2>2, <2>3 DEF IsComparison
  <1>12. InputFits(input')
    BY <1>7, <1>8, <1>9, <1>10, <1>11 DEF InputFits
  <1>13. EvidenceFits(input', evidence')
    BY <1>2, <1>7, <1>8, <1>9 DEF EvidenceFits
  <1> QED
    BY <1>7, <1>12, <1>13

\* The decision an evaluation reports is the one the consent was applied to.
LEMMA DecidedState ==
    ASSUME NEW in
    PROVE  DecideExecution(in).stateDecision = ApplyConsent(Decide(in), in).stateDecision
  <1>1. PICK applied : applied = ApplyConsent(Decide(in), in)
    OBVIOUS
  <1> QED
    BY <1>1, Zenon DEF DecideExecution

\* grantConsent issues a record of the disclosure that was shown.
LEMMA GrantFits ==
    ASSUME CheckInv, Grant
    PROVE  ConsentFits(consent')
  <1>1. input # None /\ InputFits(input) /\ result = DecideExecution(input)
    BY DEF Grant, CheckInv
  <1>2. PICK decision : decision = result.stateDecision
    OBVIOUS
  <1>3. PICK accepted \in AcceptedMaxes :
          consent' = ConsentRecord("consent", decision, input.comparison, accepted,
                                   input.currentSlot, ValidForSlots)
    BY <1>2 DEF Grant
  <1>4. decision = ApplyConsent(Decide(input), input).stateDecision
    BY <1>1, <1>2, DecidedState
  <1>5. decision.decision = "REQUIRES_CONSENT"
    BY <1>2 DEF Grant
  <1>6. decision = Decide(input)
    BY <1>4, <1>5, AppliedDecision
  <1>7. RerouteOffered(input)
    BY <1>5, <1>6, DecideCases
  <1>8. PICK content : content = DisclosureContent(input.preferred, input.alternative,
                                   input.comparison, input.inputRaw, input.maxAdditionalCostBps)
    OBVIOUS
  <1>9. decision.disclosure = [content |-> content, disclosureDigest |-> content]
    BY <1>6, <1>7, <1>8, DecideCases DEF DecisionResult, OfferedDisclosure, DisclosureFor
  <1>10. PICK p \in QuoteIdentity, a \in QuoteIdentity : input.comparison = CompareQuotes(p, a)
    BY <1>1, <1>7 DEF InputFits, RerouteOffered, IsComparison
  <1>11. /\ input.comparison.additionalCostBps = AdditionalCostBps(p, a)
         /\ input.comparison.comparisonKey = <<p, a>>
         /\ input.comparison.preferredQuote = p /\ input.comparison.alternativeQuote = a
         /\ input.comparison.underlying = p.underlying
         /\ input.comparison.preferredMint = p.mint
         /\ input.comparison.alternativeMint = a.mint
         /\ input.comparison.inputRaw = p.inputRaw
    BY <1>10 DEF CompareQuotes
  <1>12. /\ input.preferred.underlying = p.underlying /\ input.inputRaw = p.inputRaw
         /\ input.maxAdditionalCostBps = PolicyMax /\ input.currentSlot \in Int
    BY <1>1, <1>7, <1>11 DEF RerouteOffered, ComparisonBindingMismatch, InputFits
  <1>13. content = [underlying |-> p.underlying, original |-> content.original,
                    alternative |-> content.alternative, reason |-> content.reason,
                    additionalCostBps |-> AdditionalCostBps(p, a),
                    comparisonKey |-> <<p, a>>, inputRaw |-> p.inputRaw,
                    policyMax |-> PolicyMax]
    BY <1>8, <1>11, <1>12 DEF DisclosureContent
  <1>14. /\ consent'.comparisonKey = <<p, a>> /\ consent'.disclosureDigest = content
         /\ consent'.trade = <<p.underlying, p.mint, a.mint, p.inputRaw>>
         /\ consent'.quoteKeys = <<p, a>>
         /\ consent'.additionalCostBps = AdditionalCostBps(p, a)
         /\ consent'.maxAdditionalCostBps = accepted
         /\ consent'.expiresAtSlot = input.currentSlot + ValidForSlots
    <2>1. content.comparisonKey = <<p, a>>
      BY <1>13
    <2>2. decision.disclosure.content = content /\ decision.disclosure.disclosureDigest = content
      BY <1>9
    <2> QED
      BY <1>3, <1>11, <2>1, <2>2 DEF ConsentRecord
  <1>15. accepted \in Nat /\ input.currentSlot + ValidForSlots \in Int
    BY <1>12, CheckConstants
  <1> QED
    BY <1>13, <1>14, <1>15 DEF ConsentFits

LEMMA CheckInitInv == CheckInit => CheckInv
  BY DEF CheckInit, CheckInv

LEMMA CheckNextInv == CheckInv /\ [CheckNext]_checkVars => CheckInv'
  <1> SUFFICES ASSUME CheckInv, [CheckNext]_checkVars PROVE CheckInv'
    OBVIOUS
  <1>1. CASE Evaluate
    <2>1. Decides(None, TRUE, None, FALSE, 0) /\ UNCHANGED consent
      BY <1>1 DEF Evaluate
    <2>2. PICK recompare \in BOOLEAN, spent \in BOOLEAN, currentSlot \in Int :
            Decides(None, recompare, None, spent, currentSlot)
      <3>1. TRUE \in BOOLEAN /\ FALSE \in BOOLEAN
        OBVIOUS
      <3>2. 0 \in Int
        OBVIOUS
      <3> QED
        BY <2>1, <3>1, <3>2, Zenon
    <2>3. InputFits(input') /\ EvidenceFits(input', evidence') /\ result' = DecideExecution(input')
      BY <2>2, DecidesFits
    <2> QED
      BY <2>1, <2>3 DEF CheckInv, InputFits
  <1>2. CASE Grant
    <2>1. UNCHANGED <<input, evidence, result>>
      BY <1>2 DEF Grant
    <2>2. ConsentFits(consent')
      BY <1>2, GrantFits
    <2>3. input.comparison = None \/ IsComparison(input.comparison)
      BY <1>2 DEF Grant, CheckInv, InputFits
    <2> QED
      BY <2>1, <2>2, <2>3 DEF CheckInv
  <1>3. CASE Reevaluate
    <2>1. PICK recompare \in BOOLEAN, spent \in BOOLEAN, currentSlot \in 0 .. MaxSlot :
            Decides(input.comparison, recompare, consent, spent, currentSlot)
      BY <1>3 DEF Reevaluate
    <2>2. consent # None /\ UNCHANGED consent /\ currentSlot \in Int
      BY <1>3 DEF Reevaluate
    <2>3. (input.comparison = None \/ IsComparison(input.comparison)) /\ ConsentFits(consent)
      BY <2>2 DEF CheckInv
    <2>4. InputFits(input') /\ EvidenceFits(input', evidence') /\ result' = DecideExecution(input')
      BY <2>1, <2>2, <2>3, DecidesFits
    <2> QED
      BY <2>2, <2>3, <2>4 DEF CheckInv, InputFits
  <1>4. CASE UNCHANGED checkVars
    BY <1>4 DEF checkVars, CheckInv
  <1> QED
    BY <1>1, <1>2, <1>3, <1>4 DEF CheckNext

LEMMA CheckInvHolds == CheckSpec => []CheckInv
  BY CheckInitInv, CheckNextInv, PTL DEF CheckSpec

\* decideExecution, for every evidence, quote, policy and consent the caller may
\* present, is exactly its declarative reading.
THEOREM ExactEligibility == CheckSpec => []EligibilityIsExact
  <1>1. CheckInv => EligibilityIsExact
    BY DecisionIsExact DEF CheckInv, EligibilityIsExact
  <1> QED
    BY <1>1, CheckInvHolds, PTL

\* For every evidence: a trade is executable only on a decoded, unpaused mint
\* outside its protection interval, with valid API evidence where that counts.
THEOREM ExecutionRestsOnEvidence == CheckSpec => []EvidenceBearsExecution
  <1>1. CheckInv => EvidenceBearsExecution
    <2> SUFFICES ASSUME CheckInv, input # None, result.executionEligibility = "EXECUTABLE"
                 PROVE  Bears(IF result.selected = Preferred THEN evidence.preferred
                              ELSE evidence.alternative)
      BY DEF EvidenceBearsExecution, Bears
    <2>1. /\ InputFits(input) /\ EvidenceFits(input, evidence)
          /\ result = DecideExecution(input)
      BY DEF CheckInv
    <2>2. CASE MayUsePreferred(input)
      <3>1. input.preferred.state = "SAFE" /\ input.preferred.source # "conflict"
            /\ input.preferred.econ # None
        BY <2>2 DEF MayUsePreferred
      <3>2. result.selected = Preferred
        BY <2>1, <3>1, ExecutableCases DEF InputFits
      <3> QED
        BY <2>1, <3>1, <3>2, SafeEvidenceBears DEF EvidenceFits
    <2>3. CASE ~MayUsePreferred(input)
      <3>1. Applies(input) /\ AlternativeEligibility(input, input.consent) = "EXECUTABLE"
        BY <2>1, <2>3, ExecutableCases, PreferredIsExact
      <3>2. /\ input.alternative # None /\ input.alternative.state = "SAFE"
            /\ input.alternative.mint # input.preferred.mint
        BY <3>1 DEF Applies, RerouteOffered
      <3>3. input.alternative.econ # None
        BY <3>1 DEF AlternativeEligibility
      <3>4. result.selected # Preferred
        BY <2>1, <3>1, <3>2, ExecutableCases DEF InputFits
      <3> QED
        BY <2>1, <3>2, <3>3, <3>4, SafeEvidenceBears DEF EvidenceFits
    <2> QED
      BY <2>2, <2>3
  <1> QED
    BY <1>1, CheckInvHolds, PTL

\* For every pair of quotes: the disclosed cost of switching is the exact
\* difference in shares, rounded up.
THEOREM ExactDisclosedCost == CheckSpec => []DisclosedCostIsExact
  <1>1. CheckInv => DisclosedCostIsExact
    <2> SUFFICES ASSUME CheckInv, input # None, input.comparison # None
                 PROVE  LET comparison == input.comparison
                            p   == SharesEquivalent(comparison.preferredQuote)
                            a   == SharesEquivalent(comparison.alternativeQuote)
                            num == (p.num * a.den - a.num * p.den) * BPS
                            den == p.num * a.den
                        IN  /\ comparison.additionalCostBps * den >= num
                            /\ (comparison.additionalCostBps - 1) * den < num
      BY DEF DisclosedCostIsExact
    <2>1. PICK p \in QuoteIdentity, a \in QuoteIdentity :
            Comparable(p, a) /\ input.comparison = CompareQuotes(p, a)
      BY DEF CheckInv, InputFits, IsComparison
    <2>2. /\ input.comparison.additionalCostBps = AdditionalCostBps(p, a)
          /\ input.comparison.preferredQuote = p /\ input.comparison.alternativeQuote = a
      BY <2>1 DEF CompareQuotes
    <2> QED
      BY <2>1, <2>2, CostIsCeiling
  <1> QED
    BY <1>1, CheckInvHolds, PTL
-------------------------------------------------------------------------------

\* guard.rs: an accepted request is for the very state the mint holds.
LEMMA AcceptedStateIsExpected ==
    ASSUME NEW req \in AssertSafeExecution, NEW actual \in ProtectedState,
           NEW now \in Timestamps, Check(req, actual, now) = "Ok"
    PROVE  /\ actual = req.expected
           /\ HasScheduledChange(actual) =>
                /\ ~WindowContains(req.window, actual.effectiveTimestamp, now)
                /\ PhaseAt(actual, now) = req.expectedPhase
  <1>1. /\ actual.multiplier = req.expected.multiplier
        /\ actual.newMultiplier = req.expected.newMultiplier
        /\ actual.effectiveTimestamp = req.expected.effectiveTimestamp
    BY DEF Check
  <1>2. actual = req.expected
    BY <1>1 DEF AssertSafeExecution, ProtectedState
  <1> QED
    BY <1>2 DEF Check

LEMMA TimestampsAreIntegers == Timestamps \subseteq Int
  BY GuardConstants

\* The payload built from a snapshot is encodable.
LEMMA ExpectationType ==
    ASSUME NEW state \in ProtectedState, NEW now, NEW window \in ProtectionWindow
    PROVE  ExpectationFromSnapshot(state, now, window) \in AssertSafeExecution
  BY DEF ExpectationFromSnapshot, AssertSafeExecution, PhaseAt, Phases
-------------------------------------------------------------------------------

Assets == {Preferred, Alternative}

Fields == {"pc", "kind", "asset", "now", "T", "seen", "request", "expected", "plan", "tx",
           "checkedAt", "got", "reported"}

TxFields == {"mint", "updates", "request", "outcome", "landedAt", "landedOn"}

Update == [multiplier : Multipliers, at : Timestamps]

IsUpdates(updates) ==
    \/ updates = <<>>
    \/ \E u \in Update : updates = <<u>>
    \/ \E u \in Update, v \in Update : updates = <<u, v>>

DemoSteps ==
    {"snapshot", "reset preferred", "reset alternative", "verify preferred",
     "verify alternative", "observe preferred", "observe alternative", "probe", "probing",
     "execute", "executing"}

TransitionSteps ==
    {"transition", "scheduling", "before window", "inside window", "after window", "activated"}

\* Which command a tool runs, by the step it is at.
KindFits(r) ==
    \/ r.pc \in {"idle", "ended"}
    \/ r.pc \in DemoSteps /\ r.kind = "demo"
    \/ r.pc = "scheduled" /\ r.kind = "schedule"
    \/ r.pc = "safe" /\ r.kind = "safe" /\ r.asset \in Assets
    \/ r.pc \in {"stale", "updated", "stale retry"} /\ r.kind = "stale" /\ r.asset \in Assets
    \/ r.pc \in TransitionSteps /\ r.kind = "transition" /\ r.asset \in Assets
    \/ /\ r.pc = "transferring" /\ r.asset \in Assets
       /\ \/ r.kind = "safe" /\ r.expected.step = "safe"
          \/ r.kind = "stale" /\ r.expected.step \in {"stale", "retry"}
          \/ r.kind = "transition" /\ r.expected.step \in {"before", "inside", "after", "fresh"}

TxFits(r) ==
    /\ r.pc \in Awaits =>
         DOMAIN r.tx = TxFields /\ r.tx.mint \in Assets /\ IsUpdates(r.tx.updates)
    /\ r.pc \in {"reset preferred", "reset alternative"} =>
         r.tx.request = None /\ r.tx.landedOn = None
    /\ r.pc = "reset preferred" => r.now \in 0 .. MaxClock

\* Observation of a mint in a state at a time.
ObservationOf(m, state, at) ==
    [kind |-> "decoded", at |-> at, paused |-> FALSE,
     scheduled |-> HasScheduledChange(state), activation |-> state.effectiveTimestamp,
     econ |-> [mint |-> m, scale |-> MultiplierScale,
               effective |-> EffectiveMultiplier(state, at),
               stored |-> [state |-> state, phase |-> PhaseAt(state, at)]]]

\* What a demo holds of the preferred asset was observed.
SeenFits(r, now) ==
    r.pc \in {"observe alternative", "probe", "probing"} =>
        /\ r.seen = ObservationOf(Preferred, r.seen.econ.stored.state, r.seen.at)
        /\ r.seen.econ.stored.state \in ProtectedState
        /\ r.seen.at \in Timestamps /\ r.seen.at <= now

\* An economic state carries the multiplier that its stored state has in its phase.
IsBound(econ) ==
    /\ econ.stored.state \in ProtectedState /\ econ.stored.phase \in Phases
    /\ econ.effective = IF econ.stored.phase = "Activated" THEN econ.stored.state.newMultiplier
                        ELSE econ.stored.state.multiplier

PlanFits(r) ==
    /\ r.pc \in {"probe", "probing", "execute", "executing"} =>
         r.plan.mint \in Assets /\ IsBound(r.plan.state)
    /\ r.pc = "executing" =>
         r.tx.request = BoundRequest(r.plan.state) /\ r.tx.mint = r.plan.mint

\* A probe is of a change whose window had opened when it was observed.
ProbeFits(r) ==
    /\ r.pc \in {"probe", "probing"} =>
         r.seen.scheduled /\ r.seen.activation - DemoPolicy.beforeSecs <= r.seen.at
    /\ r.pc = "probing" => r.tx.request = BoundRequest(r.seen.econ) /\ r.tx.mint = Preferred

\* What a delivery of a demo run was: history once the run has ended.
IsDelivery(r, tx) ==
    /\ tx.mint # r.plan.mint => tx.request.expectedPhase = "Activated"
    /\ r.reported = TRUE \/ r.pc = "executing" =>
         /\ tx.mint = r.plan.mint
         /\ EffectiveMultiplier(tx.landedOn, tx.landedAt) = r.plan.state.effective
    /\ r.pc # "ended" => r.tx = tx /\ tx.outcome = "Ok"

GotFits(r) ==
    \/ /\ r.got = <<>> /\ r.reported = FALSE
       /\ r.pc \in {"probing", "executing"} => r.tx.outcome # "Ok"
    \/ /\ r.got = <<r.got[1]>> /\ IsDelivery(r, r.got[1])
       /\ r.reported \in BOOLEAN
       /\ r.pc \in {"probing", "executing", "ended"}
       /\ r.reported = TRUE => r.pc = "ended"

\* The transition scenario: its T and the pending request it replays.
PendingFits(r, now) ==
    /\ r.kind = "transition" /\ r.pc \notin {"idle", "ended", "transition"} =>
         r.T \in ScenarioLead .. MaxClock + ScenarioLead
    /\ r.kind = "transition"
       /\ r.pc \notin {"idle", "ended", "transition", "scheduling"} =>
         /\ r.request \in AssertSafeExecution
         /\ HasScheduledChange(r.request.expected)
         /\ r.request.expectedPhase = "Pending"
         /\ r.request.window = ScenarioWindow
    /\ r.pc = "activated" => now >= r.T + ScenarioWindow.afterSecs + LandingMargin

\* A scheduled change of that time or earlier is the one of the request.
SameChange(request, state, at) ==
    HasScheduledChange(state) /\ state.effectiveTimestamp <= at => state = request.expected

\* A transfer of the transition scenario: when the Clock was read for it, and what
\* it has to answer.
StepFits(r, now, state) ==
    r.kind = "transition" /\ r.pc = "transferring" =>
        /\ r.checkedAt \in Int /\ r.checkedAt <= now
        /\ r.tx.request \in AssertSafeExecution
        /\ r.tx.mint = r.asset
        /\ r.expected.step \in {"before", "inside", "after"} => r.tx.request = r.request
        /\ r.expected.step = "before" =>
             /\ r.expected.result = "Ok"
             /\ r.checkedAt <= r.T - ScenarioWindow.beforeSecs - LandingMargin
        /\ r.expected.step = "inside" =>
             /\ r.expected.result = "InsideTransitionWindow"
             /\ r.checkedAt >= r.T - ScenarioWindow.beforeSecs + 1
        /\ r.expected.step = "after" => r.expected.result = "ActivationPhaseChanged"
        /\ r.expected.step \in {"after", "fresh"} =>
             r.checkedAt >= r.T + ScenarioWindow.afterSecs + LandingMargin
        /\ r.expected.step = "fresh" =>
             /\ r.expected.result = "Ok"
             /\ r.tx.request.expectedPhase = "Activated"
             /\ r.tx.request.window = ScenarioWindow
             /\ SameChange(r.tx.request,
                           IF r.tx.outcome = None THEN state[r.asset] ELSE r.tx.landedOn,
                           r.checkedAt)
        /\ r.tx.outcome # None =>
             /\ r.tx.outcome = Check(r.tx.request, r.tx.landedOn, r.tx.landedAt)
             /\ r.tx.landedOn \in ProtectedState
             /\ r.tx.landedAt \in Timestamps /\ r.tx.landedAt >= r.checkedAt

\* What a tool holds, at a chain time and in a state of the mints.
Fits(r, now, state) ==
    /\ DOMAIN r = Fields
    /\ KindFits(r)
    /\ TxFits(r)
    /\ SeenFits(r, now)
    /\ PlanFits(r)
    /\ ProbeFits(r)
    /\ GotFits(r)
    /\ PendingFits(r, now)
    /\ StepFits(r, now, state)

IInv ==
    /\ clock \in 0 .. MaxClock
    /\ mint \in [Assets -> ProtectedState]
    /\ DOMAIN tool = Tools
    /\ \A t \in Tools : Fits(tool[t], clock, mint)
-------------------------------------------------------------------------------
\* Constants and operators.

LEMMA ChainTimes ==
    ASSUME NEW now \in 0 .. MaxClock, NEW lead \in Leads, lead \in Nat
    PROVE  now + lead \in Timestamps
  BY ToolConstants

LEMMA ChainTime ==
    ASSUME NEW now \in 0 .. MaxClock
    PROVE  now \in Timestamps /\ now \in Int
  BY ChainTimes, ToolConstants DEF Leads

LEMMA UpdateTxFields ==
    ASSUME NEW m, NEW updates, NEW tx, tx = UpdateTx(m, updates)
    PROVE  /\ DOMAIN tx = TxFields /\ tx.mint = m /\ tx.updates = updates
           /\ tx.request = None /\ tx.outcome = None /\ tx.landedOn = None
  BY DEF UpdateTx, TxFields

LEMMA GuardedTxFields ==
    ASSUME NEW m, NEW request, NEW tx, tx = GuardedTx(m, request)
    PROVE  /\ DOMAIN tx = TxFields /\ tx.mint = m /\ IsUpdates(tx.updates)
           /\ tx.request = request /\ tx.outcome = None /\ tx.landedOn = None
  BY DEF GuardedTx, TxFields, IsUpdates

LEMMA UpdateType ==
    ASSUME NEW m \in Multipliers, NEW at \in Timestamps
    PROVE  [multiplier |-> m, at |-> at] \in Update
  BY DEF Update

\* What is scheduled after an update lands is dated later.
LEMMA ScheduleMultiplierFits ==
    ASSUME NEW state \in ProtectedState, NEW u \in Update, clock \in Int
    PROVE  /\ ScheduleMultiplier(state, u) \in ProtectedState
           /\ HasScheduledChange(ScheduleMultiplier(state, u)) =>
                ScheduleMultiplier(state, u).effectiveTimestamp > clock
  <1>1. u.multiplier \in Multipliers /\ u.at \in Timestamps /\ u.at \in Int
    BY TimestampsAreIntegers DEF Update
  <1>2. state.multiplier \in Multipliers
    BY DEF ProtectedState
  <1>3. ScheduleMultiplier(state, u) \in ProtectedState
    BY <1>1, <1>2 DEF ScheduleMultiplier, ProtectedState
  <1>4. HasScheduledChange(ScheduleMultiplier(state, u)) => u.at > clock
    BY <1>1 DEF ScheduleMultiplier, HasScheduledChange
  <1> QED
    BY <1>3, <1>4 DEF ScheduleMultiplier

LEMMA ApplyUpdatesFits ==
    ASSUME NEW state \in ProtectedState, NEW updates, IsUpdates(updates), clock \in Int
    PROVE  /\ ApplyUpdates(state, updates) \in ProtectedState
           /\ \/ ApplyUpdates(state, updates) = state
              \/ HasScheduledChange(ApplyUpdates(state, updates)) =>
                   ApplyUpdates(state, updates).effectiveTimestamp > clock
  <1>1. CASE updates = <<>>
    BY <1>1 DEF ApplyUpdates
  <1>2. ASSUME NEW u \in Update, updates = <<u>>
        PROVE  ApplyUpdates(state, updates) = ScheduleMultiplier(state, u)
    BY <1>2 DEF ApplyUpdates
  <1>3. ASSUME NEW u \in Update, NEW v \in Update, updates = <<u, v>>
        PROVE  ApplyUpdates(state, updates)
                 = ScheduleMultiplier(ScheduleMultiplier(state, u), v)
    BY <1>3 DEF ApplyUpdates
  <1>4. ASSUME NEW u \in Update, updates = <<u>>
        PROVE  /\ ApplyUpdates(state, updates) \in ProtectedState
               /\ HasScheduledChange(ApplyUpdates(state, updates)) =>
                    ApplyUpdates(state, updates).effectiveTimestamp > clock
    BY <1>2, <1>4, ScheduleMultiplierFits
  <1>5. ASSUME NEW u \in Update, NEW v \in Update, updates = <<u, v>>
        PROVE  /\ ApplyUpdates(state, updates) \in ProtectedState
               /\ HasScheduledChange(ApplyUpdates(state, updates)) =>
                    ApplyUpdates(state, updates).effectiveTimestamp > clock
    <2>1. PICK first : first = ScheduleMultiplier(state, u)
      OBVIOUS
    <2>2. first \in ProtectedState
      BY <2>1, ScheduleMultiplierFits
    <2>3. ApplyUpdates(state, updates) = ScheduleMultiplier(first, v)
      BY <1>3, <1>5, <2>1
    <2> QED
      BY <2>2, <2>3, ScheduleMultiplierFits
  <1> QED
    BY <1>1, <1>4, <1>5 DEF IsUpdates
-------------------------------------------------------------------------------
\* How a tool's record changes.

LEMMA InitIInv == Init => IInv
  <1> SUFFICES ASSUME Init PROVE IInv
    OBVIOUS
  <1>1. clock \in 0 .. MaxClock
    BY ToolConstants DEF Init
  <1>2. 0 \in Timestamps
    BY ChainTime, ToolConstants
  <1>3. mint \in [Assets -> ProtectedState]
    <2>1. [multiplier |-> InitialMultiplier, newMultiplier |-> InitialMultiplier,
           effectiveTimestamp |-> 0] \in ProtectedState
      BY <1>2, ToolConstants DEF ProtectedState
    <2> QED
      BY <2>1 DEF Init, Assets
  <1>4. PICK idle : idle = Idle
    OBVIOUS
  <1>5. /\ DOMAIN idle = Fields /\ idle.pc = "idle" /\ idle.kind = None /\ idle.got = <<>>
        /\ idle.reported = FALSE
    BY <1>4 DEF Idle, Fields
  <1>6. Fits(idle, clock, mint)
    BY <1>5 DEF Fits, KindFits, TxFits, SeenFits, PlanFits, ProbeFits, GotFits, PendingFits,
       StepFits, Awaits
  <1>7. DOMAIN tool = Tools /\ \A t \in Tools : tool[t] = idle
    BY <1>4 DEF Init
  <1> QED
    BY <1>1, <1>3, <1>6, <1>7 DEF IInv

\* A step of one tool that lands nothing.
LEMMA BecomesFits ==
    ASSUME IInv, NEW t \in Tools, NEW new, Becomes(t, new), Fits(new, clock, mint)
    PROVE  IInv'
  <1>1. /\ tool' = [tool EXCEPT ![t] = new] /\ clock' = clock /\ mint' = mint
    BY DEF Becomes
  <1>2. /\ DOMAIN tool' = Tools /\ tool'[t] = new
        /\ \A u \in Tools \ {t} : tool'[u] = tool[u]
    BY <1>1 DEF IInv
  <1>3. \A u \in Tools : Fits(tool'[u], clock, mint)
    BY <1>2 DEF IInv
  <1> QED
    BY <1>1, <1>2, <1>3 DEF IInv

\* A step at which nothing read earlier is used again.
LEMMA PlainFits ==
    ASSUME NEW r, NEW now, NEW state, DOMAIN r = Fields, KindFits(r), TxFits(r),
           r.got = <<>>, r.reported = FALSE,
           r.pc \notin {"observe alternative", "probe", "probing", "execute", "executing",
                        "activated"},
           r.kind # "transition" \/ r.pc = "transition"
    PROVE  Fits(r, now, state)
  BY DEF Fits, SeenFits, PlanFits, ProbeFits, GotFits, PendingFits, StepFits

\* A tool that has delivered nothing.
LEMMA NothingGot ==
    ASSUME NEW r, NEW now, NEW state, Fits(r, now, state),
           r.pc \notin {"probing", "executing", "ended"}
    PROVE  r.got = <<>> /\ r.reported = FALSE
  BY DEF Fits, GotFits

LEMMA EndedFits ==
    ASSUME IInv, NEW t \in Tools, tool[t].pc # "ended"
    PROVE  /\ Fits(Ended(t), clock, mint)
           /\ Ended(t).reported = FALSE
  <1>1. PICK r : r = tool[t] /\ Fits(r, clock, mint)
    BY DEF IInv
  <1>2. PICK e : e = Ended(t)
    OBVIOUS
  <1>3. CASE r.got = <<>>
    <2>1. e = [Idle EXCEPT !.pc = "ended"]
      BY <1>1, <1>2, <1>3 DEF Ended
    <2>2. /\ DOMAIN e = Fields /\ e.pc = "ended" /\ e.kind = None
          /\ e.got = <<>> /\ e.reported = FALSE
      BY <2>1 DEF Idle, Fields
    <2>3. KindFits(e) /\ TxFits(e) /\ GotFits(e)
      BY <2>2 DEF KindFits, TxFits, GotFits, Awaits
    <2> QED
      BY <1>2, <2>2, <2>3 DEF Fits, SeenFits, PlanFits, ProbeFits, PendingFits, StepFits
  <1>4. CASE r.got # <<>>
    <2>1. e = [Idle EXCEPT !.pc = "ended", !.kind = r.kind, !.plan = r.plan, !.got = r.got]
      BY <1>1, <1>2, <1>4 DEF Ended
    <2>2. /\ DOMAIN e = Fields /\ e.pc = "ended" /\ e.plan = r.plan
          /\ e.got = r.got /\ e.reported = FALSE
      BY <2>1 DEF Idle, Fields
    <2>3. r.got = <<r.got[1]>> /\ IsDelivery(r, r.got[1])
      BY <1>1, <1>4 DEF Fits, GotFits
    <2>4. KindFits(e) /\ TxFits(e)
      BY <2>2 DEF KindFits, TxFits, Awaits
    <2>5. GotFits(e)
      BY <2>2, <2>3 DEF GotFits, IsDelivery
    <2> QED
      BY <1>2, <2>2, <2>4, <2>5 DEF Fits, SeenFits, PlanFits, ProbeFits, PendingFits, StepFits
  <1> QED
    BY <1>3, <1>4

LEMMA EndKeepsIInv ==
    ASSUME IInv, NEW t \in Tools, tool[t].pc # "ended", Becomes(t, Ended(t))
    PROVE  IInv'
  BY EndedFits, BecomesFits
-------------------------------------------------------------------------------
\* The demo run.

LEMMA StartDemoFits ==
    ASSUME IInv, NEW t \in Tools, StartDemo(t)
    PROVE  IInv'
  <1>1. PICK r : r = tool[t] /\ Fits(r, clock, mint)
    BY DEF IInv
  <1>2. PICK new : new = [r EXCEPT !.pc = "snapshot", !.kind = "demo"]
    OBVIOUS
  <1>3. r.pc = "idle" /\ DOMAIN r = Fields /\ Becomes(t, new)
    BY <1>1, <1>2 DEF StartDemo, Fits
  <1>4. r.got = <<>> /\ r.reported = FALSE
    BY <1>1, <1>3, NothingGot
  <1>5. /\ DOMAIN new = Fields /\ new.pc = "snapshot" /\ new.kind = "demo"
        /\ new.got = <<>> /\ new.reported = FALSE
    BY <1>2, <1>3, <1>4 DEF Fields
  <1>6. KindFits(new) /\ TxFits(new)
    BY <1>5 DEF KindFits, TxFits, DemoSteps, Awaits
  <1>7. Fits(new, clock, mint)
    BY <1>5, <1>6, PlainFits
  <1> QED
    BY <1>3, <1>7, BecomesFits

LEMMA PreferredUpdatesType ==
    ASSUME NEW now \in 0 .. MaxClock
    PROVE  IsUpdates(PreferredUpdates(now))
  <1>1. now \in Timestamps /\ now + TransitionLead \in Timestamps
    BY ChainTime, ChainTimes, ToolConstants DEF Leads
  <1>2. /\ [multiplier |-> Target.effective, at |-> now] \in Update
        /\ [multiplier |-> Target.scheduled, at |-> now + TransitionLead] \in Update
    BY <1>1, UpdateType, ToolConstants
  <1> QED
    BY <1>2 DEF PreferredUpdates, ScheduledTimestamp, IsUpdates

LEMMA ResetPreferredFits ==
    ASSUME IInv, NEW t \in Tools, ResetPreferred(t)
    PROVE  IInv'
  <1>1. PICK r : r = tool[t] /\ Fits(r, clock, mint)
    BY DEF IInv
  <1>2. PICK tx : tx = UpdateTx(Preferred, PreferredUpdates(clock))
    OBVIOUS
  <1>3. PICK new : new = [[r EXCEPT !.pc = "reset preferred", !.tx = tx]
                            EXCEPT !.now = clock, !.seen = mint[Alternative]]
    OBVIOUS
  <1>4. r.pc = "snapshot" /\ DOMAIN r = Fields /\ Becomes(t, new)
    BY <1>1, <1>2, <1>3 DEF ResetPreferred, Fits, Sends
  <1>5. r.got = <<>> /\ r.reported = FALSE /\ r.kind = "demo"
    BY <1>1, <1>4, NothingGot DEF Fits, KindFits, DemoSteps, TransitionSteps
  <1>6. /\ DOMAIN new = Fields /\ new.pc = "reset preferred" /\ new.kind = "demo"
        /\ new.got = <<>> /\ new.reported = FALSE /\ new.tx = tx /\ new.now = clock
    BY <1>3, <1>4, <1>5 DEF Fields
  <1>7. clock \in 0 .. MaxClock /\ IsUpdates(PreferredUpdates(clock))
    BY PreferredUpdatesType DEF IInv
  <1>8. /\ DOMAIN tx = TxFields /\ tx.mint \in Assets /\ IsUpdates(tx.updates)
        /\ tx.request = None /\ tx.landedOn = None
    BY <1>2, <1>7, UpdateTxFields DEF Assets
  <1>9. KindFits(new) /\ TxFits(new)
    BY <1>6, <1>7, <1>8 DEF KindFits, TxFits, DemoSteps
  <1>10. Fits(new, clock, mint)
    BY <1>6, <1>9, PlainFits
  <1> QED
    BY <1>4, <1>10, BecomesFits

LEMMA ResetAlternativeFits ==
    ASSUME IInv, NEW t \in Tools, ResetAlternative(t)
    PROVE  IInv'
  <1>1. PICK r : r = tool[t] /\ Fits(r, clock, mint)
    BY DEF IInv
  <1>2. r.pc = "reset preferred" /\ DOMAIN r = Fields
    BY <1>1 DEF ResetAlternative, Confirmed, Fits
  <1>3. r.got = <<>> /\ r.reported = FALSE /\ r.kind = "demo" /\ r.now \in 0 .. MaxClock
    BY <1>1, <1>2, NothingGot DEF Fits, KindFits, TxFits, DemoSteps, TransitionSteps
  <1>4. PICK tx : tx = UpdateTx(Alternative, <<[multiplier |-> Target.alternative,
                                               at |-> r.now]>>)
    OBVIOUS
  <1>5. /\ DOMAIN tx = TxFields /\ tx.mint \in Assets /\ IsUpdates(tx.updates)
        /\ tx.request = None /\ tx.landedOn = None
    <2>1. [multiplier |-> Target.alternative, at |-> r.now] \in Update
      BY <1>3, ChainTime, UpdateType, ToolConstants
    <2>2. IsUpdates(<<[multiplier |-> Target.alternative, at |-> r.now]>>)
      BY <2>1 DEF IsUpdates
    <2> QED
      BY <1>4, <2>2, UpdateTxFields DEF Assets
  <1>6. PICK read : read = [r EXCEPT !.pc = "verify preferred", !.seen = None, !.tx = None]
    OBVIOUS
  <1>7. PICK sent : sent = [[r EXCEPT !.pc = "reset alternative", !.tx = tx]
                              EXCEPT !.seen = None]
    OBVIOUS
  <1>8. Becomes(t, read) \/ Becomes(t, sent)
    BY <1>1, <1>4, <1>6, <1>7 DEF ResetAlternative, Sends
  <1>9. /\ DOMAIN read = Fields /\ read.pc = "verify preferred" /\ read.kind = "demo"
        /\ read.got = <<>> /\ read.reported = FALSE
    BY <1>2, <1>3, <1>6 DEF Fields
  <1>10. /\ DOMAIN sent = Fields /\ sent.pc = "reset alternative" /\ sent.kind = "demo"
         /\ sent.got = <<>> /\ sent.reported = FALSE /\ sent.tx = tx
    BY <1>2, <1>3, <1>7 DEF Fields
  <1>11. KindFits(read) /\ TxFits(read)
    BY <1>9 DEF KindFits, TxFits, DemoSteps, Awaits
  <1>12. KindFits(sent) /\ TxFits(sent)
    BY <1>5, <1>10 DEF KindFits, TxFits, DemoSteps
  <1>13. Fits(read, clock, mint)
    BY <1>9, <1>11, PlainFits
  <1>14. Fits(sent, clock, mint)
    BY <1>10, <1>12, PlainFits
  <1> QED
    BY <1>8, <1>13, <1>14, BecomesFits

LEMMA ResetConfirmedFits ==
    ASSUME IInv, NEW t \in Tools, ResetConfirmed(t)
    PROVE  IInv'
  <1>1. PICK r : r = tool[t] /\ Fits(r, clock, mint)
    BY DEF IInv
  <1>2. PICK new : new = [r EXCEPT !.pc = "verify preferred", !.tx = None]
    OBVIOUS
  <1>3. r.pc = "reset alternative" /\ DOMAIN r = Fields /\ Becomes(t, new)
    BY <1>1, <1>2 DEF ResetConfirmed, Confirmed, Fits
  <1>4. r.got = <<>> /\ r.reported = FALSE /\ r.kind = "demo"
    BY <1>1, <1>3, NothingGot DEF Fits, KindFits, DemoSteps, TransitionSteps
  <1>5. /\ DOMAIN new = Fields /\ new.pc = "verify preferred" /\ new.kind = "demo"
        /\ new.got = <<>> /\ new.reported = FALSE
    BY <1>2, <1>3, <1>4 DEF Fields
  <1>6. KindFits(new) /\ TxFits(new)
    BY <1>5 DEF KindFits, TxFits, DemoSteps, Awaits
  <1>7. Fits(new, clock, mint)
    BY <1>5, <1>6, PlainFits
  <1> QED
    BY <1>3, <1>7, BecomesFits

LEMMA VerifyFits ==
    ASSUME IInv, NEW t \in Tools, VerifyPreferred(t) \/ VerifyAlternative(t)
    PROVE  IInv'
  <1>1. PICK r : r = tool[t] /\ Fits(r, clock, mint)
    BY DEF IInv
  <1>2. PICK p : p = [r EXCEPT !.pc = "verify alternative", !.now = None]
    OBVIOUS
  <1>3. PICK a : a = [r EXCEPT !.pc = "observe preferred"]
    OBVIOUS
  <1>4. /\ r.pc \in {"verify preferred", "verify alternative"} /\ DOMAIN r = Fields
        /\ Becomes(t, p) \/ Becomes(t, a) \/ Becomes(t, Ended(t))
    BY <1>1, <1>2, <1>3 DEF VerifyPreferred, VerifyAlternative, Fits
  <1>5. r.got = <<>> /\ r.reported = FALSE /\ r.kind = "demo"
    BY <1>1, <1>4, NothingGot DEF Fits, KindFits, DemoSteps, TransitionSteps
  <1>6. /\ DOMAIN p = Fields /\ p.pc = "verify alternative" /\ p.kind = "demo"
        /\ p.got = <<>> /\ p.reported = FALSE
    BY <1>2, <1>4, <1>5 DEF Fields
  <1>7. /\ DOMAIN a = Fields /\ a.pc = "observe preferred" /\ a.kind = "demo"
        /\ a.got = <<>> /\ a.reported = FALSE
    BY <1>3, <1>4, <1>5 DEF Fields
  <1>8. KindFits(p) /\ TxFits(p) /\ KindFits(a) /\ TxFits(a)
    BY <1>6, <1>7 DEF KindFits, TxFits, DemoSteps, Awaits
  <1>9. Fits(p, clock, mint) /\ Fits(a, clock, mint)
    BY <1>6, <1>7, <1>8, PlainFits
  <1>10. tool[t].pc # "ended"
    BY <1>1, <1>4
  <1> QED
    BY <1>4, <1>9, <1>10, BecomesFits, EndKeepsIInv

LEMMA ObservePreferredFits ==
    ASSUME IInv, NEW t \in Tools, ObservePreferred(t)
    PROVE  IInv'
  <1>1. PICK r : r = tool[t] /\ Fits(r, clock, mint)
    BY DEF IInv
  <1>2. PICK seen : seen = Observation(Preferred)
    OBVIOUS
  <1>3. PICK new : new = [r EXCEPT !.pc = "observe alternative", !.seen = seen]
    OBVIOUS
  <1>4. r.pc = "observe preferred" /\ DOMAIN r = Fields /\ Becomes(t, new)
    BY <1>1, <1>2, <1>3 DEF ObservePreferred, Fits
  <1>5. r.got = <<>> /\ r.reported = FALSE /\ r.kind = "demo"
    BY <1>1, <1>4, NothingGot DEF Fits, KindFits, DemoSteps, TransitionSteps
  <1>6. /\ DOMAIN new = Fields /\ new.pc = "observe alternative" /\ new.kind = "demo"
        /\ new.got = <<>> /\ new.reported = FALSE /\ new.seen = seen
    BY <1>3, <1>4, <1>5 DEF Fields
  <1>7. /\ mint[Preferred] \in ProtectedState /\ clock \in Timestamps /\ clock \in Int
        /\ clock <= clock
    BY ChainTime DEF IInv, Assets
  <1>8. seen = ObservationOf(Preferred, mint[Preferred], clock)
    BY <1>2 DEF Observation, ObservationOf
  <1>9. seen.econ.stored.state = mint[Preferred] /\ seen.at = clock
    BY <1>8 DEF ObservationOf
  <1>10. SeenFits(new, clock)
    BY <1>6, <1>7, <1>8, <1>9 DEF SeenFits
  <1>11. KindFits(new) /\ TxFits(new)
    BY <1>6 DEF KindFits, TxFits, DemoSteps, Awaits
  <1>12. Fits(new, clock, mint)
    BY <1>6, <1>10, <1>11 DEF Fits, PlanFits, ProbeFits, GotFits, PendingFits, StepFits
  <1> QED
    BY <1>4, <1>12, BecomesFits

\* decideExecution: an executable quote is the preferred route's, bound to the
\* state that was resolved, or the alternative of the comparison.
LEMMA ExecutableQuote ==
    ASSUME NEW in, NEW d, d = DecideExecution(in), d.executionEligibility = "EXECUTABLE"
    PROVE  \/ d.executableQuote = in.routes.preferred.quote /\ in.preferred.econ # None
           \/ in.comparison # None /\ d.executableQuote = in.comparison.alternativeQuote
  <1>1. PICK base : base = Decide(in)
    OBVIOUS
  <1>2. \E decision \in {"UNKNOWN_STATE", "USE_PREFERRED", "NO_SAFE_ROUTE",
                         "NO_ACCEPTABLE_ROUTE", "REQUIRES_CONSENT"} :
          \E reasonCode, disclosure : base = DecisionResult(decision, reasonCode, disclosure)
    BY <1>1, Zenon DEF Decide
  <1>3. base.decision \in {"UNKNOWN_STATE", "USE_PREFERRED", "NO_SAFE_ROUTE",
                           "NO_ACCEPTABLE_ROUTE", "REQUIRES_CONSENT"}
    BY <1>2 DEF DecisionResult
  <1>4. [base EXCEPT !.decision = "USE_ALTERNATIVE", !.reasonCode = "CONSENT_GIVEN"].decision
          = "USE_ALTERNATIVE"
    BY <1>2 DEF DecisionResult
  <1>5. PICK applied : applied = ApplyConsent(base, in)
    OBVIOUS
  <1>6. \/ applied.stateDecision = base
        \/ in.comparison # None /\ applied.stateDecision.decision = "USE_ALTERNATIVE"
    BY <1>4, <1>5 DEF ApplyConsent
  <1>7. PICK decision : decision = applied.stateDecision.decision
    OBVIOUS
  <1>8. \/ decision \in {"UNKNOWN_STATE", "USE_PREFERRED", "NO_SAFE_ROUTE",
                         "NO_ACCEPTABLE_ROUTE", "REQUIRES_CONSENT"}
        \/ in.comparison # None /\ decision = "USE_ALTERNATIVE"
    BY <1>3, <1>6, <1>7
  <1>9. /\ decision = "USE_PREFERRED" => d.executionEligibility = PreferredEligibility(in)
        /\ decision = "REQUIRES_CONSENT" =>
             d.executionEligibility \in {"CONSENT_INVALID", "CONSENT_REQUIRED"}
        /\ decision = "NO_ACCEPTABLE_ROUTE" =>
             d.executionEligibility = "ALTERNATIVE_OUTSIDE_TOLERANCE"
        /\ decision = "NO_SAFE_ROUTE" => d.executionEligibility = "STATE_UNSAFE"
        /\ decision = "UNKNOWN_STATE" =>
             d.executionEligibility
               = UnknownEligibility(in, applied.stateDecision.reasonCode)
    BY <1>1, <1>5, <1>7 DEF DecideExecution
  <1>10. UnknownEligibility(in, applied.stateDecision.reasonCode) # "EXECUTABLE"
    BY DEF UnknownEligibility
  <1>11. PreferredEligibility(in) = "EXECUTABLE" => in.preferred.econ # None
    BY DEF PreferredEligibility
  <1>12. d.executableQuote = IF decision = "USE_PREFERRED" THEN in.routes.preferred.quote
                             ELSE in.comparison.alternativeQuote
    BY <1>1, <1>5, <1>7 DEF DecideExecution
  <1> QED
    BY <1>8, <1>9, <1>10, <1>11, <1>12

\* The state of a test mint that was observed, as the demo resolves it.
LEMMA ResolvedAsset ==
    ASSUME NEW m, NEW state \in ProtectedState, NEW at, NEW obs,
           obs = ObservationOf(m, state, at),
           NEW route, route = FixtureRoute(m, ResolveDevnetAsset(m, obs)),
           ResolveDevnetAsset(m, obs).econ # None
    PROVE  route.quote.mint = m /\ IsBound(route.quote.state)
  <1>1. ResolveDevnetAsset(m, obs).econ = EconomicStateOf(obs)
    BY DEF ResolveDevnetAsset, Resolved
  <1>2. ResolveDevnetAsset(m, obs).econ = obs.econ
    BY <1>1 DEF EconomicStateOf
  <1>3. PICK econ : econ = obs.econ
    OBVIOUS
  <1>4. /\ econ.stored.state = state /\ econ.stored.phase = PhaseAt(state, at)
        /\ econ.effective = EffectiveMultiplier(state, at)
    BY <1>3 DEF ObservationOf
  <1>5. IsBound(econ)
    BY <1>4 DEF IsBound, PhaseAt, EffectiveMultiplier, Phases
  <1>6. PICK offer : offer = [mint |-> m, outputRaw |-> OutputsRaw[m], context |-> 0]
    OBVIOUS
  <1>7. route.quote = Quote(offer, 1, econ)
    BY <1>2, <1>3, <1>6 DEF FixtureRoute, RouteObservation
  <1>8. offer.mint = m
    BY <1>6
  <1> QED
    BY <1>5, <1>7, <1>8 DEF Quote

\* planDevnetDemo: an executable plan is bound to an observed state.
LEMMA PlannedQuote ==
    ASSUME NEW sp \in ProtectedState, NEW ap, NEW sa \in ProtectedState, NEW aa,
           NEW obsP, obsP = ObservationOf(Preferred, sp, ap),
           NEW obsA, obsA = ObservationOf(Alternative, sa, aa),
           PlanDevnetDemo(obsP, obsA).decision.executionEligibility = "EXECUTABLE",
           NEW quote, quote = PlanDevnetDemo(obsP, obsA).decision.executableQuote
    PROVE  quote.mint \in Assets /\ IsBound(quote.state)
  <1>1. PICK preferred : preferred = ResolveDevnetAsset(Preferred, obsP)
    OBVIOUS
  <1>2. PICK alternative : alternative = ResolveDevnetAsset(Alternative, obsA)
    OBVIOUS
  <1>3. PICK routeP : routeP = FixtureRoute(Preferred, preferred)
    OBVIOUS
  <1>4. PICK routeA : routeA = FixtureRoute(Alternative, alternative)
    OBVIOUS
  <1>5. PICK comparison : comparison = FreshComparison(routeP, routeA)
    OBVIOUS
  <1>6. PICK base :
          base = [preferred |-> preferred, alternative |-> alternative, inputRaw |-> 1,
                  comparison |-> comparison,
                  routes |-> [preferred |-> routeP, alternative |-> routeA],
                  consent |-> None, maxAdditionalCostBps |-> ReroutePolicyMax,
                  currentSlot |-> 0, consentSpent |-> FALSE]
    OBVIOUS
  <1>7. PICK given :
          PlanDevnetDemo(obsP, obsA).decision = DecideExecution([base EXCEPT !.consent = given])
    <2>1. \E given : PlanDevnetDemo(obsP, obsA)
                         = [decision |-> DecideExecution([base EXCEPT !.consent = given]),
                            preferredState |-> preferred.state]
      BY <1>1, <1>2, <1>3, <1>4, <1>5, <1>6, Zenon DEF PlanDevnetDemo
    <2>2. PICK given : PlanDevnetDemo(obsP, obsA)
                           = [decision |-> DecideExecution([base EXCEPT !.consent = given]),
                              preferredState |-> preferred.state]
      BY <2>1
    <2>3. PICK decision : decision = DecideExecution([base EXCEPT !.consent = given])
      OBVIOUS
    <2>4. PlanDevnetDemo(obsP, obsA).decision = decision
      BY <2>2, <2>3
    <2> QED
      BY <2>3, <2>4, Zenon
  <1>8. PICK in : in = [base EXCEPT !.consent = given]
    OBVIOUS
  <1>9. /\ in.preferred = preferred /\ in.routes.preferred = routeP
        /\ in.comparison = comparison
    BY <1>6, <1>8
  <1>10. \/ quote = routeP.quote /\ preferred.econ # None
         \/ comparison # None /\ quote = comparison.alternativeQuote
    BY <1>7, <1>8, <1>9, ExecutableQuote
  <1>11. CASE quote = routeP.quote /\ preferred.econ # None
    BY <1>1, <1>3, <1>11, ResolvedAsset DEF Assets
  <1>12. CASE comparison # None /\ quote = comparison.alternativeQuote
    <2>1. routeA.quote # None /\ comparison = CompareQuotes(routeP.quote, routeA.quote)
      BY <1>5, <1>12 DEF FreshComparison
    <2>2. quote = routeA.quote
      BY <1>12, <2>1 DEF CompareQuotes
    <2>3. alternative.econ # None
      BY <1>4, <2>1 DEF FixtureRoute, RouteObservation
    <2> QED
      BY <1>2, <1>4, <2>2, <2>3, ResolvedAsset DEF Assets
  <1> QED
    BY <1>10, <1>11, <1>12

\* classifyChainEvidence of a test mint: what is not SAFE has a scheduled change
\* whose window has opened.
LEMMA UnsafeIsScheduled ==
    ASSUME NEW state \in ProtectedState, NEW at \in Timestamps, NEW obs,
           obs = ObservationOf(Preferred, state, at),
           ClassifyChainEvidence(obs, DemoPolicy) # "SAFE"
    PROVE  obs.scheduled /\ obs.activation - DemoPolicy.beforeSecs <= obs.at
  <1>1. at \in Int /\ state.effectiveTimestamp \in Int
    BY TimestampsAreIntegers DEF ProtectedState
  <1>2. /\ obs.kind = "decoded" /\ obs.paused = FALSE /\ obs.at = at
        /\ obs.activation = state.effectiveTimestamp
    BY DEF ObservationOf
  <1>3. at # None
    BY <1>1, ToolConstants
  <1>4. obs.scheduled
    BY <1>2 DEF ClassifyChainEvidence
  <1>5. obs.at \in obs.activation - DemoPolicy.beforeSecs
                   .. obs.activation + DemoPolicy.afterSecs
    BY <1>2, <1>3, <1>4 DEF ClassifyChainEvidence
  <1> QED
    BY <1>1, <1>2, <1>4, <1>5, ToolConstants

LEMMA PlannedState ==
    ASSUME NEW obsP, NEW obsA
    PROVE  PlanDevnetDemo(obsP, obsA).preferredState = ClassifyChainEvidence(obsP, DemoPolicy)
  <1>1. PlanDevnetDemo(obsP, obsA).preferredState = ResolveDevnetAsset(Preferred, obsP).state
    BY DEF PlanDevnetDemo
  <1> QED
    BY <1>1 DEF ResolveDevnetAsset, Resolved

LEMMA ObserveAndPlanFits ==
    ASSUME IInv, NEW t \in Tools, ObserveAndPlan(t)
    PROVE  IInv'
  <1>1. PICK r : r = tool[t] /\ Fits(r, clock, mint)
    BY DEF IInv
  <1>2. r.pc = "observe alternative" /\ DOMAIN r = Fields /\ tool[t].pc # "ended"
    BY <1>1 DEF ObserveAndPlan, Fits
  <1>3. r.got = <<>> /\ r.reported = FALSE /\ r.kind = "demo"
    BY <1>1, <1>2, NothingGot DEF Fits, KindFits, DemoSteps, TransitionSteps
  <1>4. PICK obsA : obsA = Observation(Alternative)
    OBVIOUS
  <1>5. PICK planned : planned = PlanDevnetDemo(r.seen, obsA)
    OBVIOUS
  <1>6. PICK quote : quote = planned.decision.executableQuote
    OBVIOUS
  <1>7. PICK pc : pc = IF planned.preferredState = "SAFE" THEN "execute" ELSE "probe"
    OBVIOUS
  <1>8. PICK new : new = [r EXCEPT !.plan = quote, !.pc = pc]
    OBVIOUS
  <1>9. \/ Becomes(t, Ended(t))
        \/ planned.decision.executionEligibility = "EXECUTABLE" /\ Becomes(t, new)
    BY <1>1, <1>4, <1>5, <1>6, <1>7, <1>8 DEF ObserveAndPlan
  <1>10. CASE Becomes(t, Ended(t))
    BY <1>2, <1>10, EndKeepsIInv
  <1>11. CASE planned.decision.executionEligibility = "EXECUTABLE" /\ Becomes(t, new)
    <2>1. /\ DOMAIN new = Fields /\ new.pc = pc /\ new.kind = "demo" /\ new.plan = quote
          /\ new.seen = r.seen /\ new.got = <<>> /\ new.reported = FALSE
      BY <1>2, <1>3, <1>8 DEF Fields
    <2>2. /\ r.seen = ObservationOf(Preferred, r.seen.econ.stored.state, r.seen.at)
          /\ r.seen.econ.stored.state \in ProtectedState
          /\ r.seen.at \in Timestamps /\ r.seen.at <= clock
      BY <1>1, <1>2 DEF Fits, SeenFits
    <2>3. obsA = ObservationOf(Alternative, mint[Alternative], clock)
      BY <1>4 DEF Observation, ObservationOf
    <2>4. mint[Alternative] \in ProtectedState
      BY DEF IInv, Assets
    <2>5. quote.mint \in Assets /\ IsBound(quote.state)
      BY <1>5, <1>6, <1>11, <2>2, <2>3, <2>4, PlannedQuote
    <2>6. pc \in {"probe", "execute"}
      BY <1>7
    <2>7. pc = "probe" => r.seen.scheduled
                          /\ r.seen.activation - DemoPolicy.beforeSecs <= r.seen.at
      <3> SUFFICES ASSUME pc = "probe"
                   PROVE  r.seen.scheduled
                          /\ r.seen.activation - DemoPolicy.beforeSecs <= r.seen.at
        OBVIOUS
      <3>1. ClassifyChainEvidence(r.seen, DemoPolicy) # "SAFE"
        BY <1>5, <1>7, PlannedState
      <3> QED
        BY <2>2, <3>1, UnsafeIsScheduled
    <2>8. KindFits(new) /\ TxFits(new)
      BY <2>1, <2>6 DEF KindFits, TxFits, DemoSteps, Awaits
    <2>9. SeenFits(new, clock)
      BY <2>1, <2>2 DEF SeenFits
    <2>10. PlanFits(new) /\ ProbeFits(new)
      BY <2>1, <2>5, <2>6, <2>7 DEF PlanFits, ProbeFits
    <2>11. Fits(new, clock, mint)
      BY <2>1, <2>6, <2>8, <2>9, <2>10 DEF Fits, GotFits, PendingFits, StepFits
    <2> QED
      BY <1>11, <2>11, BecomesFits
  <1> QED
    BY <1>9, <1>10, <1>11

LEMMA SubmitProbeFits ==
    ASSUME IInv, NEW t \in Tools, SubmitRejectionProbe(t)
    PROVE  IInv'
  <1>1. PICK r : r = tool[t] /\ Fits(r, clock, mint)
    BY DEF IInv
  <1>2. PICK tx : tx = GuardedTx(Preferred, BoundRequest(r.seen.econ))
    OBVIOUS
  <1>3. PICK new : new = [r EXCEPT !.pc = "probing", !.tx = tx]
    OBVIOUS
  <1>4. /\ r.pc = "probe" /\ DOMAIN r = Fields /\ tool[t].pc # "ended"
        /\ Becomes(t, new) \/ Becomes(t, Ended(t))
    BY <1>1, <1>2, <1>3 DEF SubmitRejectionProbe, Fits, Sends
  <1>5. r.got = <<>> /\ r.reported = FALSE /\ r.kind = "demo"
    BY <1>1, <1>4, NothingGot DEF Fits, KindFits, DemoSteps, TransitionSteps
  <1>6. /\ DOMAIN new = Fields /\ new.pc = "probing" /\ new.kind = "demo" /\ new.tx = tx
        /\ new.seen = r.seen /\ new.plan = r.plan /\ new.got = <<>> /\ new.reported = FALSE
    BY <1>3, <1>4, <1>5 DEF Fields
  <1>7. /\ DOMAIN tx = TxFields /\ tx.mint = Preferred /\ IsUpdates(tx.updates)
        /\ tx.request = BoundRequest(r.seen.econ) /\ tx.outcome = None
    BY <1>2, GuardedTxFields
  <1>8. KindFits(new) /\ TxFits(new)
    BY <1>6, <1>7 DEF KindFits, TxFits, DemoSteps, Assets
  <1>9. SeenFits(new, clock)
    BY <1>1, <1>4, <1>6 DEF Fits, SeenFits
  <1>10. PlanFits(new)
    BY <1>1, <1>4, <1>6 DEF Fits, PlanFits
  <1>11. ProbeFits(new)
    BY <1>1, <1>4, <1>6, <1>7 DEF Fits, ProbeFits
  <1>12. GotFits(new)
    BY <1>6, <1>7, ToolConstants DEF GotFits
  <1>13. Fits(new, clock, mint)
    BY <1>6, <1>8, <1>9, <1>10, <1>11, <1>12 DEF Fits, PendingFits, StepFits
  <1> QED
    BY <1>4, <1>13, BecomesFits, EndKeepsIInv

LEMMA ProbeReturnedFits ==
    ASSUME IInv, NEW t \in Tools, ProbeReturned(t)
    PROVE  IInv'
  <1>1. PICK r : r = tool[t] /\ Fits(r, clock, mint)
    BY DEF IInv
  <1>2. PICK new : new = [r EXCEPT !.pc = "execute", !.tx = None]
    OBVIOUS
  <1>3. /\ r.pc = "probing" /\ DOMAIN r = Fields /\ tool[t].pc # "ended"
        /\ (r.tx.outcome # "Ok" /\ Becomes(t, new)) \/ Becomes(t, Ended(t))
    BY <1>1, <1>2 DEF ProbeReturned, Confirmed, Fits
  <1>4. CASE r.tx.outcome # "Ok" /\ Becomes(t, new)
    <2>1. r.got = <<>> /\ r.reported = FALSE /\ r.kind = "demo"
      BY <1>1, <1>3, <1>4 DEF Fits, GotFits, IsDelivery, KindFits, DemoSteps, TransitionSteps
    <2>2. /\ DOMAIN new = Fields /\ new.pc = "execute" /\ new.kind = "demo"
          /\ new.plan = r.plan /\ new.got = <<>> /\ new.reported = FALSE
      BY <1>2, <1>3, <2>1 DEF Fields
    <2>3. KindFits(new) /\ TxFits(new)
      BY <2>2 DEF KindFits, TxFits, DemoSteps, Awaits
    <2>4. PlanFits(new)
      BY <1>1, <1>3, <2>2 DEF Fits, PlanFits
    <2>5. Fits(new, clock, mint)
      BY <2>2, <2>3, <2>4 DEF Fits, SeenFits, ProbeFits, GotFits, PendingFits, StepFits
    <2> QED
      BY <1>4, <2>5, BecomesFits
  <1> QED
    BY <1>3, <1>4, EndKeepsIInv

LEMMA ExecutePlanFits ==
    ASSUME IInv, NEW t \in Tools, ExecutePlan(t)
    PROVE  IInv'
  <1>1. PICK r : r = tool[t] /\ Fits(r, clock, mint)
    BY DEF IInv
  <1>2. PICK tx : tx = GuardedTx(r.plan.mint, BoundRequest(r.plan.state))
    OBVIOUS
  <1>3. PICK new : new = [r EXCEPT !.pc = "executing", !.tx = tx]
    OBVIOUS
  <1>4. r.pc = "execute" /\ DOMAIN r = Fields /\ Becomes(t, new)
    BY <1>1, <1>2, <1>3 DEF ExecutePlan, Fits, Sends
  <1>5. r.got = <<>> /\ r.reported = FALSE /\ r.kind = "demo"
    BY <1>1, <1>4, NothingGot DEF Fits, KindFits, DemoSteps, TransitionSteps
  <1>6. /\ DOMAIN new = Fields /\ new.pc = "executing" /\ new.kind = "demo" /\ new.tx = tx
        /\ new.plan = r.plan /\ new.got = <<>> /\ new.reported = FALSE
    BY <1>3, <1>4, <1>5 DEF Fields
  <1>7. /\ DOMAIN tx = TxFields /\ tx.mint = r.plan.mint /\ IsUpdates(tx.updates)
        /\ tx.request = BoundRequest(r.plan.state) /\ tx.outcome = None
    BY <1>2, GuardedTxFields
  <1>8. r.plan.mint \in Assets /\ IsBound(r.plan.state)
    BY <1>1, <1>4 DEF Fits, PlanFits
  <1>9. KindFits(new) /\ TxFits(new)
    BY <1>6, <1>7, <1>8 DEF KindFits, TxFits, DemoSteps
  <1>10. PlanFits(new)
    BY <1>6, <1>7, <1>8 DEF PlanFits
  <1>11. GotFits(new)
    BY <1>6, <1>7, ToolConstants DEF GotFits
  <1>12. Fits(new, clock, mint)
    BY <1>6, <1>9, <1>10, <1>11 DEF Fits, SeenFits, ProbeFits, PendingFits, StepFits
  <1> QED
    BY <1>4, <1>12, BecomesFits

LEMMA ReportFits ==
    ASSUME IInv, NEW t \in Tools, Report(t)
    PROVE  IInv'
  <1>1. PICK r : r = tool[t] /\ Fits(r, clock, mint)
    BY DEF IInv
  <1>2. r.pc = "executing" /\ tool[t].pc # "ended"
    BY <1>1 DEF Report, Confirmed
  <1>3. PICK b \in BOOLEAN : b = (r.tx.outcome = "Ok")
    OBVIOUS
  <1>4. PICK e : e = Ended(t)
    OBVIOUS
  <1>5. PICK new : new = [e EXCEPT !.reported = b]
    OBVIOUS
  <1>6. Becomes(t, new)
    BY <1>1, <1>3, <1>4, <1>5 DEF Report
  <1>7. Fits(e, clock, mint) /\ e.reported = FALSE /\ DOMAIN e = Fields /\ e.pc = "ended"
    <2>1. Fits(e, clock, mint) /\ e.reported = FALSE
      BY <1>2, <1>4, EndedFits
    <2>2. e.pc = "ended"
      BY <1>4 DEF Ended, Idle
    <2> QED
      BY <2>1, <2>2 DEF Fits
  <1>8. /\ DOMAIN new = Fields /\ new.pc = "ended" /\ new.got = e.got /\ new.plan = e.plan
        /\ new.reported = b
    BY <1>5, <1>7 DEF Fields
  <1>9. KindFits(new) /\ TxFits(new)
    BY <1>8 DEF KindFits, TxFits, Awaits
  <1>10. GotFits(new)
    <2>1. CASE r.got = <<>>
      <3>1. e.got = <<>>
        BY <1>1, <1>4, <2>1 DEF Ended, Idle
      <3>2. r.tx.outcome # "Ok"
        BY <1>1, <1>2, <2>1 DEF Fits, GotFits
      <3>3. b = FALSE
        BY <1>3, <3>2, Zenon
      <3> QED
        BY <1>8, <3>1, <3>3 DEF GotFits
    <2>2. CASE r.got # <<>>
      <3>1. /\ r.got = <<r.got[1]>> /\ IsDelivery(r, r.got[1])
        BY <1>1, <2>2 DEF Fits, GotFits
      <3>2. e.got = r.got /\ e.plan = r.plan
        BY <1>1, <1>4, <2>2 DEF Ended, Idle
      <3>3. /\ r.got[1].mint = r.plan.mint
            /\ EffectiveMultiplier(r.got[1].landedOn, r.got[1].landedAt)
                 = r.plan.state.effective
        BY <1>2, <3>1 DEF IsDelivery
      <3>4. IsDelivery(new, new.got[1])
        BY <1>8, <3>2, <3>3 DEF IsDelivery
      <3> QED
        BY <1>3, <1>8, <3>1, <3>2, <3>4 DEF GotFits
    <2> QED
      BY <2>1, <2>2
  <1>11. Fits(new, clock, mint)
    BY <1>8, <1>9, <1>10 DEF Fits, SeenFits, PlanFits, ProbeFits, PendingFits, StepFits
  <1> QED
    BY <1>6, <1>11, BecomesFits
-------------------------------------------------------------------------------
\* The admin commands.

LEMMA ScheduleCommandFits ==
    ASSUME IInv, NEW t \in Tools, ScheduleCommand(t)
    PROVE  IInv'
  <1>1. PICK r : r = tool[t] /\ Fits(r, clock, mint)
    BY DEF IInv
  <1>2. PICK s \in Scheduled :
          Becomes(t, [Sends(t, "scheduled", UpdateTx(s.label, <<[multiplier |-> s.multiplier,
                                                                at |-> clock + s.inSeconds]>>))
                        EXCEPT !.kind = "schedule"])
    BY DEF ScheduleCommand
  <1>3. PICK tx : tx = UpdateTx(s.label, <<[multiplier |-> s.multiplier,
                                           at |-> clock + s.inSeconds]>>)
    OBVIOUS
  <1>4. PICK new : new = [[r EXCEPT !.pc = "scheduled", !.tx = tx] EXCEPT !.kind = "schedule"]
    OBVIOUS
  <1>5. r.pc = "idle" /\ DOMAIN r = Fields /\ Becomes(t, new)
    BY <1>1, <1>2, <1>3, <1>4 DEF ScheduleCommand, Fits, Sends
  <1>6. r.got = <<>> /\ r.reported = FALSE
    BY <1>1, <1>5, NothingGot
  <1>7. /\ DOMAIN new = Fields /\ new.pc = "scheduled" /\ new.kind = "schedule"
        /\ new.tx = tx /\ new.got = <<>> /\ new.reported = FALSE
    BY <1>4, <1>5, <1>6 DEF Fields
  <1>8. DOMAIN tx = TxFields /\ tx.mint \in Assets /\ IsUpdates(tx.updates)
    <2>1. s.label \in Assets /\ s.multiplier \in Multipliers /\ s.inSeconds \in Nat
      BY ToolConstants DEF Assets
    <2>2. clock + s.inSeconds \in Timestamps
      <3>1. s.inSeconds \in Leads
        BY DEF Leads
      <3> QED
        BY <2>1, <3>1, ChainTimes DEF IInv
    <2>3. [multiplier |-> s.multiplier, at |-> clock + s.inSeconds] \in Update
      BY <2>1, <2>2, UpdateType
    <2>4. IsUpdates(<<[multiplier |-> s.multiplier, at |-> clock + s.inSeconds]>>)
      BY <2>3 DEF IsUpdates
    <2> QED
      BY <1>3, <2>1, <2>4, UpdateTxFields
  <1>9. KindFits(new) /\ TxFits(new)
    BY <1>7, <1>8 DEF KindFits, TxFits
  <1>10. Fits(new, clock, mint)
    BY <1>7, <1>9, PlainFits
  <1> QED
    BY <1>5, <1>10, BecomesFits

LEMMA StartScenarioFits ==
    ASSUME IInv, NEW t \in Tools, StartScenario(t)
    PROVE  IInv'
  <1>1. PICK r : r = tool[t] /\ Fits(r, clock, mint)
    BY DEF IInv
  <1>2. PICK s \in ScenarioRequests :
          Becomes(t, [tool[t] EXCEPT !.pc = s.name, !.kind = s.name, !.asset = s.label])
    BY DEF StartScenario
  <1>3. PICK new : new = [r EXCEPT !.pc = s.name, !.kind = s.name, !.asset = s.label]
    OBVIOUS
  <1>4. r.pc = "idle" /\ DOMAIN r = Fields /\ Becomes(t, new)
    BY <1>1, <1>2, <1>3 DEF StartScenario, Fits
  <1>5. r.got = <<>> /\ r.reported = FALSE
    BY <1>1, <1>4, NothingGot
  <1>6. s.name \in {"safe", "stale", "transition"} /\ s.label \in Assets
    BY ToolConstants DEF Assets
  <1>7. /\ DOMAIN new = Fields /\ new.pc = s.name /\ new.kind = s.name /\ new.asset = s.label
        /\ new.got = <<>> /\ new.reported = FALSE
    BY <1>3, <1>4, <1>5 DEF Fields
  <1>8. KindFits(new) /\ TxFits(new)
    BY <1>6, <1>7 DEF KindFits, TxFits, TransitionSteps, Awaits
  <1>9. Fits(new, clock, mint)
    BY <1>6, <1>7, <1>8, PlainFits
  <1> QED
    BY <1>4, <1>9, BecomesFits

\* A fresh request is encodable and of the state and the time it was made at.
LEMMA FreshRequestFits ==
    ASSUME IInv, NEW m \in Assets
    PROVE  /\ FreshRequest(m) \in AssertSafeExecution
           /\ FreshRequest(m).expected = mint[m]
           /\ FreshRequest(m).expectedPhase = PhaseAt(mint[m], clock)
           /\ FreshRequest(m).window = ScenarioWindow
  <1>1. mint[m] \in ProtectedState
    BY DEF IInv
  <1>2. FreshRequest(m) \in AssertSafeExecution
    BY <1>1, ExpectationType, ToolConstants DEF FreshRequest
  <1> QED
    BY <1>2 DEF FreshRequest, ExpectationFromSnapshot

\* guardedTransfer: what Transfers changes.
LEMMA TransfersFields ==
    ASSUME IInv, NEW t \in Tools, NEW request, NEW expected, NEW step, NEW new,
           new = Transfers(t, request, expected, step)
    PROVE  /\ DOMAIN new = Fields /\ new.pc = "transferring" /\ new.kind = tool[t].kind
           /\ new.asset = tool[t].asset /\ new.T = tool[t].T
           /\ new.request = tool[t].request /\ new.checkedAt = tool[t].checkedAt
           /\ new.got = tool[t].got /\ new.reported = tool[t].reported
           /\ new.expected.step = step /\ new.expected.result = expected
           /\ DOMAIN new.tx = TxFields /\ new.tx.mint = tool[t].asset
           /\ IsUpdates(new.tx.updates)
           /\ new.tx.request = request /\ new.tx.outcome = None
  <1>1. PICK tx : tx = GuardedTx(tool[t].asset, request)
    OBVIOUS
  <1>2. PICK e : e = [step |-> step, result |-> expected]
    OBVIOUS
  <1>3. DOMAIN tool[t] = Fields
    BY DEF IInv, Fits
  <1>4. new = [[tool[t] EXCEPT !.pc = "transferring", !.tx = tx] EXCEPT !.expected = e]
    BY <1>1, <1>2 DEF Transfers, Sends
  <1>5. /\ DOMAIN new = Fields /\ new.pc = "transferring" /\ new.kind = tool[t].kind
        /\ new.asset = tool[t].asset /\ new.T = tool[t].T
        /\ new.request = tool[t].request /\ new.checkedAt = tool[t].checkedAt
        /\ new.got = tool[t].got /\ new.reported = tool[t].reported
        /\ new.expected = e /\ new.tx = tx
    BY <1>3, <1>4 DEF Fields
  <1>6. /\ DOMAIN tx = TxFields /\ tx.mint = tool[t].asset /\ IsUpdates(tx.updates)
        /\ tx.request = request /\ tx.outcome = None
    BY <1>1, GuardedTxFields
  <1> QED
    BY <1>2, <1>5, <1>6

LEMMA RunSafeFits ==
    ASSUME IInv, NEW t \in Tools, RunSafe(t)
    PROVE  IInv'
  <1>1. PICK new : new = Transfers(t, FreshRequest(tool[t].asset), "Ok", "safe")
    OBVIOUS
  <1>2. tool[t].pc = "safe" /\ Fits(tool[t], clock, mint) /\ Becomes(t, new)
    BY <1>1 DEF RunSafe, IInv
  <1>3. /\ tool[t].got = <<>> /\ tool[t].reported = FALSE
        /\ tool[t].kind = "safe" /\ tool[t].asset \in Assets
    BY <1>2, NothingGot DEF Fits, KindFits, DemoSteps, TransitionSteps
  <1>4. /\ DOMAIN new = Fields /\ new.pc = "transferring" /\ new.kind = "safe"
        /\ new.asset \in Assets /\ new.got = <<>> /\ new.reported = FALSE
        /\ new.expected.step = "safe"
        /\ DOMAIN new.tx = TxFields /\ new.tx.mint \in Assets /\ IsUpdates(new.tx.updates)
    BY <1>1, <1>3, TransfersFields
  <1>5. KindFits(new) /\ TxFits(new)
    BY <1>4 DEF KindFits, TxFits
  <1>6. Fits(new, clock, mint)
    BY <1>4, <1>5, PlainFits
  <1> QED
    BY <1>2, <1>6, BecomesFits

LEMMA StaleUpdateFits ==
    ASSUME IInv, NEW t \in Tools, StaleUpdate(t)
    PROVE  IInv'
  <1>1. PICK r : r = tool[t] /\ Fits(r, clock, mint)
    BY DEF IInv
  <1>2. PICK next : next = NextMultiplier(r.asset)
    OBVIOUS
  <1>3. PICK tx : tx = UpdateTx(r.asset, <<[multiplier |-> next, at |-> 0]>>)
    OBVIOUS
  <1>4. PICK new : new = [[r EXCEPT !.pc = "updated", !.tx = tx]
                            EXCEPT !.request = FreshRequest(r.asset)]
    OBVIOUS
  <1>5. r.pc = "stale" /\ DOMAIN r = Fields /\ next \in Multipliers /\ Becomes(t, new)
    BY <1>1, <1>2, <1>3, <1>4 DEF StaleUpdate, Fits, Sends
  <1>6. r.got = <<>> /\ r.reported = FALSE /\ r.kind = "stale" /\ r.asset \in Assets
    BY <1>1, <1>5, NothingGot DEF Fits, KindFits, DemoSteps, TransitionSteps
  <1>7. /\ DOMAIN new = Fields /\ new.pc = "updated" /\ new.kind = "stale"
        /\ new.asset = r.asset /\ new.tx = tx /\ new.got = <<>> /\ new.reported = FALSE
    BY <1>4, <1>5, <1>6 DEF Fields
  <1>8. DOMAIN tx = TxFields /\ tx.mint \in Assets /\ IsUpdates(tx.updates)
    <2>1. 0 \in Timestamps
      BY ChainTime, ToolConstants
    <2>2. [multiplier |-> next, at |-> 0] \in Update
      BY <1>5, <2>1, UpdateType
    <2>3. IsUpdates(<<[multiplier |-> next, at |-> 0]>>)
      BY <2>2 DEF IsUpdates
    <2> QED
      BY <1>3, <1>6, <2>3, UpdateTxFields
  <1>9. KindFits(new) /\ TxFits(new)
    BY <1>6, <1>7, <1>8 DEF KindFits, TxFits
  <1>10. Fits(new, clock, mint)
    BY <1>7, <1>9, PlainFits
  <1> QED
    BY <1>5, <1>10, BecomesFits

\* A transfer of the stale scenario.
LEMMA StaleStepFits ==
    ASSUME IInv, NEW t \in Tools, tool[t].kind = "stale", tool[t].asset \in Assets,
           tool[t].got = <<>>, tool[t].reported = FALSE, NEW request, NEW expected,
           NEW step \in {"stale", "retry"}, NEW new, DOMAIN new = Fields, NEW sent,
           sent = Transfers(t, request, expected, step),
           new.pc = sent.pc, new.kind = sent.kind, new.asset = sent.asset,
           new.got = sent.got, new.reported = sent.reported,
           new.expected = sent.expected, new.tx = sent.tx
    PROVE  Fits(new, clock, mint)
  <1>1. /\ new.pc = "transferring" /\ new.kind = "stale" /\ new.asset \in Assets
        /\ new.got = <<>> /\ new.reported = FALSE /\ new.expected.step = step
        /\ DOMAIN new.tx = TxFields /\ new.tx.mint \in Assets /\ IsUpdates(new.tx.updates)
    BY TransfersFields
  <1>2. KindFits(new) /\ TxFits(new)
    BY <1>1 DEF KindFits, TxFits
  <1> QED
    BY <1>1, <1>2, PlainFits

LEMMA StaleTransferFits ==
    ASSUME IInv, NEW t \in Tools, StaleTransfer(t)
    PROVE  IInv'
  <1>1. tool[t].pc = "updated" /\ Fits(tool[t], clock, mint)
    BY DEF StaleTransfer, Confirmed, IInv
  <1>2. /\ tool[t].got = <<>> /\ tool[t].reported = FALSE
        /\ tool[t].kind = "stale" /\ tool[t].asset \in Assets
    BY <1>1, NothingGot DEF Fits, KindFits, DemoSteps, TransitionSteps
  <1>3. PICK request, error, step :
          /\ request = tool[t].request /\ step = "stale"
          /\ error = StoredStateError(request.expected, mint[tool[t].asset])
    OBVIOUS
  <1>4. PICK sent : sent = Transfers(t, request, error, step)
    OBVIOUS
  <1>5. PICK new : new = [sent EXCEPT !.request = FreshRequest(tool[t].asset)]
    OBVIOUS
  <1>6. Becomes(t, new) \/ Becomes(t, Ended(t))
    BY <1>3, <1>4, <1>5 DEF StaleTransfer
  <1>7. DOMAIN sent = Fields
    BY <1>4, TransfersFields
  <1>8. /\ DOMAIN new = Fields /\ new.pc = sent.pc /\ new.kind = sent.kind
        /\ new.asset = sent.asset /\ new.got = sent.got /\ new.reported = sent.reported
        /\ new.expected = sent.expected /\ new.tx = sent.tx
    BY <1>5, <1>7 DEF Fields
  <1>9. step \in {"stale", "retry"}
    BY <1>3
  <1>10. Fits(new, clock, mint)
    BY <1>2, <1>4, <1>8, <1>9, StaleStepFits
  <1> QED
    BY <1>1, <1>6, <1>10, BecomesFits, EndKeepsIInv

LEMMA StaleRetryFits ==
    ASSUME IInv, NEW t \in Tools, StaleRetry(t)
    PROVE  IInv'
  <1>1. PICK sent : sent = Transfers(t, tool[t].request, "Ok", "retry")
    OBVIOUS
  <1>2. tool[t].pc = "stale retry" /\ Fits(tool[t], clock, mint) /\ Becomes(t, sent)
    BY <1>1 DEF StaleRetry, IInv
  <1>3. /\ tool[t].got = <<>> /\ tool[t].reported = FALSE
        /\ tool[t].kind = "stale" /\ tool[t].asset \in Assets
    BY <1>2, NothingGot DEF Fits, KindFits, DemoSteps, TransitionSteps
  <1>4. DOMAIN sent = Fields
    BY <1>1, TransfersFields
  <1>5. Fits(sent, clock, mint)
    BY <1>1, <1>3, <1>4, StaleStepFits
  <1> QED
    BY <1>2, <1>5, BecomesFits
-------------------------------------------------------------------------------
\* The transition scenario.

LEMMA TransitionFits ==
    ASSUME NEW r, NEW now, NEW state, DOMAIN r = Fields, KindFits(r), TxFits(r),
           r.kind = "transition", r.pc \in TransitionSteps \cup {"transferring"},
           r.got = <<>>, r.reported = FALSE,
           PendingFits(r, now), StepFits(r, now, state)
    PROVE  Fits(r, now, state)
  BY DEF Fits, SeenFits, PlanFits, ProbeFits, GotFits, TransitionSteps

LEMMA ScheduleTransitionFits ==
    ASSUME IInv, NEW t \in Tools, ScheduleTransition(t)
    PROVE  IInv'
  <1>1. PICK r : r = tool[t] /\ Fits(r, clock, mint)
    BY DEF IInv
  <1>2. PICK next, T : next = NextMultiplier(r.asset) /\ T = clock + ScenarioLead
    OBVIOUS
  <1>3. PICK tx : tx = UpdateTx(r.asset, <<[multiplier |-> next, at |-> T]>>)
    OBVIOUS
  <1>4. PICK new : new = [[r EXCEPT !.pc = "scheduling", !.tx = tx] EXCEPT !.T = T]
    OBVIOUS
  <1>5. r.pc = "transition" /\ DOMAIN r = Fields /\ next \in Multipliers /\ Becomes(t, new)
    BY <1>1, <1>2, <1>3, <1>4 DEF ScheduleTransition, Fits, Sends
  <1>6. r.got = <<>> /\ r.reported = FALSE /\ r.kind = "transition" /\ r.asset \in Assets
    BY <1>1, <1>5, NothingGot DEF Fits, KindFits, DemoSteps
  <1>7. /\ DOMAIN new = Fields /\ new.pc = "scheduling" /\ new.kind = "transition"
        /\ new.asset = r.asset /\ new.tx = tx /\ new.T = T
        /\ new.got = <<>> /\ new.reported = FALSE
    BY <1>4, <1>5, <1>6 DEF Fields
  <1>8. T \in ScenarioLead .. MaxClock + ScenarioLead
    BY <1>2, ToolConstants DEF IInv
  <1>9. DOMAIN tx = TxFields /\ tx.mint \in Assets /\ IsUpdates(tx.updates)
    <2>1. T \in Timestamps
      BY <1>2, ChainTimes, ToolConstants DEF Leads, IInv
    <2>2. [multiplier |-> next, at |-> T] \in Update
      BY <1>5, <2>1, UpdateType
    <2>3. IsUpdates(<<[multiplier |-> next, at |-> T]>>)
      BY <2>2 DEF IsUpdates
    <2> QED
      BY <1>3, <1>6, <2>3, UpdateTxFields
  <1>10. KindFits(new) /\ TxFits(new)
    BY <1>6, <1>7, <1>9 DEF KindFits, TxFits, TransitionSteps
  <1>11. PendingFits(new, clock) /\ StepFits(new, clock, mint)
    BY <1>7, <1>8 DEF PendingFits, StepFits
  <1>12. Fits(new, clock, mint)
    BY <1>7, <1>10, <1>11, TransitionFits DEF TransitionSteps
  <1> QED
    BY <1>5, <1>12, BecomesFits

LEMMA ReadPendingFits ==
    ASSUME IInv, NEW t \in Tools, ReadPending(t)
    PROVE  IInv'
  <1>1. PICK r : r = tool[t] /\ Fits(r, clock, mint)
    BY DEF IInv
  <1>2. PICK request : request = FreshRequest(r.asset)
    OBVIOUS
  <1>3. PICK new : new = [r EXCEPT !.pc = "before window", !.tx = None, !.request = request]
    OBVIOUS
  <1>4. /\ r.pc = "scheduling" /\ DOMAIN r = Fields /\ tool[t].pc # "ended"
        /\ \/ /\ PhaseAt(mint[r.asset], clock) = "Pending" /\ HasScheduledChange(mint[r.asset])
              /\ Becomes(t, new)
           \/ Becomes(t, Ended(t))
    BY <1>1, <1>2, <1>3 DEF ReadPending, Confirmed, Fits
  <1>5. CASE /\ PhaseAt(mint[r.asset], clock) = "Pending" /\ HasScheduledChange(mint[r.asset])
             /\ Becomes(t, new)
    <2>1. /\ r.got = <<>> /\ r.reported = FALSE /\ r.kind = "transition" /\ r.asset \in Assets
          /\ r.T \in ScenarioLead .. MaxClock + ScenarioLead
      BY <1>1, <1>4, NothingGot DEF Fits, KindFits, DemoSteps, PendingFits
    <2>2. /\ DOMAIN new = Fields /\ new.pc = "before window" /\ new.kind = "transition"
          /\ new.asset = r.asset /\ new.T = r.T /\ new.request = request
          /\ new.got = <<>> /\ new.reported = FALSE
      BY <1>3, <1>4, <2>1 DEF Fields
    <2>3. /\ request \in AssertSafeExecution /\ request.expected = mint[r.asset]
          /\ request.expectedPhase = "Pending" /\ request.window = ScenarioWindow
      BY <1>2, <1>5, <2>1, FreshRequestFits
    <2>4. KindFits(new) /\ TxFits(new)
      BY <2>1, <2>2 DEF KindFits, TxFits, TransitionSteps, Awaits
    <2>5. PendingFits(new, clock) /\ StepFits(new, clock, mint)
      BY <1>5, <2>1, <2>2, <2>3 DEF PendingFits, StepFits
    <2>6. Fits(new, clock, mint)
      BY <2>2, <2>4, <2>5, TransitionFits DEF TransitionSteps
    <2> QED
      BY <1>5, <2>6, BecomesFits
  <1> QED
    BY <1>4, <1>5, EndKeepsIInv

\* When the scenario sends a request, and the result it expects.
MayTransfer(r, step, answer, request, now, state) ==
    \/ /\ step = "before" /\ answer = "Ok" /\ request = r.request
       /\ now <= r.T - ScenarioWindow.beforeSecs - LandingMargin
    \/ /\ step = "inside" /\ answer = "InsideTransitionWindow" /\ request = r.request
       /\ now >= r.T - ScenarioWindow.beforeSecs + 1
    \/ /\ step = "after" /\ answer = "ActivationPhaseChanged" /\ request = r.request
       /\ now >= r.T + ScenarioWindow.afterSecs + LandingMargin
    \/ /\ step = "fresh" /\ answer = "Ok" /\ request.expected = state[r.asset]
       /\ request.expectedPhase = "Activated" /\ request.window = ScenarioWindow
       /\ now >= r.T + ScenarioWindow.afterSecs + LandingMargin

\* The scenario's transfer, with the chain time read before it.
CheckedTransfer(t, request, answer, step) ==
    [Transfers(t, request, answer, step) EXCEPT !.checkedAt = clock]

LEMMA CheckedFields ==
    ASSUME IInv, NEW t \in Tools, NEW request, NEW answer, NEW step, NEW new,
           new = CheckedTransfer(t, request, answer, step)
    PROVE  /\ DOMAIN new = Fields /\ new.pc = "transferring" /\ new.kind = tool[t].kind
           /\ new.asset = tool[t].asset /\ new.T = tool[t].T
           /\ new.request = tool[t].request /\ new.checkedAt = clock
           /\ new.got = tool[t].got /\ new.reported = tool[t].reported
           /\ new.expected.step = step /\ new.expected.result = answer
           /\ DOMAIN new.tx = TxFields /\ new.tx.mint = tool[t].asset
           /\ IsUpdates(new.tx.updates)
           /\ new.tx.request = request /\ new.tx.outcome = None
  <1>1. PICK sent : sent = Transfers(t, request, answer, step)
    OBVIOUS
  <1>2. /\ DOMAIN sent = Fields /\ sent.pc = "transferring" /\ sent.kind = tool[t].kind
        /\ sent.asset = tool[t].asset /\ sent.T = tool[t].T
        /\ sent.request = tool[t].request
        /\ sent.got = tool[t].got /\ sent.reported = tool[t].reported
        /\ sent.expected.step = step /\ sent.expected.result = answer
        /\ DOMAIN sent.tx = TxFields /\ sent.tx.mint = tool[t].asset
        /\ IsUpdates(sent.tx.updates)
        /\ sent.tx.request = request /\ sent.tx.outcome = None
    BY <1>1, TransfersFields
  <1>3. new = [sent EXCEPT !.checkedAt = clock]
    BY <1>1 DEF CheckedTransfer
  <1>4. /\ DOMAIN new = Fields /\ new.pc = sent.pc /\ new.kind = sent.kind
        /\ new.asset = sent.asset /\ new.T = sent.T /\ new.request = sent.request
        /\ new.got = sent.got /\ new.reported = sent.reported /\ new.expected = sent.expected
        /\ new.tx = sent.tx /\ new.checkedAt = clock
    BY <1>2, <1>3 DEF Fields
  <1> QED
    BY <1>2, <1>4

\* The steps that read the Clock and transfer.
ClockReads == {"before window", "inside window", "after window", "activated"}

\* One transfer of the scenario, from a request, an expected result and the Clock.
LEMMA ScenarioStepFits ==
    ASSUME IInv, NEW t \in Tools,
           tool[t].pc \in ClockReads,
           NEW request \in AssertSafeExecution, NEW answer, NEW step, NEW new,
           new = CheckedTransfer(t, request, answer, step),
           MayTransfer(tool[t], step, answer, request, clock, mint)
    PROVE  Fits(new, clock, mint)
  <1>1. PICK r : r = tool[t] /\ Fits(r, clock, mint)
    BY DEF IInv
  <1>2. /\ r.got = <<>> /\ r.reported = FALSE
    BY <1>1, NothingGot DEF ClockReads
  <1>3. r.kind = "transition" /\ r.asset \in Assets
    BY <1>1 DEF Fits, KindFits, DemoSteps, ClockReads
  <1>4. /\ DOMAIN new = Fields /\ new.pc = "transferring" /\ new.kind = r.kind
        /\ new.asset = r.asset /\ new.T = r.T
        /\ new.request = r.request /\ new.checkedAt = clock
        /\ new.got = r.got /\ new.reported = r.reported
        /\ new.expected.step = step /\ new.expected.result = answer
        /\ DOMAIN new.tx = TxFields /\ new.tx.mint = r.asset
        /\ IsUpdates(new.tx.updates)
        /\ new.tx.request = request /\ new.tx.outcome = None
    BY <1>1, CheckedFields
  <1>5. new.kind = "transition" /\ new.got = <<>> /\ new.reported = FALSE
    BY <1>2, <1>3, <1>4
  <1>6. KindFits(new) /\ TxFits(new)
    BY <1>1, <1>3, <1>4, <1>5 DEF KindFits, TxFits, MayTransfer
  <1>7. PendingFits(new, clock)
    <2>1. r.pc \notin {"idle", "ended", "transition", "scheduling"}
      BY <1>1 DEF ClockReads
    <2>2. /\ r.T \in ScenarioLead .. MaxClock + ScenarioLead
          /\ r.request \in AssertSafeExecution /\ HasScheduledChange(r.request.expected)
          /\ r.request.expectedPhase = "Pending" /\ r.request.window = ScenarioWindow
      BY <1>1, <1>3, <2>1 DEF Fits, PendingFits
    <2> QED
      BY <1>4, <1>5, <2>2 DEF PendingFits
  <1>8. clock \in Int /\ clock <= clock
    BY ChainTime DEF IInv
  <1>9. step = "fresh" => SameChange(request, mint[r.asset], clock)
    BY <1>1 DEF SameChange, MayTransfer
  <1>10. StepFits(new, clock, mint)
    BY <1>1, <1>4, <1>5, <1>8, <1>9 DEF StepFits, MayTransfer
  <1> QED
    BY <1>4, <1>5, <1>6, <1>7, <1>10, TransitionFits

LEMMA BeforeWindowFits ==
    ASSUME IInv, NEW t \in Tools, BeforeWindow(t)
    PROVE  IInv'
  <1>1. tool[t].pc = "before window" /\ Fits(tool[t], clock, mint)
    BY DEF BeforeWindow, IInv
  <1>2. PICK request : request = tool[t].request
    OBVIOUS
  <1>3. /\ request \in AssertSafeExecution
        /\ tool[t].T \in ScenarioLead .. MaxClock + ScenarioLead
    BY <1>1, <1>2 DEF Fits, KindFits, DemoSteps, PendingFits
  <1>4. PICK new : new = CheckedTransfer(t, request, "Ok", "before")
    OBVIOUS
  <1>6. \/ ~(clock > BeforeWindowDeadline(tool[t].T)) /\ Becomes(t, new)
        \/ Becomes(t, Ended(t))
    BY <1>2, <1>4 DEF BeforeWindow, CheckedTransfer
  <1>7. CASE ~(clock > BeforeWindowDeadline(tool[t].T)) /\ Becomes(t, new)
    <2>1. clock <= tool[t].T - ScenarioWindow.beforeSecs - LandingMargin
      BY <1>3, <1>7, ToolConstants DEF BeforeWindowDeadline, ProtectionWindow, IInv
    <2>2. Fits(new, clock, mint)
      BY <1>1, <1>2, <1>3, <1>4, <2>1, ScenarioStepFits DEF MayTransfer, ClockReads
    <2> QED
      BY <1>7, <2>2, BecomesFits
  <1> QED
    BY <1>1, <1>6, <1>7, EndKeepsIInv

LEMMA ReplayFits ==
    ASSUME IInv, NEW t \in Tools, InsideWindow(t) \/ AfterWindow(t)
    PROVE  IInv'
  <1>1. PICK pc, target, answer, step :
          /\ ReplayAfter(t, pc, target, answer, step)
          /\ \/ /\ pc = "inside window" /\ step = "inside" /\ answer = "InsideTransitionWindow"
                /\ target = tool[t].T - ScenarioWindow.beforeSecs + 1
             \/ /\ pc = "after window" /\ step = "after" /\ answer = "ActivationPhaseChanged"
                /\ target = tool[t].T + ScenarioWindow.afterSecs + LandingMargin
    BY DEF InsideWindow, AfterWindow
  <1>2. /\ tool[t].pc = pc /\ Fits(tool[t], clock, mint) /\ clock >= target
    BY <1>1 DEF ReplayAfter, IInv
  <1>3. PICK request : request = tool[t].request
    OBVIOUS
  <1>4. request \in AssertSafeExecution
    BY <1>1, <1>2, <1>3 DEF Fits, KindFits, DemoSteps, PendingFits
  <1>5. PICK new : new = CheckedTransfer(t, request, answer, step)
    OBVIOUS
  <1>7. Becomes(t, new) \/ Becomes(t, Ended(t))
    BY <1>1, <1>3, <1>5 DEF ReplayAfter, CheckedTransfer
  <1>8. Fits(new, clock, mint)
    BY <1>1, <1>2, <1>3, <1>4, <1>5, ScenarioStepFits DEF MayTransfer, ClockReads
  <1>9. tool[t].pc # "ended"
    BY <1>1, <1>2
  <1> QED
    BY <1>7, <1>8, <1>9, BecomesFits, EndKeepsIInv

LEMMA FreshActivatedFits ==
    ASSUME IInv, NEW t \in Tools, FreshActivated(t)
    PROVE  IInv'
  <1>1. tool[t].pc = "activated" /\ Fits(tool[t], clock, mint)
    BY DEF FreshActivated, IInv
  <1>2. PICK request : request = FreshRequest(tool[t].asset)
    OBVIOUS
  <1>3. /\ tool[t].asset \in Assets
        /\ clock >= tool[t].T + ScenarioWindow.afterSecs + LandingMargin
    BY <1>1 DEF Fits, KindFits, DemoSteps, PendingFits
  <1>4. PICK new : new = CheckedTransfer(t, request, "Ok", "fresh")
    OBVIOUS
  <1>6. \/ PhaseAt(mint[tool[t].asset], clock) = "Activated" /\ Becomes(t, new)
        \/ Becomes(t, Ended(t))
    BY <1>2, <1>4 DEF FreshActivated, CheckedTransfer
  <1>7. CASE PhaseAt(mint[tool[t].asset], clock) = "Activated" /\ Becomes(t, new)
    <2>1. /\ request \in AssertSafeExecution /\ request.expected = mint[tool[t].asset]
          /\ request.expectedPhase = "Activated" /\ request.window = ScenarioWindow
      BY <1>2, <1>3, <1>7, FreshRequestFits
    <2>2. Fits(new, clock, mint)
      BY <1>1, <1>3, <1>4, <2>1, ScenarioStepFits DEF MayTransfer, ClockReads
    <2> QED
      BY <1>7, <2>2, BecomesFits
  <1> QED
    BY <1>1, <1>6, <1>7, EndKeepsIInv

LEMMA TransferRecordedFits ==
    ASSUME IInv, NEW t \in Tools, TransferRecorded(t)
    PROVE  IInv'
  <1>1. PICK r : r = tool[t] /\ Fits(r, clock, mint)
    BY DEF IInv
  <1>2. PICK next : next = NextStep[r.expected.step]
    OBVIOUS
  <1>3. PICK new : new = [r EXCEPT !.pc = next, !.tx = None, !.expected = None,
                                   !.checkedAt = None]
    OBVIOUS
  <1>4. /\ r.pc = "transferring" /\ DOMAIN r = Fields /\ tool[t].pc # "ended"
        /\ (next # "ended" /\ Becomes(t, new)) \/ Becomes(t, Ended(t))
    BY <1>1, <1>2, <1>3 DEF TransferRecorded, Confirmed, Fits
  <1>5. CASE next # "ended" /\ Becomes(t, new)
    <2>1. r.got = <<>> /\ r.reported = FALSE
      BY <1>1, <1>4, NothingGot
    <2>2. /\ r.asset \in Assets
          /\ \/ r.kind = "stale" /\ next = "stale retry"
             \/ /\ r.kind = "transition"
                /\ \/ next \in {"inside window", "after window"}
                   \/ r.expected.step = "after" /\ next = "activated"
      <3>1. /\ NextStep["safe"] = "ended" /\ NextStep["stale"] = "stale retry"
            /\ NextStep["retry"] = "ended" /\ NextStep["before"] = "inside window"
            /\ NextStep["inside"] = "after window" /\ NextStep["after"] = "activated"
            /\ NextStep["fresh"] = "ended"
        BY DEF NextStep
      <3>2. /\ r.asset \in Assets
            /\ \/ r.kind = "safe" /\ r.expected.step = "safe"
               \/ r.kind = "stale" /\ r.expected.step \in {"stale", "retry"}
               \/ /\ r.kind = "transition"
                  /\ r.expected.step \in {"before", "inside", "after", "fresh"}
        BY <1>1, <1>4 DEF Fits, KindFits, DemoSteps, TransitionSteps
      <3> QED
        BY <1>2, <1>5, <3>1, <3>2
    <2>3. /\ DOMAIN new = Fields /\ new.pc = next /\ new.kind = r.kind /\ new.asset = r.asset
          /\ new.T = r.T /\ new.request = r.request /\ new.got = <<>> /\ new.reported = FALSE
      BY <1>3, <1>4, <2>1 DEF Fields
    <2>4. KindFits(new) /\ TxFits(new)
      BY <2>2, <2>3 DEF KindFits, TxFits, TransitionSteps, Awaits
    <2>5. CASE r.kind = "stale" /\ next = "stale retry"
      BY <1>5, <2>3, <2>4, <2>5, PlainFits, BecomesFits
    <2>6. CASE r.kind = "transition"
               /\ (next \in {"inside window", "after window"}
                     \/ (r.expected.step = "after" /\ next = "activated"))
      <3>1. /\ r.T \in ScenarioLead .. MaxClock + ScenarioLead
            /\ r.request \in AssertSafeExecution /\ HasScheduledChange(r.request.expected)
            /\ r.request.expectedPhase = "Pending" /\ r.request.window = ScenarioWindow
        BY <1>1, <1>4, <2>6 DEF Fits, PendingFits
      <3>2. next = "activated" =>
              clock >= r.T + ScenarioWindow.afterSecs + LandingMargin
        <4>1. /\ r.checkedAt \in Int /\ r.checkedAt <= clock
              /\ r.expected.step = "after" =>
                   r.checkedAt >= r.T + ScenarioWindow.afterSecs + LandingMargin
          BY <1>1, <1>4, <2>6 DEF Fits, StepFits
        <4> QED
          BY <2>6, <3>1, <4>1, ToolConstants DEF IInv, ProtectionWindow
      <3>3. PendingFits(new, clock)
        BY <2>3, <2>6, <3>1, <3>2 DEF PendingFits
      <3>4. StepFits(new, clock, mint)
        BY <2>3, <2>6 DEF StepFits
      <3>5. Fits(new, clock, mint)
        BY <2>3, <2>4, <2>6, <3>3, <3>4, TransitionFits DEF TransitionSteps
      <3> QED
        BY <1>5, <3>5, BecomesFits
    <2> QED
      BY <2>2, <2>5, <2>6
  <1> QED
    BY <1>4, <1>5, EndKeepsIInv
-------------------------------------------------------------------------------
\* Landing and time.

\* What a tool holds stays true as time passes and the mints change.
LEMMA FitsMoves ==
    ASSUME NEW now \in Int, NEW later \in Int, now <= later, NEW state, NEW after,
           after \in [Assets -> ProtectedState],
           \A a \in Assets : \/ after[a] = state[a]
                             \/ HasScheduledChange(after[a]) =>
                                  after[a].effectiveTimestamp > now,
           NEW r, Fits(r, now, state)
    PROVE  Fits(r, later, after)
  <1>1. SeenFits(r, later)
    <2>1. CASE r.pc \in {"observe alternative", "probe", "probing"}
      <3>1. PICK at : at = r.seen.at
        OBVIOUS
      <3>2. at \in Timestamps /\ at <= now
        BY <2>1, <3>1 DEF Fits, SeenFits
      <3>3. at <= later
        BY <3>2, TimestampsAreIntegers
      <3> QED
        BY <2>1, <3>1, <3>3 DEF Fits, SeenFits
    <2>2. CASE r.pc \notin {"observe alternative", "probe", "probing"}
      BY <2>2 DEF SeenFits
    <2> QED
      BY <2>1, <2>2
  <1>2. PendingFits(r, later)
    <2>1. r.pc = "activated" => /\ r.T \in ScenarioLead .. MaxClock + ScenarioLead
                                /\ now >= r.T + ScenarioWindow.afterSecs + LandingMargin
      BY DEF Fits, KindFits, DemoSteps, PendingFits
    <2>2. r.pc = "activated" => later >= r.T + ScenarioWindow.afterSecs + LandingMargin
      BY <2>1, ToolConstants DEF ProtectionWindow
    <2> QED
      BY <2>2 DEF Fits, PendingFits
  <1>3. StepFits(r, later, after)
    <2> SUFFICES ASSUME r.kind = "transition", r.pc = "transferring"
                 PROVE  StepFits(r, later, after)
      BY DEF StepFits
    <2>1. r.checkedAt \in Int /\ r.checkedAt <= now /\ r.checkedAt <= later
      BY DEF Fits, StepFits
    <2>2. r.asset \in Assets
      BY DEF Fits, KindFits, DemoSteps, TransitionSteps
    <2>3. ASSUME SameChange(r.tx.request, state[r.asset], r.checkedAt)
          PROVE  SameChange(r.tx.request, after[r.asset], r.checkedAt)
      <3>1. after[r.asset].effectiveTimestamp \in Int
        BY <2>2, TimestampsAreIntegers DEF ProtectedState
      <3>2. CASE after[r.asset] = state[r.asset]
        BY <2>3, <3>2
      <3>3. CASE HasScheduledChange(after[r.asset]) => after[r.asset].effectiveTimestamp > now
        BY <2>1, <3>1, <3>3 DEF SameChange
      <3> QED
        BY <2>2, <3>2, <3>3
    <2>4. ASSUME r.expected.step = "fresh"
          PROVE  SameChange(r.tx.request,
                            IF r.tx.outcome = None THEN after[r.asset] ELSE r.tx.landedOn,
                            r.checkedAt)
      <3>1. SameChange(r.tx.request,
                       IF r.tx.outcome = None THEN state[r.asset] ELSE r.tx.landedOn,
                       r.checkedAt)
        BY <2>4 DEF Fits, StepFits
      <3>2. CASE r.tx.outcome = None
        <4>1. SameChange(r.tx.request, state[r.asset], r.checkedAt)
          BY <3>1, <3>2, Zenon
        <4> QED
          BY <2>3, <3>2, <4>1, Zenon
      <3>3. CASE r.tx.outcome # None
        BY <3>1, <3>3, Zenon
      <3> QED
        BY <3>2, <3>3
    <2> QED
      BY <2>1, <2>4 DEF Fits, StepFits
  <1> QED
    BY <1>1, <1>2, <1>3 DEF Fits

LEMMA ClockFits ==
    ASSUME IInv, ClockAdvances
    PROVE  IInv'
  <1>1. /\ clock \in Int /\ clock' \in Int /\ clock <= clock' /\ clock' \in 0 .. MaxClock
        /\ mint' = mint /\ tool' = tool
    BY ToolConstants DEF IInv, ClockAdvances
  <1>2. ASSUME NEW t \in Tools
        PROVE  Fits(tool[t], clock', mint)
    <2>1. Fits(tool[t], clock, mint) /\ mint \in [Assets -> ProtectedState]
      BY DEF IInv
    <2> QED
      BY <1>1, <2>1, FitsMoves
  <1> QED
    BY <1>1, <1>2 DEF IInv

\* The landed form of a transaction.
IsLanded(tx, on, at, landed) ==
    landed = IF tx.request = None THEN [tx EXCEPT !.outcome = "Ok"]
             ELSE [tx EXCEPT !.outcome = Check(tx.request, on, at), !.landedAt = at,
                             !.landedOn = on]

LEMMA LandedFields ==
    ASSUME NEW tx, DOMAIN tx = TxFields, NEW at, NEW on, NEW landed,
           IsLanded(tx, on, at, landed)
    PROVE  /\ DOMAIN landed = TxFields /\ landed.mint = tx.mint
           /\ landed.updates = tx.updates /\ landed.request = tx.request
           /\ tx.request = None => landed.landedOn = tx.landedOn
           /\ tx.request # None => /\ landed.outcome = Check(tx.request, on, at)
                                   /\ landed.landedAt = at /\ landed.landedOn = on
  <1>1. PICK verdict : verdict = Check(tx.request, on, at)
    OBVIOUS
  <1>2. CASE tx.request = None
    <2>1. landed = [tx EXCEPT !.outcome = "Ok"]
      BY <1>2 DEF IsLanded
    <2> QED
      BY <1>2, <2>1 DEF TxFields
  <1>3. CASE tx.request # None
    <2>1. landed = [tx EXCEPT !.outcome = verdict, !.landedAt = at, !.landedOn = on]
      BY <1>1, <1>3 DEF IsLanded
    <2>2. /\ DOMAIN landed = TxFields /\ landed.mint = tx.mint
          /\ landed.updates = tx.updates /\ landed.request = tx.request
          /\ landed.outcome = verdict /\ landed.landedAt = at /\ landed.landedOn = on
      BY <2>1 DEF TxFields
    <2> QED
      BY <1>1, <1>3, <2>2
  <1> QED
    BY <1>2, <1>3

\* The guard on a request that is bound to an observed state.
LEMMA BoundRequestType ==
    ASSUME NEW econ, IsBound(econ)
    PROVE  /\ BoundRequest(econ) \in AssertSafeExecution
           /\ BoundRequest(econ) # None
           /\ BoundRequest(econ).expected = econ.stored.state
           /\ BoundRequest(econ).expectedPhase = econ.stored.phase
           /\ BoundRequest(econ).window.beforeSecs = DemoPolicy.beforeSecs
           /\ BoundRequest(econ).window.afterSecs = DemoPolicy.afterSecs
  <1>1. BoundRequest(econ) \in AssertSafeExecution
    BY ToolConstants DEF BoundRequest, IsBound, AssertSafeExecution, ProtectionWindow
  <1> QED
    BY <1>1, ToolConstants DEF BoundRequest

\* guard.rs: what is accepted executes at the multiplier of the bound state.
LEMMA AcceptedAsBound ==
    ASSUME NEW econ, IsBound(econ), NEW actual \in ProtectedState, NEW now \in Timestamps,
           Check(BoundRequest(econ), actual, now) = "Ok"
    PROVE  EffectiveMultiplier(actual, now) = econ.effective
  <1>1. /\ actual = econ.stored.state
        /\ HasScheduledChange(actual) => PhaseAt(actual, now) = econ.stored.phase
    BY BoundRequestType, AcceptedStateIsExpected
  <1> QED
    BY <1>1 DEF IsBound, HasScheduledChange, PhaseAt, EffectiveMultiplier, Phases

\* A probe that is accepted was bound to a change that had activated: the window
\* of a pending one does not close before its activation.
LEMMA AcceptedProbe ==
    ASSUME NEW r, NEW now \in Timestamps, NEW actual \in ProtectedState,
           SeenFits(r, now), ProbeFits(r), r.pc = "probing",
           Check(r.tx.request, actual, now) = "Ok"
    PROVE  r.tx.request.expectedPhase = "Activated"
  <1>1. PICK state, at, econ : /\ state = r.seen.econ.stored.state /\ at = r.seen.at
                               /\ econ = r.seen.econ
    OBVIOUS
  <1>2. /\ r.seen = ObservationOf(Preferred, state, at)
        /\ state \in ProtectedState /\ at \in Timestamps /\ at <= now
    BY <1>1 DEF SeenFits
  <1>3. /\ r.seen.scheduled = HasScheduledChange(state)
        /\ r.seen.activation = state.effectiveTimestamp
    BY <1>2 DEF ObservationOf
  <1>4. /\ econ.stored.state = state /\ econ.stored.phase = PhaseAt(state, at)
        /\ econ.effective = EffectiveMultiplier(state, at)
    BY <1>1, <1>2 DEF ObservationOf
  <1>5. IsBound(econ)
    BY <1>2, <1>4 DEF IsBound, PhaseAt, EffectiveMultiplier, Phases
  <1>6. r.tx.request = BoundRequest(econ)
    BY <1>1 DEF ProbeFits
  <1>7. HasScheduledChange(state)
    BY <1>3 DEF ProbeFits
  <1>8. state.effectiveTimestamp - DemoPolicy.beforeSecs <= at
    BY <1>1, <1>3 DEF ProbeFits
  <1>9. PICK request : request = r.tx.request
    OBVIOUS
  <1>10. /\ request \in AssertSafeExecution /\ request.expected = state
         /\ request.window.beforeSecs = DemoPolicy.beforeSecs
         /\ request.window.afterSecs = DemoPolicy.afterSecs
    BY <1>4, <1>5, <1>6, <1>9, BoundRequestType
  <1>11. /\ actual = state
         /\ ~WindowContains(request.window, actual.effectiveTimestamp, now)
         /\ PhaseAt(actual, now) = request.expectedPhase
    BY <1>7, <1>9, <1>10, AcceptedStateIsExpected
  <1>12. /\ now \in Int /\ at \in Int /\ state.effectiveTimestamp \in Int
         /\ DemoPolicy.beforeSecs \in Nat /\ DemoPolicy.afterSecs \in Nat
    BY <1>2, TimestampsAreIntegers, ToolConstants DEF ProtectedState
  <1>13. now >= state.effectiveTimestamp
    BY <1>2, <1>8, <1>10, <1>11, <1>12 DEF WindowContains
  <1> QED
    BY <1>9, <1>11, <1>13 DEF PhaseAt

\* The transaction of a tool is included, and the tool knows nothing of it yet.
LandedTool(r, new, landed, got) ==
    /\ DOMAIN new = Fields
    /\ \A f \in Fields \ {"tx", "got"} : new[f] = r[f]
    /\ new.tx = landed /\ new.got = got

\* The delivery of a demo run.
LEMMA DeliveryFits ==
    ASSUME NEW now \in Timestamps, NEW on \in ProtectedState, NEW state, NEW r,
           Fits(r, now, state), r.pc \in {"probing", "executing"}, NEW landed,
           landed.mint = r.tx.mint, landed.request = r.tx.request, landed.landedAt = now,
           landed.landedOn = on, landed.outcome = Check(r.tx.request, on, now),
           landed.outcome = "Ok", NEW new, LandedTool(r, new, landed, <<landed>>)
    PROVE  GotFits(new)
  <1>1. new.pc = r.pc /\ new.plan = r.plan /\ new.reported = r.reported
        /\ new.tx = landed /\ new.got = <<landed>>
    BY DEF LandedTool, Fields
  <1>2. new.got[1] = landed /\ new.got = <<new.got[1]>>
    BY <1>1
  <1>3. r.reported \in BOOLEAN /\ (r.reported = TRUE => r.pc = "ended")
    BY DEF Fits, GotFits
  <1>4. CASE r.pc = "probing"
    <2>1. landed.request.expectedPhase = "Activated"
      BY <1>4, AcceptedProbe DEF Fits
    <2>2. IsDelivery(new, landed)
      BY <1>1, <1>3, <1>4, <2>1 DEF IsDelivery
    <2> QED
      BY <1>1, <1>2, <1>3, <1>4, <2>2 DEF GotFits
  <1>5. CASE r.pc = "executing"
    <2>1. /\ r.tx.request = BoundRequest(r.plan.state) /\ r.tx.mint = r.plan.mint
          /\ IsBound(r.plan.state)
      BY <1>5 DEF Fits, PlanFits
    <2>2. EffectiveMultiplier(on, now) = r.plan.state.effective
      BY <2>1, AcceptedAsBound
    <2>3. IsDelivery(new, landed)
      BY <1>1, <1>5, <2>1, <2>2 DEF IsDelivery
    <2> QED
      BY <1>1, <1>2, <1>3, <1>5, <2>3 DEF GotFits
  <1> QED
    BY <1>4, <1>5

\* The tool whose transaction lands, at the time and on the state it lands on.
LEMMA LandedToolFits ==
    ASSUME NEW now \in Timestamps, NEW on \in ProtectedState, NEW state, NEW r,
           Fits(r, now, state), r.pc \in Awaits, r.tx.outcome = None, on = state[r.tx.mint],
           NEW landed, IsLanded(r.tx, on, now, landed),
           NEW got, got = IF r.kind = "demo" /\ landed.landedOn # None /\ landed.outcome = "Ok"
                          THEN Append(r.got, landed) ELSE r.got,
           NEW new, LandedTool(r, new, landed, got)
    PROVE  Fits(new, now, state)
  <1>1. DOMAIN r.tx = TxFields /\ r.tx.mint \in Assets /\ IsUpdates(r.tx.updates)
    BY DEF Fits, TxFits
  <1>2. PICK tx, verdict : tx = r.tx /\ verdict = Check(r.tx.request, on, now)
    OBVIOUS
  <1>3. /\ DOMAIN landed = TxFields /\ landed.mint = tx.mint
        /\ landed.updates = tx.updates /\ landed.request = tx.request
        /\ tx.request = None => landed.landedOn = tx.landedOn
        /\ tx.request # None => /\ landed.outcome = verdict /\ landed.landedAt = now
                                /\ landed.landedOn = on
    BY <1>1, <1>2, LandedFields
  <1>4. /\ DOMAIN new = Fields /\ new.pc = r.pc /\ new.kind = r.kind /\ new.asset = r.asset
        /\ new.now = r.now /\ new.T = r.T /\ new.seen = r.seen /\ new.request = r.request
        /\ new.expected = r.expected /\ new.plan = r.plan /\ new.checkedAt = r.checkedAt
        /\ new.reported = r.reported /\ new.tx = landed /\ new.got = got
    BY DEF LandedTool, Fields
  <1>5. /\ new.tx.mint = r.tx.mint /\ new.tx.updates = r.tx.updates
        /\ new.tx.request = r.tx.request /\ DOMAIN new.tx = TxFields
    BY <1>2, <1>3, <1>4
  <1>6. KindFits(new)
    BY <1>4 DEF Fits, KindFits
  <1>7. TxFits(new)
    <2>1. r.pc \in {"reset preferred", "reset alternative"} =>
            r.tx.request = None /\ new.tx.landedOn = None
      BY <1>2, <1>3, <1>4 DEF Fits, TxFits
    <2> QED
      BY <1>1, <1>4, <1>5, <2>1 DEF Fits, TxFits
  <1>8. SeenFits(new, now) /\ PlanFits(new) /\ ProbeFits(new) /\ PendingFits(new, now)
    <2>1. SeenFits(new, now)
      BY <1>4 DEF Fits, SeenFits
    <2>2. PlanFits(new)
      BY <1>4, <1>5 DEF Fits, PlanFits
    <2>3. ProbeFits(new)
      BY <1>4, <1>5 DEF Fits, ProbeFits
    <2>4. PendingFits(new, now)
      BY <1>4 DEF Fits, PendingFits
    <2> QED
      BY <2>1, <2>2, <2>3, <2>4
  <1>9. r.got = <<>> /\ r.reported = FALSE
    BY ToolConstants DEF Fits, GotFits, IsDelivery, Awaits
  <1>10. GotFits(new)
    <2>1. CASE r.pc \in {"probing", "executing"}
      <3>1. r.tx.request # None
        <4>1. CASE r.pc = "executing"
          BY <4>1, BoundRequestType DEF Fits, PlanFits
        <4>2. CASE r.pc = "probing"
          <5>1. PICK econ, s, at : /\ econ = r.seen.econ /\ s = r.seen.econ.stored.state
                                   /\ at = r.seen.at
            OBVIOUS
          <5>2. r.seen = ObservationOf(Preferred, s, at) /\ s \in ProtectedState
            BY <4>2, <5>1 DEF Fits, SeenFits
          <5>3. /\ econ.stored.state = s /\ econ.stored.phase = PhaseAt(s, at)
                /\ econ.effective = EffectiveMultiplier(s, at)
            BY <5>1, <5>2 DEF ObservationOf
          <5>4. IsBound(econ)
            BY <5>2, <5>3 DEF IsBound, PhaseAt, EffectiveMultiplier, Phases
          <5>5. r.tx.request = BoundRequest(econ)
            BY <4>2, <5>1 DEF Fits, ProbeFits
          <5> QED
            BY <5>4, <5>5, BoundRequestType
        <4> QED
          BY <2>1, <4>1, <4>2
      <3>2. /\ landed.outcome = Check(r.tx.request, on, now) /\ landed.landedAt = now
            /\ landed.landedOn = on /\ landed.mint = r.tx.mint
            /\ landed.request = r.tx.request
        BY <1>2, <1>3, <3>1
      <3>3. on # None /\ r.kind = "demo"
        BY <2>1, ToolConstants DEF Fits, KindFits, DemoSteps, TransitionSteps
      <3>4. CASE landed.outcome = "Ok"
        <4>1. got = <<landed>>
          BY <1>9, <3>2, <3>3, <3>4
        <4>2. LandedTool(r, new, landed, <<landed>>)
          BY <4>1
        <4> QED
          BY <2>1, <3>2, <3>4, <4>2, DeliveryFits
      <3>5. CASE landed.outcome # "Ok"
        <4>1. new.got = <<>> /\ new.tx.outcome # "Ok" /\ new.reported = FALSE
          BY <1>4, <1>9, <3>5
        <4> QED
          BY <4>1 DEF GotFits
      <3> QED
        BY <3>4, <3>5
    <2>2. CASE r.pc \notin {"probing", "executing"}
      <3>1. r.kind = "demo" => landed.landedOn = None
        <4>1. r.kind = "demo" => r.pc \in {"reset preferred", "reset alternative"}
          BY <2>2 DEF Fits, KindFits, Awaits, DemoSteps, TransitionSteps
        <4> QED
          BY <1>2, <1>3, <4>1 DEF Fits, TxFits
      <3>2. new.got = <<>> /\ new.reported = FALSE /\ new.pc = r.pc
        BY <1>4, <1>9, <3>1
      <3> QED
        BY <2>2, <3>2 DEF GotFits
    <2> QED
      BY <2>1, <2>2
  <1>11. StepFits(new, now, state)
    <2> SUFFICES ASSUME r.kind = "transition", r.pc = "transferring"
                 PROVE  StepFits(new, now, state)
      BY <1>4 DEF StepFits
    <2>1. /\ r.tx.request \in AssertSafeExecution /\ r.tx.mint = r.asset
          /\ r.checkedAt \in Int /\ r.checkedAt <= now
      BY DEF Fits, StepFits
    <2>2. r.tx.request # None
      BY <2>1, ToolConstants
    <2>3. /\ new.tx.outcome = Check(new.tx.request, on, now) /\ new.tx.landedAt = now
          /\ new.tx.landedOn = on
      BY <1>2, <1>3, <1>4, <1>5, <2>2
    <2>4. ASSUME r.expected.step = "fresh"
          PROVE  SameChange(new.tx.request,
                            IF new.tx.outcome = None THEN state[new.asset] ELSE new.tx.landedOn,
                            new.checkedAt)
      <3>1. SameChange(r.tx.request,
                       IF r.tx.outcome = None THEN state[r.asset] ELSE r.tx.landedOn,
                       r.checkedAt)
        BY <2>4 DEF Fits, StepFits
      <3>2. SameChange(new.tx.request, on, new.checkedAt)
        BY <1>4, <1>5, <2>1, <3>1
      <3>3. state[new.asset] = on
        BY <1>4, <2>1
      <3> QED
        BY <2>3, <3>2, <3>3, Zenon
    <2> QED
      BY <1>4, <1>5, <2>1, <2>3, <2>4 DEF Fits, StepFits
  <1> QED
    BY <1>4, <1>6, <1>7, <1>8, <1>10, <1>11 DEF Fits

LEMMA LandFits ==
    ASSUME IInv, NEW t \in Tools, Land(t)
    PROVE  IInv'
  <1>1. PICK r : r = tool[t] /\ Fits(r, clock, mint)
    BY DEF IInv
  <1>2. /\ r.pc \in Awaits /\ r.tx.outcome = None /\ DOMAIN r = Fields
        /\ r.tx.mint \in Assets /\ IsUpdates(r.tx.updates)
    BY <1>1 DEF Land, Fits, TxFits
  <1>3. PICK m, on : m = r.tx.mint /\ on = mint[m]
    OBVIOUS
  <1>4. on \in ProtectedState /\ clock \in Timestamps /\ clock \in Int /\ clock <= clock
    BY <1>2, <1>3, ChainTime DEF IInv
  <1>5. PICK landed : IsLanded(r.tx, on, clock, landed)
    BY DEF IsLanded
  <1>6. PICK got : got = IF r.kind = "demo" /\ landed.landedOn # None /\ landed.outcome = "Ok"
                         THEN Append(r.got, landed) ELSE r.got
    OBVIOUS
  <1>7. /\ mint' = [mint EXCEPT ![m] = ApplyUpdates(mint[m], r.tx.updates)]
        /\ tool' = [tool EXCEPT ![t].tx = landed, ![t].got = got]
        /\ clock' = clock
    BY <1>1, <1>3, <1>5, <1>6 DEF Land, IsLanded
  <1>8. /\ DOMAIN tool' = Tools /\ LandedTool(r, tool'[t], landed, got)
        /\ \A u \in Tools \ {t} : tool'[u] = tool[u]
    BY <1>1, <1>2, <1>7 DEF IInv, LandedTool, Fields
  <1>9. Fits(tool'[t], clock, mint)
    BY <1>1, <1>2, <1>3, <1>4, <1>5, <1>6, <1>8, LandedToolFits
  <1>10. /\ mint' \in [Assets -> ProtectedState]
         /\ \A a \in Assets : \/ mint'[a] = mint[a]
                              \/ HasScheduledChange(mint'[a]) =>
                                   mint'[a].effectiveTimestamp > clock
    <2>1. PICK next : next = ApplyUpdates(on, r.tx.updates)
      OBVIOUS
    <2>2. /\ next \in ProtectedState
          /\ \/ next = on
             \/ HasScheduledChange(next) => next.effectiveTimestamp > clock
      BY <1>2, <1>4, <2>1, ApplyUpdatesFits
    <2>3. mint' = [mint EXCEPT ![m] = next] /\ mint \in [Assets -> ProtectedState]
      BY <1>3, <1>7, <2>1 DEF IInv
    <2> QED
      BY <1>2, <1>3, <2>2, <2>3
  <1>11. \A u \in Tools : Fits(tool'[u], clock, mint)
    BY <1>8, <1>9 DEF IInv
  <1>12. ASSUME NEW u \in Tools
         PROVE  Fits(tool'[u], clock, mint')
    BY <1>4, <1>10, <1>11, FitsMoves
  <1> QED
    BY <1>7, <1>8, <1>10, <1>12 DEF IInv

LEMMA NextIInv == IInv /\ [Next]_vars => IInv'
  <1> SUFFICES ASSUME IInv, [Next]_vars PROVE IInv'
    OBVIOUS
  <1>1. CASE UNCHANGED vars
    BY <1>1 DEF vars, IInv
  <1>2. CASE ClockAdvances
    BY <1>2, ClockFits
  <1>3. ASSUME NEW t \in Tools, Land(t)
        PROVE  IInv'
    BY <1>3, LandFits
  <1>4. ASSUME NEW t \in Tools, TimedOut(t) \/ Fails(t) \/ ScheduleConfirmed(t)
        PROVE  IInv'
    <2>1. tool[t].pc # "ended" /\ Becomes(t, Ended(t))
      BY <1>4 DEF TimedOut, Fails, ScheduleConfirmed, Confirmed, Awaits
    <2> QED
      BY <2>1, EndKeepsIInv
  <1>5. ASSUME NEW t \in Tools,
               \/ StartDemo(t) \/ ResetPreferred(t) \/ ResetAlternative(t) \/ ResetConfirmed(t)
               \/ VerifyPreferred(t) \/ VerifyAlternative(t) \/ ObservePreferred(t)
        PROVE  IInv'
    BY <1>5, StartDemoFits, ResetPreferredFits, ResetAlternativeFits, ResetConfirmedFits,
       VerifyFits, ObservePreferredFits
  <1>6. ASSUME NEW t \in Tools,
               \/ ObserveAndPlan(t) \/ SubmitRejectionProbe(t) \/ ProbeReturned(t)
               \/ ExecutePlan(t) \/ Report(t)
        PROVE  IInv'
    BY <1>6, ObserveAndPlanFits, SubmitProbeFits, ProbeReturnedFits, ExecutePlanFits,
       ReportFits
  <1>7. ASSUME NEW t \in Tools,
               \/ ScheduleCommand(t) \/ StartScenario(t)
               \/ RunSafe(t) \/ StaleUpdate(t) \/ StaleTransfer(t) \/ StaleRetry(t)
        PROVE  IInv'
    BY <1>7, ScheduleCommandFits, StartScenarioFits, RunSafeFits, StaleUpdateFits,
       StaleTransferFits, StaleRetryFits
  <1>8. ASSUME NEW t \in Tools,
               \/ ScheduleTransition(t) \/ ReadPending(t) \/ BeforeWindow(t)
               \/ InsideWindow(t) \/ AfterWindow(t) \/ FreshActivated(t) \/ TransferRecorded(t)
        PROVE  IInv'
    BY <1>8, ScheduleTransitionFits, ReadPendingFits, BeforeWindowFits, ReplayFits,
       FreshActivatedFits, TransferRecordedFits
  <1> QED
    BY <1>1, <1>2, <1>3, <1>4, <1>5, <1>6, <1>7, <1>8 DEF Next

LEMMA IInvHolds == Spec => []IInv
  BY InitIInv, NextIInv, PTL DEF Spec
-------------------------------------------------------------------------------
\* submitRejectionProbe, for every number of tools and every policy of the demo:
\* whatever others do to the mint and however late it lands, a probe bound to a
\* change that is still pending is never delivered.
THEOREM PendingProbesRefused == Spec => []PendingProbesAreRefused
  <1>1. IInv => PendingProbesAreRefused
    <2> SUFFICES ASSUME IInv, NEW t \in Tools, NEW i \in DOMAIN tool[t].got,
                        tool[t].got[i].mint # tool[t].plan.mint
                 PROVE  tool[t].got[i].request.expectedPhase = "Activated"
      BY DEF PendingProbesAreRefused
    <2>1. PICK r : r = tool[t] /\ GotFits(r)
      BY DEF IInv, Fits
    <2>2. r.got # <<>>
      BY <2>1
    <2>3. r.got = <<r.got[1]>> /\ IsDelivery(r, r.got[1])
      BY <2>1, <2>2 DEF GotFits
    <2>4. i = 1
      BY <2>1, <2>3
    <2> QED
      BY <2>1, <2>3, <2>4 DEF IsDelivery
  <1> QED
    BY <1>1, IInvHolds, PTL

\* runDevnetDemo, for every number of tools: a run delivers at most once, and what
\* it reports a signature for is the planned quote, at the multiplier that quote
\* was compared at.
THEOREM DemoDeliversOnce == Spec => []RunDeliversOnce
  <1>1. IInv => RunDeliversOnce
    <2> SUFFICES ASSUME IInv, NEW t \in Tools
                 PROVE  /\ Len(tool[t].got) <= 1
                        /\ tool[t].reported =>
                             /\ tool[t].got[1].mint = tool[t].plan.mint
                             /\ EffectiveMultiplier(tool[t].got[1].landedOn,
                                                    tool[t].got[1].landedAt)
                                  = tool[t].plan.state.effective
      BY DEF RunDeliversOnce
    <2>1. PICK r : r = tool[t] /\ GotFits(r)
      BY DEF IInv, Fits
    <2>2. CASE r.got = <<>> /\ r.reported = FALSE
      BY <2>1, <2>2
    <2>3. CASE r.got = <<r.got[1]>> /\ IsDelivery(r, r.got[1]) /\ r.reported \in BOOLEAN
      <3>1. Len(r.got) <= 1
        <4>1. PICK x : x = r.got[1]
          OBVIOUS
        <4>2. r.got = <<x>>
          BY <2>3, <4>1
        <4> QED
          BY <4>2
      <3>2. ASSUME r.reported
            PROVE  /\ r.got[1].mint = r.plan.mint
                   /\ EffectiveMultiplier(r.got[1].landedOn, r.got[1].landedAt)
                        = r.plan.state.effective
        <4>1. r.reported = TRUE
          BY <2>3, <3>2
        <4> QED
          BY <2>3, <4>1 DEF IsDelivery
      <3> QED
        BY <2>1, <3>1, <3>2
    <2> QED
      BY <2>1, <2>2, <2>3 DEF GotFits
  <1> QED
    BY <1>1, IInvHolds, PTL

\* The guard's answer to a request for a scheduled change, by the place of the
\* landing in the change's window.
LEMMA AnswerInWindow ==
    ASSUME NEW request \in AssertSafeExecution, NEW actual \in ProtectedState,
           NEW now \in Timestamps, actual = request.expected, HasScheduledChange(actual),
           request.window = ScenarioWindow, NEW T,
           T \in ScenarioLead .. MaxClock + ScenarioLead, actual.effectiveTimestamp = T
    PROVE  /\ now < T - ScenarioWindow.beforeSecs /\ request.expectedPhase = "Pending" =>
                Check(request, actual, now) = "Ok"
           /\ T - ScenarioWindow.beforeSecs <= now /\ now <= T + ScenarioWindow.afterSecs =>
                Check(request, actual, now) = "InsideTransitionWindow"
           /\ now > T + ScenarioWindow.afterSecs /\ request.expectedPhase = "Pending" =>
                Check(request, actual, now) = "ActivationPhaseChanged"
           /\ now > T + ScenarioWindow.afterSecs /\ request.expectedPhase = "Activated" =>
                Check(request, actual, now) = "Ok"
  <1>1. /\ now \in Int /\ T \in Int
        /\ ScenarioWindow.beforeSecs \in Nat /\ ScenarioWindow.afterSecs \in Nat
    BY TimestampsAreIntegers, ToolConstants DEF ProtectionWindow
  <1>2. ~WindowOverflows(request.window, actual.effectiveTimestamp)
    BY <1>1, ToolConstants, GuardConstants DEF WindowOverflows
  <1>3. Check(request, actual, now)
          = IF WindowContains(request.window, actual.effectiveTimestamp, now)
              THEN "InsideTransitionWindow"
            ELSE IF PhaseAt(actual, now) # request.expectedPhase THEN "ActivationPhaseChanged"
            ELSE "Ok"
    BY <1>2 DEF Check
  <1>4. WindowContains(request.window, actual.effectiveTimestamp, now)
          <=> T - ScenarioWindow.beforeSecs <= now /\ now <= T + ScenarioWindow.afterSecs
    BY DEF WindowContains
  <1>5. PhaseAt(actual, now) = IF now >= T THEN "Activated" ELSE "Pending"
    BY DEF PhaseAt
  <1> QED
    BY <1>1, <1>3, <1>4, <1>5

\* runTransition, for every window, lead and margin that runTransition accepts and
\* any tools at work on the same mint: with a transaction that lands within the
\* margin on the change the scenario has scheduled, each of its steps shows what it
\* is there to show.
THEOREM MarginsSuffice == Spec => []TransitionStepsMatch
  <1>1. IInv => TransitionStepsMatch
    <2> SUFFICES ASSUME IInv, NEW t \in Tools,
                        tool[t].kind = "transition", Confirmed(t, "transferring"),
                        tool[t].tx.landedOn = tool[t].request.expected,
                        tool[t].request.expected.effectiveTimestamp = tool[t].T,
                        tool[t].tx.landedAt - tool[t].checkedAt < LandingMargin,
                        tool[t].expected.step = "inside" =>
                          tool[t].tx.landedAt <= tool[t].T + ScenarioWindow.afterSecs
                 PROVE  tool[t].expected.result = tool[t].tx.outcome
      BY DEF TransitionStepsMatch, MatchedExpectation
    <2>1. PICK r : r = tool[t] /\ Fits(r, clock, mint)
      BY DEF IInv
    <2>2. r.pc = "transferring" /\ r.tx.outcome # None /\ r.kind = "transition"
      BY <2>1 DEF Confirmed
    <2>3. PICK T, at, on, step, checked :
            /\ T = r.T /\ at = r.tx.landedAt /\ on = r.tx.landedOn
            /\ step = r.expected.step /\ checked = r.checkedAt
      OBVIOUS
    <2>4. /\ T \in ScenarioLead .. MaxClock + ScenarioLead
          /\ r.request \in AssertSafeExecution /\ HasScheduledChange(r.request.expected)
          /\ r.request.expectedPhase = "Pending" /\ r.request.window = ScenarioWindow
      BY <2>1, <2>2, <2>3 DEF Fits, PendingFits
    <2>5. /\ checked \in Int /\ at \in Timestamps /\ at >= checked /\ on \in ProtectedState
          /\ r.tx.request \in AssertSafeExecution
          /\ r.tx.outcome = Check(r.tx.request, on, at)
      BY <2>1, <2>2, <2>3 DEF Fits, StepFits
    <2>6. /\ on = r.request.expected /\ on.effectiveTimestamp = T
          /\ at - checked < LandingMargin
          /\ step = "inside" => at <= T + ScenarioWindow.afterSecs
      BY <2>1, <2>3
    <2>7. step \in {"before", "inside", "after", "fresh"}
      BY <2>1, <2>2, <2>3 DEF Fits, KindFits, DemoSteps, TransitionSteps
    <2>8. /\ at \in Int /\ T \in Int /\ LandingMargin \in Nat
          /\ ScenarioWindow.beforeSecs \in Nat /\ ScenarioWindow.afterSecs \in Nat
      BY <2>4, <2>5, TimestampsAreIntegers, ToolConstants DEF ProtectionWindow
    <2>9. CASE step = "before"
      <3>1. /\ r.tx.request = r.request /\ r.expected.result = "Ok"
            /\ checked <= T - ScenarioWindow.beforeSecs - LandingMargin
        BY <2>1, <2>2, <2>3, <2>9 DEF Fits, StepFits
      <3>2. at < T - ScenarioWindow.beforeSecs
        BY <2>5, <2>6, <2>8, <3>1
      <3> QED
        BY <2>1, <2>4, <2>5, <2>6, <3>1, <3>2, AnswerInWindow
    <2>10. CASE step = "inside"
      <3>1. /\ r.tx.request = r.request /\ r.expected.result = "InsideTransitionWindow"
            /\ checked >= T - ScenarioWindow.beforeSecs + 1
        BY <2>1, <2>2, <2>3, <2>10 DEF Fits, StepFits
      <3>2. T - ScenarioWindow.beforeSecs <= at /\ at <= T + ScenarioWindow.afterSecs
        BY <2>5, <2>6, <2>8, <2>10, <3>1
      <3> QED
        BY <2>1, <2>4, <2>5, <2>6, <3>1, <3>2, AnswerInWindow
    <2>11. CASE step = "after"
      <3>1. /\ r.tx.request = r.request /\ r.expected.result = "ActivationPhaseChanged"
            /\ checked >= T + ScenarioWindow.afterSecs + LandingMargin
        BY <2>1, <2>2, <2>3, <2>11 DEF Fits, StepFits
      <3>2. at > T + ScenarioWindow.afterSecs
        BY <2>5, <2>6, <2>8, <3>1
      <3> QED
        BY <2>1, <2>4, <2>5, <2>6, <3>1, <3>2, AnswerInWindow
    <2>12. CASE step = "fresh"
      <3>1. /\ r.expected.result = "Ok" /\ r.tx.request.expectedPhase = "Activated"
            /\ r.tx.request.window = ScenarioWindow
            /\ checked >= T + ScenarioWindow.afterSecs + LandingMargin
            /\ SameChange(r.tx.request, on, checked)
        BY <2>1, <2>2, <2>3, <2>12 DEF Fits, StepFits
      <3>2. at > T + ScenarioWindow.afterSecs /\ T <= checked
        BY <2>5, <2>6, <2>8, <3>1
      <3>3. on = r.tx.request.expected
        BY <2>4, <2>6, <3>1, <3>2 DEF SameChange
      <3> QED
        BY <2>1, <2>4, <2>5, <2>6, <3>1, <3>2, <3>3, AnswerInWindow
    <2> QED
      BY <2>7, <2>9, <2>10, <2>11, <2>12
  <1> QED
    BY <1>1, IInvHolds, PTL
===============================================================================
