------------------------------- MODULE Adapters --------------------------------
(***************************************************************************)
(* From evidence to a resolved representation state: the classification of    *)
(* chain evidence (chain-observation.ts), the chain-primary xStocks adapter    *)
(* and the Ondo adapter, which weighs chain and API evidence without           *)
(* reconciling them (xstocks-adapter.ts, ondo-adapter.ts).                     *)
(*                                                                            *)
(* Evidence is a record: the representation, chain evidence or None, API       *)
(* evidence or None, the time the API's freshness is judged at or None, and    *)
(* the transition policy.  A decoded mint carries the economic state read from *)
(* it; the text of a reason is told apart by a number.                         *)
(***************************************************************************)
EXTENDS RerouteDecision

\* A decoded mint, with the chain time it was read at if that is known, or an
\* account that could not be decoded.
ChainEvidence ==
    [kind : {"decode-error"}] \cup
    [kind : {"decoded"}, at : Int \cup {None}, paused : BOOLEAN \cup {None},
     scheduled : BOOLEAN, activation : Int, econ : EconomicState]

ApiObservation ==
    [status : {"active", "paused", "transition", "unknown"},
     sourceClass : {"LIVE_API_STATE", "HISTORICAL_API_STATE"},
     validUntil : Int \cup {None}]

\* What may be known of one representation.
RepresentationEvidence ==
    [representation : [underlying : STRING, mint : Mints, issuer : {"xStocks", "Ondo"}],
     chain : ChainEvidence \cup {None}, api : ApiObservation \cup {None},
     evaluatedAt : Int \cup {None},
     policy : [id : Nat, beforeSecs : Nat, afterSecs : Nat]]

\* Faulty variant: the far end of the protection interval is outside it.
ClassifyHalfOpen(chain, policy) ==
    IF chain.kind = "decode-error" THEN "UNKNOWN"
    ELSE IF chain.paused = TRUE THEN "PAUSED"
    ELSE IF ~chain.scheduled THEN "SAFE"
    ELSE IF chain.at = None THEN "UNKNOWN"
    ELSE IF /\ chain.activation - policy.beforeSecs <= chain.at
            /\ chain.at < chain.activation + policy.afterSecs
      THEN "TRANSITION"
    ELSE "SAFE"

ClassifyChainEvidence(chain, policy) ==
    IF chain.kind = "decode-error" THEN "UNKNOWN"
    ELSE IF chain.paused = TRUE THEN "PAUSED"
    ELSE IF ~chain.scheduled THEN "SAFE"
    ELSE IF chain.at = None THEN "UNKNOWN"
    ELSE IF chain.at \in chain.activation - policy.beforeSecs
                         .. chain.activation + policy.afterSecs
      THEN "TRANSITION"
    ELSE "SAFE"

\* economicStateOf: nothing without a decoded mint and the time it was read at.
EconomicStateOf(chain) ==
    IF chain = None THEN None
    ELSE IF chain.kind = "decode-error" THEN None
    ELSE IF chain.at = None THEN None
    ELSE chain.econ

ApiStatusToState ==
    [active |-> "SAFE", paused |-> "PAUSED", transition |-> "TRANSITION", unknown |-> "UNKNOWN"]

\* apiEvidenceUse: the state API evidence stands for, None when it is ignored.
ApiEvidenceUse(api, evaluatedAt) ==
    IF api = None THEN None
    ELSE IF api.sourceClass = "HISTORICAL_API_STATE" THEN None
    ELSE IF api.sourceClass # "LIVE_API_STATE" THEN "UNKNOWN"
    ELSE IF api.validUntil = None \/ evaluatedAt = None THEN "UNKNOWN"
    ELSE IF evaluatedAt > api.validUntil THEN "UNKNOWN"
    ELSE ApiStatusToState[api.status]

\* The text of a reason holds the chain time inside the protection interval only.
ReasonTime(chain, policy) ==
    IF chain = None THEN 0
    ELSE IF ClassifyChainEvidence(chain, policy) = "TRANSITION" THEN chain.at
    ELSE 0

Resolved(e, state, source) ==
    [underlying |-> e.representation.underlying, mint |-> e.representation.mint,
     source |-> source, state |-> state,
     reason |-> ReasonTime(e.chain, e.policy),
     econ |-> EconomicStateOf(e.chain),
     policy |-> IF e.chain = None THEN None ELSE e.policy.id]

\* resolveXStocksState: only the mint counts.
ResolveXStocksState(e) ==
    Resolved(e, ClassifyChainEvidence(e.chain, e.policy), "chain")

ResolveOndoState(e) ==
    LET chain == IF e.chain = None THEN None ELSE ClassifyChainEvidence(e.chain, e.policy)
        api   == ApiEvidenceUse(e.api, e.evaluatedAt)
    IN  CASE chain = None /\ api = None -> Resolved(e, "UNKNOWN", None)
          [] chain # None /\ api = None -> Resolved(e, chain, "chain")
          [] chain = None /\ api # None -> Resolved(e, api, "api")
          [] None \notin {chain, api} /\ chain = api -> Resolved(e, chain, "both-agree")
          [] None \notin {chain, api} /\ chain # api -> Resolved(e, None, "conflict")

\* Each issuer's representations have their adapter; evidence about another
\* mint is refused with a RegistryError.
Resolve(e) ==
    IF e.representation.issuer = "xStocks" THEN ResolveXStocksState(e) ELSE ResolveOndoState(e)
===============================================================================
