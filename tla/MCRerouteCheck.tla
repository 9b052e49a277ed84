---------------------------- MODULE MCRerouteCheck -----------------------------
(* Values of the constants of RerouteCheck for TLC: every kind of evidence for   *)
(* both assets.  The preferred asset delivers 4 units at 3/2 shares; the          *)
(* alternative 0, 5 or 7 units at 1 share, so switching costs 10000, 1667 or      *)
(* -1666 bps, or it delivers twice as many shares in its other state.             *)
EXTENDS RerouteCheck

Econ(mint, scale, effective, stored) ==
    [mint |-> mint, scale |-> scale, effective |-> effective, stored |-> stored]
EconP  == Econ("EQ-A", 2, 3, 1)
EconA1 == Econ("EQ-B", 1, 1, 1)
EconA2 == Econ("EQ-B", 1, 2, 2)

Policy(id) == [id |-> id, beforeSecs |-> 1, afterSecs |-> 1]

Knows(mint, issuer, chain, api, at, policy) ==
    [representation |-> [underlying |-> "EQ", mint |-> mint, issuer |-> issuer],
     chain |-> chain, api |-> api, evaluatedAt |-> at, policy |-> Policy(policy)]

\* A change is scheduled for time 5.
Pending(econ, at) ==
    [kind |-> "decoded", at |-> at, paused |-> FALSE, scheduled |-> TRUE,
     activation |-> 5, econ |-> econ]
Settled(econ) == [Pending(econ, 8) EXCEPT !.scheduled = FALSE]
Undecoded == [kind |-> "decode-error"]

Says(status, class, until) == [status |-> status, sourceClass |-> class, validUntil |-> until]
LiveClass == "LIVE_API_STATE"

MCEvidence ==
    {Knows("EQ-A", "Ondo", c, None, None, 1) : c \in
        {Pending(EconP, 6), Pending(EconP, 7), Pending(EconP, None),
         Settled(EconP), [Settled(EconP) EXCEPT !.at = None],
         [Settled(EconP) EXCEPT !.paused = TRUE], Undecoded, None}}
      \cup
    {Knows("EQ-A", "Ondo", Pending(EconP, 5), Says("transition", LiveClass, 6), 6, 1),
     Knows("EQ-A", "Ondo", Settled(EconP), Says("active", LiveClass, 8), 9, 1),
     Knows("EQ-A", "Ondo", Settled(EconP), Says("paused", "HISTORICAL_API_STATE", 9), 8, 1),
     Knows("EQ-A", "Ondo", None, Says("active", LiveClass, 9), 8, 1),
     Knows("EQ-B", "xStocks", Settled(EconA1), None, None, 1),
     Knows("EQ-B", "xStocks", Pending(EconA2, 7), None, None, 1),
     Knows("EQ-B", "xStocks", Pending(EconA1, 4), None, None, 1),
     Knows("EQ-B", "xStocks", Settled(EconA1), None, None, 2),
     Knows("EQ-B", "Ondo", None, Says("active", LiveClass, 9), 8, 1),
     Knows("EQ-B", "Ondo", Settled(EconA1), Says("active", LiveClass, 8), 8, 1),
     Knows("EQ-B", "Ondo", Settled(EconA1), Says("active", LiveClass, 7), 8, 1),
     [Knows("EQ-B", "xStocks", Settled(EconA1), None, None, 1)
         EXCEPT !.representation.underlying = "QE"]}

MCOffers ==
    {[mint |-> "EQ-A", outputRaw |-> 4, context |-> 0]}
      \cup {[mint |-> "EQ-B", outputRaw |-> out, context |-> 0] : out \in {0, 5, 7}}
===============================================================================
