---------------------------- MODULE MCExecutionPlan ----------------------------
(* Values of the constants of ExecutionPlan for TLC.  The preferred asset        *)
(* delivers 4 units at 3/2 shares; the alternative 6 or 5 units at 1 share, so    *)
(* that switching costs 0 or 1667 bps, or 6 units at 2 shares in another state.   *)
EXTENDS ExecutionPlan, TLC

\* Plans and calls are interchangeable.
Symmetry == Permutations(PlanIds) \cup Permutations(Executors)

EconP  == [mint |-> "EQ-A", scale |-> 2, effective |-> 3, stored |-> 1]
EconA1 == [mint |-> "EQ-B", scale |-> 1, effective |-> 1, stored |-> 1]
EconA2 == [mint |-> "EQ-B", scale |-> 1, effective |-> 2, stored |-> 2]

Resolved(mint, source, state, econ, policy) ==
    [underlying |-> "EQ", mint |-> mint, source |-> source, state |-> state,
     reason |-> 1, econ |-> econ, policy |-> policy]

\* Both assets are readable; the alternative may change.
MCObservations ==
    {Resolved("EQ-A", "chain", "TRANSITION", EconP, 1),
     Resolved("EQ-B", "chain", "SAFE", EconA1, 1),
     Resolved("EQ-B", "chain", "SAFE", EconA2, 1)}

MCOffers ==
    {[mint |-> "EQ-A", outputRaw |-> 4, context |-> 0],
     [mint |-> "EQ-B", outputRaw |-> 5, context |-> 0]}
===============================================================================
