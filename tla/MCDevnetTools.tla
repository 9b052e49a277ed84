----------------------------- MODULE MCDevnetTools -----------------------------
(* Values of the constants of DevnetTools for TLC: multipliers in quarters, the    *)
(* demo's seconds in units of 300, so that its window is 3 before and 1 after and  *)
(* its change 2 ahead.  Outputs of 400 and 599 cost 17 bps at 1.5 and 1.0.         *)
EXTENDS DevnetTools, TLC

Symmetry == Permutations(Tools)

MCMinI64 == -100
MCTimestamps == 0 .. 20
MCOutputsRaw == [m \in Mints |-> IF m = "EQ-A" THEN 400 ELSE 599]
MCDemoPolicy == [id |-> 1, beforeSecs |-> 3, afterSecs |-> 1]
MCTarget == [effective |-> 6, scheduled |-> 7, alternative |-> 4]
MCScenarioWindow == [beforeSecs |-> 1, afterSecs |-> 1]
MCScheduled == {[label |-> "EQ-A", multiplier |-> 5, inSeconds |-> 0]}
MCScenarioRequests ==
    {[name |-> "safe", label |-> "EQ-A"], [name |-> "stale", label |-> "EQ-B"],
     [name |-> "transition", label |-> "EQ-A"]}
===============================================================================
