---------------------------- MODULE MCLiveDevnet ------------------------------
(* Values of the constants of LiveDevnet for TLC.  Delays are scaled down: the  *)
(* action is one second away when it is armed, Authorize is offered until then, *)
(* and a blockhash lives for one or two blocks.                                  *)
EXTENDS LiveDevnet

\* Another multiplier, at once.
MCRewrittenStates ==
    {[multiplier |-> "m3", newMultiplier |-> "m3", effectiveTimestamp |-> 2]}

MCTimestamps == 0 .. 30

\* A wallet has put instructions before the guard.
Prefixed ==
    \/ \E c \in calls : c.prefix > 0
    \/ held # None /\ held.guardInstructionIndex > 0

\* Bound: a second attempt and a second click on Connect are explored for the first
\* scenario, a mint nobody rewrites and bytes the wallet leaves as they are.  It
\* cuts clicks, rewrites and signatures only, none of which is fair.
Bounded ==
    rewrites > 0 \/ scenario # FirstScenario \/ Prefixed => Unused(2) /\ connects < 2
===============================================================================
