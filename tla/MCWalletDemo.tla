---------------------------- MODULE MCWalletDemo ------------------------------
(* Values of the constants of WalletDemo for TLC.  Delays are scaled down: a    *)
(* signature may be asked for one second before the activation, two seconds     *)
(* after the setup was built, and a blockhash lives for two blocks.             *)
EXTENDS WalletDemo

\* Another multiplier, at once.
MCRewrittenStates ==
    {[multiplier |-> "m3", newMultiplier |-> "m3", effectiveTimestamp |-> 2]}

MCTimestamps == 0 .. 30
===============================================================================
