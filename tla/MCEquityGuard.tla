---------------------------- MODULE MCEquityGuard -----------------------------
(* Values of the constants of EquityGuard for TLC.  The i64 range is the range *)
(* of the timestamps, so a window around the first or the last of them         *)
(* overflows.                                                                  *)
EXTENDS EquityGuard

MCTimestamps == 0 .. 3

MCWindows == {[beforeSecs |-> 0, afterSecs |-> 0],
              [beforeSecs |-> 1, afterSecs |-> 1]}
===============================================================================
