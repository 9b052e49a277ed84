----------------------------- MODULE MCLocalDemo -------------------------------
(* Values of the constants of LocalDemo for TLC. *)
EXTENDS LocalDemo

MCTimestamps == 0 .. 20
===============================================================================
