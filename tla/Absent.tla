-------------------------------- MODULE Absent --------------------------------
(* null and undefined, one value for the modules that are checked together.      *)
CONSTANT None
===============================================================================
