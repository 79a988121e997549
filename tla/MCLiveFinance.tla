--------------------------- MODULE MCLiveFinance ---------------------------
(* LiveFinance on small instances: a loop, a manual sweep, a requested check *)
(* and a reader are each one model value, given in the configurations.       *)
EXTENDS LiveFinance
=============================================================================
