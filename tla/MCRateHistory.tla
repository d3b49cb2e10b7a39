--------------------------- MODULE MCRateHistory ---------------------------
(* A two-slot ring, three rates and a clock of seven seconds: long enough  *)
(* for the ring to wrap twice between two syncs.                           *)
EXTENDS RateHistoryCheck
=============================================================================
