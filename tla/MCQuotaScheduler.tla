------------------------- MODULE MCQuotaScheduler -------------------------
(* The instances of the quota scheduler; the bounds are in the .cfg files. *)
EXTENDS QuotaScheduler
===========================================================================
