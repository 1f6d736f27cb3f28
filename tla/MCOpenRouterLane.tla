-------------------------- MODULE MCOpenRouterLane --------------------------
(* Two workers; a legacy ledger is absent or has one record of the first minute. *)
EXTENDS OpenRouterLane

MCLegacy == {Absent, [there |-> TRUE, recs |-> <<[at |-> 0, cost |-> 1, serial |-> 1]>>]}
=============================================================================
