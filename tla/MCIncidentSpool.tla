-------------------------- MODULE MCIncidentSpool ---------------------------
(* Four incidents, a store of two, an unreadable file among the two that are looked at. *)
EXTENDS IncidentSpool
=============================================================================
