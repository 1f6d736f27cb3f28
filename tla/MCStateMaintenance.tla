------------------------ MODULE MCStateMaintenance --------------------------
(* A log that comes to need a second rotation; lines of one and of two units. *)
EXTENDS StateMaintenance

MCLineSize == <<2, 2, 1, 2>>
=============================================================================
