------------------------- MODULE MCBrainstormGroup --------------------------
(* Instances of the brainstorm; the bounds are in the .cfg files. *)
EXTENDS BrainstormGroup
=============================================================================
