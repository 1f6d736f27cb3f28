-------------------------- MODULE MCFigmaMutations --------------------------
(* An instance of the Figma write path; the bounds are in the .cfg file. *)
EXTENDS FigmaMutations
=============================================================================
