--------------------------- MODULE MCRunLifecycle ---------------------------
(* Instances of the run life cycle; the bounds are in the .cfg files. *)
EXTENDS RunLifecycle

MCAll == AllAnswers
=============================================================================
