---------------------------- MODULE MCCliWorker ----------------------------
(* Two callers on one state directory. *)
EXTENDS CliWorker
=============================================================================
