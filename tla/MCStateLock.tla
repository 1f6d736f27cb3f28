----------------------------- MODULE MCStateLock -----------------------------
(* Finite instances of StateLock for TLC. *)
EXTENDS StateLock, TLC

Symmetry == Permutations(Procs)
=============================================================================
