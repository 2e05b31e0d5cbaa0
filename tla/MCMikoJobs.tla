----------------------------- MODULE MCMikoJobs -----------------------------
(* Instances of MikoJobs for TLC. *)
EXTENDS MikoJobs, TLC

Symmetry == Permutations(Workers)
=============================================================================
