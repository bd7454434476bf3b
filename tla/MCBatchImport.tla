---------------------------- MODULE MCBatchImport ----------------------------
(* Instances of BatchImport for TLC. *)
EXTENDS BatchImport, TLC

Symmetry == Permutations(Targets) \cup Permutations(Posts)
=============================================================================
