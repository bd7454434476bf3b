----------------------- MODULE MCPublicationTargets -----------------------
(* Small instances of PublicationTargets for TLC. *)
EXTENDS PublicationTargets, TLC

\* Workers and targets are interchangeable.  Used for invariants and for the
\* refinement, which is a safety property; not for liveness.
Symmetry == Permutations(Workers) \cup Permutations(Targets)
=============================================================================
