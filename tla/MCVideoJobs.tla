----------------------------- MODULE MCVideoJobs -----------------------------
(* Jobs that buy a storyboard, an image, a scene and speech; a scene only. *)
EXTENDS VideoJobs, TLC

MCPlan == <<"text", "media", "scene">>
MCShortPlan == <<"text", "scene">>
Symmetry == Permutations(Workers)
=============================================================================
