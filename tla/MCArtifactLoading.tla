-------------------------- MODULE MCArtifactLoading --------------------------
(* Instances of ArtifactLoading for TLC. *)
EXTENDS ArtifactLoading

CONSTANTS build1, build2, outside, x, y
=============================================================================
