-------------------------- MODULE MCReleasePublish -------------------------
(* Instances of ReleasePublish for TLC. *)
EXTENDS ReleasePublish, TLC

Interchangeable ==
  Permutations(Publishers) \cup Permutations(Releases) \cup Permutations(Builds)
=============================================================================
