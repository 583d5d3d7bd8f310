--------------------------- MODULE MCInstallation ---------------------------
(* Instances of Installation for TLC. *)
EXTENDS Installation, TLC
CONSTANTS b1, b2, b3, r1, r2

\* b1 and b2 are two builds of one version, b2 for another platform; b3 is
\* another version.
VersionOfBuild == (b1 :> r1) @@ (b2 :> r1) @@ (b3 :> r2)

\* A host with a Jenkins source and an old key.
OldJenkins == {[source |-> "old", keyring |-> "old"]}

\* Two bundles, and one with an unexpected file.
SomeBundles == {AllFrom(b) : b \in {b1, b3}} \cup {[AllFrom(b1) EXCEPT !.extra = TRUE]}

Interchangeable == Permutations(Processes) \cup Permutations(Versions)
=============================================================================
