-------------------------- MODULE MCToolInstaller --------------------------
(* Instances of ToolInstaller for TLC. *)
EXTENDS ToolInstaller, TLC

ErrorsOnly == ErrorPlaces
ErrorsAndSignals == ErrorPlaces \cup Windows

Interchangeable == Permutations(Installers) \cup Permutations(Versions)
=============================================================================
