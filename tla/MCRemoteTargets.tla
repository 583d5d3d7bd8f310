--------------------------- MODULE MCRemoteTargets ----------------------------
(* Instances of RemoteTargets for TLC. *)
EXTENDS RemoteTargets, TLC
CONSTANTS h1, s1, s2, s3

\* One target with a password, one with a key; the installer has a password.
SomeAnswers == {[host |-> h1, auth |-> "password", secret |-> s1],
                [host |-> h1, auth |-> "public_key", secret |-> s2]}
SomeInventory == {[host |-> h1, auth |-> "password", secret |-> s3]}

Interchangeable == Permutations(Processes) \cup Permutations(Keys)
=============================================================================
