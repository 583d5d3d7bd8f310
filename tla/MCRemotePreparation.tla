------------------------ MODULE MCRemotePreparation ------------------------
(* Instances of RemotePreparation for TLC. *)
EXTENDS RemotePreparation, TLC

=============================================================================
