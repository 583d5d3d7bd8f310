--------------------------- MODULE MCArgoHandoff ---------------------------
(* Instances of ArgoHandoff for TLC. *)
EXTENDS ArgoHandoff, TLC
=============================================================================
