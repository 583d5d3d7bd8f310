---------------------------- MODULE ControlHost -----------------------------
(* What the components of one control host share. *)
CONSTANTS Processes    \* runs of eva on the host
=============================================================================
