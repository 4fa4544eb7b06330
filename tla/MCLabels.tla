------------------------------ MODULE MCLabels ------------------------------
(* The instance of Labels that TLC checks; see Labels.cfg. *)
EXTENDS Labels
=============================================================================
