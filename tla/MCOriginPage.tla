---------------------------- MODULE MCOriginPage ----------------------------
(***************************************************************************)
(* OriginPage for pages around the size of the first buffer and the cap.   *)
(***************************************************************************)
EXTENDS OriginPage
=============================================================================
