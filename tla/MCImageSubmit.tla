---------------------------- MODULE MCImageSubmit ----------------------------
(***************************************************************************)
(* Instances of ImageSubmit for TLC.                                       *)
(***************************************************************************)
EXTENDS ImageSubmit

CONSTANTS a, b, c
=============================================================================
