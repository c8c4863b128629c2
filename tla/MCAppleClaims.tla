--------------------------- MODULE MCAppleClaims ---------------------------
(***************************************************************************)
(* Small instances of AppleClaims.                                         *)
(***************************************************************************)
EXTENDS AppleClaims, TLC

CONSTANTS u1, u2, c1, c2
=============================================================================
