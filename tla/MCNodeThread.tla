---------------------------- MODULE MCNodeThread ----------------------------
(***************************************************************************)
(* The instance of NodeThread for TLC.                                     *)
(***************************************************************************)
EXTENDS NodeThread, TLC
=============================================================================
