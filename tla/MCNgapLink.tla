------------------------------ MODULE MCNgapLink ------------------------------
(***************************************************************************)
(* The set-up of all exercises, which has no constants, and a connection   *)
(* of a few messages, for TLC.                                             *)
(***************************************************************************)
EXTENDS NgapLink
=============================================================================
