----------------------------- MODULE MCNgapQueue -----------------------------
(***************************************************************************)
(* The ring with a few cells and messages, for TLC.                        *)
(***************************************************************************)
EXTENDS NgapQueue
=============================================================================
