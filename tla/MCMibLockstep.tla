---------------------------- MODULE MCMibLockstep ----------------------------
(***************************************************************************)
(* The loops of exercise 3 with short periods, for TLC.                    *)
(***************************************************************************)
EXTENDS MibLockstep
=============================================================================
