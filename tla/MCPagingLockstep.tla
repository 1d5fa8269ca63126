--------------------------- MODULE MCPagingLockstep ---------------------------
(***************************************************************************)
(* Exercise 4 with short periods, for TLC.  As with frame 123 and MIBs     *)
(* every 8 frames, no MIB is sent in the paging frame.                     *)
(***************************************************************************)
EXTENDS PagingLockstep
=============================================================================
