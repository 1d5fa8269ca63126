----------------------------- MODULE MCPagingMap -----------------------------
(***************************************************************************)
(* The paging map with a few slots and addresses, for TLC.                 *)
(***************************************************************************)
EXTENDS PagingMap
=============================================================================
