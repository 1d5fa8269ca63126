----------------------------- MODULE MCGnbPaging -----------------------------
(***************************************************************************)
(* Constants for TLC: the table of the code, its row 2 scaled to shorter   *)
(* frames so that, as with subframes 4 and 9 of 10, the second occasion is *)
(* the last subframe.                                                      *)
(***************************************************************************)
EXTENDS GnbPaging

SmallTable == [n \in {2} |-> [i \in 0 .. 1 |-> i]]
=============================================================================
