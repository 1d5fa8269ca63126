----------------------------- MODULE MCPageOnTime -----------------------------
(***************************************************************************)
(* Constants for TLC.  As for UE 300, the UE's paging frame is one in      *)
(* which a MIB is sent, and its occasion comes some subframes later.       *)
(***************************************************************************)
EXTENDS PageOnTime

SmallTable == [n \in {2} |-> [i \in 0 .. 1 |-> 2 + 2 * i]]
=============================================================================
