----------------------------- MODULE BoundedFifo -----------------------------
(***************************************************************************)
(* What the gNB expects of its queue of NgAP messages: first in, first out, *)
(* at most Capacity messages waiting, and a message offered to a full queue *)
(* is refused.  `out` is the message the consumer took last, and `did` says *)
(* how the last call ended.                                                *)
(***************************************************************************)
EXTENDS Naturals, Sequences

CONSTANTS Item, Capacity, None

VARIABLES items, out, did

Init == items = << >> /\ out = None /\ did = "nothing"

Put(m) ==
  /\ Len(items) < Capacity
  /\ items' = Append(items, m)
  /\ did' = "put"
  /\ UNCHANGED out

Refuse ==
  /\ Len(items) = Capacity
  /\ did' = "refused"
  /\ UNCHANGED <<items, out>>

Get ==
  /\ items # << >>
  /\ out' = Head(items)
  /\ items' = Tail(items)
  /\ did' = "got"

FindNone ==
  /\ items = << >>
  /\ did' = "found none"
  /\ UNCHANGED <<items, out>>

Next == Get \/ FindNone \/ Refuse \/ \E m \in Item : Put(m)

Spec == Init /\ [][Next]_<<items, out, did>>
=============================================================================
