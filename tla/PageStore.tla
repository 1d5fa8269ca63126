------------------------------ MODULE PageStore ------------------------------
(***************************************************************************)
(* What the worker can expect of the paging map (the loop of               *)
(* gnb/caculate.c over the vector that map_get gave it): a page is put at  *)
(* the end of its slot at once; a slot that holds pages is opened, read    *)
(* from the first page to the last, and emptied only when all of them were *)
(* read; unless a writer meets the reader in the slot, for no lock keeps   *)
(* it out: until the reader closes the slot what it reads may be anything, *)
(* and only the pages that it found there are sure to be passed.           *)
(***************************************************************************)
EXTENDS Naturals, Sequences

CONSTANTS Key, MaxInserts, None

VARIABLES
  store,  \* the pages of each slot, oldest first
  open,   \* the slot the reader is in, or None
  i,      \* how many pages of it the reader has read
  had,    \* how many pages were in it when it was opened
  met,    \* has a writer entered it since?
  given   \* the pages read, in order

vars == <<store, open, i, had, met, given>>

Init ==
  /\ store = [k \in Key |-> << >>]
  /\ open = None
  /\ i = 0 /\ had = 0 /\ met = FALSE
  /\ given = << >>

\* A writer enters the slot that is open.
Meet ==
  /\ open # None
  /\ met' = TRUE
  /\ UNCHANGED <<store, open, i, had, given>>

Insert(k, page) ==
  /\ open = k => met
  /\ store' = [store EXCEPT ![k] = Append(@, page)]
  /\ UNCHANGED <<open, i, had, met, given>>

Open(k) ==
  /\ open = None
  /\ store[k] # << >>
  /\ open' = k
  /\ had' = Len(store[k])
  /\ UNCHANGED <<store, i, met, given>>

Read ==
  /\ open # None
  /\ \/ i < Len(store[open]) /\ given' = Append(given, store[open][i + 1])
     \/ met /\ \E page \in 0 .. MaxInserts : given' = Append(given, page)
  /\ i' = i + 1
  /\ UNCHANGED <<store, open, had, met>>

Close ==
  /\ open # None
  /\ i >= had
  /\ met \/ i = Len(store[open])
  /\ store' = [store EXCEPT ![open] = << >>]
  /\ open' = None
  /\ i' = 0 /\ had' = 0 /\ met' = FALSE
  /\ UNCHANGED given

Next ==
  \/ Meet \/ Read \/ Close
  \/ \E k \in Key : Open(k) \/ \E page \in 1 .. MaxInserts : Insert(k, page)

Spec == Init /\ [][Next]_vars
=============================================================================
