------------------------------ MODULE PagingMap ------------------------------
(***************************************************************************)
(* The paging map of the gNB down to its memory: the entries of the hash   *)
(* table and the buffers of their vectors (gnb/hashmap.c, gnb/vector.c),   *)
(* the scheduler that inserts and the worker that walks a vector and then  *)
(* removes its entry (gnb/caculate.c).                                     *)
(*                                                                         *)
(* map_get and map_remove are critical sections, one action each.  An      *)
(* insertion holds map_cs too, but the worker walks a vector without it,   *)
(* so every access of an insertion to a vector is an action of its own.    *)
(* Nothing keeps the scheduler out of the vector the worker is in.         *)
(***************************************************************************)
EXTENDS Naturals, Sequences, FiniteSets

CONSTANTS
  Key,            \* the slots pages are filed under
  Entry,          \* addresses of MapEntry objects
  Buffer,         \* addresses of the vectors' arrays
  FirstCapacity,  \* items a vector has room for at first: 4
  NULL,
  MaxInserts      \* bound: pages inserted; they are 1, 2, ...

ASSUME MapAssumption ==
  /\ FirstCapacity \in Nat \ {0}
  /\ MaxInserts \in Nat
  /\ NULL \notin Key \cup Entry \cup Buffer
  /\ Entry \cap Buffer = {}

VARIABLES
  map,       \* the hash table: the entry of each key, or NULL
  value,     \* the vector inside each entry: items, size and capacity
  cells,     \* the contents of each buffer; 0 is a cell of zeros
  live,      \* the addresses that malloc has given out and free not taken back
  ins,       \* the scheduler in map_insert: next step, entry, page, new buffer
  wk,        \* the worker: next step, key, vec, index and the items it loaded
  inserted,  \* pages inserted so far
  given,     \* history: what the worker has read, in order
  had,       \* history: the size of the worker's vector when map_get gave it
  met,       \* history: has the scheduler entered that vector since?
  moved      \* history: was its buffer freed after the worker loaded `items`,
             \*   or before and not yet replaced in the vector?

history == <<given, had, met, moved>>
vars == <<map, value, cells, live, ins, wk, inserted, history>>

Outside == [pc |-> "out", e |-> NULL, page |-> 0, new |-> NULL]
Idle    == [pc |-> "idle", key |-> NULL, vec |-> NULL, i |-> 0, items |-> NULL]

vector_init == [items |-> NULL, size |-> 0, capacity |-> 0]

Init ==
  /\ map = [k \in Key |-> NULL]
  /\ value = [e \in Entry |-> vector_init]
  /\ cells = [b \in Buffer |-> << >>]
  /\ live = {}
  /\ ins = Outside
  /\ wk = Idle
  /\ inserted = 0
  /\ given = << >> /\ had = 0 /\ met = FALSE /\ moved = FALSE

map_cs_free == ins.pc = "out"

-----------------------------------------------------------------------------
(* map_insert, by the scheduler *)

\* Enter map_cs, find the entry or add a new one with an empty vector.
InsertEnter(k) ==
  /\ map_cs_free
  /\ inserted < MaxInserts
  /\ \E e \in Entry :
       /\ IF map[k] = NULL
          THEN /\ e \notin live
               /\ value' = [value EXCEPT ![e] = vector_init]
          ELSE e = map[k] /\ UNCHANGED value
       /\ map' = [map EXCEPT ![k] = e]
       /\ live' = live \cup {e}
       /\ met' = (met \/ e = wk.vec)
       /\ ins' = [ins EXCEPT !.e = e, !.page = inserted + 1,
                    !.pc = IF value'[e].size = value'[e].capacity THEN "grow" ELSE "push"]
  /\ inserted' = inserted + 1
  /\ UNCHANGED <<cells, wk, given, had, moved>>

\* Mutant: the vector never gets larger.
new_capacity_same(v) == IF v.capacity = 0 THEN FirstCapacity ELSE v.capacity

new_capacity(v) == IF v.capacity = 0 THEN FirstCapacity ELSE 2 * v.capacity

\* Mutant: the old items are not copied.
new_items_zeroed(v) == [j \in 1 .. new_capacity(v) |-> 0]

new_items(v) ==
  [j \in 1 .. new_capacity(v) |-> IF j <= v.size THEN cells[v.items][j] ELSE 0]

\* Mutant: the old buffer is not freed.
outgrown_leaked(v) == {}

outgrown(v) == {v.items} \ {NULL}

\* vector_push_back on a full vector: a larger buffer is filled, and the old
\* one freed while the vector still points to it.
PushGrow ==
  /\ ins.pc = "grow"
  /\ \E b \in Buffer \ live :
       /\ cells' = [cells EXCEPT ![b] = new_items(value[ins.e])]
       /\ live' = (live \ outgrown(value[ins.e])) \cup {b}
       /\ ins' = [ins EXCEPT !.pc = "install", !.new = b]
  /\ moved' = (moved \/ (wk.pc = "copy" /\ ins.e = wk.vec))
  /\ UNCHANGED <<map, value, wk, inserted, given, had, met>>

PushInstall ==
  /\ ins.pc = "install"
  /\ value' = [value EXCEPT ![ins.e].items = ins.new,
                            ![ins.e].capacity = new_capacity(value[ins.e])]
  /\ ins' = [ins EXCEPT !.pc = "push", !.new = NULL]
  /\ UNCHANGED <<map, cells, live, wk, inserted, history>>

\* `v->items[v->size++] = item`: C leaves open which of the two writes is first.
\* The second one is followed by the release of map_cs.
PushSize ==
  /\ ins.pc \in {"push", "stored"}
  /\ value' = [value EXCEPT ![ins.e].size = @ + 1]
  /\ ins' = IF ins.pc = "push" THEN [ins EXCEPT !.pc = "sized"] ELSE Outside
  /\ UNCHANGED <<map, cells, live, wk, inserted, history>>

PushStore ==
  /\ ins.pc \in {"push", "sized"}
  /\ LET v == value[ins.e]
     IN  cells' = [cells EXCEPT
           ![v.items][IF ins.pc = "sized" THEN v.size ELSE v.size + 1] = ins.page]
  /\ ins' = IF ins.pc = "push" THEN [ins EXCEPT !.pc = "stored"] ELSE Outside
  /\ UNCHANGED <<map, value, live, wk, inserted, history>>

-----------------------------------------------------------------------------
(* The worker *)

map_get(k) ==
  /\ wk.pc = "idle"
  /\ map_cs_free
  /\ map[k] # NULL
  /\ wk' = [wk EXCEPT !.pc = "test", !.key = k, !.vec = map[k]]
  /\ had' = value[map[k]].size
  /\ UNCHANGED <<map, value, cells, live, ins, inserted, given, met, moved>>

LoopTest ==
  /\ wk.pc = "test"
  /\ wk' = [wk EXCEPT !.pc = IF wk.i < value[wk.vec].size THEN "load" ELSE "remove"]
  /\ UNCHANGED <<map, value, cells, live, ins, inserted, history>>

LoadItems ==
  /\ wk.pc = "load"
  /\ wk' = [wk EXCEPT !.pc = "copy", !.items = value[wk.vec].items]
  /\ moved' = (ins.pc = "install" /\ ins.e = wk.vec)
  /\ UNCHANGED <<map, value, cells, live, ins, inserted, given, had, met>>

\* What is in a cell: there may be anything in a buffer that was freed, and behind
\* the end of one.  A page that is not stored yet reads as zeros.
CellValues(b, j) ==
  IF b \in live /\ j \in DOMAIN cells[b] THEN {cells[b][j]} ELSE 0 .. MaxInserts

\* memcpy of one item.
CopyItem ==
  /\ wk.pc = "copy"
  /\ \E page \in CellValues(wk.items, wk.i + 1) : given' = Append(given, page)
  /\ wk' = [wk EXCEPT !.pc = "test", !.i = @ + 1, !.items = NULL]
  /\ moved' = FALSE
  /\ UNCHANGED <<map, value, cells, live, ins, inserted, had, met>>

\* Mutant: HASH_DEL is forgotten.
without_kept(k) == map

without(k) == [map EXCEPT ![k] = NULL]

map_remove ==
  /\ wk.pc = "remove"
  /\ map_cs_free
  /\ live' = live \ {map[wk.key], value[map[wk.key]].items}
  /\ value' = [value EXCEPT ![map[wk.key]] = vector_init]
  /\ map' = without(wk.key)
  /\ wk' = Idle
  /\ had' = 0 /\ met' = FALSE
  /\ UNCHANGED <<cells, ins, inserted, given, moved>>

-----------------------------------------------------------------------------
Next ==
  \/ \E k \in Key : InsertEnter(k) \/ map_get(k)
  \/ PushGrow \/ PushInstall \/ PushSize \/ PushStore
  \/ LoopTest \/ LoadItems \/ CopyItem \/ map_remove

Spec == Init /\ [][Next]_vars

-----------------------------------------------------------------------------
Pages == 1 .. MaxInserts

TypeOK ==
  /\ map \in [Key -> Entry \cup {NULL}]
  /\ \A e \in Entry :
       /\ value[e].items \in Buffer \cup {NULL}
       /\ value[e].size <= value[e].capacity
  /\ \A b \in Buffer : cells[b] \in Seq(Pages \cup {0})
  /\ live \subseteq Entry \cup Buffer
  /\ ins.pc \in {"out", "grow", "install", "push", "sized", "stored"}
  /\ wk.pc \in {"idle", "test", "load", "copy", "remove"}
  /\ inserted \in 0 .. MaxInserts
  /\ given \in Seq(Pages \cup {0})
  /\ had \in Nat /\ met \in BOOLEAN /\ moved \in BOOLEAN

\* Whatever the two threads do, the entry the worker is in is not freed under it, nor
\* the vector the scheduler is in, nor a buffer that it writes to.  The worker, which
\* holds no lock, reads an item from memory that is not its vector's only if a growth
\* of that very vector freed the old buffer between its loading of `items` and its
\* copying of the item, or had not yet installed the new one when it loaded them.
NoUseAfterFree ==
  /\ wk.pc # "idle" => wk.vec \in live
  /\ ins.pc # "out" => ins.e \in live
  /\ ins.pc \in {"push", "sized", "stored"} => value[ins.e].items \in live
  /\ wk.pc = "copy" /\ ~moved =>
       /\ wk.items \in live
       /\ wk.items = value[wk.vec].items
       /\ wk.i < Len(cells[wk.items])

\* Whatever is allocated belongs to an entry of the map, to its vector or to the
\* insertion in progress: growing and removing leak nothing.
InUse ==
  LET entries == {map[k] : k \in Key} \ {NULL}
  IN  (entries \cup {value[e].items : e \in entries} \cup {ins.new}) \ {NULL}

NoLeak == live = IF ins.pc = "install" THEN (InUse \ {value[ins.e].items}) ELSE InUse

-----------------------------------------------------------------------------
(* The map as its user sees it: a page is in it when map_insert is done.   *)

Visible(e) == IF ins.pc = "sized" /\ ins.e = e THEN value[e].size - 1 ELSE value[e].size

\* While the vector grows its pages are in the new buffer.
ItemsOf(e) == IF ins.pc = "install" /\ ins.e = e THEN ins.new ELSE value[e].items

Contents(e) == [j \in 1 .. Visible(e) |-> cells[ItemsOf(e)][j]]

Store ==
  INSTANCE PageStore WITH
    store <- [k \in Key |-> IF map[k] = NULL THEN << >> ELSE Contents(map[k])],
    open  <- wk.key,
    i     <- wk.i,
    had   <- had,
    met   <- met,
    None  <- NULL

\* The map is the page store, with what the missing lock costs and no more.  A slot
\* that is inserted into while nobody is in it, or while the worker is in another,
\* gives its pages in order, none skipped, read twice, read torn or dropped when a
\* vector grows or an entry is removed.  In a slot that the scheduler enters under
\* the worker a read may return anything, and pages inserted after the worker came may
\* be dropped with the entry, but those it found are all passed before that.
ImplementsStore == Store!Spec
=============================================================================
