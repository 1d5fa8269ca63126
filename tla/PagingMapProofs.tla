--------------------------- MODULE PagingMapProofs ---------------------------
(***************************************************************************)
(* The paging map leaks no memory, frees none under its user but the       *)
(* buffer of a vector that grows, and is the page store, with what the     *)
(* missing lock costs: for any slots, any addresses, any first capacity    *)
(* and any number of pages, however the scheduler and the worker meet.     *)
(***************************************************************************)
EXTENDS PagingMap, SequenceTheorems, TLAPS

Vector == [items : Buffer \cup {NULL}, size : Nat, capacity : Nat]

\* The state with all its types, of which TypeOK is a part.
MapTypes ==
  /\ map \in [Key -> Entry \cup {NULL}]
  /\ value \in [Entry -> Vector]
  /\ cells \in [Buffer -> Seq(Pages \cup {0})]
  /\ live \subseteq Entry \cup Buffer
  /\ ins \in [pc : {"out", "grow", "install", "push", "sized", "stored"},
              e : Entry \cup {NULL}, page : Pages \cup {0}, new : Buffer \cup {NULL}]
  /\ wk \in [pc : {"idle", "test", "load", "copy", "remove"}, key : Key \cup {NULL},
             vec : Entry \cup {NULL}, i : Nat, items : Buffer \cup {NULL}]
  /\ inserted \in 0 .. MaxInserts
  /\ given \in Seq(Pages \cup {0})
  /\ had \in Nat /\ met \in BOOLEAN /\ moved \in BOOLEAN

InMap(e) == \E k \in Key : map[k] = e

\* A vector has a buffer of its own as soon as it has room, and knows its size.
Vectors ==
  /\ \A e \in Entry :
       /\ value[e].size <= value[e].capacity
       /\ value[e].items = NULL => value[e].capacity = 0
       /\ value[e].items # NULL => Len(cells[value[e].items]) = value[e].capacity
  /\ \A e, f \in Entry :
       value[e].items = value[f].items /\ value[e].items # NULL => e = f

\* No two slots share an entry; the vector of an address that is no entry is
\* empty, that of an entry is not, but while its first page is being inserted.
Entries ==
  /\ \A k, l \in Key : map[k] = map[l] /\ map[k] # NULL => k = l
  /\ \A e \in Entry : ~InMap(e) => value[e] = vector_init
  /\ \A e \in Entry : InMap(e) /\ e # ins.e => value[e].size > 0

\* NoLeak, address by address.
Allocated ==
  /\ \A e \in Entry : e \in live <=> InMap(e)
  /\ \A b \in Buffer :
       b \in live <=> \/ b = ins.new
                      \/ \E e \in Entry : /\ value[e].items = b
                                          /\ ins.pc = "install" => e # ins.e

\* What the scheduler knows of the vector it is in, at each step.
Insertion ==
  /\ ins.pc = "out" => ins.e = NULL /\ ins.page = 0
  /\ ins.pc # "out" => ins.e \in Entry /\ InMap(ins.e) /\ ins.page \in Pages
  /\ ins.pc \in {"grow", "install"} => value[ins.e].size = value[ins.e].capacity
  /\ ins.pc \in {"push", "stored"} => value[ins.e].size < value[ins.e].capacity
  /\ ins.pc = "sized" => value[ins.e].size > 0
  /\ ins.pc = "stored" =>
       cells[value[ins.e].items][value[ins.e].size + 1] = ins.page

\* The new buffer has the old one's items, and nobody else has it.
Growing ==
  /\ ins.pc # "install" => ins.new = NULL
  /\ ins.pc = "install" =>
       /\ ins.new \in Buffer
       /\ \A e \in Entry : value[e].items # ins.new
       /\ Len(cells[ins.new]) = new_capacity(value[ins.e])
       /\ \A j \in 1 .. value[ins.e].size :
            cells[ins.new][j] = cells[value[ins.e].items][j]

\* What the worker knows of the vector it is in, at each step.  The vector may grow
\* at any time, but never shrinks.
Walk ==
  /\ wk.pc = "idle" => wk = Idle /\ had = 0 /\ ~met
  /\ wk.pc # "idle" =>
       /\ wk.key \in Key /\ wk.vec \in Entry /\ map[wk.key] = wk.vec
       /\ had <= value[wk.vec].size
  /\ wk.pc = "test" => wk.i <= value[wk.vec].size
  /\ wk.pc \in {"load", "copy"} => wk.i < value[wk.vec].size
  /\ wk.pc = "copy" =>
       /\ wk.items \in Buffer
       /\ ~moved => /\ wk.items = value[wk.vec].items
                    /\ ins.pc = "install" => ins.e # wk.vec
  /\ wk.pc # "copy" => ~moved
  /\ wk.pc = "remove" => wk.i >= had /\ (~met => wk.i = value[wk.vec].size)

\* The scheduler is in the worker's vector, or was when a buffer of it was freed,
\* only if it came in after the worker.
Meeting ==
  /\ ins.pc # "out" /\ ins.e = wk.vec => met
  /\ moved => met

MapInvariant ==
  /\ MapTypes /\ Vectors /\ Entries /\ Allocated
  /\ Insertion /\ Growing /\ Walk /\ Meeting

-----------------------------------------------------------------------------
LEMMA MapInit == Init => MapInvariant
<1> SUFFICES ASSUME Init PROVE MapInvariant
  OBVIOUS
<1> USE MapAssumption
<1>1. MapTypes
  <2>1. 0 \in 0 .. MaxInserts /\ 0 \in Nat /\ 0 \in Pages \cup {0}
    BY DEF Pages
  <2>2. vector_init \in Vector
    BY <2>1, Zenon DEF vector_init, Vector
  <2>3. Outside \in [pc : {"out", "grow", "install", "push", "sized", "stored"},
              e : Entry \cup {NULL}, page : Pages \cup {0}, new : Buffer \cup {NULL}]
    BY <2>1, Zenon DEF Outside
  <2>4. Idle \in [pc : {"idle", "test", "load", "copy", "remove"}, key : Key \cup {NULL},
             vec : Entry \cup {NULL}, i : Nat, items : Buffer \cup {NULL}]
    BY <2>1, Zenon DEF Idle
  <2>5. << >> \in Seq(Pages \cup {0})
    OBVIOUS
  <2> QED
    BY <2>1, <2>2, <2>3, <2>4, <2>5 DEF Init, MapTypes
<1>2. Vectors
  BY DEF Init, Vectors, vector_init
<1>3. \A e \in Entry : ~InMap(e)
  BY DEF Init, InMap
<1>4. Entries
  BY <1>3 DEF Init, Entries
<1>5. Allocated
  BY <1>3 DEF Init, Allocated, vector_init, Outside
<1>6. Insertion /\ Growing /\ Walk /\ Meeting
  BY DEF Init, Insertion, Growing, Walk, Meeting, Outside, Idle
<1> QED
  BY <1>1, <1>2, <1>4, <1>5, <1>6 DEF MapInvariant

LEMMA EnterStep ==
  ASSUME MapInvariant, NEW k \in Key, InsertEnter(k)
  PROVE  MapInvariant'
<1> USE MapAssumption
<1> USE DEF MapInvariant
<1>1. PICK e \in Entry :
        /\ map[k] = NULL => e \notin live /\ value' = [value EXCEPT ![e] = vector_init]
        /\ map[k] # NULL => e = map[k] /\ value' = value
        /\ map' = [map EXCEPT ![k] = e]
        /\ live' = live \cup {e}
        /\ met' = (met \/ e = wk.vec)
        /\ ins' = [ins EXCEPT !.e = e, !.page = inserted + 1,
                     !.pc = IF value'[e].size = value'[e].capacity THEN "grow" ELSE "push"]
  BY DEF InsertEnter
<1>2. /\ ins.pc = "out" /\ ins.e = NULL /\ ins.new = NULL
      /\ inserted' = inserted + 1 /\ inserted < MaxInserts
      /\ cells' = cells /\ wk' = wk /\ given' = given /\ had' = had /\ moved' = moved
  BY DEF InsertEnter, map_cs_free, Insertion, Growing
<1>3. value' = value
  <2>1. CASE map[k] = NULL
    <3>1. value[e] = vector_init
      BY <1>1, <2>1 DEF Allocated, Entries
    <3> QED
      BY <1>1, <2>1, <3>1 DEF MapTypes
  <2> QED
    BY <1>1, <2>1
<1>4. /\ ins'.pc \in {"grow", "push"} /\ ins'.e = e /\ ins'.new = NULL
      /\ ins'.page = inserted + 1
      /\ ins'.pc = "grow" => value[e].size = value[e].capacity
      /\ ins'.pc = "push" => value[e].size # value[e].capacity
  BY <1>1, <1>2, <1>3 DEF MapTypes
<1>5. \A f \in Entry : InMap(f)' <=> InMap(f) \/ f = e
  <2>1. \A l \in Key : map'[l] = IF l = k THEN e ELSE map[l]
    BY <1>1 DEF MapTypes
  <2>2. map[k] # NULL => map[k] = e
    BY <1>1
  <2> QED
    BY <2>1, <2>2 DEF InMap
<1>6. inserted + 1 \in Pages /\ inserted' \in 0 .. MaxInserts
  BY <1>2 DEF MapTypes, Pages
<1>7. MapTypes'
  <2>1. ins' \in [pc : {"out", "grow", "install", "push", "sized", "stored"},
              e : Entry \cup {NULL}, page : Pages \cup {0}, new : Buffer \cup {NULL}]
    BY <1>1, <1>2, <1>4, <1>6 DEF MapTypes
  <2>2. map' \in [Key -> Entry \cup {NULL}] /\ live' \subseteq Entry \cup Buffer
    BY <1>1 DEF MapTypes
  <2>3. met' \in BOOLEAN
    BY <1>1, Zenon
  <2> QED
    BY <1>2, <1>3, <1>6, <2>1, <2>2, <2>3 DEF MapTypes
<1>8. Vectors'
  BY <1>2, <1>3 DEF Vectors
<1>9. Entries'
  <2>1. \A l \in Key : map'[l] = IF l = k THEN e ELSE map[l]
    BY <1>1 DEF MapTypes
  <2>2. \A l \in Key : map[l] = e => l = k
    BY <1>1 DEF Allocated, InMap, Entries
  <2>3. \A l, m \in Key : map'[l] = map'[m] /\ map'[l] # NULL => l = m
    BY <2>1, <2>2 DEF Entries
  <2>4. \A f \in Entry : ~InMap(f)' => value'[f] = vector_init
    BY <1>3, <1>5 DEF Entries
  <2>5. \A f \in Entry : InMap(f)' /\ f # e => value'[f].size > 0
    BY <1>2, <1>3, <1>5 DEF Entries
  <2> QED
    BY <1>4, <2>3, <2>4, <2>5 DEF Entries
<1>10. Allocated'
  <2>1. \A f \in Entry : f \in live' <=> InMap(f)'
    BY <1>1, <1>5 DEF Allocated
  <2>2. \A b \in Buffer : b \in live' <=> b \in live
    BY <1>1
  <2> QED
    BY <1>2, <1>3, <1>4, <2>1, <2>2 DEF Allocated
<1>11. Insertion' /\ Growing'
  <2>1. value[e].size <= value[e].capacity /\ value[e].size \in Nat /\ value[e].capacity \in Nat
    BY DEF Vectors, MapTypes, Vector
  <2> QED
    BY <1>2, <1>3, <1>4, <1>5, <1>6, <2>1 DEF Insertion, Growing
<1>12. map[wk.key] = wk.vec /\ wk.key \in Key /\ wk.vec \in Entry => map'[wk.key] = wk.vec
  BY <1>1 DEF MapTypes
<1>13. wk.pc = "idle" => wk.vec = NULL
  BY DEF Walk, Idle
<1>14. wk.pc = "idle" => ~met'
  BY <1>1, <1>13 DEF Walk
<1>15. Walk'
  <2>1. ~met' => ~met
    BY <1>1
  <2> QED
    BY <1>2, <1>3, <1>4, <1>12, <1>14, <2>1 DEF Walk
<1>16. Meeting'
  BY <1>1, <1>2, <1>4 DEF Meeting
<1> QED
  BY <1>7, <1>8, <1>9, <1>10, <1>11, <1>15, <1>16

LEMMA GrowStep ==
  ASSUME MapInvariant, PushGrow
  PROVE  MapInvariant'
<1> USE MapAssumption
<1> USE DEF MapInvariant
<1> DEFINE v == value[ins.e]
<1>1. PICK b \in Buffer \ live :
        /\ cells' = [cells EXCEPT ![b] = new_items(v)]
        /\ live' = (live \ outgrown(v)) \cup {b}
        /\ ins' = [ins EXCEPT !.pc = "install", !.new = b]
  BY DEF PushGrow
<1>2. /\ ins.pc = "grow" /\ map' = map /\ value' = value /\ wk' = wk
      /\ inserted' = inserted /\ given' = given /\ had' = had /\ met' = met
      /\ moved' = (moved \/ (wk.pc = "copy" /\ ins.e = wk.vec))
  BY DEF PushGrow
<1>3. /\ ins'.pc = "install" /\ ins'.e = ins.e /\ ins'.page = ins.page /\ ins'.new = b
      /\ ins.e \in Entry /\ ins.page \in Pages /\ InMap(ins.e) /\ ins.new = NULL
      /\ v.size = v.capacity
  BY <1>1, <1>2 DEF MapTypes, Insertion, Growing
<1>4. v \in Vector /\ v.size \in Nat /\ v.capacity \in Nat /\ v.items \in Buffer \cup {NULL}
  BY <1>3 DEF MapTypes, Vector
<1>5. \A e \in Entry : value[e].items # b
  BY <1>2 DEF Allocated
<1>6. new_capacity(v) \in Nat /\ v.size <= new_capacity(v)
  BY <1>3, <1>4 DEF new_capacity
<1>7. /\ new_items(v) \in Seq(Pages \cup {0})
      /\ Len(new_items(v)) = new_capacity(v)
      /\ \A j \in 1 .. v.size : new_items(v)[j] = cells[v.items][j]
  <2>1. ASSUME NEW j \in 1 .. new_capacity(v), j <= v.size
        PROVE  cells[v.items][j] \in Pages \cup {0}
    <3>1. v.items \in Buffer /\ Len(cells[v.items]) = v.size
      BY <1>3, <1>4, <2>1 DEF Vectors
    <3>2. cells[v.items] \in Seq(Pages \cup {0}) /\ j \in 1 .. Len(cells[v.items])
      BY <1>4, <2>1, <3>1 DEF MapTypes
    <3> QED
      BY <3>2, ElementOfSeq
  <2>2. new_items(v) \in [1 .. new_capacity(v) -> Pages \cup {0}]
    BY <2>1 DEF new_items
  <2> HIDE DEF v
  <2>3. /\ new_items(v) \in Seq(Pages \cup {0})
        /\ Len(new_items(v)) = new_capacity(v)
    BY <1>6, <2>2
  <2>4. \A j \in 1 .. v.size : j \in 1 .. new_capacity(v) /\ j <= v.size
    BY <1>4, <1>6
  <2> QED
    BY <2>3, <2>4 DEF new_items
<1> HIDE DEF v
<1>8. /\ cells'[b] = new_items(v)
      /\ \A c \in Buffer : c # b => cells'[c] = cells[c]
  BY <1>1 DEF MapTypes
<1>9. MapTypes'
  <2>1. cells' \in [Buffer -> Seq(Pages \cup {0})]
    BY <1>1, <1>7 DEF MapTypes
  <2>2. live' \subseteq Entry \cup Buffer
    BY <1>1 DEF MapTypes
  <2>3. ins' \in [pc : {"out", "grow", "install", "push", "sized", "stored"},
              e : Entry \cup {NULL}, page : Pages \cup {0}, new : Buffer \cup {NULL}]
    BY <1>1 DEF MapTypes
  <2>4. moved' \in BOOLEAN
    BY <1>2, Zenon
  <2> QED
    BY <1>2, <2>1, <2>2, <2>3, <2>4 DEF MapTypes
<1>10. Vectors'
  BY <1>2, <1>5, <1>8 DEF Vectors, MapTypes, Vector
<1>11. Entries'
  BY <1>2, <1>3 DEF Entries, InMap
<1>12. Allocated'
  <2>1. \A e \in Entry : e \in live' <=> InMap(e)'
    <3>1. \A e \in Entry : e \in live' <=> e \in live
      BY <1>1, <1>4 DEF outgrown
    <3> QED
      BY <1>2, <3>1 DEF Allocated, InMap
  <2>2. ASSUME NEW c \in Buffer
        PROVE  c \in live' <=> \/ c = b
                               \/ \E e \in Entry : value[e].items = c /\ e # ins.e
    <3>1. c \in live' <=> c = b \/ (c \in live /\ c # v.items)
      BY <1>1, <2>2 DEF outgrown
    <3>2. c \in live <=> \E e \in Entry : value[e].items = c
      BY <1>2, <1>3 DEF Allocated
    <3>3. \A e \in Entry : value[e].items = c /\ c = v.items => e = ins.e
      BY <1>3, <2>2 DEF Vectors, v
    <3> QED
      BY <1>3, <3>1, <3>2, <3>3 DEF v
  <2> QED
    BY <1>2, <1>3, <2>1, <2>2 DEF Allocated
<1>13. Insertion'
  BY <1>2, <1>3 DEF Insertion, InMap, v
<1>14. Growing'
  <2>1. v.items # b
    BY <1>3, <1>5 DEF v
  <2>2. \A j \in 1 .. v.size : cells'[b][j] = cells'[v.items][j]
    <3>1. CASE v.items = NULL
      BY <1>3, <1>4, <3>1 DEF Vectors, v
    <3>2. CASE v.items # NULL
      BY <1>4, <1>7, <1>8, <2>1, <3>2
    <3> QED
      BY <3>1, <3>2
  <2> QED
    BY <1>2, <1>3, <1>5, <1>7, <1>8, <2>2 DEF Growing, v, new_capacity
<1>15. Walk'
  <2>1. ~moved' => ~moved /\ ~(wk.pc = "copy" /\ ins.e = wk.vec)
    BY <1>2
  <2>2. wk.pc # "copy" => ~moved'
    BY <1>2 DEF Walk
  <2> QED
    BY <1>2, <1>3, <2>1, <2>2 DEF Walk
<1>16. Meeting'
  BY <1>2, <1>3 DEF Meeting
<1> QED
  BY <1>9, <1>10, <1>11, <1>12, <1>13, <1>14, <1>15, <1>16

LEMMA InstallStep ==
  ASSUME MapInvariant, PushInstall
  PROVE  MapInvariant'
<1> USE MapAssumption
<1> USE DEF MapInvariant
<1> DEFINE v == value[ins.e]
<1>1. /\ ins.pc = "install" /\ ins.e \in Entry /\ ins.page \in Pages /\ InMap(ins.e)
      /\ value' = [value EXCEPT ![ins.e].items = ins.new,
                                ![ins.e].capacity = new_capacity(v)]
      /\ ins' = [ins EXCEPT !.pc = "push", !.new = NULL]
      /\ UNCHANGED <<map, cells, live, wk, inserted, given, had, met, moved>>
  BY DEF PushInstall, Insertion, history
<1>2. /\ ins.new \in Buffer /\ v.size = v.capacity
      /\ \A e \in Entry : value[e].items # ins.new
      /\ Len(cells[ins.new]) = new_capacity(v)
  BY <1>1 DEF Growing, Insertion
<1>3. v \in Vector /\ v.size \in Nat /\ v.capacity \in Nat
  BY <1>1 DEF MapTypes, Vector
<1>4. new_capacity(v) \in Nat /\ v.size < new_capacity(v)
  BY <1>2, <1>3 DEF new_capacity
<1>5. /\ ins'.pc = "push" /\ ins'.e = ins.e /\ ins'.page = ins.page /\ ins'.new = NULL
  BY <1>1 DEF MapTypes
<1>6. /\ value'[ins.e] = [items |-> ins.new, size |-> v.size, capacity |-> new_capacity(v)]
      /\ \A e \in Entry : e # ins.e => value'[e] = value[e]
      /\ DOMAIN value' = Entry
  BY <1>1 DEF MapTypes, Vector
<1> HIDE DEF v
<1>13. /\ value'[ins.e].items = ins.new /\ value'[ins.e].size = v.size
       /\ value'[ins.e].capacity = new_capacity(v)
  BY <1>6
<1>7. MapTypes'
  <2>1. value'[ins.e] \in Vector
    <3>1. ins.new \in Buffer \cup {NULL} /\ v.size \in Nat /\ new_capacity(v) \in Nat
      BY <1>2, <1>3, <1>4
    <3>2. [items |-> ins.new, size |-> v.size, capacity |-> new_capacity(v)] \in Vector
      BY <3>1, Zenon DEF Vector
    <3> QED
      BY <1>6, <3>2
  <2>2. \A e \in Entry : value'[e] \in Vector
    BY <1>6, <2>1 DEF MapTypes
  <2>3. value' \in [Entry -> Vector]
    BY <1>1, <2>2 DEF MapTypes
  <2>4. ins' \in [pc : {"out", "grow", "install", "push", "sized", "stored"},
              e : Entry \cup {NULL}, page : Pages \cup {0}, new : Buffer \cup {NULL}]
    BY <1>1 DEF MapTypes
  <2> QED
    BY <1>1, <2>3, <2>4 DEF MapTypes
<1>8. Vectors'
  <2>1. \A e \in Entry :
           /\ value'[e].size <= value'[e].capacity
           /\ value'[e].items = NULL => value'[e].capacity = 0
           /\ value'[e].items # NULL => Len(cells[value'[e].items]) = value'[e].capacity
    <3>1. ins.new # NULL /\ v.size <= new_capacity(v)
      BY <1>2, <1>3, <1>4
    <3> QED
      BY <1>2, <1>6, <1>13, <3>1 DEF Vectors
  <2>2. \A e, f \in Entry :
          value'[e].items = value'[f].items /\ value'[e].items # NULL => e = f
    BY <1>2, <1>6, <1>13 DEF Vectors
  <2> QED
    BY <1>1, <2>1, <2>2 DEF Vectors
<1>9. Entries'
  BY <1>1, <1>5, <1>6 DEF Entries, InMap
<1>10. Allocated'
  <2>1. ASSUME NEW b \in Buffer
        PROVE  b \in live <=> \E e \in Entry : value'[e].items = b
    <3>1. b \in live <=> \/ b = ins.new
                         \/ \E e \in Entry : value[e].items = b /\ e # ins.e
      BY <1>1 DEF Allocated
    <3>2. (\E e \in Entry : value'[e].items = b)
            <=> \/ value'[ins.e].items = b
                \/ \E e \in Entry : value'[e].items = b /\ e # ins.e
      BY <1>1
    <3> QED
      BY <1>6, <3>1, <3>2
  <2>2. \A e \in Entry : e \in live' <=> InMap(e)'
    BY <1>1 DEF Allocated, InMap
  <2>3. \A b \in Buffer : b # NULL
    OBVIOUS
  <2> QED
    BY <1>1, <1>5, <2>1, <2>2, <2>3 DEF Allocated
<1>11. Insertion' /\ Growing'
  BY <1>1, <1>4, <1>5, <1>13 DEF Insertion, Growing, InMap
<1>12. Walk'
  <2>1. \A e \in Entry : value'[e].size = value[e].size
    BY <1>6, <1>13 DEF v
  <2>2. \A e \in Entry : e # ins.e => value'[e].items = value[e].items
    BY <1>6
  <2> QED
    BY <1>1, <1>5, <2>1, <2>2 DEF Walk
<1>14. Meeting'
  BY <1>1, <1>5 DEF Meeting
<1> QED
  BY <1>7, <1>8, <1>9, <1>10, <1>11, <1>12, <1>14

LEMMA SizeStep ==
  ASSUME MapInvariant, PushSize
  PROVE  MapInvariant'
<1> USE MapAssumption
<1> USE DEF MapInvariant
<1> DEFINE v == value[ins.e]
<1>1. /\ ins.pc \in {"push", "stored"}
      /\ value' = [value EXCEPT ![ins.e].size = @ + 1]
      /\ ins' = IF ins.pc = "push" THEN [ins EXCEPT !.pc = "sized"] ELSE Outside
      /\ UNCHANGED <<map, cells, live, wk, inserted, given, had, met, moved>>
  BY DEF PushSize, history
<1>2. /\ ins.e \in Entry /\ ins.page \in Pages /\ InMap(ins.e) /\ ins.new = NULL
      /\ v.size < v.capacity
  BY <1>1 DEF Insertion, Growing
<1>3. v \in Vector /\ v.size \in Nat /\ v.capacity \in Nat
  BY <1>2 DEF MapTypes, Vector
<1>12. /\ value'[ins.e] = [items |-> v.items, size |-> v.size + 1, capacity |-> v.capacity]
       /\ \A e \in Entry : e # ins.e => value'[e] = value[e]
       /\ DOMAIN value' = Entry
  <2>1. value'[ins.e] = [v EXCEPT !.size = @ + 1] /\ DOMAIN value' = Entry
        /\ \A e \in Entry : e # ins.e => value'[e] = value[e]
    BY <1>1, <1>2 DEF MapTypes
  <2> QED
    BY <1>3, <2>1 DEF Vector
<1>4. /\ value'[ins.e].items = v.items /\ value'[ins.e].size = v.size + 1
      /\ value'[ins.e].capacity = v.capacity
      /\ \A e \in Entry : e # ins.e => value'[e] = value[e]
      /\ \A e \in Entry : value'[e].items = value[e].items
                            /\ value'[e].capacity = value[e].capacity
  BY <1>12
<1>5. /\ ins.pc = "push" => /\ ins'.pc = "sized" /\ ins'.e = ins.e
                            /\ ins'.page = ins.page /\ ins'.new = NULL
      /\ ins.pc = "stored" => /\ ins'.pc = "out" /\ ins'.e = NULL
                              /\ ins'.page = 0 /\ ins'.new = NULL
  BY <1>1, <1>2 DEF MapTypes, Outside
<1> HIDE DEF v
<1>6. MapTypes'
  <2>1. value'[ins.e] \in Vector
    <3>1. v.size + 1 \in Nat /\ v.items \in Buffer \cup {NULL} /\ v.capacity \in Nat
      BY <1>3 DEF Vector
    <3>2. [items |-> v.items, size |-> v.size + 1, capacity |-> v.capacity] \in Vector
      BY <3>1, Zenon DEF Vector
    <3> QED
      BY <1>12, <3>2
  <2>2. \A e \in Entry : value'[e] \in Vector
    BY <1>12, <2>1 DEF MapTypes
  <2>3. value' \in [Entry -> Vector]
    BY <1>1, <2>2 DEF MapTypes
  <2>4. ins' \in [pc : {"out", "grow", "install", "push", "sized", "stored"},
              e : Entry \cup {NULL}, page : Pages \cup {0}, new : Buffer \cup {NULL}]
    <3>1. Outside \in [pc : {"out", "grow", "install", "push", "sized", "stored"},
              e : Entry \cup {NULL}, page : Pages \cup {0}, new : Buffer \cup {NULL}]
      BY Zenon DEF Outside
    <3> QED
      BY <1>1, <3>1 DEF MapTypes
  <2> QED
    BY <1>1, <2>3, <2>4 DEF MapTypes
<1>7. Vectors'
  <2>1. \A e \in Entry : value'[e].size <= value'[e].capacity
    BY <1>2, <1>3, <1>4 DEF Vectors, v
  <2> QED
    BY <1>1, <1>4, <2>1 DEF Vectors
<1>8. Entries'
  <2>1. \A e \in Entry : InMap(e) /\ e # ins'.e => value'[e].size > 0
    BY <1>1, <1>2, <1>3, <1>4, <1>5 DEF Entries
  <2> QED
    BY <1>1, <1>2, <1>4, <2>1 DEF Entries, InMap
<1>9. Allocated'
  <2>1. ins.pc # "install" /\ ins'.pc # "install" /\ ins'.new = ins.new
    BY <1>1, <1>2, <1>5
  <2> QED
    BY <1>1, <1>4, <2>1 DEF Allocated, InMap
<1>10. Insertion' /\ Growing'
  BY <1>1, <1>2, <1>3, <1>4, <1>5 DEF Insertion, Growing, InMap
<1>11. Walk'
  <2>1. /\ \A e \in Entry : value[e].size \in Nat /\ value'[e].items = value[e].items
        /\ \A e \in Entry : e # ins.e => value'[e].size = value[e].size
    BY <1>4 DEF MapTypes, Vector
  <2>5. \A e \in Entry : value'[e].size >= value[e].size
    BY <1>3, <1>4, <2>1 DEF v
  <2>2. ins'.pc # "install" /\ (~met => ins.e # wk.vec)
    BY <1>1, <1>5 DEF Meeting
  <2>3. \A e \in Entry : value'[e].size \in Nat
    BY <1>6 DEF MapTypes, Vector
  <2>4. wk.i \in Nat /\ had \in Nat
    BY DEF MapTypes
  <2> QED
    BY <1>1, <2>1, <2>2, <2>3, <2>4, <2>5 DEF Walk
<1>13. Meeting'
  BY <1>1, <1>2, <1>5 DEF Meeting
<1> QED
  BY <1>6, <1>7, <1>8, <1>9, <1>10, <1>11, <1>13

LEMMA StoreStep ==
  ASSUME MapInvariant, PushStore
  PROVE  MapInvariant'
<1> USE MapAssumption
<1> USE DEF MapInvariant
<1> DEFINE v == value[ins.e]
           n == IF ins.pc = "sized" THEN v.size ELSE v.size + 1
<1>1. /\ ins.pc \in {"push", "sized"}
      /\ cells' = [cells EXCEPT ![v.items][n] = ins.page]
      /\ ins' = IF ins.pc = "push" THEN [ins EXCEPT !.pc = "stored"] ELSE Outside
      /\ UNCHANGED <<map, value, live, wk, inserted, given, had, met, moved>>
  BY DEF PushStore, history
<1>2. /\ ins.e \in Entry /\ ins.page \in Pages /\ InMap(ins.e) /\ ins.new = NULL
      /\ v.size <= v.capacity
      /\ ins.pc = "push" => v.size < v.capacity
      /\ ins.pc = "sized" => v.size > 0
  BY <1>1 DEF Insertion, Growing, Vectors
<1>3. v.size \in Nat /\ v.capacity \in Nat /\ v.items \in Buffer \cup {NULL}
  BY <1>2 DEF MapTypes, Vector
<1>4. v.items \in Buffer /\ Len(cells[v.items]) = v.capacity /\ n \in 1 .. v.capacity
  BY <1>1, <1>2, <1>3 DEF Vectors
<1>5. /\ ins.pc = "push" => /\ ins'.pc = "stored" /\ ins'.e = ins.e
                            /\ ins'.page = ins.page /\ ins'.new = NULL
      /\ ins.pc = "sized" => /\ ins'.pc = "out" /\ ins'.e = NULL
                             /\ ins'.page = 0 /\ ins'.new = NULL
  BY <1>1, <1>2 DEF MapTypes, Outside
<1> HIDE DEF v, n
<1>6. /\ cells'[v.items] = [cells[v.items] EXCEPT ![n] = ins.page]
      /\ \A b \in Buffer : b # v.items => cells'[b] = cells[b]
      /\ DOMAIN cells' = Buffer
  BY <1>1, <1>4 DEF MapTypes
<1>7. /\ cells'[v.items] \in Seq(Pages \cup {0})
      /\ Len(cells'[v.items]) = v.capacity
      /\ cells'[v.items][n] = ins.page
  <2>1. cells[v.items] \in Seq(Pages \cup {0}) /\ n \in 1 .. Len(cells[v.items])
    BY <1>4 DEF MapTypes
  <2> QED
    BY <1>2, <1>4, <1>6, <2>1
<1>8. MapTypes'
  <2>1. \A b \in Buffer : cells'[b] \in Seq(Pages \cup {0})
    BY <1>6, <1>7 DEF MapTypes
  <2>2. cells' \in [Buffer -> Seq(Pages \cup {0})]
    BY <1>1, <2>1 DEF MapTypes
  <2>3. ins' \in [pc : {"out", "grow", "install", "push", "sized", "stored"},
              e : Entry \cup {NULL}, page : Pages \cup {0}, new : Buffer \cup {NULL}]
    <3>1. Outside \in [pc : {"out", "grow", "install", "push", "sized", "stored"},
              e : Entry \cup {NULL}, page : Pages \cup {0}, new : Buffer \cup {NULL}]
      BY Zenon DEF Outside
    <3> QED
      BY <1>1, <3>1 DEF MapTypes
  <2> QED
    BY <1>1, <2>2, <2>3 DEF MapTypes
<1>9. Vectors'
  <2>1. \A b \in Buffer : Len(cells'[b]) = Len(cells[b])
    BY <1>4, <1>6, <1>7
  <2>2. \A e \in Entry : value[e].items # NULL => value[e].items \in Buffer
    BY DEF MapTypes, Vector
  <2> QED
    BY <1>1, <2>1, <2>2 DEF Vectors
<1>10. Entries'
  BY <1>1, <1>2, <1>3, <1>5 DEF Entries, InMap, v
<1>11. Allocated'
  <2>1. ins.pc # "install" /\ ins'.pc # "install" /\ ins'.new = ins.new
    BY <1>1, <1>2, <1>5
  <2> QED
    BY <1>1, <2>1 DEF Allocated, InMap
<1>12. Insertion' /\ Growing'
  BY <1>1, <1>2, <1>4, <1>5, <1>7 DEF Insertion, Growing, InMap, v, n
<1>13. Walk'
  BY <1>1, <1>5 DEF Walk
<1>14. Meeting'
  BY <1>1, <1>2, <1>5 DEF Meeting
<1> QED
  BY <1>8, <1>9, <1>10, <1>11, <1>12, <1>13, <1>14

\* The worker's steps through a vector change nothing but its own place in it.
LEMMA WalkStep ==
  ASSUME MapInvariant, LoopTest \/ LoadItems \/ CopyItem \/ \E k \in Key : map_get(k)
  PROVE  MapInvariant'
<1> USE MapAssumption
<1> USE DEF MapInvariant
<1>1. UNCHANGED <<map, value, cells, live, ins, inserted>>
  BY DEF LoopTest, LoadItems, CopyItem, map_get
<1>2. Vectors' /\ Entries' /\ Allocated' /\ Insertion' /\ Growing'
  BY <1>1 DEF Vectors, Entries, Allocated, Insertion, Growing, InMap, new_capacity
<1>3. ASSUME wk.pc # "idle"
      PROVE  /\ wk.key \in Key /\ wk.vec \in Entry /\ map[wk.key] = wk.vec
             /\ value[wk.vec] \in Vector
             /\ value[wk.vec].size \in Nat /\ wk.i \in Nat
             /\ value[wk.vec].size <= value[wk.vec].capacity
             /\ value[wk.vec].items # NULL =>
                  Len(cells[value[wk.vec].items]) = value[wk.vec].capacity
             /\ value[wk.vec].items = NULL => value[wk.vec].size <= 0
             /\ value[wk.vec].items \in Buffer \cup {NULL}
             /\ had \in Nat /\ had <= value[wk.vec].size
  BY <1>3 DEF Walk, MapTypes, Vector, Vectors
<1>4. CASE LoopTest
  <2>1. /\ wk.pc = "test" /\ given' = given /\ had' = had /\ met' = met /\ moved' = moved
        /\ wk' = [wk EXCEPT !.pc = IF wk.i < value[wk.vec].size THEN "load" ELSE "remove"]
    BY <1>4 DEF LoopTest, history
  <2>2. wk' \in [pc : {"idle", "test", "load", "copy", "remove"}, key : Key \cup {NULL},
             vec : Entry \cup {NULL}, i : Nat, items : Buffer \cup {NULL}]
    BY <2>1 DEF MapTypes
  <2>3. /\ wk'.pc = IF wk.i < value[wk.vec].size THEN "load" ELSE "remove"
        /\ wk'.i = wk.i /\ wk'.vec = wk.vec /\ wk'.key = wk.key
    BY <2>1 DEF MapTypes
  <2>4. MapTypes'
    BY <1>1, <2>1, <2>2 DEF MapTypes
  <2>5. Walk'
    BY <1>1, <1>3, <2>1, <2>3 DEF Walk
  <2>6. Meeting'
    BY <1>1, <2>1, <2>3 DEF Meeting
  <2> QED
    BY <1>2, <2>4, <2>5, <2>6
<1>5. CASE LoadItems
  <2>1. /\ wk.pc = "load" /\ given' = given /\ had' = had /\ met' = met
        /\ moved' = (ins.pc = "install" /\ ins.e = wk.vec)
        /\ wk' = [wk EXCEPT !.pc = "copy", !.items = value[wk.vec].items]
    BY <1>5 DEF LoadItems
  <2>2. wk' \in [pc : {"idle", "test", "load", "copy", "remove"}, key : Key \cup {NULL},
             vec : Entry \cup {NULL}, i : Nat, items : Buffer \cup {NULL}]
    BY <1>3, <2>1 DEF MapTypes, Vector
  <2>3. /\ wk'.pc = "copy" /\ wk'.items = value[wk.vec].items
        /\ wk'.i = wk.i /\ wk'.vec = wk.vec /\ wk'.key = wk.key
    BY <2>1 DEF MapTypes
  <2>4. MapTypes'
    BY <1>1, <2>1, <2>2 DEF MapTypes
  <2>5. Walk'
    <3>1. wk.i < value[wk.vec].size
      BY <2>1 DEF Walk
    <3>2. wk'.items \in Buffer
      BY <1>3, <2>1, <2>3, <3>1
    <3>3. ~moved' => (ins.pc = "install" => ins.e # wk.vec)
      BY <2>1
    <3> QED
      BY <1>1, <1>3, <2>1, <2>3, <3>1, <3>2, <3>3 DEF Walk
  <2>6. Meeting'
    BY <1>1, <2>1, <2>3 DEF Meeting
  <2> QED
    BY <1>2, <2>4, <2>5, <2>6
<1>6. CASE CopyItem
  <2>1. /\ wk.pc = "copy" /\ wk.i + 1 \in Nat /\ had' = had /\ met' = met /\ moved' = FALSE
        /\ wk' = [wk EXCEPT !.pc = "test", !.i = wk.i + 1, !.items = NULL]
    BY <1>6 DEF CopyItem, MapTypes
  <2>2. wk' \in [pc : {"idle", "test", "load", "copy", "remove"}, key : Key \cup {NULL},
             vec : Entry \cup {NULL}, i : Nat, items : Buffer \cup {NULL}]
    BY <2>1 DEF MapTypes
  <2>3. /\ wk'.pc = "test" /\ wk'.i = wk.i + 1
        /\ wk'.vec = wk.vec /\ wk'.key = wk.key
    BY <1>3, <2>1 DEF MapTypes
  <2>4. given' \in Seq(Pages \cup {0})
    <3>1. PICK page \in CellValues(wk.items, wk.i + 1) : given' = Append(given, page)
      BY <1>6 DEF CopyItem
    <3>2. wk.items \in Buffer
      BY <2>1 DEF Walk
    <3>3. page \in Pages \cup {0}
      <4>1. CASE wk.items \in live /\ wk.i + 1 \in DOMAIN cells[wk.items]
        <5>1. page = cells[wk.items][wk.i + 1]
          BY <4>1 DEF CellValues
        <5> QED
          BY <3>2, <4>1, <5>1, ElementOfSeq DEF MapTypes
      <4>2. CASE ~(wk.items \in live /\ wk.i + 1 \in DOMAIN cells[wk.items])
        BY <4>2 DEF CellValues, Pages
      <4> QED
        BY <4>1, <4>2
    <3> QED
      BY <3>1, <3>3 DEF MapTypes
  <2>5. MapTypes'
    BY <1>1, <2>1, <2>2, <2>4 DEF MapTypes
  <2>6. Walk'
    BY <1>1, <1>3, <2>1, <2>3 DEF Walk
  <2>7. Meeting'
    BY <1>1, <2>1, <2>3 DEF Meeting
  <2> QED
    BY <1>2, <2>5, <2>6, <2>7
<1>7. ASSUME NEW k \in Key, map_get(k) PROVE MapInvariant'
  <2>1. /\ wk.pc = "idle" /\ map[k] # NULL /\ ins.pc = "out" /\ given' = given
        /\ had' = value[map[k]].size /\ met' = met /\ moved' = moved
        /\ wk' = [wk EXCEPT !.pc = "test", !.key = k, !.vec = map[k]]
    BY <1>7 DEF map_get, map_cs_free
  <2>2. map[k] \in Entry
    BY <2>1 DEF MapTypes
  <2>3. wk' \in [pc : {"idle", "test", "load", "copy", "remove"}, key : Key \cup {NULL},
             vec : Entry \cup {NULL}, i : Nat, items : Buffer \cup {NULL}]
    BY <2>1, <2>2 DEF MapTypes
  <2>4. /\ wk'.pc = "test" /\ wk'.i = 0
        /\ wk'.vec = map[k] /\ wk'.key = k
    BY <2>1 DEF MapTypes, Walk, Idle
  <2>6. value[map[k]].size \in Nat
    BY <2>2 DEF MapTypes, Vector
  <2>5. MapTypes'
    BY <1>1, <2>1, <2>3, <2>6 DEF MapTypes
  <2>7. Walk'
    BY <1>1, <2>1, <2>2, <2>4, <2>6 DEF Walk
  <2>8. Meeting'
    BY <1>1, <2>1 DEF Meeting
  <2> QED
    BY <1>2, <2>5, <2>7, <2>8
<1> QED
  BY <1>4, <1>5, <1>6, <1>7

LEMMA RemoveStep ==
  ASSUME MapInvariant, map_remove
  PROVE  MapInvariant'
<1> USE MapAssumption
<1> USE DEF MapInvariant
<1> DEFINE e == wk.vec
<1>1. /\ wk.pc = "remove" /\ ins.pc = "out" /\ wk.key \in Key
      /\ e \in Entry /\ map[wk.key] = e
      /\ live' = live \ {e, value[e].items}
      /\ value' = [value EXCEPT ![e] = vector_init]
      /\ map' = [map EXCEPT ![wk.key] = NULL]
      /\ wk' = Idle
      /\ had' = 0 /\ met' = FALSE
      /\ UNCHANGED <<cells, ins, inserted, given, moved>>
  BY DEF map_remove, map_cs_free, Walk, without
<1>2. ins.e = NULL /\ ins.new = NULL
  BY <1>1 DEF Insertion, Growing
<1>3. /\ value'[e] = vector_init
      /\ \A f \in Entry : f # e => value'[f] = value[f]
      /\ \A k \in Key : map'[k] = IF k = wk.key THEN NULL ELSE map[k]
  BY <1>1 DEF MapTypes
<1>4. value'[e].items = NULL /\ value'[e].size = 0 /\ value'[e].capacity = 0
  BY <1>3 DEF vector_init
<1> HIDE DEF e
<1>5. \A f \in Entry : InMap(f)' <=> InMap(f) /\ f # e
  <2>1. \A k \in Key : map[k] = e => k = wk.key
    BY <1>1 DEF Entries
  <2> QED
    BY <1>1, <1>3, <2>1 DEF InMap
<1>6. MapTypes'
  <2>1. vector_init \in Vector
    BY Zenon DEF vector_init, Vector
  <2>2. value' \in [Entry -> Vector]
    BY <1>1, <2>1 DEF MapTypes
  <2>3. map' \in [Key -> Entry \cup {NULL}] /\ live' \subseteq Entry \cup Buffer
    BY <1>1 DEF MapTypes
  <2>4. wk' \in [pc : {"idle", "test", "load", "copy", "remove"}, key : Key \cup {NULL},
             vec : Entry \cup {NULL}, i : Nat, items : Buffer \cup {NULL}]
    <3>1. Idle \in [pc : {"idle", "test", "load", "copy", "remove"}, key : Key \cup {NULL},
             vec : Entry \cup {NULL}, i : Nat, items : Buffer \cup {NULL}]
      BY Zenon DEF Idle
    <3> QED
      BY <1>1, <3>1
  <2> QED
    BY <1>1, <2>2, <2>3, <2>4 DEF MapTypes
<1>7. Vectors'
  BY <1>1, <1>3, <1>4 DEF Vectors
<1>8. Entries'
  <2>1. \A k, l \in Key : map'[k] = map'[l] /\ map'[k] # NULL => k = l
    BY <1>3 DEF Entries
  <2>2. \A f \in Entry : ~InMap(f)' => value'[f] = vector_init
    BY <1>3, <1>5 DEF Entries
  <2>3. \A f \in Entry : InMap(f)' /\ f # ins.e => value'[f].size > 0
    BY <1>3, <1>5 DEF Entries
  <2> QED
    BY <1>1, <2>1, <2>2, <2>3 DEF Entries
<1>9. Allocated'
  <2>1. \A f \in Entry : f \in live' <=> InMap(f)'
    <3>1. \A f \in Entry : f # value[e].items
      BY <1>1 DEF MapTypes, Vector
    <3> QED
      BY <1>1, <1>5, <3>1 DEF Allocated
  <2>2. ASSUME NEW b \in Buffer
        PROVE  b \in live' <=> \E f \in Entry : value'[f].items = b
    <3>1. b \in live <=> \E f \in Entry : value[f].items = b
      BY <1>1, <1>2 DEF Allocated
    <3>2. b \in live' <=> b \in live /\ b # value[e].items
      BY <1>1
    <3>3. \A f \in Entry : value[f].items = b /\ value[e].items = b => f = e
      BY <1>1 DEF Vectors
    <3> QED
      BY <1>1, <1>3, <1>4, <3>1, <3>2, <3>3
  <2> QED
    BY <1>1, <1>2, <2>1, <2>2 DEF Allocated
<1>10. Insertion' /\ Growing'
  BY <1>1, <1>2 DEF Insertion, Growing
<1>11. Walk' /\ Meeting'
  BY <1>1 DEF Walk, Meeting, Idle
<1> QED
  BY <1>6, <1>7, <1>8, <1>9, <1>10, <1>11

(***************************************************************************)
(* What is known of the map, its vectors and the two threads in them holds *)
(* in every reachable state: an inductive invariant.                       *)
(***************************************************************************)
THEOREM MapCorrect == Spec => []MapInvariant
<1>1. Init => MapInvariant
  BY MapInit
<1>2. MapInvariant /\ [Next]_vars => MapInvariant'
  <2> SUFFICES ASSUME MapInvariant, [Next]_vars PROVE MapInvariant'
    OBVIOUS
  <2>1. CASE Next
    BY <2>1, EnterStep, GrowStep, InstallStep, SizeStep, StoreStep, WalkStep, RemoveStep
    DEF Next
  <2>2. CASE UNCHANGED vars
    BY <2>2 DEF vars, history, MapInvariant, MapTypes, Vectors, Entries, Allocated, Insertion,
                Growing, Walk, Meeting, InMap, new_capacity
  <2> QED
    BY <2>1, <2>2
<1> QED
  BY <1>1, <1>2, PTL DEF Spec

(***************************************************************************)
(* TypeOK in every reachable state.                                        *)
(***************************************************************************)
THEOREM MapTypeCorrect == Spec => []TypeOK
<1>1. MapInvariant => TypeOK
  BY DEF MapInvariant, MapTypes, Vectors, Vector, TypeOK
<1> QED
  BY <1>1, MapCorrect, PTL

(***************************************************************************)
(* The worker, which holds no lock while it walks a vector, never touches  *)
(* an entry that was freed, and no buffer that was freed nor a cell behind *)
(* a buffer's end, unless the scheduler grew that vector between its two   *)
(* accesses to an item.  The scheduler never touches what was freed.       *)
(***************************************************************************)
THEOREM NeverUsesFreed == Spec => []NoUseAfterFree
<1>1. MapInvariant => NoUseAfterFree
  <2> SUFFICES ASSUME MapInvariant PROVE NoUseAfterFree
    OBVIOUS
  <2> USE MapAssumption
  <2>1. wk.pc # "idle" => wk.vec \in Entry /\ wk.vec \in live
    BY DEF MapInvariant, Walk, Allocated, InMap
  <2>2. ins.pc # "out" => ins.e \in Entry /\ ins.e \in live
    BY DEF MapInvariant, Insertion, Allocated
  <2>3. ASSUME ins.pc \in {"push", "sized", "stored"}
        PROVE  value[ins.e].items \in live
    <3>1. /\ value[ins.e].size \in Nat /\ value[ins.e].capacity \in Nat
          /\ value[ins.e].items \in Buffer \cup {NULL}
          /\ value[ins.e].size <= value[ins.e].capacity
          /\ value[ins.e].items = NULL => value[ins.e].capacity = 0
      BY <2>2, <2>3 DEF MapInvariant, MapTypes, Vector, Vectors
    <3>2. value[ins.e].capacity > 0
      BY <2>3, <3>1 DEF MapInvariant, Insertion
    <3> QED
      BY <2>2, <2>3, <3>1, <3>2 DEF MapInvariant, Allocated
  <2>4. ASSUME wk.pc = "copy", ~moved
        PROVE  /\ wk.items \in live /\ wk.items = value[wk.vec].items
               /\ wk.i < Len(cells[wk.items])
    <3>1. /\ wk.items = value[wk.vec].items /\ wk.i < value[wk.vec].size /\ wk.i \in Nat
          /\ wk.items \in Buffer
          /\ ins.pc = "install" => ins.e # wk.vec
      BY <2>4 DEF MapInvariant, Walk, MapTypes
    <3>2. /\ value[wk.vec].size \in Nat /\ value[wk.vec].capacity \in Nat
          /\ value[wk.vec].size <= value[wk.vec].capacity
          /\ Len(cells[wk.items]) = value[wk.vec].capacity
      BY <2>1, <2>4, <3>1 DEF MapInvariant, MapTypes, Vector, Vectors
    <3>3. wk.items \in live
      BY <2>1, <2>4, <3>1 DEF MapInvariant, Allocated
    <3> QED
      BY <3>1, <3>2, <3>3
  <2> QED
    BY <2>1, <2>2, <2>3, <2>4 DEF NoUseAfterFree
<1> QED
  BY <1>1, MapCorrect, PTL

(***************************************************************************)
(* What is allocated is in use: growing a vector and removing an entry     *)
(* leak nothing.                                                           *)
(***************************************************************************)
THEOREM NeverLeaks == Spec => []NoLeak
<1>1. MapInvariant => NoLeak
  <2> SUFFICES ASSUME MapInvariant PROVE NoLeak
    OBVIOUS
  <2> USE MapAssumption
  <2>1. /\ live \subseteq Entry \cup Buffer /\ ins.new \in Buffer \cup {NULL}
        /\ \A k \in Key : map[k] \in Entry \cup {NULL}
        /\ \A e \in Entry : value[e].items \in Buffer \cup {NULL}
    BY DEF MapInvariant, MapTypes, Vector
  <2>2. \A e \in Entry : value[e].items # NULL => InMap(e)
    BY DEF MapInvariant, Entries, vector_init
  <2>3. ins.pc = "install" => ins.e \in Entry /\ InMap(ins.e)
    BY DEF MapInvariant, Insertion
  <2>4. \A a : a \in InUse <=> /\ a # NULL
                               /\ \/ \E k \in Key : map[k] = a
                                  \/ \E e \in Entry : value[e].items = a
                                  \/ ins.new = a
    <3>1. \A a : a \in InUse <=> /\ a # NULL
                                 /\ \/ \E k \in Key : map[k] = a
                                    \/ \E k \in Key : map[k] # NULL /\ value[map[k]].items = a
                                    \/ ins.new = a
      BY DEF InUse
    <3>2. \A a : a # NULL => ((\E k \in Key : map[k] # NULL /\ value[map[k]].items = a)
                                <=> (\E e \in Entry : value[e].items = a))
      BY <2>1, <2>2 DEF InMap
    <3> QED
      BY <3>1, <3>2
  <2>5. \A a \in Entry : a \in live <=> a \in InUse
    BY <2>1, <2>4 DEF MapInvariant, Allocated, InMap
  <2>6. ASSUME NEW b \in Buffer
        PROVE  b \in live <=> b \in InUse /\ (ins.pc = "install" => b # value[ins.e].items)
    <3>1. b \in live <=> \/ b = ins.new
                         \/ \E e \in Entry : /\ value[e].items = b
                                             /\ ins.pc = "install" => e # ins.e
      BY DEF MapInvariant, Allocated
    <3>2. b \in InUse <=> b = ins.new \/ \E e \in Entry : value[e].items = b
      BY <2>1, <2>4
    <3>3. ins.pc = "install" =>
            /\ ins.new # value[ins.e].items
            /\ \A e \in Entry : value[e].items = b /\ value[ins.e].items = b => e = ins.e
      BY <2>3 DEF MapInvariant, Growing, Vectors
    <3> QED
      BY <2>3, <3>1, <3>2, <3>3
  <2>7. InUse \subseteq Entry \cup Buffer
    BY <2>1, <2>4
  <2>8. ins.pc = "install" => value[ins.e].items \notin Entry
    BY <2>1, <2>3
  <2> QED
    BY <2>1, <2>5, <2>6, <2>7, <2>8 DEF NoLeak
<1> QED
  BY <1>1, MapCorrect, PTL

-----------------------------------------------------------------------------
(* The refinement of PageStore *)

StoreOfMap == [k \in Key |-> IF map[k] = NULL THEN << >> ELSE Contents(map[k])]

\* What the user of the map sees of a vector is a sequence of pages.
LEMMA ContentsView ==
  ASSUME MapInvariant, NEW e \in Entry
  PROVE  /\ Visible(e) \in Nat
         /\ Contents(e) \in Seq(Pages \cup {0})
         /\ Len(Contents(e)) = Visible(e)
         /\ \A j \in 1 .. Visible(e) : Contents(e)[j] = cells[ItemsOf(e)][j]
<1> USE MapAssumption
<1>1. /\ value[e].size \in Nat /\ value[e].capacity \in Nat
      /\ value[e].items \in Buffer \cup {NULL}
      /\ value[e].size <= value[e].capacity
      /\ value[e].items = NULL => value[e].capacity = 0
      /\ value[e].items # NULL => Len(cells[value[e].items]) = value[e].capacity
  BY DEF MapInvariant, MapTypes, Vector, Vectors
<1>2. Visible(e) \in Nat /\ Visible(e) <= value[e].size
  BY <1>1 DEF Visible, MapInvariant, Insertion
<1>3. ASSUME NEW j \in 1 .. Visible(e)
      PROVE  cells[ItemsOf(e)][j] \in Pages \cup {0}
  <2>1. value[e].items \in Buffer /\ j \in 1 .. Len(cells[value[e].items])
    BY <1>1, <1>2
  <2>2. cells[value[e].items][j] \in Pages \cup {0}
    BY <2>1, ElementOfSeq DEF MapInvariant, MapTypes
  <2>3. ASSUME ins.pc = "install", ins.e = e
        PROVE  cells[ins.new][j] = cells[value[e].items][j]
    BY <1>1, <1>2, <2>3 DEF MapInvariant, Growing
  <2> QED
    BY <2>2, <2>3 DEF ItemsOf
<1>4. Contents(e) \in [1 .. Visible(e) -> Pages \cup {0}]
  BY <1>3 DEF Contents
<1>5. Contents(e) \in Seq(Pages \cup {0}) /\ Len(Contents(e)) = Visible(e)
  BY <1>2, <1>4
<1> QED
  BY <1>2, <1>5 DEF Contents

LEMMA EmptyContents ==
  ASSUME MapInvariant, NEW e \in Entry, Visible(e) = 0
  PROVE  Contents(e) = << >>
  BY ContentsView, EmptySeq

\* A step that leaves the visible pages of every slot alone is none of the store's.
LEMMA SameContents ==
  ASSUME MapInvariant, MapInvariant', map' = map,
         \A e \in Entry : /\ Visible(e)' = Visible(e)
                          /\ \A j \in 1 .. Visible(e) :
                               cells'[ItemsOf(e)'][j] = cells[ItemsOf(e)][j]
  PROVE  StoreOfMap' = StoreOfMap
<1>1. ASSUME NEW e \in Entry PROVE Contents(e)' = Contents(e)
  BY DEF Contents
<1>2. \A k \in Key : map[k] # NULL => map[k] \in Entry
  BY DEF MapInvariant, MapTypes
<1> QED
  BY <1>1, <1>2 DEF StoreOfMap

\* So does one that changes neither the map nor its vectors.
LEMMA SameMap ==
  ASSUME MapInvariant, MapInvariant', UNCHANGED <<map, value, cells, ins>>
  PROVE  StoreOfMap' = StoreOfMap
  BY SameContents DEF Visible, ItemsOf

\* The second of the two writes of a push makes the page visible.
LEMMA PageAppears ==
  ASSUME MapInvariant, MapInvariant', ins.pc \in {"sized", "stored"},
         NEW e \in Entry, e = ins.e,
         UNCHANGED <<map, wk, given, had, met>>,
         \A f \in Entry : f # e => Visible(f)' = Visible(f),
         \A f \in Entry : \A j \in 1 .. Visible(f) :
           cells'[ItemsOf(f)'][j] = cells[ItemsOf(f)][j],
         Visible(e)' = Visible(e) + 1,
         cells'[ItemsOf(e)'][Visible(e) + 1] = ins.page
  PROVE  Store!Next
<1> USE MapAssumption
<1>1. InMap(e) /\ ins.page \in Pages
  BY DEF MapInvariant, Insertion
<1>2. PICK k \in Key : map[k] = e
  BY <1>1 DEF InMap
<1>3. wk.key = k => met
  <2>1. wk.pc # "idle" => map[wk.key] = wk.vec /\ (wk.vec = e => met)
    BY DEF MapInvariant, Walk, Meeting
  <2>2. wk.pc = "idle" => wk.key = NULL
    BY DEF MapInvariant, Walk, Idle
  <2> QED
    BY <1>2, <2>1, <2>2
<1>4. Contents(e)' = Append(Contents(e), ins.page)
  <2>1. /\ Visible(e) \in Nat /\ Contents(e) \in Seq(Pages \cup {0})
        /\ Len(Contents(e)) = Visible(e)
        /\ \A j \in 1 .. Visible(e) : Contents(e)[j] = cells[ItemsOf(e)][j]
    BY <1>1, ContentsView
  <2>2. /\ Contents(e)' = [j \in 1 .. Visible(e) + 1 |-> cells'[ItemsOf(e)'][j]]
    BY DEF Contents
  <2>3. /\ Append(Contents(e), ins.page) \in Seq(Pages \cup {0})
        /\ Len(Append(Contents(e), ins.page)) = Visible(e) + 1
        /\ \A j \in 1 .. Visible(e) : Append(Contents(e), ins.page)[j] = Contents(e)[j]
        /\ Append(Contents(e), ins.page)[Visible(e) + 1] = ins.page
    BY <1>1, <2>1
  <2>4. \A j \in 1 .. Visible(e) + 1 :
          cells'[ItemsOf(e)'][j] = Append(Contents(e), ins.page)[j]
    BY <2>1, <2>3
  <2>5. Append(Contents(e), ins.page)
          = [j \in 1 .. Visible(e) + 1 |-> Append(Contents(e), ins.page)[j]]
    BY <2>1, <2>3
  <2> QED
    BY <2>2, <2>4, <2>5
<1>5. \A f \in Entry : f # e => Contents(f)' = Contents(f)
  BY DEF Contents
<1>6. StoreOfMap' = [StoreOfMap EXCEPT ![k] = Append(@, ins.page)]
  <2>1. \A l \in Key : map[l] # NULL => map[l] \in Entry
    BY DEF MapInvariant, MapTypes
  <2>2. \A l \in Key : map[l] = e => l = k
    BY <1>1, <1>2 DEF MapInvariant, Entries
  <2>3. StoreOfMap[k] = Contents(e) /\ StoreOfMap'[k] = Append(Contents(e), ins.page)
    BY <1>1, <1>2, <1>4 DEF StoreOfMap
  <2>4. \A l \in Key : l # k => StoreOfMap'[l] = StoreOfMap[l]
    BY <1>5, <2>1, <2>2 DEF StoreOfMap
  <2>5. \A l \in Key : StoreOfMap'[l]
                         = IF l = k THEN Append(StoreOfMap[k], ins.page) ELSE StoreOfMap[l]
    BY <2>3, <2>4
  <2>6. DOMAIN StoreOfMap = Key /\ DOMAIN StoreOfMap' = Key
        /\ StoreOfMap' = [l \in Key |-> StoreOfMap'[l]]
    BY DEF StoreOfMap
  <2> QED
    BY <2>5, <2>6
<1>7. PICK page \in 1 .. MaxInserts : page = ins.page
  BY <1>1 DEF Pages
<1>8. Store!Insert(k, page)
  BY <1>3, <1>6, <1>7 DEF Store!Insert, StoreOfMap
<1> QED
  BY <1>8 DEF Store!Next

\* Every step of an insertion is one of the store's, or none.
LEMMA InsertionRefines ==
  ASSUME MapInvariant, MapInvariant',
         PushGrow \/ PushInstall \/ PushSize \/ PushStore \/ \E k \in Key : InsertEnter(k)
  PROVE  Store!Next \/ UNCHANGED Store!vars
<1> USE MapAssumption
<1> SUFFICES ASSUME ~Store!Next PROVE UNCHANGED Store!vars
  OBVIOUS
<1>1. UNCHANGED <<wk, given, had>>
  BY DEF PushGrow, PushInstall, PushSize, PushStore, InsertEnter, history
<1>9. met' = met \/ (wk.key # NULL /\ met' = TRUE)
  <2>1. CASE \E k \in Key : InsertEnter(k)
    <3>1. PICK e \in Entry : met' = (met \/ e = wk.vec)
      BY <2>1 DEF InsertEnter
    <3>2. CASE e = wk.vec
      <4>1. wk.pc # "idle"
        BY <3>2 DEF MapInvariant, Walk, Idle
      <4>2. met' = TRUE
        BY <3>1, <3>2, Zenon
      <4> QED
        BY <4>1, <4>2 DEF MapInvariant, Walk
    <3>3. CASE e # wk.vec
      BY <3>1, <3>3, Zenon DEF MapInvariant, MapTypes
    <3> QED
      BY <3>2, <3>3
  <2>2. CASE PushGrow \/ PushInstall \/ PushSize \/ PushStore
    BY <2>2 DEF PushGrow, PushInstall, PushSize, PushStore, history
  <2> QED
    BY <2>1, <2>2
<1>2. SUFFICES StoreOfMap' = StoreOfMap
  <2> SUFFICES ASSUME StoreOfMap' = StoreOfMap PROVE UNCHANGED Store!vars
    OBVIOUS
  <2>1. CASE met' = met
    BY <1>1, <2>1 DEF Store!vars, StoreOfMap
  <2>2. CASE wk.key # NULL /\ met' = TRUE
    <3>1. Store!Meet
      BY <1>1, <2>2 DEF Store!Meet, StoreOfMap
    <3> QED
      BY <3>1 DEF Store!Next
  <2> QED
    BY <1>9, <2>1, <2>2
<1>3. ASSUME NEW e \in Entry
      PROVE  /\ value[e].size \in Nat /\ value[e].capacity \in Nat /\ Visible(e) \in Nat
             /\ value[e].items \in Buffer \cup {NULL}
             /\ value[e].size <= value[e].capacity
             /\ value[e].items = NULL => value[e].capacity = 0
             /\ Visible(e) <= value[e].size
  <2>1. /\ value[e].size \in Nat /\ value[e].capacity \in Nat
        /\ value[e].items \in Buffer \cup {NULL}
        /\ value[e].size <= value[e].capacity
        /\ value[e].items = NULL => value[e].capacity = 0
    BY DEF MapInvariant, MapTypes, Vector, Vectors
  <2> QED
    BY <2>1, ContentsView DEF Visible
<1>4. ASSUME NEW k \in Key, InsertEnter(k) PROVE StoreOfMap' = StoreOfMap
  <2>1. PICK e \in Entry :
          /\ map[k] = NULL => e \notin live /\ value' = [value EXCEPT ![e] = vector_init]
          /\ map[k] # NULL => e = map[k] /\ value' = value
          /\ map' = [map EXCEPT ![k] = e]
          /\ cells' = cells /\ ins.pc = "out"
          /\ ins'.pc \in {"grow", "push"}
    BY <1>4 DEF InsertEnter, map_cs_free, MapInvariant, MapTypes
  <2>2. \A f \in Entry : value'[f].size = value[f].size /\ value'[f].items = value[f].items
    <3>1. map[k] = NULL => value[e] = vector_init
      BY <2>1 DEF MapInvariant, Allocated, Entries
    <3> QED
      BY <2>1, <3>1 DEF MapInvariant, MapTypes
  <2>3. \A f \in Entry : Visible(f)' = Visible(f) /\ ItemsOf(f)' = ItemsOf(f)
    BY <2>1, <2>2 DEF Visible, ItemsOf
  <2>4. \A f \in Entry : Contents(f)' = Contents(f)
    BY <2>1, <2>3 DEF Contents
  <2>5. CASE map[k] # NULL
    <3>1. map' = map
      BY <2>1, <2>5 DEF MapInvariant, MapTypes
    <3>2. \A l \in Key : map[l] # NULL => map[l] \in Entry
      BY DEF MapInvariant, MapTypes
    <3> QED
      BY <2>4, <3>1, <3>2 DEF StoreOfMap
  <2>6. CASE map[k] = NULL
    <3>1. value[e] = vector_init
      BY <2>1, <2>6 DEF MapInvariant, Allocated, Entries
    <3>2. Visible(e) = 0
      BY <2>1, <3>1 DEF Visible, vector_init
    <3>3. Contents(e)' = << >>
      BY <2>4, <3>2, EmptyContents
    <3>4. \A l \in Key : map'[l] = IF l = k THEN e ELSE map[l]
      BY <2>1 DEF MapInvariant, MapTypes
    <3>5. \A l \in Key : map[l] # NULL => map[l] \in Entry
      BY DEF MapInvariant, MapTypes
    <3> QED
      BY <2>4, <2>6, <3>3, <3>4, <3>5 DEF StoreOfMap
  <2> QED
    BY <2>5, <2>6
<1>5. CASE PushGrow
  <2>1. PICK b \in Buffer \ live :
          /\ cells' = [cells EXCEPT ![b] = new_items(value[ins.e])]
          /\ ins.pc = "grow" /\ ins'.pc = "install" /\ ins'.e = ins.e /\ ins'.new = b
          /\ map' = map /\ value' = value
    BY <1>5 DEF PushGrow, MapInvariant, MapTypes
  <2>2. \A e \in Entry : value[e].items # b
    BY <2>1 DEF MapInvariant, Allocated
  <2>3. ASSUME NEW e \in Entry, NEW j \in 1 .. Visible(e)
        PROVE  cells'[ItemsOf(e)'][j] = cells[ItemsOf(e)][j]
    <3>1. ItemsOf(e) = value[e].items /\ value[e].items \in Buffer
      BY <1>3, <2>1 DEF ItemsOf
    <3>2. cells'[value[e].items][j] = cells[value[e].items][j]
      BY <2>1, <2>2, <3>1 DEF MapInvariant, MapTypes
    <3>3. CASE e = ins.e
      <4>1. ItemsOf(e)' = b
        BY <2>1, <3>3 DEF ItemsOf
      <4>2. cells'[b][j] = cells'[value[e].items][j]
        BY <1>3, <2>1, <3>3 DEF MapInvariant, Growing
      <4> QED
        BY <3>1, <3>2, <4>1, <4>2
    <3>4. CASE e # ins.e
      BY <2>1, <3>1, <3>2, <3>4 DEF ItemsOf
    <3> QED
      BY <3>3, <3>4
  <2>4. \A e \in Entry : Visible(e)' = Visible(e)
    BY <2>1 DEF Visible
  <2> QED
    BY <2>1, <2>3, <2>4, SameContents
<1>6. CASE PushInstall
  <2>1. /\ ins.pc = "install" /\ ins'.pc = "push" /\ ins.e \in Entry
        /\ value' = [value EXCEPT ![ins.e].items = ins.new,
                                  ![ins.e].capacity = new_capacity(value[ins.e])]
        /\ map' = map /\ cells' = cells
    BY <1>6 DEF PushInstall, MapInvariant, MapTypes, Insertion
  <2>2. /\ value'[ins.e].items = ins.new /\ value'[ins.e].size = value[ins.e].size
        /\ \A e \in Entry : e # ins.e => value'[e] = value[e]
    <3>1. value[ins.e] \in Vector
      BY <2>1 DEF MapInvariant, MapTypes
    <3>2. value'[ins.e] = [value[ins.e] EXCEPT !.items = ins.new,
                                               !.capacity = new_capacity(value[ins.e])]
      BY <2>1 DEF MapInvariant, MapTypes
    <3> QED
      BY <2>1, <3>1, <3>2 DEF MapInvariant, MapTypes, Vector
  <2>3. \A e \in Entry : Visible(e)' = Visible(e) /\ ItemsOf(e)' = ItemsOf(e)
    <3> SUFFICES ASSUME NEW e \in Entry
                 PROVE  Visible(e)' = Visible(e) /\ ItemsOf(e)' = ItemsOf(e)
      OBVIOUS
    <3>1. CASE e = ins.e
      <4>1. value'[e].items = ins.new /\ value'[e].size = value[e].size
        BY <2>2, <3>1
      <4> QED
        BY <2>1, <3>1, <4>1 DEF Visible, ItemsOf
    <3>2. CASE e # ins.e
      <4>1. value'[e] = value[e]
        BY <2>2, <3>2
      <4> QED
        BY <2>1, <3>2, <4>1 DEF Visible, ItemsOf
    <3> QED
      BY <3>1, <3>2
  <2> QED
    BY <2>1, <2>3, SameContents
<1>7. CASE PushSize
  <2>1. /\ ins.pc \in {"push", "stored"} /\ ins.e \in Entry
        /\ value' = [value EXCEPT ![ins.e].size = value[ins.e].size + 1]
        /\ ins.pc = "push" => ins'.pc = "sized" /\ ins'.e = ins.e
        /\ ins.pc = "stored" => ins'.pc = "out"
        /\ map' = map /\ cells' = cells /\ met' = met
    BY <1>7 DEF PushSize, history, MapInvariant, MapTypes, Insertion, Outside
  <2>2. PICK e \in Entry : e = ins.e
    BY <2>1
  <2>3. /\ value'[e].size = value[e].size + 1
        /\ \A f \in Entry : f # e => value'[f] = value[f]
        /\ \A f \in Entry : value'[f].items = value[f].items
    BY <2>1, <2>2 DEF MapInvariant, MapTypes, Vector
  <2>4. \A f \in Entry : ItemsOf(f) = value[f].items /\ ItemsOf(f)' = value[f].items
    BY <2>1, <2>3 DEF ItemsOf
  <2>5. \A f \in Entry : \A j \in 1 .. Visible(f) :
          cells'[ItemsOf(f)'][j] = cells[ItemsOf(f)][j]
    BY <2>1, <2>4
  <2>6. \A f \in Entry : f # e => Visible(f)' = Visible(f)
    BY <2>1, <2>2, <2>3 DEF Visible
  <2>7. CASE ins.pc = "push"
    <3>1. Visible(e)' = Visible(e)
      BY <1>3, <2>1, <2>2, <2>3, <2>7 DEF Visible
    <3> QED
      BY <2>1, <2>5, <2>6, <3>1, SameContents
  <2>8. CASE ins.pc = "stored"
    <3>1. Visible(e) = value[e].size /\ Visible(e)' = Visible(e) + 1
      BY <1>3, <2>1, <2>2, <2>3, <2>8 DEF Visible
    <3>2. cells[value[e].items][value[e].size + 1] = ins.page
      BY <2>2, <2>8 DEF MapInvariant, Insertion
    <3>3. cells'[ItemsOf(e)'][Visible(e) + 1] = ins.page
      BY <2>1, <2>4, <3>1, <3>2
    <3> QED
      BY <1>1, <2>1, <2>2, <2>5, <2>6, <2>8, <3>1, <3>3, PageAppears
  <2> QED
    BY <2>1, <2>7, <2>8
<1>8. CASE PushStore
  <2> DEFINE n(e) == IF ins.pc = "sized" THEN value[e].size ELSE value[e].size + 1
  <2>1. /\ ins.pc \in {"push", "sized"} /\ ins.e \in Entry
        /\ cells' = [cells EXCEPT ![value[ins.e].items][n(ins.e)] = ins.page]
        /\ ins.pc = "push" => ins'.pc = "stored" /\ ins'.e = ins.e
        /\ ins.pc = "sized" => ins'.pc = "out"
        /\ map' = map /\ value' = value /\ met' = met
    BY <1>8 DEF PushStore, history, MapInvariant, MapTypes, Insertion, Outside
  <2>2. PICK e \in Entry : e = ins.e
    BY <2>1
  <2>3. /\ value[e].items \in Buffer /\ n(e) \in 1 .. Len(cells[value[e].items])
        /\ value[e].size \in Nat /\ n(e) \in Nat
    <3>1. /\ ins.pc = "push" => value[e].size < value[e].capacity
          /\ ins.pc = "sized" => value[e].size > 0
      BY <2>2 DEF MapInvariant, Insertion
    <3>2. value[e].items # NULL => Len(cells[value[e].items]) = value[e].capacity
      BY <2>1 DEF MapInvariant, Vectors
    <3> QED
      BY <1>3, <2>1, <3>1, <3>2
  <2>4. \A f \in Entry : ItemsOf(f) = value[f].items /\ ItemsOf(f)' = value[f].items
    BY <2>1 DEF ItemsOf
  <2>5. \A f \in Entry : f # e => Visible(f)' = Visible(f)
    BY <2>1, <2>2 DEF Visible
  <2>6. Visible(e) = n(e) - 1
    BY <2>1, <2>2, <2>3 DEF Visible
  <2>7. \A f \in Entry : \A j \in 1 .. Visible(f) :
          cells'[ItemsOf(f)'][j] = cells[ItemsOf(f)][j]
    <3> SUFFICES ASSUME NEW f \in Entry, NEW j \in 1 .. Visible(f)
                 PROVE  cells'[value[f].items][j] = cells[value[f].items][j]
      BY <2>4
    <3>1. value[f].items \in Buffer /\ (value[f].items = value[e].items => f = e)
      BY <1>3, <2>1, <2>3 DEF MapInvariant, Vectors
    <3>2. f = e => j # n(e)
      BY <2>3, <2>6
    <3> HIDE DEF n
    <3> QED
      BY <2>1, <2>2, <2>3, <3>1, <3>2 DEF MapInvariant, MapTypes
  <2>8. CASE ins.pc = "push"
    <3>1. Visible(e)' = Visible(e)
      BY <2>1, <2>2, <2>8 DEF Visible
    <3> QED
      BY <2>1, <2>5, <2>7, <3>1, SameContents
  <2>9. CASE ins.pc = "sized"
    <3>1. Visible(e)' = Visible(e) + 1
      BY <2>1, <2>2, <2>3, <2>9 DEF Visible
    <3>2. cells'[value[e].items][n(e)] = ins.page
      <4> HIDE DEF n
      <4> QED
        BY <2>1, <2>2, <2>3 DEF MapInvariant, MapTypes
    <3>3. cells'[ItemsOf(e)'][Visible(e) + 1] = ins.page
      <4> HIDE DEF n
      <4> QED
        BY <2>3, <2>4, <2>6, <3>2
    <3> QED
      BY <1>1, <2>1, <2>2, <2>5, <2>7, <2>9, <3>1, <3>3, PageAppears
  <2> QED
    BY <2>1, <2>8, <2>9
<1> QED
  BY <1>4, <1>5, <1>6, <1>7, <1>8

\* The worker opens the slot, reads its pages from the first to the last, and
\* empties it; its other steps are none of the store's.
LEMMA WalkRefines ==
  ASSUME MapInvariant, MapInvariant',
         LoopTest \/ LoadItems \/ CopyItem \/ map_remove \/ \E k \in Key : map_get(k)
  PROVE  Store!Next \/ UNCHANGED Store!vars
<1> USE MapAssumption
<1>1. ASSUME wk.pc # "idle"
      PROVE  /\ wk.key \in Key /\ wk.vec \in Entry /\ map[wk.key] = wk.vec
             /\ wk.key # NULL
             /\ StoreOfMap[wk.key] = Contents(wk.vec)
  <2>1. wk.key \in Key /\ wk.vec \in Entry /\ map[wk.key] = wk.vec
    BY <1>1 DEF MapInvariant, Walk
  <2> QED
    BY <2>1 DEF StoreOfMap
<1>7. ASSUME wk.pc # "idle", ~met
      PROVE  /\ ItemsOf(wk.vec) = value[wk.vec].items
             /\ Len(Contents(wk.vec)) = value[wk.vec].size
             /\ value[wk.vec].size \in Nat
             /\ \A j \in 1 .. value[wk.vec].size :
                  Contents(wk.vec)[j] = cells[value[wk.vec].items][j]
  <2>1. ins.pc # "out" => ins.e # wk.vec
    BY <1>7 DEF MapInvariant, Meeting
  <2>2. Visible(wk.vec) = value[wk.vec].size /\ ItemsOf(wk.vec) = value[wk.vec].items
    BY <2>1 DEF Visible, ItemsOf
  <2> QED
    BY <1>1, <1>7, <2>2, ContentsView
<1>2. CASE LoopTest
  <2>1. /\ UNCHANGED <<map, value, cells, ins, given, had, met>>
        /\ wk'.key = wk.key /\ wk'.i = wk.i
    BY <1>2 DEF LoopTest, history, MapInvariant, MapTypes
  <2> QED
    BY <2>1, SameMap DEF Store!vars, StoreOfMap
<1>3. CASE LoadItems
  <2>1. /\ UNCHANGED <<map, value, cells, ins, given, had, met>>
        /\ wk'.key = wk.key /\ wk'.i = wk.i
    BY <1>3 DEF LoadItems, MapInvariant, MapTypes
  <2> QED
    BY <2>1, SameMap DEF Store!vars, StoreOfMap
<1>4. CASE CopyItem
  <2>1. /\ wk.pc = "copy" /\ UNCHANGED <<map, value, cells, ins, had, met>>
        /\ wk'.key = wk.key /\ wk'.i = wk.i + 1 /\ wk.i \in Nat
    BY <1>4 DEF CopyItem, MapInvariant, MapTypes
  <2>2. PICK page \in CellValues(wk.items, wk.i + 1) : given' = Append(given, page)
    BY <1>4 DEF CopyItem
  <2>3. wk.items \in Buffer /\ wk.i < value[wk.vec].size /\ wk.key # NULL
    BY <1>1, <2>1 DEF MapInvariant, Walk
  <2>4. StoreOfMap' = StoreOfMap
    BY <2>1, SameMap
  <2>5. CASE met
    <3>1. page \in 0 .. MaxInserts
      <4>1. CASE wk.items \in live /\ wk.i + 1 \in DOMAIN cells[wk.items]
        <5>1. page = cells[wk.items][wk.i + 1]
          BY <2>2, <4>1 DEF CellValues
        <5>2. page \in Pages \cup {0}
          BY <2>3, <4>1, <5>1, ElementOfSeq DEF MapInvariant, MapTypes
        <5> QED
          BY <5>2 DEF Pages
      <4>2. CASE ~(wk.items \in live /\ wk.i + 1 \in DOMAIN cells[wk.items])
        BY <2>2, <4>2 DEF CellValues
      <4> QED
        BY <4>1, <4>2
    <3>2. Store!Read
      BY <2>1, <2>2, <2>3, <2>4, <2>5, <3>1 DEF Store!Read, StoreOfMap
    <3> QED
      BY <3>2 DEF Store!Next
  <2>6. CASE ~met
    <3>1. ~moved
      BY <2>6 DEF MapInvariant, Meeting
    <3>2. /\ wk.items = value[wk.vec].items
          /\ ins.pc = "install" => ins.e # wk.vec
      BY <2>1, <3>1 DEF MapInvariant, Walk
    <3>3. wk.items \in live
      BY <1>1, <2>1, <2>3, <3>2 DEF MapInvariant, Allocated
    <3>4. wk.i + 1 \in DOMAIN cells[wk.items]
      <4>0. wk.vec \in Entry
        BY <1>1, <2>1
      <4>1. /\ value[wk.vec].capacity \in Nat /\ value[wk.vec].size \in Nat
            /\ value[wk.vec].size <= value[wk.vec].capacity
        BY <4>0 DEF MapInvariant, MapTypes, Vector, Vectors
      <4>3. Len(cells[wk.items]) = value[wk.vec].capacity
        BY <2>3, <3>2, <4>0 DEF MapInvariant, Vectors
      <4>2. wk.i + 1 \in 1 .. Len(cells[wk.items])
        BY <2>1, <2>3, <4>1, <4>3
      <4> QED
        BY <2>3, <4>2 DEF MapInvariant, MapTypes
    <3>5. page = cells[wk.items][wk.i + 1]
      BY <2>2, <3>3, <3>4 DEF CellValues
    <3>6. page = StoreOfMap[wk.key][wk.i + 1] /\ wk.i < Len(StoreOfMap[wk.key])
      BY <1>1, <1>7, <2>1, <2>3, <2>6, <3>2, <3>5
    <3>7. Store!Read
      BY <2>1, <2>2, <2>3, <2>4, <3>6 DEF Store!Read, StoreOfMap
    <3> QED
      BY <3>7 DEF Store!Next
  <2> QED
    BY <2>5, <2>6
<1>5. CASE map_remove
  <2>1. /\ wk.pc = "remove" /\ ins.pc = "out" /\ UNCHANGED <<cells, ins, given>>
        /\ map' = [map EXCEPT ![wk.key] = NULL]
        /\ value' = [value EXCEPT ![map[wk.key]] = vector_init]
        /\ wk' = Idle /\ had' = 0 /\ met' = FALSE
    BY <1>5 DEF map_remove, map_cs_free, without
  <2>2. wk.i >= had /\ (~met => wk.i = value[wk.vec].size) /\ wk.key # NULL
    BY <1>1, <2>1 DEF MapInvariant, Walk
  <2>3. ASSUME NEW l \in Key, l # wk.key
        PROVE  StoreOfMap'[l] = StoreOfMap[l]
    <3>1. map'[l] = map[l]
      BY <2>1, <2>3 DEF MapInvariant, MapTypes
    <3>2. CASE map[l] = NULL
      BY <3>1, <3>2 DEF StoreOfMap
    <3>3. CASE map[l] # NULL
      <4>1. PICK e \in Entry : e = map[l]
        BY <3>3 DEF MapInvariant, MapTypes
      <4>2. e # map[wk.key]
        BY <1>1, <2>1, <2>3, <3>3, <4>1 DEF MapInvariant, Entries
      <4>3. value'[e] = value[e]
        BY <2>1, <4>2 DEF MapInvariant, MapTypes
      <4>4. Contents(e)' = Contents(e)
        BY <2>1, <4>3 DEF Contents, Visible, ItemsOf
      <4> QED
        BY <3>1, <3>3, <4>1, <4>4 DEF StoreOfMap
    <3> QED
      BY <3>2, <3>3
  <2>4. StoreOfMap'[wk.key] = << >>
    BY <1>1, <2>1 DEF StoreOfMap, MapInvariant, MapTypes
  <2>5. StoreOfMap' = [StoreOfMap EXCEPT ![wk.key] = << >>]
    <3>1. DOMAIN StoreOfMap = Key /\ StoreOfMap' = [l \in Key |-> StoreOfMap'[l]]
      BY DEF StoreOfMap
    <3> QED
      BY <1>1, <2>1, <2>3, <2>4, <3>1
  <2>6. wk'.key = NULL /\ wk'.i = 0
    BY <2>1 DEF Idle
  <2>7. met \/ wk.i = Len(StoreOfMap[wk.key])
    BY <1>1, <1>7, <2>1, <2>2
  <2>8. Store!Close
    BY <2>1, <2>2, <2>5, <2>6, <2>7 DEF Store!Close, StoreOfMap
  <2> QED
    BY <2>8 DEF Store!Next
<1>6. ASSUME NEW k \in Key, map_get(k) PROVE Store!Next
  <2>1. /\ wk.pc = "idle" /\ ins.pc = "out" /\ map[k] # NULL
        /\ UNCHANGED <<map, value, cells, ins, given, met>>
        /\ had' = value[map[k]].size
        /\ wk'.key = k /\ wk'.i = wk.i
    BY <1>6 DEF map_get, map_cs_free, MapInvariant, MapTypes
  <2>2. wk.key = NULL
    BY <2>1 DEF MapInvariant, Walk, Idle
  <2>3. PICK e \in Entry : e = map[k]
    BY <2>1 DEF MapInvariant, MapTypes
  <2>4. value[e].size > 0 /\ value[e].size \in Nat
    BY <2>1, <2>3 DEF MapInvariant, Entries, Insertion, InMap, MapTypes, Vector
  <2>5. Len(Contents(e)) = value[e].size
    BY <2>1, <2>4, ContentsView DEF Visible
  <2>6. StoreOfMap[k] # << >>
    BY <2>1, <2>3, <2>4, <2>5 DEF StoreOfMap
  <2>9. had' = Len(StoreOfMap[k])
    BY <2>1, <2>3, <2>5 DEF StoreOfMap
  <2>7. StoreOfMap' = StoreOfMap
    BY <2>1, SameMap
  <2>8. Store!Open(k)
    BY <2>1, <2>2, <2>6, <2>7, <2>9 DEF Store!Open, StoreOfMap
  <2> QED
    BY <2>8 DEF Store!Next
<1> QED
  BY <1>2, <1>3, <1>4, <1>5, <1>6

(***************************************************************************)
(* The paging map implements the page store: in a slot that the scheduler  *)
(* does not enter while the worker is in it, no page is skipped, read      *)
(* twice, read torn, or dropped when a vector grows or an entry is         *)
(* removed; in one that it enters, the pages the worker found there are    *)
(* passed before the entry is removed.                                     *)
(***************************************************************************)
THEOREM MapImplementsStore == Spec => ImplementsStore
<1>1. Init => Store!Init
  <2> SUFFICES ASSUME Init PROVE Store!Init
    OBVIOUS
  <2> QED
    BY DEF Init, Store!Init, Idle
<1>2. MapInvariant /\ MapInvariant' /\ [Next]_vars => [Store!Next]_(Store!vars)
  <2> SUFFICES ASSUME MapInvariant, MapInvariant', [Next]_vars
               PROVE  Store!Next \/ UNCHANGED Store!vars
    OBVIOUS
  <2>1. CASE Next
    BY <2>1, InsertionRefines, WalkRefines DEF Next
  <2>2. CASE UNCHANGED vars
    <3>1. UNCHANGED <<map, value, cells, ins, wk, given, had, met>>
      BY <2>2 DEF vars, history
    <3> QED
      BY <3>1, SameMap DEF Store!vars, StoreOfMap
  <2> QED
    BY <2>1, <2>2
<1> QED
  BY <1>1, <1>2, MapCorrect, PTL DEF Spec, ImplementsStore, Store!Spec
=============================================================================
