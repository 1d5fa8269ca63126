------------------------- MODULE PagingLockstepProofs -------------------------
(***************************************************************************)
(* Exercise 4, for any periods, any paging frame, any number of messages.  *)
(* Whatever is lost on the way to the UE, while the AMF is connected the   *)
(* gNB makes an RRC of the message announced last or of the next one, and  *)
(* makes a second RRC of a message only if the first came before its       *)
(* announcement, although listening_amf writes the shared buffer outside   *)
(* the critical section.  As long as nothing is lost the UE takes every    *)
(* MIB and every RRC for what it is, and its two loops are those of        *)
(* exercise 3.                                                             *)
(***************************************************************************)
EXTENDS PagingLockstep, FiniteSetTheorems, FunctionTheorems, SequenceTheorems, TLAPS

\* Messages the gNB has received and not yet announced.
InHand == (IF main.pc = "init" THEN 0 ELSE 1)
            + (IF listener.pc = "recv" THEN 0 ELSE 1)

\* What the AMF sent, and what recv returned for nothing, is on its way, in hand or
\* announced.
Accounted == amf + phantoms = Len(tcp) + InHand + heard

AtStart == main.pc = "init" => listener.pc = "recv" /\ heard = 0

\* From the moment main has seen `ready` until it lowers it, nobody else does.
ReadyHeld == main.pc \in {"copy", "send"} => ready

\* The messages on their way are the last that were sent, in order.
InOrder == \A j \in 1 .. Len(tcp) : tcp[j] = amf - Len(tcp) + j

\* The shared buffer has the message announced last, or a newer one.
Buffer ==
  phantoms = 0 /\ main.pc # "init" =>
    /\ listener.pc = "recv" => ngap = heard + 1
    /\ listener.pc = "memcpy" => ngap = heard + 1 /\ listener.got = heard + 2
    /\ listener.pc = "announce" => ngap = heard + 2

\* Everything but the loops of the frames, typed with the bounds left open.
PagingTypes ==
  /\ tcp \in Seq(1 .. MaxNgap)
  /\ amf \in 0 .. MaxNgap /\ ngap \in 0 .. MaxNgap
  /\ closed \in BOOLEAN /\ phantoms \in 0 .. MaxPhantom
  /\ heard \in Nat
  /\ listener \in [pc : {"recv", "memcpy", "announce"}, got : 0 .. MaxNgap]
  /\ ready \in BOOLEAN
  /\ main \in [pc : {"init", "sleep", "lock", "copy", "send"}, rrc : 0 .. MaxNgap]

PagingInvariant ==
  /\ PagingTypes /\ Accounted /\ AtStart /\ ReadyHeld /\ InOrder /\ Buffer
  /\ NewestIsPaged

-----------------------------------------------------------------------------
LEMMA PagingBounds == MaxNgap \in Nat /\ MaxPhantom \in Nat
  BY PagingLockstepAssumption

LEMMA PagingInit == Init => PagingInvariant
<1> SUFFICES ASSUME Init PROVE PagingInvariant
  OBVIOUS
<1>1. tcp \in Seq(1 .. MaxNgap) /\ Len(tcp) = 0
  BY DEF Init
<1>2. PagingTypes
  <2>1. 0 \in 0 .. MaxNgap /\ 0 \in 0 .. MaxPhantom
    BY PagingBounds
  <2>2. /\ listener \in [pc : {"recv", "memcpy", "announce"}, got : 0 .. MaxNgap]
        /\ main \in [pc : {"init", "sleep", "lock", "copy", "send"}, rrc : 0 .. MaxNgap]
    BY <2>1 DEF Init
  <2> QED
    BY <1>1, <2>1, <2>2 DEF Init, PagingTypes
<1>3. Accounted
  BY <1>1 DEF Init, Accounted, InHand
<1>4. InOrder
  BY <1>1 DEF InOrder
<1>5. AtStart /\ ReadyHeld /\ Buffer /\ NewestIsPaged
  BY DEF Init, AtStart, ReadyHeld, Buffer, NewestIsPaged
<1> QED
  BY <1>2, <1>3, <1>4, <1>5 DEF PagingInvariant

\* The head of the connection is the message after those already taken.
LEMMA HeadIsNext ==
  ASSUME PagingTypes, InOrder, tcp # << >>
  PROVE  /\ Len(tcp) \in Nat \ {0}
         /\ Head(tcp) = amf - Len(tcp) + 1
         /\ Head(tcp) \in 1 .. MaxNgap
         /\ Tail(tcp) \in Seq(1 .. MaxNgap)
         /\ Len(Tail(tcp)) = Len(tcp) - 1
         /\ \A j \in 1 .. Len(Tail(tcp)) : Tail(tcp)[j] = amf - Len(Tail(tcp)) + j
<1>1. tcp \in Seq(1 .. MaxNgap) /\ amf \in Nat
  BY PagingBounds DEF PagingTypes
<1>2. Len(tcp) \in Nat \ {0}
  BY <1>1
<1>3. Head(tcp) = tcp[1] /\ Head(tcp) \in 1 .. MaxNgap
  <2>1. Head(tcp) = tcp[1]
    BY <1>1, <1>2
  <2> QED
    BY <1>1, <2>1, HeadTailProperties, Zenon
<1>4. Tail(tcp) \in Seq(1 .. MaxNgap) /\ Len(Tail(tcp)) = Len(tcp) - 1
  BY <1>1, <1>2
<1>5. \A j \in 1 .. Len(Tail(tcp)) : Tail(tcp)[j] = tcp[j + 1] /\ j + 1 \in 1 .. Len(tcp)
  BY <1>1, <1>2, <1>4
<1>6. Head(tcp) = amf - Len(tcp) + 1
  BY <1>1, <1>2, <1>3 DEF InOrder
<1>7. ASSUME NEW j \in 1 .. Len(Tail(tcp))
      PROVE  Tail(tcp)[j] = amf - Len(Tail(tcp)) + j
  <2>1. tcp[j + 1] = amf - Len(tcp) + (j + 1)
    BY <1>5 DEF InOrder
  <2> QED
    BY <1>1, <1>2, <1>4, <1>5, <2>1
<1> QED
  BY <1>2, <1>3, <1>4, <1>6, <1>7

\* One step of the AMF or of the listener.
LEMMA ListenerStep ==
  ASSUME PagingInvariant, Amf \/ Listener
  PROVE  PagingInvariant'
<1> USE PagingBounds
<1> USE DEF PagingInvariant
<1>1. CASE AmfSend
  <2>1. /\ tcp' = Append(tcp, amf + 1) /\ amf' = amf + 1 /\ amf < MaxNgap
        /\ UNCHANGED <<closed, ngap, listener, ready, phantoms, heard, main>>
    BY <1>1 DEF AmfSend
  <2>2. /\ tcp' \in Seq(1 .. MaxNgap) /\ Len(tcp') = Len(tcp) + 1 /\ Len(tcp) \in Nat
        /\ \A j \in 1 .. Len(tcp) : tcp'[j] = tcp[j]
        /\ tcp'[Len(tcp) + 1] = amf + 1
    BY <2>1 DEF PagingTypes
  <2>3. PagingTypes'
    BY <2>1, <2>2 DEF PagingTypes
  <2>4. InOrder'
    BY <2>1, <2>2 DEF InOrder, PagingTypes
  <2>5. Accounted'
    BY <2>1, <2>2 DEF Accounted, InHand, PagingTypes
  <2>6. AtStart' /\ ReadyHeld' /\ Buffer' /\ NewestIsPaged'
    BY <2>1 DEF AtStart, ReadyHeld, Buffer, NewestIsPaged
  <2> QED
    BY <2>3, <2>4, <2>5, <2>6
<1>2. CASE AmfClose
  BY <1>2 DEF AmfClose, PagingTypes, Accounted, InHand, AtStart, ReadyHeld, InOrder,
              Buffer, NewestIsPaged
<1>3. CASE Receive
  <2>1. /\ main.pc # "init" /\ listener.pc = "recv" /\ tcp # << >>
        /\ listener' = [pc |-> "memcpy", got |-> Head(tcp)] /\ tcp' = Tail(tcp)
        /\ UNCHANGED <<amf, closed, ngap, ready, phantoms, heard, main>>
    BY <1>3 DEF Receive
  <2>2. /\ Len(tcp) \in Nat \ {0}
        /\ Head(tcp) = amf - Len(tcp) + 1 /\ Head(tcp) \in 1 .. MaxNgap
        /\ tcp' \in Seq(1 .. MaxNgap) /\ Len(tcp') = Len(tcp) - 1
        /\ InOrder'
    BY <2>1, HeadIsNext DEF InOrder
  <2>3. PagingTypes'
    BY <2>1, <2>2 DEF PagingTypes
  <2>4. Accounted' /\ AtStart' /\ ReadyHeld' /\ Buffer'
    BY <2>1, <2>2 DEF Accounted, InHand, AtStart, ReadyHeld, Buffer, PagingTypes
  <2> QED
    BY <2>1, <2>2, <2>3, <2>4 DEF NewestIsPaged
<1>4. CASE ReceiveNothing
  <2>1. /\ main.pc # "init" /\ listener.pc = "recv"
        /\ phantoms < MaxPhantom /\ phantoms' = phantoms + 1
        /\ UNCHANGED <<tcp, amf, closed, ngap, ready, heard, main>>
    BY <1>4 DEF ReceiveNothing, amfVars
  <2>2. PICK junk \in {0, ngap} : listener' = [pc |-> "memcpy", got |-> junk]
    BY <1>4 DEF ReceiveNothing
  <2>3. PagingTypes'
    BY <2>1, <2>2 DEF PagingTypes
  <2>4. Accounted' /\ AtStart' /\ ReadyHeld' /\ InOrder' /\ phantoms' # 0
    BY <2>1, <2>2 DEF Accounted, InHand, AtStart, ReadyHeld, InOrder, PagingTypes
  <2> QED
    BY <2>1, <2>3, <2>4 DEF Buffer, NewestIsPaged
<1>5. CASE WriteNgap
  BY <1>5 DEF WriteNgap, written, amfVars, PagingTypes, Accounted, InHand, AtStart,
              ReadyHeld, InOrder, Buffer, NewestIsPaged
<1>6. CASE Announce
  <2>1. /\ listener.pc = "announce" /\ main.pc \notin {"copy", "send"}
        /\ ready' = TRUE /\ heard' = heard + 1
        /\ listener' = [listener EXCEPT !.pc = "recv"]
        /\ UNCHANGED <<tcp, amf, closed, ngap, phantoms, main>>
    BY <1>6 DEF Announce, cs_free, amfVars
  <2>2. listener'.pc = "recv" /\ listener'.got = listener.got
    BY <2>1 DEF PagingTypes
  <2>3. PagingTypes'
    BY <2>1 DEF PagingTypes
  <2>4. Accounted' /\ InOrder'
    <3>1. InHand' = InHand - 1 /\ InHand \in Nat
      BY <2>1, <2>2 DEF InHand
    <3>2. Accounted'
      BY <2>1, <3>1 DEF Accounted, PagingTypes
    <3>3. InOrder'
      BY <2>1 DEF InOrder
    <3> QED
      BY <3>2, <3>3
  <2>5. AtStart' /\ ReadyHeld' /\ NewestIsPaged'
    BY <2>1 DEF AtStart, ReadyHeld, NewestIsPaged
  <2>6. Buffer'
    BY <2>1, <2>2 DEF Buffer, PagingTypes
  <2> QED
    BY <2>3, <2>4, <2>5, <2>6
<1> QED
  BY <1>1, <1>2, <1>3, <1>4, <1>5, <1>6 DEF Amf, Listener

\* One step of main.
LEMMA MainStep ==
  ASSUME PagingInvariant, Gnb
  PROVE  PagingInvariant'
<1> USE PagingBounds
<1> USE DEF PagingInvariant
<1>1. CASE MainStart
  <2>1. /\ main.pc = "init" /\ tcp # << >>
        /\ ngap' = Head(tcp) /\ tcp' = Tail(tcp) /\ main' = [main EXCEPT !.pc = "sleep"]
        /\ UNCHANGED <<amf, closed, listener, ready, phantoms, heard>>
    BY <1>1 DEF MainStart
  <2>2. /\ Len(tcp) \in Nat \ {0}
        /\ Head(tcp) = amf - Len(tcp) + 1 /\ Head(tcp) \in 1 .. MaxNgap
        /\ tcp' \in Seq(1 .. MaxNgap) /\ Len(tcp') = Len(tcp) - 1
        /\ InOrder'
    BY <2>1, HeadIsNext DEF InOrder
  <2>3. main'.pc = "sleep" /\ main' \in [pc : {"sleep"}, rrc : 0 .. MaxNgap]
    BY <2>1 DEF PagingTypes
  <2>4. PagingTypes'
    BY <2>1, <2>2, <2>3 DEF PagingTypes
  <2>5. listener.pc = "recv" /\ heard = 0
    BY <2>1 DEF AtStart
  <2>6. Accounted'
    BY <2>1, <2>2, <2>3 DEF Accounted, InHand, PagingTypes
  <2>7. Buffer'
    BY <2>1, <2>2, <2>3, <2>5 DEF Buffer, Accounted, InHand, PagingTypes
  <2>8. AtStart' /\ ReadyHeld' /\ NewestIsPaged'
    BY <2>1, <2>3 DEF AtStart, ReadyHeld, NewestIsPaged
  <2> QED
    BY <2>2, <2>4, <2>6, <2>7, <2>8
<1>2. CASE GnbRound
  <2>1. /\ main.pc = "sleep"
        /\ \/ main' = [main EXCEPT !.pc = "lock"]
           \/ main' = [main EXCEPT !.pc = "sleep"]
        /\ UNCHANGED <<tcp, amf, closed, ngap, listener, ready, phantoms, heard>>
    BY <1>2 DEF GnbRound, pagingVars, amfVars
  <2> QED
    BY <2>1 DEF PagingTypes, Accounted, InHand, AtStart, ReadyHeld, InOrder, Buffer,
                NewestIsPaged
<1>3. CASE SendEmpty
  BY <1>3 DEF SendEmpty, pagingVars, amfVars, PagingTypes, Accounted, InHand, AtStart,
              ReadyHeld, InOrder, Buffer, NewestIsPaged
<1>4. CASE BeginCopy
  BY <1>4 DEF BeginCopy, pagingVars, amfVars, PagingTypes, Accounted, InHand, AtStart,
              ReadyHeld, InOrder, Buffer, NewestIsPaged
<1>5. CASE EndCopy
  <2>1. /\ main.pc = "copy"
        /\ UNCHANGED <<tcp, amf, closed, ngap, listener, ready, phantoms, heard>>
    BY <1>5 DEF EndCopy, pagingVars, amfVars
  <2>2. PICK n \in {ngap} \cup (IF listener.pc = "memcpy" THEN {listener.got} ELSE {}) :
          main' = [pc |-> "send", rrc |-> n]
    BY <1>5 DEF EndCopy
  <2>3. /\ n \in 0 .. MaxNgap
        /\ phantoms = 0 => n = heard + 1 \/ (n = heard + 2 /\ listener.pc # "recv")
    BY <2>1, <2>2 DEF PagingTypes, Buffer
  <2> QED
    BY <2>1, <2>2, <2>3 DEF PagingTypes, Accounted, InHand, AtStart, ReadyHeld, InOrder,
                            Buffer, NewestIsPaged
<1>6. CASE SendRrc
  <2>1. /\ main.pc = "send" /\ ready' = FALSE
        /\ main' = [pc |-> "sleep", rrc |-> 0]
        /\ UNCHANGED <<tcp, amf, closed, ngap, listener, phantoms, heard>>
    BY <1>6 DEF SendRrc, lowered, amfVars
  <2>2. PagingTypes'
    <3>. 0 \in 0 .. MaxNgap
      BY PagingBounds
    <3>1. main' \in [pc : {"init", "sleep", "lock", "copy", "send"}, rrc : 0 .. MaxNgap]
      BY <2>1, Zenon
    <3>2. ready' \in BOOLEAN
      BY <2>1, Zenon
    <3> QED
      BY <2>1, <3>1, <3>2 DEF PagingTypes
  <2>3. Accounted' /\ InOrder'
    BY <2>1 DEF Accounted, InHand, InOrder
  <2>4. AtStart' /\ ReadyHeld' /\ Buffer' /\ NewestIsPaged'
    BY <2>1 DEF AtStart, ReadyHeld, Buffer, NewestIsPaged
  <2> QED
    BY <2>2, <2>3, <2>4
<1> QED
  BY <1>1, <1>2, <1>3, <1>4, <1>5, <1>6 DEF Gnb

LEMMA PagingStep == PagingInvariant /\ [Next]_vars => PagingInvariant'
<1> SUFFICES ASSUME PagingInvariant, [Next]_vars PROVE PagingInvariant'
  OBVIOUS
<1>1. CASE Amf \/ Listener
  BY <1>1, ListenerStep
<1>2. CASE Gnb
  BY <1>2, MainStep
<1>3. CASE UNCHANGED <<pagingVars, main>>
  BY <1>3 DEF pagingVars, amfVars, PagingInvariant, PagingTypes, Accounted, InHand,
              AtStart, ReadyHeld, InOrder, Buffer, NewestIsPaged
<1>4. Ue => UNCHANGED <<pagingVars, main>>
  BY DEF Ue, UeRound, UeSync, receive_rrc
<1> QED
  BY <1>1, <1>2, <1>3, <1>4 DEF Next, vars

LEMMA PagingInvariance == Spec => []PagingInvariant
  BY PagingInit, PagingStep, PTL DEF Spec

(***************************************************************************)
(* While the connection lasts, an RRC is made of the message announced     *)
(* last or of the next one, which the listener is about to announce,       *)
(* although no lock covers the writing; never of an older one.             *)
(***************************************************************************)
THEOREM PagesTheNewest == Spec => []NewestIsPaged
<1>1. PagingInvariant => NewestIsPaged
  BY DEF PagingInvariant
<1> QED
  BY <1>1, PagingInvariance, PTL

-----------------------------------------------------------------------------
(***************************************************************************)
(* The RRCs that were sent.  Between any two of them a message was         *)
(* announced, and each was made of the message announced last or of the    *)
(* next.                                                                   *)
(***************************************************************************)
Page == [msg : 0 .. MaxNgap, heard : Nat]

PageHistory ==
  /\ pages \in Seq(Page)
  /\ Len(pages) + (IF ready THEN 1 ELSE 0) <= heard
  /\ \A i \in 1 .. Len(pages) :
       pages[i].heard <= heard /\ (ready => pages[i].heard < heard)
  /\ \A i, j \in 1 .. Len(pages) : i < j => pages[i].heard < pages[j].heard
  /\ phantoms = 0 =>
       \A i \in 1 .. Len(pages) :
         pages[i].msg = pages[i].heard + 1 \/ pages[i].msg = pages[i].heard + 2

LEMMA PageHistoryInit == Init => PageHistory
<1> SUFFICES ASSUME Init PROVE PageHistory
  OBVIOUS
<1>1. pages = << >> /\ heard = 0 /\ ready = FALSE
  BY DEF Init
<1>2. pages \in Seq(Page) /\ Len(pages) = 0
  BY <1>1, EmptySeq
<1> QED
  BY <1>1, <1>2 DEF PageHistory

LEMMA PageTypes ==
  ASSUME PageHistory
  PROVE  /\ Len(pages) \in Nat /\ DOMAIN pages = 1 .. Len(pages)
         /\ \A i \in 1 .. Len(pages) :
              pages[i] \in Page /\ pages[i].heard \in Nat /\ pages[i].msg \in 0 .. MaxNgap
<1>1. pages \in Seq(Page)
  BY DEF PageHistory
<1>2. \A i \in 1 .. Len(pages) : pages[i] \in Page
  BY <1>1, ElementOfSeq, Zenon
<1>3. Len(pages) \in Nat /\ DOMAIN pages = 1 .. Len(pages)
  BY <1>1
<1> QED
  BY <1>2, <1>3 DEF Page

\* What is said of the RRCs sent stays true when another message is announced.
LEMMA HistoryKept ==
  ASSUME PageHistory, heard \in Nat, pages' = pages,
         phantoms' = 0 => phantoms = 0,
         (heard' = heard /\ ready' = ready) \/ heard' = heard + 1
  PROVE  PageHistory'
<1>1. /\ Len(pages) \in Nat
      /\ \A i \in 1 .. Len(pages) : pages[i].heard \in Nat
  BY PageTypes
<1>2. CASE heard' = heard /\ ready' = ready
  BY <1>2 DEF PageHistory
<1>3. CASE heard' = heard + 1
  <2>1. Len(pages) <= heard
    BY <1>1 DEF PageHistory
  <2>2. Len(pages) + (IF ready' THEN 1 ELSE 0) <= heard'
    BY <1>1, <1>3, <2>1
  <2>3. \A i \in 1 .. Len(pages) : pages[i].heard <= heard' /\ pages[i].heard < heard'
    BY <1>1, <1>3 DEF PageHistory
  <2> QED
    BY <2>2, <2>3 DEF PageHistory
<1> QED
  BY <1>2, <1>3

\* Another RRC: ready was up, so a message was announced since the last.
LEMMA HistoryGrows ==
  ASSUME PagingInvariant, PageHistory, SendRrc
  PROVE  PageHistory'
<1> DEFINE r == [msg |-> main.rrc, heard |-> heard]
           n == Len(pages)
<1>1. /\ main.pc = "send" /\ pages' = Append(pages, r) /\ ready' = FALSE
      /\ heard' = heard /\ phantoms' = phantoms
  BY DEF SendRrc, lowered
<1>2. ready /\ heard \in Nat /\ main.rrc \in 0 .. MaxNgap
  BY <1>1 DEF PagingInvariant, PagingTypes, ReadyHeld
<1>3. r \in Page
  BY <1>2 DEF Page
<1>4. r.msg = main.rrc /\ r.heard = heard
  OBVIOUS
<1>5. phantoms = 0 => r.msg = heard + 1 \/ r.msg = heard + 2
  BY <1>1, <1>4 DEF PagingInvariant, NewestIsPaged
<1> HIDE DEF r
<1>6. pages \in Seq(Page) /\ n \in Nat /\ n < heard
  BY <1>2 DEF PageHistory
<1>7. /\ pages' \in Seq(Page) /\ Len(pages') = n + 1
      /\ \A i \in 1 .. n : pages'[i] = pages[i]
      /\ pages'[n + 1] = r
  BY <1>1, <1>3, <1>6, AppendProperties
<1>8. \A i \in 1 .. n : pages[i].heard \in Nat /\ pages[i].heard < heard
  BY <1>2, <1>6, PageTypes DEF PageHistory
<1> HIDE DEF n
<1>9. Len(pages') + (IF ready' THEN 1 ELSE 0) <= heard'
  BY <1>1, <1>2, <1>6, <1>7
<1>10. \A i \in 1 .. Len(pages') : pages'[i].heard <= heard'
  <2> SUFFICES ASSUME NEW i \in 1 .. Len(pages') PROVE pages'[i].heard <= heard'
    OBVIOUS
  <2>1. i \in 1 .. n \/ i = n + 1
    BY <1>6, <1>7
  <2> QED
    BY <1>1, <1>2, <1>4, <1>7, <1>8, <2>1
<1>11. \A i, j \in 1 .. Len(pages') : i < j => pages'[i].heard < pages'[j].heard
  <2> SUFFICES ASSUME NEW i \in 1 .. Len(pages'), NEW j \in 1 .. Len(pages'), i < j
               PROVE  pages'[i].heard < pages'[j].heard
    OBVIOUS
  <2>1. i \in 1 .. n /\ (j \in 1 .. n \/ j = n + 1)
    BY <1>6, <1>7
  <2>2. CASE j \in 1 .. n
    <3>1. pages[i].heard < pages[j].heard
      BY <2>1, <2>2 DEF PageHistory, n
    <3> QED
      BY <1>7, <2>1, <2>2, <3>1
  <2>3. CASE j = n + 1
    BY <1>4, <1>7, <1>8, <2>1, <2>3
  <2> QED
    BY <2>1, <2>2, <2>3
<1>12. phantoms' = 0 =>
         \A i \in 1 .. Len(pages') :
           pages'[i].msg = pages'[i].heard + 1 \/ pages'[i].msg = pages'[i].heard + 2
  <2> SUFFICES ASSUME phantoms' = 0, NEW i \in 1 .. Len(pages')
               PROVE  pages'[i].msg = pages'[i].heard + 1
                        \/ pages'[i].msg = pages'[i].heard + 2
    OBVIOUS
  <2>1. i \in 1 .. n \/ i = n + 1
    BY <1>6, <1>7
  <2>2. CASE i \in 1 .. n
    <3>1. pages[i].msg = pages[i].heard + 1 \/ pages[i].msg = pages[i].heard + 2
      BY <1>1, <2>2 DEF PageHistory, n
    <3> QED
      BY <1>7, <2>2, <3>1
  <2>3. CASE i = n + 1
    BY <1>1, <1>4, <1>5, <1>7, <2>3
  <2> QED
    BY <2>1, <2>2, <2>3
<1> QED
  BY <1>1, <1>7, <1>9, <1>10, <1>11, <1>12 DEF PageHistory

LEMMA PageHistoryStep == PagingInvariant /\ PageHistory /\ [Next]_vars => PageHistory'
<1> SUFFICES ASSUME PagingInvariant, PageHistory, [Next]_vars PROVE PageHistory'
  OBVIOUS
<1>1. heard \in Nat /\ phantoms \in Nat
  BY PagingBounds DEF PagingInvariant, PagingTypes
<1>2. CASE SendRrc
  BY <1>2, HistoryGrows
<1>3. CASE Announce
  BY <1>1, <1>3, HistoryKept DEF Announce
<1>4. CASE ReceiveNothing
  <2>1. pages' = pages /\ heard' = heard /\ ready' = ready /\ phantoms' = phantoms + 1
    BY <1>4 DEF ReceiveNothing
  <2> QED
    BY <1>1, <2>1, HistoryKept
<1>5. CASE UNCHANGED <<ready, phantoms, heard, pages>>
  BY <1>1, <1>5, HistoryKept
<1>6. \/ SendRrc \/ Announce \/ ReceiveNothing \/ UNCHANGED <<ready, phantoms, heard, pages>>
  BY DEF Next, vars, pagingVars, Amf, Listener, Gnb, Ue, AmfSend, AmfClose, Receive,
         WriteNgap, MainStart, GnbRound, SendEmpty, BeginCopy, EndCopy, UeRound, UeSync,
         receive_rrc
<1> QED
  BY <1>2, <1>3, <1>4, <1>5, <1>6

LEMMA PageHistoryInvariance == Spec => []PageHistory
<1>1. Init => PageHistory
  BY PageHistoryInit
<1>2. PagingInvariant /\ PageHistory /\ [Next]_vars => PageHistory'
  BY PageHistoryStep
<1> QED
  BY <1>1, <1>2, PagingInvariance, PTL DEF Spec

(***************************************************************************)
(* While the connection lasts no message is paged after a newer one, and a *)
(* message is paged a second time only by the next RRC and only if the     *)
(* first was made before the message was announced.                        *)
(***************************************************************************)
THEOREM PagedAgainOnlyIfEarly == Spec => []TwiceOnlyIfEarly
<1>1. PageHistory => TwiceOnlyIfEarly
  <2> SUFFICES ASSUME PageHistory, phantoms = 0,
                      NEW i \in DOMAIN pages, NEW j \in DOMAIN pages, i < j
               PROVE  /\ pages[i].msg <= pages[j].msg
                      /\ pages[i].msg = pages[j].msg =>
                           j = i + 1 /\ pages[i].msg > pages[i].heard + 1
    BY DEF TwiceOnlyIfEarly
  <2>1. DOMAIN pages = 1 .. Len(pages) /\ Len(pages) \in Nat /\ i \in Int /\ j \in Int
    BY DEF PageHistory
  <2>2. \A k \in 1 .. Len(pages) : pages[k].heard \in Nat
    BY PageTypes
  <2>3. /\ pages[i].msg = pages[i].heard + 1 \/ pages[i].msg = pages[i].heard + 2
        /\ pages[j].msg = pages[j].heard + 1 \/ pages[j].msg = pages[j].heard + 2
    BY <2>1 DEF PageHistory
  <2>4. pages[i].heard < pages[j].heard
    BY <2>1 DEF PageHistory
  <2>5. ASSUME j # i + 1 PROVE pages[i].heard + 1 < pages[j].heard
    <3>1. i + 1 \in 1 .. Len(pages) /\ i < i + 1 /\ i + 1 < j
      BY <2>1, <2>5
    <3>2. pages[i].heard < pages[i + 1].heard /\ pages[i + 1].heard < pages[j].heard
      BY <2>1, <3>1 DEF PageHistory
    <3> QED
      BY <2>1, <2>2, <3>1, <3>2
  <2>6. pages[i].heard \in Nat /\ pages[j].heard \in Nat
    BY <2>1, <2>2
  <2> QED
    BY <2>3, <2>4, <2>5, <2>6
<1> QED
  BY <1>1, PageHistoryInvariance, PTL

-----------------------------------------------------------------------------
(***************************************************************************)
(* The two loops                                                           *)
(*                                                                         *)
(* As in module MibLockstepProofs a round is named by its age.  It has two *)
(* positions for what is sent in it: twice its age, and one more, for the  *)
(* MIB, which is the first of the two.                                     *)
(***************************************************************************)
Rounds ==
  INSTANCE MibLockstepProofs WITH
    StartSfn <- 0,
    udp      <- MibsOf(udp),
    ue       <- [ue EXCEPT !.pc = IF @ = "mib" THEN "receive" ELSE "sleep"]

LEMMA RoundsAssumption == Rounds!LockstepAssumption
  BY PagingLockstepAssumption DEF Rounds!LockstepAssumption

Times  == 0 .. TimeModulus - 1
Frames == 0 .. SfnPeriod - 1

\* The gNB's frame in the round that is a old (or to come), where it now shows f at g.
FrameAt(g, f, a) == (f - Rounds!Lead(g, Rounds!Back(g, a), a)) % SfnPeriod

\* Is something sent at this position?
Event(g, f, p) ==
  IF p % 2 = 1 THEN Rounds!Due(Rounds!Back(g, p \div 2))
               ELSE FrameAt(g, f, p \div 2) % DRX = sfn_mod_t

\* Is this message what is sent there?
Carries(msg, g, f, p) ==
  IF p % 2 = 1 THEN msg = Mib(FrameAt(g, f, p \div 2)) ELSE msg.type = "RRC"

LEMMA Halves ==
  ASSUME NEW p \in Int
  PROVE  /\ p \div 2 \in Int /\ p % 2 \in 0 .. 1
         /\ (p + 2) \div 2 = (p \div 2) + 1 /\ (p + 2) % 2 = p % 2
         /\ (2 * p) \div 2 = p /\ (2 * p) % 2 = 0
         /\ (2 * p + 1) \div 2 = p /\ (2 * p + 1) % 2 = 1
  BY SMT

LEMMA FrameAtNow ==
  ASSUME NEW g \in Times, NEW f \in Frames
  PROVE  FrameAt(g, f, 0) = f
<1>1. Rounds!Lead(g, Rounds!Back(g, 0), 0) = 0
  <2>1. \A n \in Int : n = 0 => -n \in Int /\ -n <= 0 /\ n <= 0
    OBVIOUS
  <2>2. -0 \in Int /\ -0 <= 0 /\ 0 \in Int /\ 0 <= 0
    BY <2>1
  <2>3. Rounds!FramesIn(g, 0) = 0 /\ Rounds!FramesIn(Rounds!Back(g, 0), -0) = 0
    BY <2>2, RoundsAssumption, Rounds!FramesInType
  <2> QED
    BY <2>3 DEF Rounds!Lead
<1>2. f % SfnPeriod = f
  BY PagingLockstepAssumption, RoundsAssumption, Rounds!ModuloSmall DEF Frames
<1> QED
  BY <1>1, <1>2 DEF FrameAt, Frames

LEMMA FrameAtLater ==
  ASSUME NEW g \in Times, NEW f \in Frames, NEW a \in Int
  PROVE  FrameAt(Rounds!Back(g, -1), Rounds!NextFrame(f, g), a + 1) = FrameAt(g, f, a)
<1> DEFINE h == Rounds!Back(g, -1)
           d == Rounds!Lead(g, Rounds!Back(g, a), a)
           m == Rounds!Moved(h)
<1>1. Rounds!Back(h, a + 1) = Rounds!Back(g, a)
  BY RoundsAssumption, Rounds!OlderRound DEF Times
<1>2. Rounds!Lead(h, Rounds!Back(g, a), a + 1) = d + m
  BY RoundsAssumption, Rounds!LeadGnbRound DEF Times
<1>3. d \in Int /\ m \in Int
  BY RoundsAssumption, Rounds!LeadType, Rounds!MovedType
<1>4. Rounds!NextFrame(f, g) = (f + m) % SfnPeriod
  BY DEF Rounds!NextFrame
<1> HIDE DEF h, d, m
<1>5. (((f + m) % SfnPeriod) - (d + m)) % SfnPeriod = (f - d) % SfnPeriod
  <2>1. f \in Int
    BY DEF Frames
  <2> QED
    BY <1>3, <2>1, RoundsAssumption, Rounds!ModuloCancel
<1>6. FrameAt(h, Rounds!NextFrame(f, g), a + 1) = (f - d) % SfnPeriod
  BY <1>1, <1>2, <1>4, <1>5 DEF FrameAt
<1> QED
  BY <1>6 DEF FrameAt, h, d

\* A loop that counts on from one round of the gNB shows the next one.
LEMMA FrameAtNext ==
  ASSUME NEW g \in Times, NEW f \in Frames, NEW a \in Int
  PROVE  /\ Rounds!Back(Rounds!Back(g, a), -1) = Rounds!Back(g, a - 1)
         /\ Rounds!NextFrame(FrameAt(g, f, a), Rounds!Back(g, a)) = FrameAt(g, f, a - 1)
<1> DEFINE u == Rounds!Back(g, a)
           v == Rounds!Back(u, -1)
           d == Rounds!Lead(g, u, a)
           m == Rounds!Moved(v)
<1>1. v = Rounds!Back(g, a - 1) /\ Rounds!Lead(g, v, a - 1) = d - m
  BY RoundsAssumption, Rounds!LeadUeRound DEF Times
<1>2. d \in Int /\ m \in Int /\ f \in Int /\ f - d \in Int
  BY RoundsAssumption, Rounds!LeadType, Rounds!MovedType DEF Frames
<1>3. Rounds!NextFrame(FrameAt(g, f, a), u) = (((f - d) % SfnPeriod) + m) % SfnPeriod
  BY DEF Rounds!NextFrame, FrameAt
<1>4. FrameAt(g, f, a - 1) = (f - (d - m)) % SfnPeriod
  BY <1>1 DEF FrameAt
<1> HIDE DEF d, m
<1>5. (((f - d) % SfnPeriod) + m) % SfnPeriod = ((f - d) + m) % SfnPeriod
  BY <1>2, PagingLockstepAssumption, RoundsAssumption, Rounds!ModuloAdd
<1>6. (f - d) + m = f - (d - m)
  BY <1>2
<1> QED
  BY <1>1, <1>3, <1>4, <1>5, <1>6

\* What was sent at a position stays what it is, two positions on.
LEMMA EventLater ==
  ASSUME NEW g \in Times, NEW f \in Frames, NEW p \in Int, NEW msg
  PROVE  LET h == Rounds!Back(g, -1)
             e == Rounds!NextFrame(f, g)
         IN  /\ Event(h, e, p + 2) <=> Event(g, f, p)
             /\ Carries(msg, h, e, p + 2) <=> Carries(msg, g, f, p)
<1> DEFINE h == Rounds!Back(g, -1)
           e == Rounds!NextFrame(f, g)
           a == p \div 2
<1>1. a \in Int /\ (p + 2) \div 2 = a + 1 /\ (p + 2) % 2 = p % 2
  BY Halves
<1> HIDE DEF a
<1>2. Rounds!Back(h, a + 1) = Rounds!Back(g, a)
  BY <1>1, RoundsAssumption, Rounds!OlderRound DEF Times
<1>3. FrameAt(h, e, a + 1) = FrameAt(g, f, a)
  BY <1>1, FrameAtLater
<1> HIDE DEF h, e
<1>4. /\ Event(h, e, p + 2) <=> Event(g, f, p)
      /\ Carries(msg, h, e, p + 2) <=> Carries(msg, g, f, p)
  BY <1>1, <1>2, <1>3 DEF Event, Carries, a
<1> QED
  BY <1>4 DEF h, e

LEMMA EventOf ==
  ASSUME NEW g, NEW f, NEW a \in Int, NEW msg
  PROVE  /\ Event(g, f, 2 * a + 1) <=> Rounds!Due(Rounds!Back(g, a))
         /\ Event(g, f, 2 * a) <=> FrameAt(g, f, a) % DRX = sfn_mod_t
         /\ Carries(msg, g, f, 2 * a + 1) <=> msg = Mib(FrameAt(g, f, a))
         /\ Carries(msg, g, f, 2 * a) <=> msg.type = "RRC"
<1>1. /\ (2 * a) \div 2 = a /\ (2 * a) % 2 = 0
      /\ (2 * a + 1) \div 2 = a /\ (2 * a + 1) % 2 = 1
  BY Halves
<1> QED
  BY <1>1 DEF Event, Carries

-----------------------------------------------------------------------------
(***************************************************************************)
(* The socket: what is in it was sent at the positions from low to limit,  *)
(* in order, and nothing that was sent there is missing.                   *)
(***************************************************************************)
Pending(pos, q, g, f, low, limit) ==
  /\ Len(pos) = Len(q)
  /\ \A j \in 1 .. Len(q) : /\ low <= pos[j] /\ pos[j] < limit
                            /\ Event(g, f, pos[j]) /\ Carries(q[j], g, f, pos[j])
  /\ \A i, j \in 1 .. Len(q) : i < j => pos[j] < pos[i]
  /\ \A p \in Nat : low <= p /\ p < limit /\ Event(g, f, p)
                      => \E j \in 1 .. Len(q) : pos[j] = p

\* Nor is the reader past a position at which something has still to be sent.
InSocket(q, g, f, low, limit) ==
  /\ \E pos \in Seq(Nat) : Pending(pos, q, g, f, low, limit)
  /\ \A p \in Int : limit <= p /\ p < low => ~Event(g, f, p)

\* The gNB begins a round.
LEMMA SocketLater ==
  ASSUME NEW T, NEW q \in Seq(T), NEW g \in Times, NEW f \in Frames, NEW limit \in Int,
         InSocket(q, g, f, 0, limit)
  PROVE  InSocket(q, Rounds!Back(g, -1), Rounds!NextFrame(f, g), 2, limit + 2)
<1> DEFINE h == Rounds!Back(g, -1)
           e == Rounds!NextFrame(f, g)
           n == Len(q)
<1>1. PICK pos \in Seq(Nat) : Pending(pos, q, g, f, 0, limit)
  BY DEF InSocket
<1>2. /\ n \in Nat /\ Len(pos) = n /\ \A j \in 1 .. n : pos[j] \in Nat
      /\ \A j \in 1 .. n : pos[j] < limit /\ Event(g, f, pos[j]) /\ Carries(q[j], g, f, pos[j])
      /\ \A i, j \in 1 .. n : i < j => pos[j] < pos[i]
      /\ \A p \in Nat : p < limit /\ Event(g, f, p) => \E j \in 1 .. n : pos[j] = p
  BY <1>1 DEF Pending
<1>3. \A p \in Int : \A msg :
        /\ Event(h, e, p + 2) <=> Event(g, f, p)
        /\ Carries(msg, h, e, p + 2) <=> Carries(msg, g, f, p)
  BY EventLater
<1>4. PICK new \in Seq(Nat) : Len(new) = n /\ \A j \in 1 .. n : new[j] = pos[j] + 2
  <2>1. /\ [j \in 1 .. n |-> pos[j] + 2] \in Seq(Nat)
        /\ Len([j \in 1 .. n |-> pos[j] + 2]) = n
    BY <1>2
  <2> QED
    BY <2>1
<1> HIDE DEF h, e, n
<1>5. ASSUME NEW j \in 1 .. n
      PROVE  /\ 2 <= new[j] /\ new[j] < limit + 2
             /\ Event(h, e, new[j]) /\ Carries(q[j], h, e, new[j])
  <2>1. new[j] = pos[j] + 2 /\ pos[j] \in Nat /\ pos[j] \in Int /\ pos[j] < limit
    BY <1>2, <1>4
  <2>2. Event(h, e, pos[j] + 2) /\ Carries(q[j], h, e, pos[j] + 2)
    BY <1>2, <1>3, <2>1
  <2> QED
    BY <2>1, <2>2
<1>6. \A i, j \in 1 .. n : i < j => new[j] < new[i]
  BY <1>2, <1>4
<1>7. ASSUME NEW p \in Nat, 2 <= p, p < limit + 2, Event(h, e, p)
      PROVE  \E j \in 1 .. n : new[j] = p
  <2>1. p - 2 \in Nat /\ p - 2 \in Int /\ p - 2 < limit /\ (p - 2) + 2 = p
    BY <1>7
  <2>2. Event(g, f, p - 2)
    BY <1>3, <1>7, <2>1
  <2>3. PICK j \in 1 .. n : pos[j] = p - 2
    BY <1>2, <2>1, <2>2
  <2> QED
    BY <1>4, <2>1, <2>3
<1>8. Pending(new, q, h, e, 2, limit + 2)
  BY <1>4, <1>5, <1>6, <1>7 DEF Pending, n
<1>9. ASSUME NEW p \in Int, limit + 2 <= p, p < 2
      PROVE  ~Event(h, e, p)
  <2>1. p - 2 \in Int /\ limit <= p - 2 /\ p - 2 < 0 /\ (p - 2) + 2 = p
    BY <1>9
  <2>2. ~Event(g, f, p - 2)
    BY <2>1 DEF InSocket
  <2> QED
    BY <1>3, <2>1, <2>2
<1>10. InSocket(q, h, e, 2, limit + 2)
  BY <1>8, <1>9 DEF InSocket
<1> QED
  BY <1>10 DEF h, e

\* The gNB passes a position at which nothing is sent.
LEMMA SocketLower ==
  ASSUME NEW T, NEW q \in Seq(T), NEW g, NEW f, NEW p \in Nat, NEW limit \in Int,
         InSocket(q, g, f, p + 1, limit), ~Event(g, f, p)
  PROVE  InSocket(q, g, f, p, limit)
<1> DEFINE n == Len(q)
<1>1. PICK pos \in Seq(Nat) : Pending(pos, q, g, f, p + 1, limit)
  BY DEF InSocket
<1>2. n \in Nat /\ Len(pos) = n /\ \A j \in 1 .. n : pos[j] \in Nat
  BY <1>1 DEF Pending
<1>3. \A k \in Nat : p <= k /\ Event(g, f, k) => p + 1 <= k
  <2>1. ASSUME NEW k \in Nat, p <= k, Event(g, f, k) PROVE p + 1 <= k
    <3>1. k # p
      BY <2>1
    <3> QED
      BY <2>1, <3>1
  <2> QED
    BY <2>1
<1>4. \A j \in 1 .. n : p + 1 <= pos[j] => p <= pos[j]
  BY <1>2
<1>5. Pending(pos, q, g, f, p, limit)
  BY <1>1, <1>2, <1>3, <1>4 DEF Pending
<1>6. \A k \in Int : limit <= k /\ k < p => ~Event(g, f, k)
  BY DEF InSocket
<1> QED
  BY <1>5, <1>6 DEF InSocket

\* The gNB sends what is to be sent at a position.
LEMMA SocketAppend ==
  ASSUME NEW T, NEW q \in Seq(T), NEW msg \in T, NEW g, NEW f, NEW p \in Nat,
         NEW limit \in Int, InSocket(q, g, f, p + 1, limit),
         Event(g, f, p), Carries(msg, g, f, p)
  PROVE  InSocket(Append(q, msg), g, f, p, limit)
<1> DEFINE n == Len(q)
           r == Append(q, msg)
<1>1. PICK pos \in Seq(Nat) : Pending(pos, q, g, f, p + 1, limit)
  BY DEF InSocket
<1>2. /\ n \in Nat /\ Len(pos) = n /\ \A j \in 1 .. n : pos[j] \in Nat
      /\ \A j \in 1 .. n : /\ p + 1 <= pos[j] /\ pos[j] < limit
                           /\ Event(g, f, pos[j]) /\ Carries(q[j], g, f, pos[j])
      /\ \A i, j \in 1 .. n : i < j => pos[j] < pos[i]
      /\ \A k \in Nat : p + 1 <= k /\ k < limit /\ Event(g, f, k)
                          => \E j \in 1 .. n : pos[j] = k
  BY <1>1 DEF Pending
<1>3. p < limit
  <2>1. p \in Int /\ p < p + 1
    OBVIOUS
  <2>2. ~(limit <= p)
    BY <2>1 DEF InSocket
  <2> QED
    BY <2>2
<1>4. PICK new \in Seq(Nat) :
        /\ Len(new) = n + 1 /\ new[n + 1] = p
        /\ \A j \in 1 .. n : new[j] = pos[j]
  <2>1. /\ Append(pos, p) \in Seq(Nat) /\ Len(Append(pos, p)) = n + 1
        /\ Append(pos, p)[n + 1] = p
        /\ \A j \in 1 .. n : Append(pos, p)[j] = pos[j]
    BY <1>2
  <2> QED
    BY <2>1
<1>5. Len(r) = n + 1 /\ r[n + 1] = msg /\ \A j \in 1 .. n : r[j] = q[j]
  BY <1>2
<1> HIDE DEF n, r
<1>6. ASSUME NEW j \in 1 .. n + 1
      PROVE  /\ p <= new[j] /\ new[j] < limit
             /\ Event(g, f, new[j]) /\ Carries(r[j], g, f, new[j])
  <2>1. CASE j = n + 1
    BY <1>3, <1>4, <1>5, <2>1
  <2>2. CASE j \in 1 .. n
    BY <1>2, <1>4, <1>5, <2>2
  <2> QED
    BY <1>2, <2>1, <2>2
<1>7. ASSUME NEW i \in 1 .. n + 1, NEW j \in 1 .. n + 1, i < j
      PROVE  new[j] < new[i]
  <2>1. i \in 1 .. n
    BY <1>2, <1>7
  <2>2. CASE j = n + 1
    BY <1>2, <1>4, <2>1, <2>2
  <2>3. CASE j \in 1 .. n
    BY <1>2, <1>4, <1>7, <2>1, <2>3
  <2> QED
    BY <1>2, <2>2, <2>3
<1>8. ASSUME NEW k \in Nat, p <= k, k < limit, Event(g, f, k)
      PROVE  \E j \in 1 .. n + 1 : new[j] = k
  <2>1. CASE k = p
    <3>1. n + 1 \in 1 .. n + 1
      BY <1>2
    <3> QED
      BY <1>4, <2>1, <3>1
  <2>2. CASE k # p
    <3>1. p + 1 <= k
      BY <1>8, <2>2
    <3>2. PICK j \in 1 .. n : pos[j] = k
      BY <1>2, <1>8, <3>1
    <3>3. j \in 1 .. n + 1
      BY <1>2
    <3> QED
      BY <1>4, <3>2, <3>3
  <2> QED
    BY <2>1, <2>2
<1>9. Pending(new, r, g, f, p, limit)
  BY <1>4, <1>5, <1>6, <1>7, <1>8 DEF Pending
<1>10. \A k \in Int : limit <= k /\ k < p => ~Event(g, f, k)
  BY DEF InSocket
<1>11. InSocket(r, g, f, p, limit)
  BY <1>9, <1>10 DEF InSocket
<1> QED
  BY <1>11 DEF r

\* The UE passes a position at which nothing is sent.
LEMMA SocketUpper ==
  ASSUME NEW T, NEW q \in Seq(T), NEW g, NEW f, NEW low \in Nat, NEW limit \in Int,
         InSocket(q, g, f, low, limit + 1), ~Event(g, f, limit)
  PROVE  InSocket(q, g, f, low, limit)
<1> DEFINE n == Len(q)
<1>1. PICK pos \in Seq(Nat) : Pending(pos, q, g, f, low, limit + 1)
  BY DEF InSocket
<1>2. n \in Nat /\ Len(pos) = n /\ \A j \in 1 .. n : pos[j] \in Nat
  BY <1>1 DEF Pending
<1>3. ASSUME NEW j \in 1 .. n PROVE pos[j] < limit
  <2>1. pos[j] < limit + 1 /\ Event(g, f, pos[j]) /\ pos[j] \in Nat
    BY <1>1, <1>2 DEF Pending
  <2>2. pos[j] # limit
    BY <2>1
  <2> QED
    BY <2>1, <2>2
<1>4. \A k \in Nat : k < limit => k < limit + 1
  OBVIOUS
<1>5. Pending(pos, q, g, f, low, limit)
  BY <1>1, <1>2, <1>3, <1>4 DEF Pending
<1>6. ASSUME NEW k \in Int, limit <= k, k < low PROVE ~Event(g, f, k)
  <2>1. CASE k = limit
    BY <2>1
  <2>2. CASE limit + 1 <= k
    BY <1>6, <2>2 DEF InSocket
  <2> QED
    BY <1>6, <2>1, <2>2
<1> QED
  BY <1>5, <1>6 DEF InSocket

\* The UE takes a message where it waits for one: it is the one it waits for.
LEMMA SocketTake ==
  ASSUME NEW T, NEW q \in Seq(T), NEW g, NEW f, NEW low \in Nat, NEW limit \in Int,
         InSocket(q, g, f, low, limit + 1), Event(g, f, limit), q # << >>
  PROVE  /\ Carries(Head(q), g, f, limit)
         /\ InSocket(Tail(q), g, f, low, limit)
<1> DEFINE n == Len(q)
           r == Tail(q)
<1>1. PICK pos \in Seq(Nat) : Pending(pos, q, g, f, low, limit + 1)
  BY DEF InSocket
<1>2. /\ n \in Nat \ {0} /\ Len(pos) = n /\ \A j \in 1 .. n : pos[j] \in Nat
      /\ \A j \in 1 .. n : /\ low <= pos[j] /\ pos[j] < limit + 1
                           /\ Event(g, f, pos[j]) /\ Carries(q[j], g, f, pos[j])
      /\ \A i, j \in 1 .. n : i < j => pos[j] < pos[i]
      /\ \A k \in Nat : low <= k /\ k < limit + 1 /\ Event(g, f, k)
                          => \E j \in 1 .. n : pos[j] = k
  BY <1>1 DEF Pending
<1>3. /\ Head(q) = q[1] /\ 1 \in 1 .. n
      /\ Len(r) = n - 1 /\ \A j \in 1 .. n - 1 : r[j] = q[j + 1]
  BY <1>2, HeadTailProperties
<1> HIDE DEF n, r
<1>4. low <= pos[1] /\ pos[1] < limit + 1 /\ pos[1] \in Nat
  BY <1>2, <1>3
<1>5. limit \in Nat /\ low <= limit
  BY <1>4
<1>6. pos[1] = limit
  <2>1. limit < limit + 1
    OBVIOUS
  <2>2. PICK j \in 1 .. n : pos[j] = limit
    BY <1>2, <1>5, <2>1
  <2>3. ~(1 < j)
    BY <1>2, <1>3, <1>4, <1>5, <2>2
  <2>4. j = 1
    BY <1>2, <2>3
  <2> QED
    BY <2>2, <2>4
<1>7. PICK rest \in Seq(Nat) :
        Len(rest) = n - 1 /\ \A j \in 1 .. n - 1 : rest[j] = pos[j + 1]
  <2>1. /\ [j \in 1 .. n - 1 |-> pos[j + 1]] \in Seq(Nat)
        /\ Len([j \in 1 .. n - 1 |-> pos[j + 1]]) = n - 1
    BY <1>2
  <2> QED
    BY <2>1
<1>8. ASSUME NEW j \in 1 .. n - 1
      PROVE  /\ low <= rest[j] /\ rest[j] < limit
             /\ Event(g, f, rest[j]) /\ Carries(r[j], g, f, rest[j])
  <2>1. j + 1 \in 1 .. n /\ 1 < j + 1
    BY <1>2
  <2>2. rest[j] = pos[j + 1] /\ r[j] = q[j + 1]
    BY <1>3, <1>7
  <2>3. pos[j + 1] < limit
    BY <1>2, <1>3, <1>6, <2>1
  <2> QED
    BY <1>2, <2>1, <2>2, <2>3
<1>9. ASSUME NEW i \in 1 .. n - 1, NEW j \in 1 .. n - 1, i < j
      PROVE  rest[j] < rest[i]
  <2>1. i + 1 \in 1 .. n /\ j + 1 \in 1 .. n /\ i + 1 < j + 1
    BY <1>2, <1>9
  <2> QED
    BY <1>2, <1>7, <2>1
<1>10. ASSUME NEW k \in Nat, low <= k, k < limit, Event(g, f, k)
       PROVE  \E j \in 1 .. n - 1 : rest[j] = k
  <2>1. k < limit + 1
    BY <1>10
  <2>2. PICK j \in 1 .. n : pos[j] = k
    BY <1>2, <1>10, <2>1
  <2>3. j # 1
    BY <1>6, <1>10, <2>2
  <2>4. j - 1 \in 1 .. n - 1 /\ (j - 1) + 1 = j
    BY <1>2, <2>3
  <2> QED
    BY <1>7, <2>2, <2>4
<1>11. Pending(rest, r, g, f, low, limit)
  BY <1>3, <1>7, <1>8, <1>9, <1>10 DEF Pending
<1>12. \A k \in Int : limit <= k /\ k < low => ~Event(g, f, k)
  BY <1>5
<1>13. InSocket(r, g, f, low, limit)
  BY <1>11, <1>12 DEF InSocket
<1>14. Carries(Head(q), g, f, limit)
  BY <1>2, <1>3, <1>6
<1> QED
  BY <1>13, <1>14 DEF r

-----------------------------------------------------------------------------
(***************************************************************************)
(* The invariant of the two loops                                          *)
(***************************************************************************)
Message == [type : {"MIB"}, sfn : Frames] \cup [type : {"RRC"}, page : 0 .. MaxNgap]

GnbState == [time : Times, sfn : Frames]
UeState  == [pc : {"sleep", "mib", "rrc"}, time : Times, sfn : Frames,
             state : {"ASYNC", "SYNC"}]

LoopTypes ==
  /\ gnb \in GnbState /\ ue \in UeState /\ udp \in Seq(Message)
  /\ ahead \in Int /\ lost \in Nat

\* Until it has sent its RRC, the gNB has not passed the second position of its round.
Low == IF main.pc \in {"lock", "copy", "send"} THEN 1 ELSE 0

\* The UE has still to pass what it waits for in its round.
Limit == 2 * ahead + (IF ue.pc = "mib" THEN 2 ELSE IF ue.pc = "rrc" THEN 1 ELSE 0)

SameFrames ==
  /\ ue.time = Rounds!Back(gnb.time, ahead)
  /\ ue.sfn = FrameAt(gnb.time, gnb.sfn, ahead)

WaitsForIt ==
  /\ ue.pc = "mib" => Event(gnb.time, gnb.sfn, 2 * ahead + 1)
  /\ ue.pc = "rrc" => Event(gnb.time, gnb.sfn, 2 * ahead)

PagesNow == Low = 1 => Event(gnb.time, gnb.sfn, 0)

Paired ==
  /\ SameFrames /\ WaitsForIt /\ PagesNow
  /\ InSocket(udp, gnb.time, gnb.sfn, Low, Limit)

LoopInvariant == LoopTypes /\ (lost = 0 => Paired)

LEMMA LoopFacts ==
  ASSUME LoopTypes
  PROVE  /\ gnb \in GnbState /\ gnb.time \in Times /\ gnb.sfn \in Frames
         /\ ue \in UeState /\ ue.time \in Times /\ ue.sfn \in Frames
         /\ ue.pc \in {"sleep", "mib", "rrc"} /\ ue.state \in {"ASYNC", "SYNC"}
         /\ udp \in Seq(Message) /\ Len(udp) \in Nat
         /\ ahead \in Int /\ lost \in Nat /\ Low \in 0 .. 1 /\ Limit \in Int
  BY DEF LoopTypes, GnbState, UeState, Low, Limit

LEMMA AfterSleepIs ==
  ASSUME NEW sp
  PROVE  after_sleep(sp) = Rounds!after_sleep(sp)
  BY Zenon DEF after_sleep, increase_sfn, Rounds!after_sleep, Rounds!increase_sfn

LEMMA MessageType ==
  /\ \A sfn \in Frames : Mib(sfn) \in Message /\ Mib(sfn).type = "MIB"
  /\ \A n \in 0 .. MaxNgap : Rrc(n) \in Message /\ Rrc(n).type = "RRC"
  BY DEF Mib, Rrc, Message

LEMMA LoopStart ==
  ASSUME Init
  PROVE  LoopInvariant
<1>1. 0 \in Times /\ 0 \in Frames
  BY PagingLockstepAssumption DEF Times, Frames
<1>2. /\ gnb = [time |-> 0, sfn |-> 0] /\ udp = << >>
      /\ ue = [pc |-> "sleep", time |-> 0, sfn |-> 0, state |-> "ASYNC"]
      /\ ahead = 0 /\ lost = 0 /\ main = [pc |-> "init", rrc |-> 0]
  BY DEF Init
<1>3. /\ [time |-> 0, sfn |-> 0] \in GnbState
      /\ [pc |-> "sleep", time |-> 0, sfn |-> 0, state |-> "ASYNC"] \in UeState
  BY <1>1, Zenon DEF GnbState, UeState
<1>4. << >> \in Seq(Message) /\ << >> \in Seq(Nat) /\ Len(<< >>) = 0
  BY EmptySeq
<1>5. LoopTypes
  BY <1>2, <1>3, <1>4 DEF LoopTypes
<1>6. Low = 0 /\ Limit = 0
  BY <1>2 DEF Low, Limit
<1>7. SameFrames
  <2>1. Rounds!Back(0, 0) = 0
    BY <1>1, RoundsAssumption, Rounds!BackNow DEF Times
  <2>2. FrameAt(0, 0, 0) = 0
    BY <1>1, FrameAtNow
  <2> QED
    BY <1>2, <2>1, <2>2 DEF SameFrames
<1>8. WaitsForIt /\ PagesNow
  BY <1>2, <1>6 DEF WaitsForIt, PagesNow
<1>9. InSocket(<< >>, 0, 0, 0, 0)
  <2>1. Pending(<< >>, << >>, 0, 0, 0, 0)
    BY <1>4 DEF Pending
  <2>2. \A p \in Int : ~(0 <= p /\ p < 0)
    OBVIOUS
  <2> QED
    BY <1>4, <2>1, <2>2 DEF InSocket
<1> QED
  BY <1>2, <1>5, <1>6, <1>7, <1>8, <1>9 DEF LoopInvariant, Paired

\* A step that the loops do not see.
LEMMA LoopsApart ==
  ASSUME LoopInvariant, UNCHANGED syncVars, Low' = Low
  PROVE  LoopInvariant'
  BY DEF LoopInvariant, LoopTypes, Paired, SameFrames, WaitsForIt, PagesNow, Limit, syncVars

\* A round of the gNB, up to its RRC if there is one to be sent.
LEMMA GnbRoundLoop ==
  ASSUME PagingTypes, LoopInvariant, GnbRound
  PROVE  LoopInvariant'
<1> DEFINE t == gnb.time
           f == gnb.sfn
           h == Rounds!Back(t, -1)
           e == Rounds!NextFrame(f, t)
<1>1. /\ gnb \in GnbState /\ t \in Times /\ f \in Frames /\ ue \in UeState
      /\ ue.time \in Times /\ udp \in Seq(Message) /\ ahead \in Int /\ lost \in Nat
      /\ Limit \in Int
  BY LoopFacts DEF LoopInvariant
<1>2. gnb'.time = h /\ gnb'.sfn = e /\ gnb' \in GnbState /\ h \in Times /\ e \in Frames
  <2>1. gnb' = Rounds!after_sleep(gnb) /\ gnb \in Rounds!GnbState
    BY <1>1, AfterSleepIs DEF GnbRound, GnbState, Times, Frames, Rounds!GnbState
  <2>2. gnb'.time = h /\ gnb'.sfn = e /\ gnb' \in Rounds!GnbState
    BY <2>1, RoundsAssumption, Rounds!GnbAfterSleep
  <2>3. gnb' \in GnbState
    BY <2>2 DEF GnbState, Times, Frames, Rounds!GnbState
  <2> HIDE DEF h, e
  <2> QED
    BY <2>2, <2>3 DEF GnbState
<1>3. /\ main.pc = "sleep" /\ ue' = ue
      /\ main'.pc = IF e % DRX = sfn_mod_t THEN "lock" ELSE "sleep"
      /\ ahead' = IF lost = 0 THEN ahead + 1 ELSE 0
  BY <1>2 DEF GnbRound, PagingTypes, in_paging_frame, Count
<1>4. \/ Rounds!Due(h) /\ udp' = Append(udp, Mib(e)) /\ lost' = lost
      \/ udp' = udp /\ lost' = lost + 1
      \/ ~Rounds!Due(h) /\ udp' = udp /\ lost' = lost
  BY <1>2 DEF GnbRound, send_mib, sendto, Rounds!Due
<1>5. Mib(e) \in Message
  BY <1>2, MessageType
<1> HIDE DEF t, f, h, e
<1>6. LoopTypes'
  <2>1. Append(udp, Mib(e)) \in Seq(Message)
    BY <1>1, <1>5, AppendProperties
  <2>2. udp' \in Seq(Message) /\ lost' \in Nat /\ ahead' \in Int
    BY <1>1, <1>3, <1>4, <2>1
  <2> QED
    BY <1>1, <1>2, <1>3, <2>2 DEF LoopTypes, GnbState, UeState
<1>7. ASSUME lost' = 0 PROVE Paired'
  <2>1. /\ lost = 0 /\ ahead' = ahead + 1
        /\ \/ Rounds!Due(h) /\ udp' = Append(udp, Mib(e))
           \/ ~Rounds!Due(h) /\ udp' = udp
    BY <1>1, <1>3, <1>4, <1>7
  <2>2. /\ ue.time = Rounds!Back(t, ahead) /\ ue.sfn = FrameAt(t, f, ahead)
        /\ ue.pc = "mib" => Event(t, f, 2 * ahead + 1)
        /\ ue.pc = "rrc" => Event(t, f, 2 * ahead)
        /\ InSocket(udp, t, f, 0, Limit)
    <3>1. Low = 0
      BY <1>3 DEF Low
    <3> QED
      BY <2>1, <3>1 DEF LoopInvariant, Paired, SameFrames, WaitsForIt, t, f
  <2>3. SameFrames'
    <3>1. Rounds!Back(h, ahead + 1) = Rounds!Back(t, ahead)
      BY <1>1, RoundsAssumption, Rounds!OlderRound DEF Times, h
    <3>2. FrameAt(h, e, ahead + 1) = FrameAt(t, f, ahead)
      BY <1>1, FrameAtLater DEF h, e
    <3> QED
      BY <1>2, <1>3, <2>1, <2>2, <3>1, <3>2 DEF SameFrames
  <2>4. WaitsForIt'
    <3>1. /\ (2 * ahead + 1) + 2 = 2 * (ahead + 1) + 1 /\ 2 * ahead + 2 = 2 * (ahead + 1)
          /\ 2 * ahead + 1 \in Int /\ 2 * ahead \in Int
      BY <1>1
    <3>2. /\ Event(h, e, (2 * ahead + 1) + 2) <=> Event(t, f, 2 * ahead + 1)
          /\ Event(h, e, 2 * ahead + 2) <=> Event(t, f, 2 * ahead)
      BY <1>1, <3>1, EventLater DEF h, e
    <3> QED
      BY <1>2, <1>3, <2>1, <2>2, <3>1, <3>2 DEF WaitsForIt
  <2>5. /\ Event(h, e, 1) <=> Rounds!Due(h)
        /\ Event(h, e, 0) <=> e % DRX = sfn_mod_t
        /\ \A msg : Carries(msg, h, e, 1) <=> msg = Mib(e)
    <3>1. 2 * 0 + 1 = 1 /\ 2 * 0 = 0 /\ 0 \in Int
      OBVIOUS
    <3>2. Rounds!Back(h, 0) = h
      BY <1>2, RoundsAssumption, Rounds!BackNow DEF Times
    <3>3. FrameAt(h, e, 0) = e
      BY <1>2, FrameAtNow
    <3>4. ASSUME NEW msg
          PROVE  /\ Event(h, e, 1) <=> Rounds!Due(h)
                 /\ Event(h, e, 0) <=> e % DRX = sfn_mod_t
                 /\ Carries(msg, h, e, 1) <=> msg = Mib(e)
      <4>1. /\ Event(h, e, 2 * 0 + 1) <=> Rounds!Due(Rounds!Back(h, 0))
            /\ Event(h, e, 2 * 0) <=> FrameAt(h, e, 0) % DRX = sfn_mod_t
            /\ Carries(msg, h, e, 2 * 0 + 1) <=> msg = Mib(FrameAt(h, e, 0))
        BY <3>1, EventOf
      <4> QED
        BY <3>1, <3>2, <3>3, <4>1
    <3> QED
      BY <3>4
  <2>6. Low' = (IF e % DRX = sfn_mod_t THEN 1 ELSE 0) /\ Limit' = Limit + 2
    <3>1. Limit' = Limit + 2
      BY <1>1, <1>3, <2>1 DEF Limit
    <3> QED
      BY <1>3, <3>1 DEF Low
  <2>7. PagesNow'
    BY <1>2, <2>5, <2>6 DEF PagesNow
  <2>8. InSocket(udp, h, e, 1 + 1, Limit + 2)
    <3>1. InSocket(udp, h, e, 2, Limit + 2)
      BY <1>1, <2>2, SocketLater DEF h, e
    <3> QED
      BY <3>1
  <2>9. InSocket(udp', h, e, 0 + 1, Limit + 2)
    <3>1. Limit + 2 \in Int /\ 1 \in Nat /\ 0 + 1 = 1
      BY <1>1
    <3>2. CASE Rounds!Due(h) /\ udp' = Append(udp, Mib(e))
      <4>1. InSocket(Append(udp, Mib(e)), h, e, 1, Limit + 2)
        BY <1>1, <1>5, <2>5, <2>8, <3>1, <3>2, SocketAppend
      <4> QED
        BY <3>1, <3>2, <4>1
    <3>3. CASE ~Rounds!Due(h) /\ udp' = udp
      <4>1. InSocket(udp, h, e, 1, Limit + 2)
        BY <1>1, <2>5, <2>8, <3>1, <3>3, SocketLower
      <4> QED
        BY <3>1, <3>3, <4>1
    <3> QED
      BY <2>1, <3>2, <3>3
  <2>10. InSocket(udp', h, e, Low', Limit + 2)
    <3>1. CASE e % DRX = sfn_mod_t
      BY <2>6, <2>9, <3>1
    <3>2. CASE e % DRX # sfn_mod_t
      <4>1. Limit + 2 \in Int /\ 0 \in Nat /\ udp' \in Seq(Message)
        BY <1>1, <1>6 DEF LoopTypes
      <4>2. InSocket(udp', h, e, 0, Limit + 2)
        BY <2>5, <2>9, <3>2, <4>1, SocketLower
      <4> QED
        BY <2>6, <3>2, <4>2
    <3> QED
      BY <3>1, <3>2
  <2> QED
    BY <1>2, <2>3, <2>4, <2>6, <2>7, <2>10 DEF Paired
<1> QED
  BY <1>6, <1>7 DEF LoopInvariant

\* The gNB sends its RRC, empty or not, and the round is over.
LEMMA SendLoop ==
  ASSUME PagingTypes, LoopInvariant, SendEmpty \/ SendRrc
  PROVE  LoopInvariant'
<1>1. PICK n \in 0 .. MaxNgap :
        /\ main.pc \in {"lock", "send"} /\ main'.pc = "sleep" /\ send_rrc(n)
        /\ UNCHANGED <<gnb, ue, ahead>>
  <2>1. CASE SendEmpty
    <3>1. 0 \in 0 .. MaxNgap
      BY PagingBounds
    <3>2. /\ main.pc \in {"lock", "send"} /\ main'.pc = "sleep" /\ send_rrc(0)
          /\ UNCHANGED <<gnb, ue, ahead>>
      BY <2>1 DEF SendEmpty, PagingTypes
    <3> QED
      BY <3>1, <3>2
  <2>2. CASE SendRrc
    <3>1. main.rrc \in 0 .. MaxNgap
      BY DEF PagingTypes
    <3>2. /\ main.pc \in {"lock", "send"} /\ main'.pc = "sleep" /\ send_rrc(main.rrc)
          /\ UNCHANGED <<gnb, ue, ahead>>
      BY <2>2 DEF SendRrc
    <3> QED
      BY <3>1, <3>2
  <2> QED
    BY <2>1, <2>2
<1>2. /\ udp \in Seq(Message) /\ lost \in Nat /\ Limit \in Int
      /\ Rrc(n) \in Message /\ Rrc(n).type = "RRC"
  BY LoopFacts, MessageType DEF LoopInvariant
<1>3. \/ udp' = Append(udp, Rrc(n)) /\ lost' = lost
      \/ udp' = udp /\ lost' = lost + 1
  BY <1>1 DEF send_rrc, sendto
<1>4. LoopTypes'
  <2>1. Append(udp, Rrc(n)) \in Seq(Message)
    BY <1>2, AppendProperties
  <2>2. udp' \in Seq(Message) /\ lost' \in Nat
    BY <1>2, <1>3, <2>1
  <2> QED
    BY <1>1, <2>2 DEF LoopInvariant, LoopTypes
<1>5. ASSUME lost' = 0 PROVE Paired'
  <2>1. lost = 0 /\ udp' = Append(udp, Rrc(n))
    BY <1>2, <1>3, <1>5
  <2>2. SameFrames' /\ WaitsForIt' /\ Limit' = Limit
    BY <1>1, <2>1 DEF LoopInvariant, Paired, SameFrames, WaitsForIt, Limit
  <2>3. Low = 1 /\ Low' = 0
    BY <1>1 DEF Low
  <2>4. PagesNow'
    BY <2>3 DEF PagesNow
  <2> DEFINE g == gnb.time
             f == gnb.sfn
  <2>5. Event(g, f, 0) /\ InSocket(udp, g, f, 1, Limit)
    BY <2>1, <2>3 DEF LoopInvariant, Paired, PagesNow
  <2> HIDE DEF g, f
  <2>6. Carries(Rrc(n), g, f, 0)
    <3>1. 2 * 0 = 0 /\ 0 \in Int
      OBVIOUS
    <3>2. Carries(Rrc(n), g, f, 2 * 0) <=> Rrc(n).type = "RRC"
      BY <3>1, EventOf
    <3> QED
      BY <1>2, <3>1, <3>2
  <2>7. InSocket(Append(udp, Rrc(n)), g, f, 0, Limit)
    <3>1. 0 \in Nat /\ InSocket(udp, g, f, 0 + 1, Limit)
      BY <2>5
    <3> QED
      BY <1>2, <2>5, <2>6, <3>1, SocketAppend
  <2>8. g = gnb'.time /\ f = gnb'.sfn
    BY <1>1 DEF g, f
  <2> QED
    BY <2>1, <2>2, <2>3, <2>4, <2>7, <2>8 DEF Paired
<1> QED
  BY <1>4, <1>5 DEF LoopInvariant

\* A round of the UE, up to what it waits for.
LEMMA UeRoundLoop ==
  ASSUME LoopInvariant, UeRound
  PROVE  LoopInvariant'
<1> DEFINE g == gnb.time
           f == gnb.sfn
           v == Rounds!Back(ue.time, -1)
           e == Rounds!NextFrame(ue.sfn, ue.time)
           pc == IF Rounds!Due(v) THEN "mib"
                 ELSE IF e % DRX = sfn_mod_t THEN "rrc" ELSE "sleep"
<1>1. /\ g \in Times /\ f \in Frames /\ ue \in UeState /\ gnb \in GnbState
      /\ ue.time \in Times /\ ue.sfn \in Frames /\ ue.state \in {"ASYNC", "SYNC"}
      /\ udp \in Seq(Message) /\ ahead \in Int /\ lost \in Nat /\ Low \in 0 .. 1
  BY LoopFacts DEF LoopInvariant
<1>2. /\ ue.pc = "sleep" /\ UNCHANGED <<main, gnb, udp, lost>>
      /\ ahead' = IF lost = 0 THEN ahead - 1 ELSE 0
  BY <1>1 DEF UeRound, Count
<1>3. v \in Times /\ e \in Frames
  <2>1. ue.time \in Int /\ ue.sfn \in Int /\ -1 \in Int
    BY <1>1, PagingLockstepAssumption DEF Times, Frames
  <2> QED
    BY <2>1, RoundsAssumption, Rounds!BackType, Rounds!NextFrameType, Zenon DEF Times, Frames
<1>4. ue' = [pc |-> pc, time |-> v, sfn |-> e, state |-> ue.state]
  <2>1. ue \in Rounds!UeState
    BY <1>1, <1>2 DEF UeState, Rounds!UeState, Times, Frames
  <2>2. /\ after_sleep(ue).time = v
        /\ \A p : [after_sleep(ue) EXCEPT !.pc = p]
                    = [pc |-> p, time |-> v, sfn |-> e, state |-> ue.state]
    BY <2>1, AfterSleepIs, RoundsAssumption, Rounds!UeAfterSleep
  <2> DEFINE time == (ue.time + 10) % TimeModulus
  <2>3. (IF time % 10 = 0 THEN Rounds!increase_sfn(ue.sfn) ELSE ue.sfn) = e
    BY <1>1, RoundsAssumption, Rounds!FrameAfterSleep DEF Times, Frames
  <2>4. Rounds!increase_sfn(ue.sfn) = increase_sfn(ue.sfn)
    BY DEF increase_sfn, Rounds!increase_sfn
  <2> HIDE DEF time
  <2>5. [ue EXCEPT !.time = time,
                   !.sfn = IF time % 10 = 0 THEN increase_sfn(@) ELSE @].sfn
          = IF time % 10 = 0 THEN increase_sfn(ue.sfn) ELSE ue.sfn
    BY <1>1 DEF UeState
  <2>6. after_sleep(ue).sfn = e
    BY <2>3, <2>4, <2>5, Zenon DEF after_sleep, time
  <2> HIDE DEF v, e
  <2> QED
    BY <2>2, <2>6 DEF UeRound, ue_paging_frame, Rounds!Due
<1>5. ue'.pc = pc /\ ue'.time = v /\ ue'.sfn = e /\ ue'.state = ue.state
  BY <1>4
<1> HIDE DEF g, f, v, e
<1>6. pc \in {"sleep", "mib", "rrc"}
  OBVIOUS
<1>7. LoopTypes'
  <2>1. ue' \in UeState
    <3> HIDE DEF pc
    <3> QED
      BY <1>1, <1>3, <1>4, <1>6, Zenon DEF UeState
  <2>2. ahead' \in Int
    BY <1>1, <1>2
  <2> QED
    BY <1>1, <1>2, <2>1, <2>2 DEF LoopTypes
<1>8. ASSUME lost' = 0 PROVE Paired'
  <2> DEFINE a == ahead - 1
  <2>1. lost = 0 /\ ahead' = a /\ a \in Int
    BY <1>1, <1>2, <1>8
  <2>2. v = Rounds!Back(g, a) /\ e = FrameAt(g, f, a)
    <3>1. ue.time = Rounds!Back(g, ahead) /\ ue.sfn = FrameAt(g, f, ahead)
      BY <2>1 DEF LoopInvariant, Paired, SameFrames, g, f
    <3> QED
      BY <1>1, <3>1, FrameAtNext DEF v, e
  <2>3. /\ Event(g, f, 2 * a + 1) <=> Rounds!Due(v)
        /\ Event(g, f, 2 * a) <=> e % DRX = sfn_mod_t
    <3> HIDE DEF a
    <3> QED
      BY <2>1, <2>2, EventOf
  <2>4. g = gnb'.time /\ f = gnb'.sfn /\ Low' = Low
    BY <1>2 DEF g, f, Low
  <2>5. SameFrames'
    BY <1>5, <2>1, <2>2, <2>4 DEF SameFrames
  <2>6. WaitsForIt'
    BY <1>5, <2>1, <2>3, <2>4 DEF WaitsForIt
  <2>7. PagesNow'
    BY <2>1, <2>4 DEF LoopInvariant, Paired, PagesNow, g, f
  <2>8. InSocket(udp, g, f, Low, (2 * a + 1) + 1)
    <3>1. Limit = (2 * a + 1) + 1
      BY <1>1, <1>2 DEF Limit
    <3> QED
      BY <2>1, <3>1 DEF LoopInvariant, Paired, g, f
  <2>9. Low \in Nat /\ 2 * a + 1 \in Int /\ 2 * a \in Int
    BY <1>1
  <2> HIDE DEF a
  <2>10. InSocket(udp, g, f, Low, Limit')
    <3>1. CASE Rounds!Due(v)
      <4>1. Limit' = (2 * a + 1) + 1
        BY <1>5, <2>1, <3>1 DEF Limit
      <4> QED
        BY <2>8, <4>1
    <3>2. CASE ~Rounds!Due(v)
      <4>1. InSocket(udp, g, f, Low, 2 * a + 1)
        BY <1>1, <2>3, <2>8, <2>9, <3>2, SocketUpper
      <4>2. CASE e % DRX = sfn_mod_t
        <5>1. Limit' = 2 * a + 1
          BY <1>5, <2>1, <3>2, <4>2 DEF Limit
        <5> QED
          BY <4>1, <5>1
      <4>3. CASE e % DRX # sfn_mod_t
        <5>1. Limit' = 2 * a
          BY <1>5, <2>1, <3>2, <4>3 DEF Limit
        <5>2. InSocket(udp, g, f, Low, 2 * a)
          BY <1>1, <2>3, <2>9, <4>1, <4>3, SocketUpper
        <5> QED
          BY <5>1, <5>2
      <4> QED
        BY <4>2, <4>3
    <3> QED
      BY <3>1, <3>2
  <2> QED
    BY <1>2, <2>4, <2>5, <2>6, <2>7, <2>10 DEF Paired
<1> QED
  BY <1>7, <1>8 DEF LoopInvariant

\* The UE takes a MIB: the gNB's of the same round, with the frame the UE is in.
LEMMA UeSyncLoop ==
  ASSUME LoopInvariant, UeSync
  PROVE  LoopInvariant'
<1> DEFINE g == gnb.time
           f == gnb.sfn
<1>1. /\ g \in Times /\ f \in Frames /\ ue \in UeState /\ gnb \in GnbState
      /\ ue.time \in Times /\ ue.sfn \in Frames
      /\ udp \in Seq(Message) /\ ahead \in Int /\ lost \in Nat /\ Low \in 0 .. 1
  BY LoopFacts DEF LoopInvariant
<1>2. PICK sfn \in Frames :
        /\ udp # << >> /\ sfn = sfn_value(Head(udp)) /\ udp' = Tail(udp)
        /\ LET sp == [ue EXCEPT !.state = "SYNC",
                                !.sfn = IF update_due(ue) THEN sfn ELSE @]
           IN  ue' = [sp EXCEPT !.pc = IF ue_paging_frame(sp) THEN "rrc" ELSE "sleep"]
  BY DEF UeSync, receive_mib, Frames
<1>3. ue.pc = "mib" /\ UNCHANGED <<main, gnb, ahead, lost>>
  BY DEF UeSync
<1> DEFINE e == IF update_due(ue) THEN sfn ELSE ue.sfn
           sp == [ue EXCEPT !.state = "SYNC", !.sfn = e]
<1>4. e \in Frames
  BY <1>1, <1>2
<1> HIDE DEF e
<1>5. sp \in UeState /\ sp.sfn = e /\ sp.time = ue.time /\ sp.state = "SYNC"
  BY <1>1, <1>4 DEF UeState
<1>6. ue' = [sp EXCEPT !.pc = IF ue_paging_frame(sp) THEN "rrc" ELSE "sleep"]
  BY <1>2 DEF e
<1> HIDE DEF sp
<1>7. /\ ue'.pc = IF e % DRX = sfn_mod_t THEN "rrc" ELSE "sleep"
      /\ ue'.time = ue.time /\ ue'.sfn = e /\ ue' \in UeState
  BY <1>5, <1>6 DEF ue_paging_frame, UeState
<1>8. LoopTypes'
  <2>1. Tail(udp) \in Seq(Message)
    BY <1>1, <1>2, HeadTailProperties
  <2> QED
    BY <1>1, <1>2, <1>3, <1>7, <2>1 DEF LoopTypes
<1>9. ASSUME lost' = 0 PROVE Paired'
  <2>1. /\ lost = 0 /\ ue.time = Rounds!Back(g, ahead) /\ ue.sfn = FrameAt(g, f, ahead)
        /\ Event(g, f, 2 * ahead + 1)
    BY <1>3, <1>9 DEF LoopInvariant, Paired, SameFrames, WaitsForIt
  <2>2. InSocket(udp, g, f, Low, (2 * ahead + 1) + 1)
    <3>1. Limit = (2 * ahead + 1) + 1
      BY <1>1, <1>3 DEF Limit
    <3> QED
      BY <2>1, <3>1 DEF LoopInvariant, Paired
  <2>3. Low \in Nat /\ 2 * ahead + 1 \in Int /\ 2 * ahead \in Int
    BY <1>1
  <2> HIDE DEF g, f
  <2>4. /\ Carries(Head(udp), g, f, 2 * ahead + 1)
        /\ InSocket(Tail(udp), g, f, Low, 2 * ahead + 1)
    BY <1>1, <1>2, <2>1, <2>2, <2>3, SocketTake
  <2>5. Head(udp) = Mib(ue.sfn)
    BY <1>1, <2>1, <2>4, EventOf
  <2>6. e = ue.sfn
    BY <1>2, <2>5 DEF e, sfn_value, Mib
  <2>7. g = gnb'.time /\ f = gnb'.sfn /\ Low' = Low
    BY <1>3 DEF g, f, Low
  <2>8. SameFrames'
    BY <1>3, <1>7, <2>1, <2>6, <2>7 DEF SameFrames
  <2>9. Event(g, f, 2 * ahead) <=> e % DRX = sfn_mod_t
    BY <1>1, <2>1, <2>6, EventOf
  <2>10. WaitsForIt'
    BY <1>3, <1>7, <2>7, <2>9 DEF WaitsForIt
  <2>11. PagesNow'
    BY <2>1, <2>7 DEF LoopInvariant, Paired, PagesNow, g, f
  <2>12. InSocket(Tail(udp), g, f, Low, Limit')
    <3>1. CASE e % DRX = sfn_mod_t
      <4>1. Limit' = 2 * ahead + 1
        BY <1>1, <1>3, <1>7, <3>1 DEF Limit
      <4> QED
        BY <2>4, <4>1
    <3>2. CASE e % DRX # sfn_mod_t
      <4>1. Limit' = 2 * ahead
        BY <1>1, <1>3, <1>7, <3>2 DEF Limit
      <4>2. Tail(udp) \in Seq(Message)
        BY <1>1, <1>2, HeadTailProperties
      <4>3. InSocket(Tail(udp), g, f, Low, 2 * ahead)
        BY <2>3, <2>4, <2>9, <3>2, <4>2, SocketUpper
      <4> QED
        BY <4>1, <4>3
    <3> QED
      BY <3>1, <3>2
  <2> QED
    BY <1>2, <2>7, <2>8, <2>10, <2>11, <2>12 DEF Paired
<1> QED
  BY <1>8, <1>9 DEF LoopInvariant

\* The UE takes an RRC.
LEMMA UeRrcLoop ==
  ASSUME LoopInvariant, receive_rrc
  PROVE  LoopInvariant'
<1> DEFINE g == gnb.time
           f == gnb.sfn
<1>1. /\ ue \in UeState /\ gnb \in GnbState
      /\ udp \in Seq(Message) /\ ahead \in Int /\ lost \in Nat /\ Low \in 0 .. 1
  BY LoopFacts DEF LoopInvariant
<1>2. /\ ue.pc = "rrc" /\ udp # << >> /\ udp' = Tail(udp)
      /\ ue' = [ue EXCEPT !.pc = "sleep"] /\ UNCHANGED <<main, gnb, ahead, lost>>
  BY DEF receive_rrc
<1>3. ue'.pc = "sleep" /\ ue'.time = ue.time /\ ue'.sfn = ue.sfn /\ ue' \in UeState
  BY <1>1, <1>2 DEF UeState
<1>4. LoopTypes'
  <2>1. Tail(udp) \in Seq(Message)
    BY <1>1, <1>2, HeadTailProperties
  <2> QED
    BY <1>1, <1>2, <1>3, <2>1 DEF LoopTypes
<1>5. ASSUME lost' = 0 PROVE Paired'
  <2>1. lost = 0 /\ Event(g, f, 2 * ahead)
    BY <1>2, <1>5 DEF LoopInvariant, Paired, WaitsForIt
  <2>2. Low \in Nat /\ 2 * ahead \in Int /\ Limit = 2 * ahead + 1
    BY <1>1, <1>2 DEF Limit
  <2>3. InSocket(udp, g, f, Low, 2 * ahead + 1)
    BY <2>1, <2>2 DEF LoopInvariant, Paired
  <2> HIDE DEF g, f
  <2>4. InSocket(Tail(udp), g, f, Low, 2 * ahead)
    BY <1>1, <1>2, <2>1, <2>2, <2>3, SocketTake
  <2>5. g = gnb'.time /\ f = gnb'.sfn /\ Low' = Low
    BY <1>2 DEF g, f, Low
  <2>6. Limit' = 2 * ahead
    BY <1>1, <1>2, <1>3 DEF Limit
  <2>7. SameFrames' /\ WaitsForIt' /\ PagesNow'
    BY <1>2, <1>3, <2>1, <2>5
       DEF LoopInvariant, Paired, SameFrames, WaitsForIt, PagesNow, g, f
  <2> QED
    BY <1>2, <2>4, <2>5, <2>6, <2>7 DEF Paired
<1> QED
  BY <1>4, <1>5 DEF LoopInvariant

LEMMA LoopStep ==
  ASSUME PagingInvariant, LoopInvariant, [Next]_vars
  PROVE  LoopInvariant'
<1>1. PagingTypes
  BY DEF PagingInvariant
<1>2. CASE GnbRound
  BY <1>1, <1>2, GnbRoundLoop
<1>3. CASE SendEmpty \/ SendRrc
  BY <1>1, <1>3, SendLoop
<1>4. CASE UeRound
  BY <1>4, UeRoundLoop
<1>5. CASE UeSync
  BY <1>5, UeSyncLoop
<1>6. CASE receive_rrc
  BY <1>6, UeRrcLoop
<1>7. CASE MainStart \/ BeginCopy \/ EndCopy
  <2>1. UNCHANGED syncVars /\ Low' = Low
    <3>1. CASE MainStart
      BY <1>1, <3>1 DEF MainStart, Low, PagingTypes
    <3>2. CASE BeginCopy
      BY <1>1, <3>2 DEF BeginCopy, Low, PagingTypes
    <3>3. CASE EndCopy
      BY <1>1, <3>3 DEF EndCopy, Low, PagingTypes
    <3> QED
      BY <1>7, <3>1, <3>2, <3>3
  <2> QED
    BY <2>1, LoopsApart
<1>8. CASE Amf \/ Listener \/ UNCHANGED vars
  <2>1. UNCHANGED syncVars /\ main' = main
    BY <1>8 DEF Amf, AmfSend, AmfClose, Listener, Receive, ReceiveNothing, WriteNgap,
                Announce, vars
  <2> QED
    BY <2>1, LoopsApart DEF Low
<1> QED
  BY <1>2, <1>3, <1>4, <1>5, <1>6, <1>7, <1>8 DEF Next, Gnb, Ue

LEMMA LoopInvariance == Spec => []LoopInvariant
<1>1. Init => LoopInvariant
  BY LoopStart
<1>2. PagingInvariant /\ LoopInvariant /\ [Next]_vars => LoopInvariant'
  BY LoopStep
<1> QED
  BY <1>1, <1>2, PagingInvariance, PTL DEF Spec

\* The buffer, the counts and both loops keep their types for ever, lost messages or
\* not: nothing that the UE reads from an RRC for a MIB is out of range either.
THEOREM PagingTypeCorrect == Spec => []TypeOK
<1>1. PagingInvariant /\ PageHistory /\ LoopInvariant => TypeOK
  <2> SUFFICES ASSUME PagingInvariant, PageHistory, LoopInvariant PROVE TypeOK
    OBVIOUS
  <2> DEFINE Heard == 0 .. MaxNgap + MaxPhantom
  <2>1. heard \in Heard
    <3>1. /\ amf \in 0 .. MaxNgap /\ phantoms \in 0 .. MaxPhantom /\ heard \in Nat
          /\ Len(tcp) \in Nat /\ InHand \in Nat
      BY DEF PagingInvariant, PagingTypes, InHand
    <3>2. amf + phantoms = Len(tcp) + InHand + heard
      BY DEF PagingInvariant, Accounted
    <3> QED
      BY <3>1, <3>2, PagingBounds
  <2>2. pages \in Seq([msg : 0 .. MaxNgap, heard : Heard])
    <3>1. \A i \in 1 .. Len(pages) : pages[i] \in Page /\ pages[i].heard <= heard
      BY PageTypes DEF PageHistory
    <3>2. \A i \in 1 .. Len(pages) : pages[i] \in [msg : 0 .. MaxNgap, heard : Heard]
      BY <2>1, <3>1, PagingBounds DEF Page
    <3> HIDE DEF Heard
    <3>3. pages \in [1 .. Len(pages) -> [msg : 0 .. MaxNgap, heard : Heard]]
      <4>1. pages \in [1 .. Len(pages) -> Page]
        BY LenProperties DEF PageHistory
      <4> QED
        BY <3>2, <4>1
    <3> QED
      BY <3>3, PageTypes, SeqDef, Zenon
  <2>3. \A j \in DOMAIN udp : udp[j] \in Message
    BY LoopFacts, ElementOfSeq DEF LoopInvariant
  <2> QED
    BY <2>1, <2>2, <2>3
       DEF TypeOK, PagingInvariant, PagingTypes, LoopInvariant, LoopTypes, GnbState, UeState,
           Message, Times, Frames
<1> QED
  BY <1>1, PagingInvariance, PageHistoryInvariance, LoopInvariance, PTL

\* The message the UE takes is the one that was sent where it waits.
LEMMA TakesTheRight == LoopInvariant => NeverMistaken
<1>1. SUFFICES ASSUME LoopInvariant, lost = 0, Mistaken PROVE FALSE
  BY DEF NeverMistaken
<1> DEFINE g == gnb.time
           f == gnb.sfn
<1>2. udp \in Seq(Message) /\ ahead \in Int /\ Low \in Nat /\ udp # << >>
      /\ 2 * ahead \in Int /\ 2 * ahead + 1 \in Int
  BY <1>1, LoopFacts DEF LoopInvariant, Mistaken
<1>3. InSocket(udp, g, f, Low, Limit)
  BY <1>1 DEF LoopInvariant, Paired
<1>4. CASE ue.pc = "mib" /\ Head(udp).type = "RRC"
  <2>1. Limit = (2 * ahead + 1) + 1 /\ Event(g, f, 2 * ahead + 1)
    BY <1>1, <1>2, <1>4 DEF LoopInvariant, Paired, WaitsForIt, Limit
  <2> HIDE DEF g, f
  <2>2. Carries(Head(udp), g, f, 2 * ahead + 1)
    BY <1>2, <1>3, <2>1, SocketTake
  <2>3. Head(udp) = Mib(FrameAt(g, f, ahead))
    BY <1>2, <2>2, EventOf
  <2> QED
    BY <1>4, <2>3 DEF Mib
<1>5. CASE ue.pc = "rrc" /\ Head(udp).type = "MIB"
  <2>1. Limit = 2 * ahead + 1 /\ Event(g, f, 2 * ahead)
    BY <1>1, <1>2, <1>5 DEF LoopInvariant, Paired, WaitsForIt, Limit
  <2> HIDE DEF g, f
  <2>2. Carries(Head(udp), g, f, 2 * ahead)
    BY <1>2, <1>3, <2>1, SocketTake
  <2>3. Head(udp).type = "RRC"
    BY <1>2, <2>2, EventOf
  <2> QED
    BY <1>5, <2>3
<1> QED
  BY <1>1, <1>4, <1>5 DEF Mistaken

\* As long as nothing is lost the UE takes every message for what it is.  Nothing in a
\* message tells, and both come through one socket: it is the order of the receives in
\* the UE's loop, and that it counts the same frames, that keeps MIBs and RRCs apart.
THEOREM NeverTakesOneForTheOther == Spec => []NeverMistaken
  BY TakesTheRight, LoopInvariance, PTL

\* Paging does not disturb how exercise 3's UE follows the frames of the gNB.
THEOREM PagingCountsInStep == Spec => []InStep
<1>1. LoopInvariant => InStep
  <2>1. SUFFICES ASSUME LoopInvariant, lost = 0 PROVE Lockstep!Offset = 0
    BY DEF InStep, Lockstep!InStep
  <2> DEFINE g == gnb.time
             f == gnb.sfn
             d == Rounds!Lead(g, ue.time, ahead)
             x == f - d
  <2>2. /\ f \in Int /\ ahead \in Int /\ ue \in UeState
        /\ ue.time = Rounds!Back(g, ahead) /\ ue.sfn = FrameAt(g, f, ahead)
    BY <2>1, LoopFacts DEF LoopInvariant, Paired, SameFrames, Frames
  <2>3. d \in Int /\ x \in Int /\ SfnPeriod \in Nat \ {0}
    BY <2>2, RoundsAssumption, Rounds!LeadType, PagingLockstepAssumption
  <2>4. ue.sfn = x % SfnPeriod
    BY <2>2 DEF FrameAt
  <2> DEFINE seen == [ue EXCEPT !.pc = IF @ = "mib" THEN "receive" ELSE "sleep"]
  <2>5. seen.time = ue.time /\ seen.sfn = ue.sfn
    BY <2>2 DEF UeState
  <2>6. Lockstep!FramesAhead = d
    <3>1. \A t, n : Lockstep!FramesIn(t, n) = Rounds!FramesIn(t, n)
      BY DEF Lockstep!FramesIn, Rounds!FramesIn, Lockstep!Cardinality, Rounds!Cardinality
    <3> QED
      BY <2>5, <3>1 DEF Lockstep!FramesAhead, Rounds!Lead
  <2> HIDE DEF d, x, g
  <2>7. Lockstep!MibFrames * lost = 0
    <3>1. MibMs \div 10 \in Int
      BY PagingLockstepAssumption
    <3> QED
      BY <2>1, <3>1 DEF Lockstep!MibFrames
  <2>8. x % SfnPeriod \in Int
    BY <2>3, RoundsAssumption, Rounds!Modulo
  <2>9. Lockstep!Offset = (x - (x % SfnPeriod)) % SfnPeriod
    <3>1. Lockstep!Offset = (f - d + Lockstep!MibFrames * lost - ue.sfn) % SfnPeriod
      BY <2>5, <2>6 DEF Lockstep!Offset
    <3>2. f - d + Lockstep!MibFrames * lost - ue.sfn = x - (x % SfnPeriod)
      BY <2>2, <2>3, <2>4, <2>7, <2>8 DEF x
    <3> QED
      BY <3>1, <3>2
  <2> DEFINE q == x \div SfnPeriod
  <2>10. x = SfnPeriod * q + (x % SfnPeriod) /\ q \in Int
    BY <2>3, RoundsAssumption, Rounds!Modulo
  <2> HIDE DEF q
  <2>11. x - (x % SfnPeriod) = SfnPeriod * q + 0
    BY <2>3, <2>8, <2>10
  <2>12. 0 \in 0 .. SfnPeriod - 1
    BY <2>3
  <2>13. (SfnPeriod * q + 0) % SfnPeriod = 0
    BY <2>3, <2>10, <2>12, RoundsAssumption, Rounds!ModuloUnique
  <2> QED
    BY <2>9, <2>11, <2>13
<1> QED
  BY <1>1, LoopInvariance, PTL

-----------------------------------------------------------------------------
(***************************************************************************)
(* The MIBs among the messages                                             *)
(***************************************************************************)
Upto(S, j) == {i \in S : i <= j}

Rank(S, j) == Cardinality(Upto(S, j))

Later(S) == {j + 1 : j \in S}

LEMMA RankType ==
  ASSUME NEW S, S \subseteq Nat, IsFiniteSet(S), NEW j
  PROVE  /\ IsFiniteSet(Upto(S, j)) /\ Upto(S, j) \subseteq S
         /\ Cardinality(S) \in Nat /\ Rank(S, j) \in Nat
         /\ Rank(S, j) <= Cardinality(S)
<1>1. Upto(S, j) \in SUBSET S
  BY DEF Upto
<1>2. IsFiniteSet(Upto(S, j)) /\ Cardinality(Upto(S, j)) <= Cardinality(S)
  BY <1>1, FS_Subset
<1>3. Cardinality(Upto(S, j)) \in Nat /\ Cardinality(S) \in Nat
  BY <1>2, FS_CardinalityType
<1> QED
  BY <1>1, <1>2, <1>3 DEF Rank

LEMMA RankGrows ==
  ASSUME NEW S, S \subseteq Nat, IsFiniteSet(S), NEW i \in Int, NEW j \in S, i < j
  PROVE  Rank(S, i) < Rank(S, j)
<1> DEFINE lower == Upto(S, i)
           upper == Upto(S, j)
<1>1. /\ IsFiniteSet(lower) /\ IsFiniteSet(upper)
      /\ Rank(S, i) \in Nat /\ Rank(S, j) \in Nat
  <2>1. IsFiniteSet(lower) /\ Rank(S, i) \in Nat
    BY RankType, Zenon
  <2>2. IsFiniteSet(upper) /\ Rank(S, j) \in Nat
    BY RankType, Zenon
  <2> QED
    BY <2>1, <2>2
<1>2. j \notin lower /\ (lower \cup {j}) \in SUBSET upper
  <2>1. j \in Nat
    OBVIOUS
  <2>2. \A k \in S : k \in Nat /\ (k <= i => k <= j)
    BY <2>1
  <2>3. ~(j <= i) /\ j <= j
    BY <2>1
  <2> QED
    BY <2>2, <2>3 DEF Upto
<1>3. Cardinality(lower \cup {j}) = Cardinality(lower) + 1
  <2> HIDE DEF lower, upper
  <2> QED
    BY <1>1, <1>2, FS_AddElement
<1>4. Cardinality(lower \cup {j}) <= Cardinality(upper)
  <2> HIDE DEF lower, upper
  <2> QED
    BY <1>1, <1>2, FS_Subset
<1>5. Rank(S, i) = Cardinality(lower) /\ Rank(S, j) = Cardinality(upper)
  BY DEF Rank
<1> HIDE DEF lower, upper
<1> QED
  BY <1>1, <1>3, <1>4, <1>5

LEMMA RankUnique ==
  ASSUME NEW S, S \subseteq Nat, IsFiniteSet(S), NEW i \in S, NEW j \in S,
         Rank(S, i) = Rank(S, j)
  PROVE  i = j
<1>1. i \in Int /\ j \in Int
  OBVIOUS
<1>2. Rank(S, i) \in Nat
  BY RankType, Zenon
<1>3. CASE i < j
  <2>1. Rank(S, i) < Rank(S, j)
    BY <1>1, <1>3, RankGrows
  <2> QED
    BY <1>2, <2>1
<1>4. CASE j < i
  <2>1. Rank(S, j) < Rank(S, i)
    BY <1>1, <1>4, RankGrows
  <2> QED
    BY <1>2, <2>1
<1> QED
  BY <1>1, <1>3, <1>4

LEMMA RankOfMember ==
  ASSUME NEW S, S \subseteq Nat, IsFiniteSet(S), NEW j \in S
  PROVE  Cardinality(S) \in Nat /\ Rank(S, j) \in 1 .. Cardinality(S)
<1> DEFINE m == Cardinality(S)
<1>1. m \in Nat /\ Rank(S, j) \in Nat /\ Rank(S, j) <= m
  <2>1. Cardinality(S) \in Nat /\ Rank(S, j) \in Nat /\ Rank(S, j) <= Cardinality(S)
    BY RankType, Zenon
  <2> QED
    BY <2>1
<1>2. Rank(S, j - 1) \in Nat
  BY RankType, Zenon
<1>3. Rank(S, j - 1) < Rank(S, j)
  <2>1. j - 1 \in Int /\ j - 1 < j
    OBVIOUS
  <2> QED
    BY <2>1, RankGrows
<1> HIDE DEF m
<1>4. Rank(S, j) \in 1 .. m
  BY <1>1, <1>2, <1>3
<1> QED
  BY <1>1, <1>4 DEF m

\* Every rank is taken.
LEMMA RankTaken ==
  ASSUME NEW S, S \subseteq Nat, IsFiniteSet(S), NEW k \in 1 .. Cardinality(S)
  PROVE  \E j \in S : Rank(S, j) = k
<1> DEFINE m == Cardinality(S)
           T == 1 .. m
           rank == [j \in S |-> Rank(S, j)]
<1>1. m \in Nat
  BY FS_CardinalityType
<1>2. \A j \in S : Rank(S, j) \in T
  BY RankOfMember
<1>3. rank \in Injection(S, T)
  <2>1. rank \in [S -> T]
    BY <1>2
  <2>2. \A i, j \in S : rank[i] = rank[j] => i = j
    BY RankUnique
  <2> HIDE DEF rank, T
  <2> QED
    BY <2>1, <2>2, Fun_IsInj
<1>4. IsFiniteSet(T) /\ Cardinality(T) = m
  <2> HIDE DEF m
  <2>1. 1 \in Int /\ m \in Int
    BY <1>1
  <2>2. IsFiniteSet(T) /\ Cardinality(T) = IF 1 > m THEN 0 ELSE m - 1 + 1
    BY <2>1, FS_Interval
  <2> QED
    BY <1>1, <2>2
<1>5. rank \in Surjection(S, T)
  <2> HIDE DEF rank, T
  <2> QED
    BY <1>3, <1>4, FS_Injection
<1>6. \E j \in S : rank[j] = k
  <2>1. k \in T
    OBVIOUS
  <2> HIDE DEF rank, T
  <2> QED
    BY <1>5, <2>1 DEF Surjection
<1> QED
  BY <1>6

LEMMA KthIs ==
  ASSUME NEW S, S \subseteq Nat, IsFiniteSet(S), NEW j \in S
  PROVE  Kth(S, Rank(S, j)) = j
<1> DEFINE k == Rank(S, j)
<1>1. Kth(S, k) = CHOOSE i \in S : Rank(S, i) = k
  BY DEF Kth, Rank, Upto
<1>2. \A i \in S : Rank(S, i) = k => i = j
  BY RankUnique
<1> QED
  BY <1>1, <1>2

LEMMA KthType ==
  ASSUME NEW S, S \subseteq Nat, IsFiniteSet(S), NEW k \in 1 .. Cardinality(S)
  PROVE  Kth(S, k) \in S /\ Rank(S, Kth(S, k)) = k
<1>1. PICK j \in S : Rank(S, j) = k
  BY RankTaken
<1> QED
  BY <1>1, KthIs

LEMMA LaterCardinality ==
  ASSUME NEW S, S \subseteq Nat, IsFiniteSet(S)
  PROVE  /\ IsFiniteSet(Later(S)) /\ Later(S) \subseteq Nat
         /\ Cardinality(Later(S)) = Cardinality(S)
<1> DEFINE f == [j \in S |-> j + 1]
<1>1. f \in Bijection(S, Later(S))
  <2>1. f \in [S -> Later(S)]
    BY DEF Later
  <2>2. \A i, j \in S : f[i] = f[j] => i = j
    OBVIOUS
  <2>3. \A i \in Later(S) : \E j \in S : f[j] = i
    BY DEF Later
  <2> HIDE DEF f
  <2> QED
    BY <2>1, <2>2, <2>3, Fun_IsBij
<1>2. Later(S) \subseteq Nat
  BY DEF Later
<1> HIDE DEF f
<1> QED
  BY <1>1, <1>2, FS_Bijection, Fun_ExistsBij

\* The places in what comes after the first member.
LEMMA RankLater ==
  ASSUME NEW S, S \subseteq Nat, IsFiniteSet(S), 0 \notin S, NEW j \in Nat
  PROVE  /\ Rank(Later(S), j + 1) = Rank(S, j)
         /\ Rank(Later(S) \cup {1}, j + 1) = Rank(S, j) + 1
<1>1. Upto(Later(S), j + 1) = Later(Upto(S, j))
  <2>1. ASSUME NEW i \in Upto(Later(S), j + 1) PROVE i \in Later(Upto(S, j))
    <3>1. PICK h \in S : i = h + 1
      BY DEF Upto, Later
    <3>2. h \in Nat /\ h <= j
      BY <2>1, <3>1 DEF Upto
    <3> QED
      BY <3>1, <3>2 DEF Upto, Later
  <2>2. ASSUME NEW h \in Upto(S, j) PROVE h + 1 \in Upto(Later(S), j + 1)
    <3>1. h \in S /\ h \in Nat /\ h <= j
      BY DEF Upto
    <3> QED
      BY <3>1 DEF Upto, Later
  <2> QED
    BY <2>1, <2>2 DEF Later
<1> DEFINE U == Upto(S, j)
           V == Upto(Later(S), j + 1)
<1>2. IsFiniteSet(U) /\ U \subseteq Nat
  <2>1. IsFiniteSet(U) /\ U \subseteq S
    BY RankType, Zenon
  <2> QED
    BY <2>1, Zenon
<1>3. IsFiniteSet(V) /\ Cardinality(V) = Cardinality(U)
  <2> HIDE DEF U
  <2> QED
    BY <1>1, <1>2, LaterCardinality DEF U
<1>4. Upto(Later(S) \cup {1}, j + 1) = V \cup {1} /\ 1 \notin V
  BY DEF Upto, Later
<1>5. Cardinality(V \cup {1}) = Cardinality(V) + 1
  <2> HIDE DEF V
  <2> QED
    BY <1>3, <1>4, FS_AddElement
<1> QED
  BY <1>3, <1>4, <1>5 DEF Rank

LEMMA MibsAtType ==
  ASSUME NEW s \in Seq(Message)
  PROVE  /\ Len(s) \in Nat /\ MibsAt(s) \subseteq 1 .. Len(s)
         /\ MibsAt(s) \subseteq Nat /\ 0 \notin MibsAt(s)
         /\ IsFiniteSet(MibsAt(s)) /\ Cardinality(MibsAt(s)) \in Nat
         /\ \A j \in MibsAt(s) : s[j].sfn \in Frames
<1>1. Len(s) \in Nat /\ DOMAIN s = 1 .. Len(s)
  OBVIOUS
<1>2. MibsAt(s) \subseteq 1 .. Len(s)
  BY <1>1 DEF MibsAt
<1>3. MibsAt(s) \subseteq Nat /\ 0 \notin MibsAt(s)
  BY <1>1, <1>2
<1>4. IsFiniteSet(MibsAt(s))
  <2>1. 1 \in Int /\ Len(s) \in Int
    BY <1>1
  <2>2. IsFiniteSet(1 .. Len(s)) /\ MibsAt(s) \in SUBSET (1 .. Len(s))
    BY <1>2, <2>1, FS_Interval
  <2> QED
    BY <2>2, FS_Subset
<1>5. Cardinality(MibsAt(s)) \in Nat
  BY <1>4, FS_CardinalityType
<1>6. \A j \in MibsAt(s) : s[j].sfn \in Frames
  <2>1. ASSUME NEW j \in MibsAt(s) PROVE s[j].sfn \in Frames
    <3>1. s[j] \in Message /\ s[j].type = "MIB"
      BY <1>1, ElementOfSeq DEF MibsAt
    <3> QED
      BY <3>1 DEF Message
  <2> QED
    BY <2>1
<1> QED
  BY <1>1, <1>2, <1>3, <1>4, <1>5, <1>6

\* The MIBs among the messages, in their order.
LEMMA MibsOfIs ==
  ASSUME NEW s \in Seq(Message)
  PROVE  /\ MibsOf(s) \in Seq(Frames) /\ Len(MibsOf(s)) = Cardinality(MibsAt(s))
         /\ \A j \in MibsAt(s) : MibsOf(s)[Rank(MibsAt(s), j)] = s[j].sfn
<1> DEFINE S == MibsAt(s)
           c == Cardinality(S)
<1>1. S \subseteq Nat /\ IsFiniteSet(S) /\ c \in Nat /\ \A j \in S : s[j].sfn \in Frames
  BY MibsAtType
<1>2. MibsOf(s) = [k \in 1 .. c |-> s[Kth(S, k)].sfn]
  BY DEF MibsOf
<1> HIDE DEF S
<1>3. \A k \in 1 .. c : Kth(S, k) \in S
  BY <1>1, KthType
<1>4. \A j \in S : Rank(S, j) \in 1 .. c /\ Kth(S, Rank(S, j)) = j
  BY <1>1, RankOfMember, KthIs
<1> HIDE DEF c
<1>5. [k \in 1 .. c |-> s[Kth(S, k)].sfn] \in Seq(Frames)
  <2>1. \A k \in 1 .. c : s[Kth(S, k)].sfn \in Frames
    BY <1>1, <1>3
  <2> DEFINE q == [k \in 1 .. c |-> s[Kth(S, k)].sfn]
  <2>2. q \in [1 .. c -> Frames]
    BY <2>1
  <2> HIDE DEF q
  <2>3. q \in Seq(Frames)
    BY <1>1, <2>2
  <2> QED
    BY <2>3 DEF q
<1>6. Len([k \in 1 .. c |-> s[Kth(S, k)].sfn]) = c
  BY <1>1
<1>7. \A j \in S : MibsOf(s)[Rank(S, j)] = s[j].sfn
  BY <1>2, <1>4
<1> QED
  BY <1>2, <1>5, <1>6, <1>7 DEF S, c

LEMMA MibsOfOnly ==
  ASSUME NEW s \in Seq(Message), NEW q \in Seq(Frames),
         Len(q) = Cardinality(MibsAt(s)),
         \A j \in MibsAt(s) : q[Rank(MibsAt(s), j)] = s[j].sfn
  PROVE  q = MibsOf(s)
<1> DEFINE S == MibsAt(s)
           c == Cardinality(S)
           m == MibsOf(s)
<1>1. S \subseteq Nat /\ IsFiniteSet(S)
  BY MibsAtType
<1>2. m \in Seq(Frames) /\ Len(m) = c /\ \A j \in S : m[Rank(S, j)] = s[j].sfn
  BY MibsOfIs
<1>3. Len(q) = c /\ \A j \in S : q[Rank(S, j)] = s[j].sfn
  OBVIOUS
<1> HIDE DEF S, m
<1>4. \A k \in 1 .. c : Kth(S, k) \in S /\ Rank(S, Kth(S, k)) = k
  BY <1>1, KthType
<1> HIDE DEF c
<1>5. \A k \in 1 .. c : q[k] = m[k]
  BY <1>2, <1>3, <1>4
<1>6. q = m
  BY <1>2, <1>3, <1>5, SeqEqual
<1> QED
  BY <1>6 DEF m

LEMMA NoMibs == MibsOf(<< >>) = << >>
<1>1. << >> \in Seq(Message) /\ << >> \in Seq(Frames) /\ Len(<< >>) = 0
  BY EmptySeq
<1>2. MibsAt(<< >>) = {}
  <2>1. MibsAt(<< >>) \subseteq 1 .. Len(<< >>)
    BY <1>1, MibsAtType
  <2>2. \A j \in 1 .. 0 : FALSE
    OBVIOUS
  <2> QED
    BY <1>1, <2>1, <2>2
<1>3. Cardinality(MibsAt(<< >>)) = 0
  BY <1>2, FS_EmptySet
<1> QED
  BY <1>1, <1>2, <1>3, MibsOfOnly

LEMMA MibsAppendRrc ==
  ASSUME NEW s \in Seq(Message), NEW msg \in Message, msg.type = "RRC"
  PROVE  MibsOf(Append(s, msg)) = MibsOf(s)
<1> DEFINE r == Append(s, msg)
           n == Len(s)
<1>1. /\ r \in Seq(Message) /\ n \in Nat /\ Len(r) = n + 1 /\ r[n + 1] = msg
      /\ DOMAIN s = 1 .. n /\ DOMAIN r = 1 .. n + 1 /\ \A j \in 1 .. n : r[j] = s[j]
  OBVIOUS
<1> HIDE DEF r, n
<1>2. MibsAt(r) = MibsAt(s)
  BY <1>1 DEF MibsAt
<1>3. \A j \in MibsAt(s) : r[j] = s[j]
  BY <1>1 DEF MibsAt
<1>4. MibsOf(s) = MibsOf(r)
  BY <1>1, <1>2, <1>3, MibsOfIs, MibsOfOnly
<1> QED
  BY <1>4 DEF r

LEMMA MibsAppendMib ==
  ASSUME NEW s \in Seq(Message), NEW sfn \in Frames
  PROVE  MibsOf(Append(s, Mib(sfn))) = Append(MibsOf(s), sfn)
<1> DEFINE r == Append(s, Mib(sfn))
           n == Len(s)
           S == MibsAt(s)
           m == MibsOf(s)
           c == Cardinality(S)
<1>1. /\ r \in Seq(Message) /\ n \in Nat /\ Len(r) = n + 1 /\ r[n + 1] = Mib(sfn)
      /\ DOMAIN s = 1 .. n /\ DOMAIN r = 1 .. n + 1 /\ \A j \in 1 .. n : r[j] = s[j]
  BY MessageType
<1>2. S \subseteq 1 .. n /\ S \subseteq Nat /\ IsFiniteSet(S) /\ c \in Nat
  BY MibsAtType
<1>3. m \in Seq(Frames) /\ Len(m) = c /\ \A j \in S : m[Rank(S, j)] = s[j].sfn
  BY MibsOfIs
<1> HIDE DEF r, n
<1>4. Mib(sfn).type = "MIB" /\ Mib(sfn).sfn = sfn
  BY DEF Mib
<1>5. MibsAt(r) = S \cup {n + 1} /\ n + 1 \notin S
  BY <1>1, <1>2, <1>4 DEF MibsAt
<1> HIDE DEF S, m
<1>6. Cardinality(S \cup {n + 1}) = c + 1 /\ IsFiniteSet(S \cup {n + 1})
  BY <1>2, <1>5, FS_AddElement
<1>7. ASSUME NEW j \in S
      PROVE  Rank(S \cup {n + 1}, j) = Rank(S, j) /\ Rank(S, j) \in 1 .. c
  <2>1. ~(n + 1 <= j)
    BY <1>1, <1>2
  <2>2. Upto(S \cup {n + 1}, j) = Upto(S, j)
    BY <2>1 DEF Upto
  <2>3. Rank(S, j) \in 1 .. c
    BY <1>2, RankOfMember
  <2>4. Rank(S \cup {n + 1}, j) = Rank(S, j)
    BY <2>2 DEF Rank
  <2> QED
    BY <2>3, <2>4
<1>8. Rank(S \cup {n + 1}, n + 1) = c + 1
  <2>1. \A j \in S \cup {n + 1} : j <= n + 1
    BY <1>1, <1>2
  <2>2. Upto(S \cup {n + 1}, n + 1) = S \cup {n + 1}
    BY <2>1 DEF Upto
  <2> QED
    BY <1>6, <2>2 DEF Rank
<1> DEFINE q == Append(m, sfn)
<1> HIDE DEF c
<1>9. /\ q \in Seq(Frames) /\ Len(q) = c + 1 /\ q[c + 1] = sfn
      /\ \A k \in 1 .. c : q[k] = m[k]
  BY <1>2, <1>3
<1> HIDE DEF q
<1>10. ASSUME NEW j \in MibsAt(r) PROVE q[Rank(MibsAt(r), j)] = r[j].sfn
  <2>1. CASE j = n + 1
    BY <1>1, <1>4, <1>5, <1>8, <1>9, <2>1
  <2>2. CASE j \in S
    BY <1>1, <1>2, <1>3, <1>5, <1>7, <1>9, <2>2
  <2> QED
    BY <1>5, <2>1, <2>2
<1>11. q = MibsOf(r)
  BY <1>1, <1>5, <1>6, <1>9, <1>10, MibsOfOnly
<1> QED
  BY <1>11 DEF q, r, m

\* What is left when the first message has been taken.
LEMMA MibsTail ==
  ASSUME NEW s \in Seq(Message), s # << >>
  PROVE  /\ Head(s).type = "RRC" => MibsOf(Tail(s)) = MibsOf(s)
         /\ Head(s).type = "MIB" => /\ MibsOf(s) # << >> /\ Head(MibsOf(s)) = Head(s).sfn
                                    /\ MibsOf(Tail(s)) = Tail(MibsOf(s))
<1> DEFINE r == Tail(s)
           n == Len(s)
           R == MibsAt(r)
           m == MibsOf(s)
           c == Cardinality(R)
<1>1. /\ n \in Nat \ {0} /\ r \in Seq(Message) /\ Len(r) = n - 1 /\ Head(s) = s[1]
      /\ \A j \in 1 .. n - 1 : r[j] = s[j + 1]
      /\ DOMAIN s = 1 .. n /\ DOMAIN r = 1 .. n - 1
  BY HeadTailProperties
<1>2. R \subseteq 1 .. n - 1 /\ R \subseteq Nat /\ 0 \notin R /\ IsFiniteSet(R) /\ c \in Nat
  BY <1>1, MibsAtType
<1>3. /\ m \in Seq(Frames) /\ Len(m) = Cardinality(MibsAt(s))
      /\ \A j \in MibsAt(s) : m[Rank(MibsAt(s), j)] = s[j].sfn
  BY MibsOfIs
<1>4. /\ IsFiniteSet(Later(R)) /\ Cardinality(Later(R)) = c /\ 1 \notin Later(R)
      /\ \A j \in R : /\ Rank(Later(R), j + 1) = Rank(R, j)
                      /\ Rank(Later(R) \cup {1}, j + 1) = Rank(R, j) + 1
  <2> HIDE DEF R
  <2>1. 1 \notin Later(R)
    BY <1>2 DEF Later
  <2> QED
    BY <1>2, <2>1, LaterCardinality, RankLater
<1> HIDE DEF r, n
<1>5. \A j \in 1 .. n : j = 1 \/ (j - 1 \in 1 .. n - 1 /\ (j - 1) + 1 = j /\ s[j] = r[j - 1])
  BY <1>1
<1>6. \A j \in R : j \in 1 .. n - 1 /\ r[j].type = "MIB" /\ r[j] = s[j + 1] /\ j + 1 \in 1 .. n
  BY <1>1, <1>2 DEF MibsAt
<1>7. Later(R) = {j \in MibsAt(s) : j # 1}
  <2>1. ASSUME NEW j \in MibsAt(s), j # 1 PROVE j \in Later(R)
    <3>1. j \in 1 .. n /\ s[j].type = "MIB"
      BY <1>1 DEF MibsAt
    <3>2. j - 1 \in R /\ j = (j - 1) + 1
      BY <1>1, <1>5, <2>1, <3>1 DEF MibsAt
    <3> QED
      BY <3>2 DEF Later
  <2>2. ASSUME NEW j \in R PROVE j + 1 \in MibsAt(s) /\ j + 1 # 1
    BY <1>1, <1>2, <1>6 DEF MibsAt
  <2> QED
    BY <2>1, <2>2 DEF Later
<1>8. 1 \in 1 .. n
  BY <1>1
<1>9. ASSUME Head(s).type = "RRC" PROVE MibsOf(r) = m
  <2>1. MibsAt(s) = Later(R)
    BY <1>1, <1>7, <1>9 DEF MibsAt
  <2>2. \A j \in R : j + 1 \in MibsAt(s)
    BY <2>1 DEF Later
  <2> HIDE DEF m, R
  <2>3. \A j \in R : m[Rank(R, j)] = r[j].sfn
    BY <1>3, <1>4, <1>6, <2>1, <2>2
  <2> QED
    BY <1>1, <1>3, <1>4, <2>1, <2>3, MibsOfOnly DEF R
<1>10. ASSUME Head(s).type = "MIB"
       PROVE  m # << >> /\ Head(m) = Head(s).sfn /\ MibsOf(r) = Tail(m)
  <2>1. MibsAt(s) = Later(R) \cup {1}
    BY <1>1, <1>7, <1>8, <1>10 DEF MibsAt
  <2>2. \A j \in R : j + 1 \in MibsAt(s)
    BY <2>1 DEF Later
  <2> HIDE DEF m, R
  <2>3. Cardinality(MibsAt(s)) = c + 1
    BY <1>4, <2>1, FS_AddElement
  <2>4. Rank(MibsAt(s), 1) = 1
    <3>1. \A j \in Later(R) : ~(j <= 1)
      BY <1>2, <1>6 DEF Later
    <3>2. Upto(Later(R) \cup {1}, 1) = {1}
      BY <3>1 DEF Upto
    <3> QED
      BY <2>1, <3>2, FS_Singleton DEF Rank
  <2> HIDE DEF c
  <2>5. Len(m) = c + 1 /\ c \in Nat /\ m[1] = s[1].sfn
    BY <1>2, <1>3, <2>1, <2>3, <2>4
  <2>6. /\ m # << >> /\ Head(m) = m[1] /\ Tail(m) \in Seq(Frames) /\ Len(Tail(m)) = c
        /\ \A k \in 1 .. c : Tail(m)[k] = m[k + 1]
    BY <1>3, <2>5, HeadTailProperties
  <2>7. ASSUME NEW j \in R PROVE Tail(m)[Rank(R, j)] = r[j].sfn
    <3>1. m[Rank(R, j) + 1] = s[j + 1].sfn
      BY <1>3, <1>4, <2>1, <2>2
    <3>2. Rank(R, j) \in 1 .. c
      BY <1>2, RankOfMember DEF c
    <3> QED
      BY <1>6, <2>6, <3>1, <3>2
  <2>8. Tail(m) = MibsOf(r)
    BY <1>1, <2>6, <2>7, MibsOfOnly DEF R, c
  <2> QED
    BY <1>1, <2>5, <2>6, <2>8
<1> QED
  BY <1>9, <1>10 DEF r

-----------------------------------------------------------------------------
(***************************************************************************)
(* Exercise 4's loops implement exercise 3's                               *)
(***************************************************************************)
Seen(u) == [u EXCEPT !.pc = IF @ = "mib" THEN "receive" ELSE "sleep"]

LEMMA SeenIs ==
  ASSUME NEW u \in UeState
  PROVE  Seen(u) = [pc |-> IF u.pc = "mib" THEN "receive" ELSE "sleep", time |-> u.time,
                    sfn |-> u.sfn, state |-> u.state]
  BY DEF Seen, UeState

LEMMA LockstepStart ==
  ASSUME Init
  PROVE  Lockstep!Init
<1>1. /\ gnb = [time |-> 0, sfn |-> 0] /\ udp = << >> /\ ahead = 0 /\ lost = 0
      /\ ue = [pc |-> "sleep", time |-> 0, sfn |-> 0, state |-> "ASYNC"]
  BY DEF Init
<1>2. [ue EXCEPT !.pc = IF @ = "mib" THEN "receive" ELSE "sleep"]
        = [pc |-> "sleep", time |-> 0, sfn |-> 0, state |-> "ASYNC"]
  BY <1>1
<1>3. MibsOf(udp) = << >>
  BY <1>1, NoMibs
<1> QED
  BY <1>1, <1>2, <1>3 DEF Lockstep!Init

LEMMA GnbRoundRefines ==
  ASSUME LoopInvariant, LoopInvariant', lost = 0, MaxLost = 0, GnbRound
  PROVE  Lockstep!GnbRound
<1>1. /\ udp \in Seq(Message) /\ udp' \in Seq(Message) /\ gnb'.sfn \in Frames
      /\ ahead \in Int
  BY DEF LoopInvariant, LoopTypes, GnbState
<1>2. /\ ahead < MaxAhead /\ gnb' = after_sleep(gnb) /\ ahead' = ahead + 1 /\ ue' = ue
      /\ \/ gnb'.time % MibMs = 0 /\ udp' = Append(udp, Mib(gnb'.sfn)) /\ lost' = lost
         \/ gnb'.time % MibMs # 0 /\ udp' = udp /\ lost' = lost
  <2>1. ~(lost < MaxLost)
    OBVIOUS
  <2> QED
    BY <2>1 DEF GnbRound, send_mib, sendto, Count
<1>3. \A sfn \in Frames : MibsOf(Append(udp, Mib(sfn))) = Append(MibsOf(udp), sfn)
  BY <1>1, MibsAppendMib
<1>4. PICK sfn \in Frames : sfn = gnb'.sfn
  BY <1>1
<1>5. \/ gnb'.time % MibMs = 0 /\ MibsOf(udp') = Append(MibsOf(udp), gnb'.sfn)
      \/ gnb'.time % MibMs # 0 /\ udp' = udp
  BY <1>2, <1>3, <1>4
<1>6. gnb' = Lockstep!after_sleep(gnb)
  BY <1>2 DEF after_sleep, increase_sfn, Lockstep!after_sleep, Lockstep!increase_sfn
<1>7. ahead < MaxAhead + Lockstep!MibFrames * lost
  <2>1. MibMs \div 10 \in Int /\ MaxAhead \in Nat
    BY PagingLockstepAssumption
  <2> QED
    BY <1>1, <1>2, <2>1 DEF Lockstep!MibFrames
<1> QED
  BY <1>2, <1>5, <1>6, <1>7 DEF Lockstep!GnbRound, Lockstep!send_mib

LEMMA AfterSleepRecord ==
  ASSUME NEW u \in UeState
  PROVE  after_sleep(u) =
           [pc |-> u.pc, time |-> (u.time + 10) % TimeModulus,
            sfn |-> IF ((u.time + 10) % TimeModulus) % 10 = 0
                      THEN increase_sfn(u.sfn) ELSE u.sfn,
            state |-> u.state]
<1> DEFINE time == (u.time + 10) % TimeModulus
           sfn == IF time % 10 = 0 THEN increase_sfn(u.sfn) ELSE u.sfn
<1>1. u = [pc |-> u.pc, time |-> u.time, sfn |-> u.sfn, state |-> u.state]
  BY DEF UeState
<1>2. after_sleep(u) = [u EXCEPT !.time = time, !.sfn = sfn]
  BY DEF after_sleep
<1> HIDE DEF time, sfn
<1>3. after_sleep(u) = [pc |-> u.pc, time |-> time, sfn |-> sfn, state |-> u.state]
  BY <1>1, <1>2
<1> QED
  BY <1>3 DEF time, sfn

LEMMA UeRoundRefines ==
  ASSUME LoopInvariant, LoopInvariant', lost = 0, UeRound
  PROVE  Lockstep!UeRound
<1> DEFINE sp == after_sleep(ue)
           seen == [ue EXCEPT !.pc = IF @ = "mib" THEN "receive" ELSE "sleep"]
           pc == IF sp.time % MibMs = 0 THEN "mib"
                 ELSE IF ue_paging_frame(sp) THEN "rrc" ELSE "sleep"
<1>1. ue \in UeState
  BY DEF LoopInvariant, LoopTypes
<1>2. /\ ue.pc = "sleep" /\ ahead' = ahead - 1 /\ UNCHANGED <<gnb, udp, lost>>
      /\ ue' = [sp EXCEPT !.pc = pc]
  BY DEF UeRound, Count
<1>3. seen = ue
  BY <1>1, <1>2 DEF UeState
<1>4. sp = Lockstep!after_sleep(ue)
  BY DEF after_sleep, increase_sfn, Lockstep!after_sleep, Lockstep!increase_sfn
<1>5. PICK time, sfn, state :
        sp = [pc |-> "sleep", time |-> time, sfn |-> sfn, state |-> state]
  BY <1>1, <1>2, AfterSleepRecord
<1> HIDE DEF sp, pc
<1>6. ue' = [pc |-> pc, time |-> time, sfn |-> sfn, state |-> state]
  BY <1>2, <1>5
<1>7. [ue' EXCEPT !.pc = IF @ = "mib" THEN "receive" ELSE "sleep"]
        = [sp EXCEPT !.pc = IF pc = "mib" THEN "receive" ELSE "sleep"]
  BY <1>5, <1>6
<1>8. pc = "mib" <=> Lockstep!mib_expected(sp)
  BY DEF pc, Lockstep!mib_expected
<1>9. [ue' EXCEPT !.pc = IF @ = "mib" THEN "receive" ELSE "sleep"]
        = [sp EXCEPT !.pc = IF Lockstep!mib_expected(sp) THEN "receive" ELSE "sleep"]
  BY <1>7, <1>8
<1>10. MibsOf(udp') = MibsOf(udp)
  BY <1>2
<1> HIDE DEF seen
<1>11. seen = [ue EXCEPT !.pc = IF @ = "mib" THEN "receive" ELSE "sleep"]
  BY DEF seen
<1> QED
  BY <1>2, <1>3, <1>4, <1>9, <1>10, <1>11 DEF Lockstep!UeRound

LEMMA UeSyncRefines ==
  ASSUME LoopInvariant, lost = 0, UeSync
  PROVE  Lockstep!UeSync
<1>1. ue \in UeState /\ udp \in Seq(Message)
  BY DEF LoopInvariant, LoopTypes
<1>2. PICK sfn \in Frames :
        /\ udp # << >> /\ sfn = sfn_value(Head(udp)) /\ udp' = Tail(udp)
        /\ LET sp == [ue EXCEPT !.state = "SYNC",
                                !.sfn = IF update_due(ue) THEN sfn ELSE @]
           IN  ue' = [sp EXCEPT !.pc = IF ue_paging_frame(sp) THEN "rrc" ELSE "sleep"]
  BY DEF UeSync, receive_mib, Frames
<1>3. ue.pc = "mib" /\ UNCHANGED <<gnb, ahead, lost>>
  BY DEF UeSync
<1>4. Head(udp).type = "MIB"
  <2>1. Head(udp) \in Message
    BY <1>1, <1>2, HeadTailProperties
  <2>2. Head(udp).type # "RRC"
    BY <1>2, <1>3, TakesTheRight DEF NeverMistaken, Mistaken
  <2> QED
    BY <2>1, <2>2 DEF Message
<1>5. /\ MibsOf(udp) # << >> /\ sfn = Head(MibsOf(udp))
      /\ MibsOf(udp') = Tail(MibsOf(udp))
  BY <1>1, <1>2, <1>4, MibsTail DEF sfn_value
<1> DEFINE seen == [ue EXCEPT !.pc = IF @ = "mib" THEN "receive" ELSE "sleep"]
           new == IF update_due(ue) THEN sfn ELSE ue.sfn
<1>6. ue = [pc |-> "mib", time |-> ue.time, sfn |-> ue.sfn, state |-> ue.state]
  BY <1>1, <1>3 DEF UeState
<1>7. PICK pc \in {"rrc", "sleep"} :
        ue' = [pc |-> pc, time |-> ue.time, sfn |-> new, state |-> "SYNC"]
  BY <1>2, <1>6
<1>8. [ue' EXCEPT !.pc = IF @ = "mib" THEN "receive" ELSE "sleep"]
        = [pc |-> "sleep", time |-> ue.time, sfn |-> new, state |-> "SYNC"]
  BY <1>7
<1>9. seen = [pc |-> "receive", time |-> ue.time, sfn |-> ue.sfn, state |-> ue.state]
  BY <1>6
<1>10. update_due(ue) <=> Lockstep!update_due(seen)
  BY <1>9 DEF update_due, Lockstep!update_due
<1>11. [seen EXCEPT !.pc = "sleep", !.state = "SYNC",
                    !.sfn = IF Lockstep!update_due(seen) THEN sfn ELSE @]
         = [pc |-> "sleep", time |-> ue.time, sfn |-> new, state |-> "SYNC"]
  <2>1. (IF Lockstep!update_due(seen) THEN sfn ELSE seen.sfn) = new
    BY <1>9, <1>10
  <2> HIDE DEF new, seen
  <2>2. [seen EXCEPT !.pc = "sleep", !.state = "SYNC", !.sfn = new]
          = [pc |-> "sleep", time |-> ue.time, sfn |-> new, state |-> "SYNC"]
    <3>1. PICK r : r = [seen EXCEPT !.pc = "sleep", !.state = "SYNC", !.sfn = new]
      OBVIOUS
    <3>2. r = [pc |-> "sleep", time |-> ue.time, sfn |-> new, state |-> "SYNC"]
      BY <1>9, <3>1
    <3> QED
      BY <3>1, <3>2
  <2> QED
    BY <2>1, <2>2, Zenon
<1>12. seen.pc = "receive"
  BY <1>9
<1> HIDE DEF seen, new
<1>13. seen = [ue EXCEPT !.pc = IF @ = "mib" THEN "receive" ELSE "sleep"]
  BY DEF seen
<1>14. Lockstep!receive_mib(sfn)
  BY <1>5 DEF Lockstep!receive_mib
<1> QED
  BY <1>3, <1>8, <1>11, <1>12, <1>13, <1>14 DEF Lockstep!UeSync, Frames

\* The rest of paging changes nothing that exercise 3 has.
LEMMA RrcApart ==
  ASSUME PagingTypes, LoopInvariant, lost = 0, MaxLost = 0,
         SendEmpty \/ SendRrc \/ receive_rrc
  PROVE  UNCHANGED Lockstep!vars
<1>1. ue \in UeState /\ udp \in Seq(Message)
  BY DEF LoopInvariant, LoopTypes
<1>2. CASE SendEmpty \/ SendRrc
  <2>1. PICK n \in 0 .. MaxNgap : send_rrc(n) /\ UNCHANGED <<gnb, ue, ahead>>
    <3>1. 0 \in 0 .. MaxNgap /\ main.rrc \in 0 .. MaxNgap
      BY PagingBounds DEF PagingTypes
    <3> QED
      BY <1>2, <3>1 DEF SendEmpty, SendRrc
  <2>2. udp' = Append(udp, Rrc(n)) /\ lost' = lost
    <3>1. ~(lost < MaxLost)
      OBVIOUS
    <3> QED
      BY <2>1, <3>1 DEF send_rrc, sendto
  <2>3. MibsOf(udp') = MibsOf(udp)
    BY <1>1, <2>2, MessageType, MibsAppendRrc
  <2> QED
    BY <2>1, <2>2, <2>3 DEF Lockstep!vars
<1>3. CASE receive_rrc
  <2>1. /\ ue.pc = "rrc" /\ udp # << >> /\ udp' = Tail(udp)
        /\ ue' = [ue EXCEPT !.pc = "sleep"] /\ UNCHANGED <<gnb, ahead, lost>>
    BY <1>3 DEF receive_rrc
  <2>2. Head(udp).type = "RRC"
    <3>1. Head(udp) \in Message
      BY <1>1, <2>1, HeadTailProperties
    <3>2. Head(udp).type # "MIB"
      BY <2>1, TakesTheRight DEF NeverMistaken, Mistaken
    <3> QED
      BY <3>1, <3>2 DEF Message
  <2>3. MibsOf(udp') = MibsOf(udp)
    BY <1>1, <2>1, <2>2, MibsTail
  <2>4. [ue' EXCEPT !.pc = IF @ = "mib" THEN "receive" ELSE "sleep"]
          = [ue EXCEPT !.pc = IF @ = "mib" THEN "receive" ELSE "sleep"]
    <3>1. ue = [pc |-> "rrc", time |-> ue.time, sfn |-> ue.sfn, state |-> ue.state]
      BY <1>1, <2>1 DEF UeState
    <3> QED
      BY <2>1, <3>1
  <2> QED
    BY <2>1, <2>3, <2>4 DEF Lockstep!vars
<1> QED
  BY <1>2, <1>3

\* When no message is lost, exercise 4's loops are exercise 3's, with the RRCs left out
\* of the socket: whatever the AMF, the listener and paging do, the UE takes the MIBs
\* and counts the frames as it does without them.
THEOREM PagingImplementsLockstep ==
  ASSUME MaxLost = 0
  PROVE  Spec => ImplementsLockstep
<1>1. Init => Lockstep!Init
  BY LockstepStart
<1>2. Spec => [](lost = 0)
  <2>1. Init => lost = 0
    BY DEF Init
  <2>2. lost = 0 /\ [Next]_vars => (lost = 0)'
    <3>1. SUFFICES ASSUME lost = 0, [Next]_vars PROVE lost' = 0
      OBVIOUS
    <3>2. ~(lost < MaxLost)
      BY <3>1
    <3> QED
      BY <3>1, <3>2
         DEF Next, vars, syncVars, Amf, AmfSend, AmfClose, Listener, Receive, ReceiveNothing,
             WriteNgap, Announce, Gnb, MainStart, GnbRound, SendEmpty, BeginCopy, EndCopy,
             SendRrc, Ue, UeRound, UeSync, receive_rrc, send_mib, send_rrc, sendto
  <2> QED
    BY <2>1, <2>2, PTL DEF Spec
<1>3. /\ PagingInvariant /\ LoopInvariant /\ LoopInvariant' /\ lost = 0 /\ [Next]_vars
      => [Lockstep!Next]_(Lockstep!vars)
  <2>1. SUFFICES ASSUME PagingInvariant, LoopInvariant, LoopInvariant', lost = 0,
                        [Next]_vars
                 PROVE  Lockstep!Next \/ UNCHANGED Lockstep!vars
    OBVIOUS
  <2>2. CASE GnbRound
    BY <2>1, <2>2, GnbRoundRefines DEF Lockstep!Next
  <2>3. CASE UeRound
    BY <2>1, <2>3, UeRoundRefines DEF Lockstep!Next
  <2>4. CASE UeSync
    BY <2>1, <2>4, UeSyncRefines DEF Lockstep!Next
  <2>5. CASE SendEmpty \/ SendRrc \/ receive_rrc
    BY <2>1, <2>5, RrcApart DEF PagingInvariant
  <2>6. CASE UNCHANGED syncVars
    BY <2>6 DEF syncVars, Lockstep!vars
  <2>7. Amf \/ Listener \/ MainStart \/ BeginCopy \/ EndCopy \/ UNCHANGED vars
          => UNCHANGED syncVars
    BY DEF Amf, AmfSend, AmfClose, Listener, Receive, ReceiveNothing, WriteNgap, Announce,
           MainStart, BeginCopy, EndCopy, vars
  <2> QED
    BY <2>1, <2>2, <2>3, <2>4, <2>5, <2>6, <2>7 DEF Next, Gnb, Ue
<1> QED
  BY <1>1, <1>2, <1>3, PagingInvariance, LoopInvariance, PTL
     DEF Spec, ImplementsLockstep, Lockstep!Spec
=============================================================================
