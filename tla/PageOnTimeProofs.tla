--------------------------- MODULE PageOnTimeProofs ---------------------------
(***************************************************************************)
(* Why the UE's clock stays near the gNB's, and why a page is called       *)
(* CORRECT in its own subframe and in no other, for all values of the      *)
(* constants.                                                              *)
(*                                                                         *)
(* The distance of the two clocks is followed exactly: since the last MIB  *)
(* was applied it is the drift of the timers, plus the extra ticks made,   *)
(* less the age that the MIB had.  The extra ticks are counted together    *)
(* with those the UE still owes: a MIB that is applied leaves at most      *)
(* three of them, and no step adds one without giving up one that was      *)
(* owed.                                                                   *)
(***************************************************************************)
EXTENDS PageOnTime, PagingOccasionProofs, SequenceTheorems

-----------------------------------------------------------------------------
(* Distances of two clock readings                                         *)

\* `now` is t subframes past `past` (before it, when negative), round the period.
ShiftedBy(now, past, t) == Slot(now) - Slot(past) \in {t, t - Hyper, t + Hyper}

Near(t) == t \in Int /\ -Hyper < t /\ t < Hyper

LEMMA TickNow ==
  ASSUME NEW now \in Clock, NEW past \in Clock, NEW t, Near(t), ShiftedBy(now, past, t)
  PROVE  ShiftedBy(tick(now), past, t + 1)
<1>1. Slot(now) \in 0 .. Hyper - 1 /\ Slot(past) \in 0 .. Hyper - 1
  BY SlotType
<1> QED
  BY <1>1, TickSlot, HyperType DEF ShiftedBy, Near

LEMMA TickPast ==
  ASSUME NEW now \in Clock, NEW past \in Clock, NEW t, Near(t), ShiftedBy(now, past, t)
  PROVE  ShiftedBy(now, tick(past), t - 1)
<1>1. Slot(now) \in 0 .. Hyper - 1 /\ Slot(past) \in 0 .. Hyper - 1
  BY SlotType
<1> QED
  BY <1>1, TickSlot, HyperType DEF ShiftedBy, Near

\* A reading that the gNB's clock left behind, as far as the UE's clock is from it.
LEMMA ShiftedByLag ==
  ASSUME NEW now \in Clock, NEW past \in Clock
  PROVE  ShiftedBy(past, now, -Lag(now, past))
<1>1. Slot(now) \in 0 .. Hyper - 1 /\ Slot(past) \in 0 .. Hyper - 1
  BY SlotType
<1> QED
  BY <1>1, HyperType DEF ShiftedBy, Lag

\* Distances add up, as long as they are shorter than a period.
LEMMA ShiftedFurther ==
  ASSUME NEW ue \in Clock, NEW gnb \in Clock, NEW page \in Clock,
         NEW t, ShiftedBy(ue, gnb, t), Near(t + Lag(gnb, page)), t \in Int
  PROVE  ShiftedBy(ue, page, t + Lag(gnb, page))
<1>1. /\ Slot(ue) \in 0 .. Hyper - 1 /\ Slot(gnb) \in 0 .. Hyper - 1
      /\ Slot(page) \in 0 .. Hyper - 1
  BY SlotType
<1> QED
  BY <1>1, HyperType DEF ShiftedBy, Near, Lag

\* The distance modulo the period, the way Skew and Offset take it.
Centred(d) ==
  IF d % Hyper > Hyper \div 2 THEN (d % Hyper) - Hyper ELSE d % Hyper

LEMMA Remainder ==
  ASSUME NEW d \in Int, -Hyper < d, d < Hyper
  PROVE  d % Hyper = IF d >= 0 THEN d ELSE d + Hyper
<1> DEFINE h == Hyper
<1>1. h \in Nat \ {0}
  BY HyperType
<1> HIDE DEF h
<1>2. ASSUME NEW e \in Int, -h < e, e < h PROVE e % h = IF e >= 0 THEN e ELSE e + h
  BY <1>1, <1>2, SMT
<1> QED
  BY <1>2 DEF h

LEMMA CentredShift ==
  ASSUME NEW now \in Clock, NEW past \in Clock, NEW t \in Int,
         ShiftedBy(now, past, t), -Hyper < 2 * t, 2 * t <= Hyper
  PROVE  Centred(Slot(now) - Slot(past)) = t
<1> DEFINE d == Slot(now) - Slot(past)
<1>1. Slot(now) \in 0 .. Hyper - 1 /\ Slot(past) \in 0 .. Hyper - 1
  BY SlotType
<1>2. d \in Int /\ -Hyper < d /\ d < Hyper /\ d \in {t, t - Hyper, t + Hyper}
  BY <1>1, HyperType DEF ShiftedBy
<1>3. d % Hyper = IF d >= 0 THEN d ELSE d + Hyper
  BY <1>2, Remainder
<1>4. /\ Hyper \div 2 \in Nat
      /\ Hyper = 2 * (Hyper \div 2) \/ Hyper = 2 * (Hyper \div 2) + 1
  BY HyperType, Division
<1> HIDE DEF d
<1>5. Centred(d) = t
  BY <1>2, <1>3, <1>4, HyperType DEF Centred
<1> QED
  BY <1>5 DEF d

-----------------------------------------------------------------------------
(* The invariant of the synchronisation                                    *)

FrameStart(sfn) == [sfn |-> sfn, sf |-> 0]

\* A frame that is read and not applied yet began at most MibDelay ago.
Fresh == \A sfn \in InFlight : Lag(gnbClk, FrameStart(sfn)) <= MibDelay

\* Only clock_thread takes the flag down, so it is up while the thread goes by it.
Seen == timer.pc = "clear" => just

\* The extra ticks that are still to come for the MIBs that were received.
Owed == (IF rx.pc = "flag" THEN 1 ELSE 0)
          + (IF just \/ timer.pc = "again" THEN 1 ELSE 0)
          + (IF timer.pc = "extra" THEN 1 ELSE 0)

\* The UE's clock is past the gNB's by the drift and the extra ticks since the last
\* correction, less the age that the MIB had then.
Followed ==
  synced => \E age \in 0 .. MibDelay, extra \in 0 .. 3 :
              /\ extra + Owed <= 3
              /\ ShiftedBy(ueClk, gnbClk, lead + extra - age)

SyncInvariant == TypeOK /\ Fresh /\ Seen /\ Followed

-----------------------------------------------------------------------------
LEMMA Bounds ==
  /\ MibDelay \in Nat /\ Jitter \in Nat /\ SocketSize \in Nat \ {0}
  /\ Hyper \in Nat \ {0}
  /\ 2 * (MibDelay + Jitter) < Hyper /\ 2 * (Jitter + 3) <= Hyper
  BY SyncAssumption, ShortDelays, HyperType

LEMMA SmallShift ==
  ASSUME NEW d \in -Jitter .. Jitter, NEW extra \in 0 .. 3, NEW age \in 0 .. MibDelay
  PROVE  /\ Near(d + extra - age) /\ d + extra - age \in Int
         /\ -Hyper < 2 * (d + extra - age) /\ 2 * (d + extra - age) <= Hyper
  BY Bounds DEF Near

LEMMA FrameStartType ==
  ASSUME NEW sfn \in 0 .. SfnPeriod - 1
  PROVE  FrameStart(sfn) \in Clock
<1>1. 0 \in 0 .. SubFrames - 1
  BY FrameClockAssumption
<1> QED
  BY <1>1, Zenon DEF FrameStart, Clock

LEMMA InitClockType == InitClock \in Clock
<1>1. 0 \in 0 .. SubFrames - 1 /\ 0 \in 0 .. SfnPeriod - 1
  BY FrameClockAssumption
<1> QED
  BY <1>1, Zenon DEF InitClock, Clock

\* What the socket holds, taken element by element.
LEMMA SocketElements ==
  ASSUME TypeOK, NEW j \in DOMAIN socket
  PROVE  socket[j] \in 0 .. SfnPeriod - 1 /\ socket[j] \in InFlight
<1>1. j \in 1 .. Len(socket) /\ socket \in Seq(0 .. SfnPeriod - 1)
  BY DEF TypeOK
<1>2. socket[j] \in 0 .. SfnPeriod - 1
  BY <1>1, ElementOfSeq
<1> QED
  BY <1>2 DEF InFlight

LEMMA InFlightType ==
  ASSUME TypeOK
  PROVE  InFlight \subseteq 0 .. SfnPeriod - 1
<1>1. caster.sfn \in 0 .. SfnPeriod - 1 /\ rx.sfn \in 0 .. SfnPeriod - 1
  BY DEF TypeOK
<1> QED
  BY <1>1, SocketElements DEF InFlight

-----------------------------------------------------------------------------
LEMMA SyncStart ==
  ASSUME Init
  PROVE  SyncInvariant
<1> USE DEF Init
<1>1. 0 \in 0 .. SfnPeriod - 1 /\ Len(socket) <= SocketSize /\ lead \in -Jitter .. Jitter
  BY Bounds, FrameClockAssumption
<1>2. caster \in [pc : {"read", "send"}, sfn : 0 .. SfnPeriod - 1]
  BY <1>1, Zenon
<1>3. rx \in [pc : {"receive", "update", "flag"}, sfn : 0 .. SfnPeriod - 1]
  BY <1>1, Zenon
<1>4. timer \in [pc : {"tick", "check", "clear", "again", "extra"}, increased : BOOLEAN]
  BY Zenon
<1>5. socket \in Seq(0 .. SfnPeriod - 1)
  OBVIOUS
<1>6. TypeOK
  BY <1>1, <1>2, <1>3, <1>4, <1>5, Zenon DEF TypeOK
<1>7. InFlight = {}
  BY DEF InFlight
<1> QED
  BY <1>6, <1>7 DEF SyncInvariant, Fresh, Seen, Followed

\* The gNB's clock: nothing gets older than it may, and the distance shrinks.
LEMMA GnbTickStep ==
  ASSUME SyncInvariant, GnbTick
  PROVE  SyncInvariant'
<1> USE DEF SyncInvariant
<1>1. /\ gnbClk' = tick(gnbClk) /\ lead' = lead - 1 /\ lead > -Jitter
      /\ UNCHANGED <<caster, socket, ueClk, state, just, rx, timer, synced>>
      /\ InFlight' = InFlight /\ Owed' = Owed
  BY DEF GnbTick, ueVars, InFlight, Owed
<1>2. gnbClk \in Clock /\ ueClk \in Clock /\ lead \in -Jitter .. Jitter
  BY DEF TypeOK
<1>3. TypeOK'
  <2>1. gnbClk' \in Clock
    BY <1>1, <1>2, TickType
  <2>2. lead' \in -Jitter .. Jitter
    BY <1>1, <1>2, Bounds
  <2> QED
    BY <1>1, <2>1, <2>2, Zenon DEF TypeOK
<1>4. Fresh'
  <2>1. SUFFICES ASSUME NEW sfn \in InFlight
                 PROVE  Lag(tick(gnbClk), FrameStart(sfn)) <= MibDelay
    BY <1>1 DEF Fresh
  <2>2. sfn \in 0 .. SfnPeriod - 1
    BY InFlightType
  <2>3. FrameStart(sfn) \in Clock
    BY <2>2, FrameStartType
  <2>4. Lag(gnbClk, FrameStart(sfn)) < MibDelay
    BY DEF GnbTick, FrameStart
  <2>5. Lag(gnbClk, FrameStart(sfn)) \in 0 .. Hyper - 1
    BY <1>2, <2>3, LagType
  <2>6. \/ Lag(tick(gnbClk), FrameStart(sfn)) = 0
        \/ Lag(tick(gnbClk), FrameStart(sfn)) = Lag(gnbClk, FrameStart(sfn)) + 1
    BY <1>2, <2>3, TickLag
  <2> QED
    BY <2>4, <2>5, <2>6, Bounds
<1>5. Seen'
  BY <1>1 DEF Seen
<1>6. Followed'
  <2>1. SUFFICES ASSUME synced
                 PROVE  \E age \in 0 .. MibDelay, extra \in 0 .. 3 :
                          /\ extra + Owed <= 3
                          /\ ShiftedBy(ueClk, tick(gnbClk), lead - 1 + extra - age)
    BY <1>1 DEF Followed, ShiftedBy
  <2>2. PICK age \in 0 .. MibDelay, extra \in 0 .. 3 :
          extra + Owed <= 3 /\ ShiftedBy(ueClk, gnbClk, lead + extra - age)
    BY <2>1 DEF Followed
  <2>3. Near(lead + extra - age)
    BY <1>2, SmallShift
  <2>4. ShiftedBy(ueClk, tick(gnbClk), lead + extra - age - 1)
    BY <1>2, <2>2, <2>3, TickPast
  <2>5. lead + extra - age - 1 = lead - 1 + extra - age
    BY <1>2
  <2>6. ShiftedBy(ueClk, tick(gnbClk), lead - 1 + extra - age)
    BY <2>4, <2>5
  <2> QED
    BY <2>2, <2>6
<1> QED
  BY <1>3, <1>4, <1>5, <1>6

\* The broadcaster: a frame that is read is as old as the clock says, namely new.
LEMMA CasterStep ==
  ASSUME SyncInvariant, broadcast_mib_thread
  PROVE  SyncInvariant'
<1> USE DEF SyncInvariant
<1>1. /\ UNCHANGED <<gnbClk, lead, ueClk, state, just, rx, timer, synced>>
      /\ Owed' = Owed
  BY DEF broadcast_mib_thread, CasterRead, send_mib, ueVars, Owed
<1>2. gnbClk \in Clock /\ gnbClk.sfn \in 0 .. SfnPeriod - 1
  BY DEF TypeOK, Clock
<1>3. Seen' /\ Followed'
  BY <1>1 DEF Seen, Followed, ShiftedBy
<1>4. CASE CasterRead
  <2>1. /\ caster' = [pc |-> "send", sfn |-> gnbClk.sfn] /\ gnbClk.sf = 0
        /\ socket' = socket
    BY <1>4 DEF CasterRead, mib_due
  <2>2. TypeOK'
    <3>1. [pc |-> "send", sfn |-> gnbClk.sfn] \in [pc : {"read", "send"}, sfn : 0 .. SfnPeriod - 1]
      BY <1>2, Zenon
    <3> QED
      BY <1>1, <2>1, <3>1, Zenon DEF TypeOK
  <2>3. InFlight' \subseteq InFlight \cup {gnbClk.sfn}
    BY <1>1, <2>1 DEF InFlight
  <2>4. FrameStart(gnbClk.sfn) = gnbClk
    BY <1>2, <2>1 DEF FrameStart, Clock
  <2>5. Lag(gnbClk, FrameStart(gnbClk.sfn)) <= MibDelay
    BY <1>2, <2>4, TickLag, Bounds
  <2>6. Fresh'
    BY <1>1, <2>3, <2>5 DEF Fresh
  <2> QED
    BY <1>3, <2>2, <2>6
<1>5. CASE send_mib
  <2>1. /\ caster.pc = "send"
        /\ socket' = IF Len(socket) < SocketSize THEN Append(socket, caster.sfn) ELSE socket
        /\ caster' = [caster EXCEPT !.pc = "read", !.sfn = 0]
    BY <1>5 DEF send_mib
  <2>2. caster \in [pc : {"read", "send"}, sfn : 0 .. SfnPeriod - 1]
    BY DEF TypeOK
  <2>3. caster' = [pc |-> "read", sfn |-> 0]
    BY <2>1, <2>2
  <2>4. caster' \in [pc : {"read", "send"}, sfn : 0 .. SfnPeriod - 1]
    <3>1. 0 \in 0 .. SfnPeriod - 1
      BY FrameClockAssumption
    <3> QED
      BY <2>3, <3>1, Zenon
  <2>5. caster.sfn \in InFlight /\ caster.sfn \in 0 .. SfnPeriod - 1
    BY <2>1, <2>2 DEF InFlight
  <2>6. /\ socket \in Seq(0 .. SfnPeriod - 1) /\ Len(socket) \in Nat
        /\ Len(socket) <= SocketSize
    BY DEF TypeOK
  <2>7. CASE Len(socket) < SocketSize
    <3>1. socket' = Append(socket, caster.sfn)
      BY <2>1, <2>7
    <3>2. socket' \in Seq(0 .. SfnPeriod - 1) /\ Len(socket') <= SocketSize
      BY <2>5, <2>6, <2>7, <3>1, Bounds
    <3>3. TypeOK'
      BY <1>1, <2>4, <3>2, Zenon DEF TypeOK
    <3>4. \A j \in DOMAIN socket' : socket'[j] \in InFlight
      <4>1. SUFFICES ASSUME NEW j \in 1 .. Len(socket) + 1
                     PROVE  Append(socket, caster.sfn)[j] \in InFlight
        BY <2>6, <3>1
      <4>2. CASE j = Len(socket) + 1
        BY <2>5, <2>6, <4>2
      <4>3. CASE j \in 1 .. Len(socket)
        <5>1. socket[j] \in InFlight
          BY <2>6, <4>3, SocketElements
        <5> QED
          BY <2>6, <4>3, <5>1
      <4> QED
        BY <2>6, <4>2, <4>3
    <3>5. InFlight' \subseteq InFlight
      BY <1>1, <2>3, <3>4 DEF InFlight
    <3> QED
      BY <1>1, <1>3, <3>3, <3>5 DEF Fresh
  <2>8. CASE ~(Len(socket) < SocketSize)
    <3>1. socket' = socket
      BY <2>1, <2>8
    <3>2. TypeOK'
      BY <1>1, <2>4, <3>1, Zenon DEF TypeOK
    <3>3. InFlight' \subseteq InFlight
      BY <1>1, <2>3, <3>1 DEF InFlight
    <3> QED
      BY <1>1, <1>3, <3>2, <3>3 DEF Fresh
  <2> QED
    BY <2>7, <2>8
<1> QED
  BY <1>4, <1>5 DEF broadcast_mib_thread

\* receive_mib_thread: the frame the clock is set by is as old as it may be; the flag
\* that is raised after it is one more extra tick that is owed.
LEMMA ReceiverStep ==
  ASSUME SyncInvariant, receive_mib_thread
  PROVE  SyncInvariant'
<1> USE DEF SyncInvariant
<1>1. UNCHANGED <<gnbClk, caster, timer>>
  BY DEF receive_mib_thread, receive_mib, UpdateClk, FlagUpdate, gnbVars
<1>2. /\ rx \in [pc : {"receive", "update", "flag"}, sfn : 0 .. SfnPeriod - 1]
      /\ 0 \in 0 .. SfnPeriod - 1
      /\ gnbClk \in Clock /\ ueClk \in Clock
  BY FrameClockAssumption DEF TypeOK
<1>3. CASE receive_mib
  <2>1. /\ socket # << >> /\ socket' = Tail(socket) /\ rx.pc = "receive"
        /\ rx' = [pc |-> "update", sfn |-> Head(socket)]
        /\ UNCHANGED <<lead, ueClk, state, just, synced>>
    BY <1>3 DEF receive_mib
  <2>2. /\ socket \in Seq(0 .. SfnPeriod - 1) /\ Len(socket) \in Nat \ {0}
        /\ Len(socket) <= SocketSize
    BY <2>1 DEF TypeOK
  <2>3. /\ socket' \in Seq(0 .. SfnPeriod - 1) /\ Len(socket') = Len(socket) - 1
        /\ \A j \in 1 .. Len(socket') : socket'[j] = socket[j + 1]
    BY <2>1, <2>2, HeadTailProperties
  <2>4. Head(socket) = socket[1] /\ 1 \in DOMAIN socket
    BY <2>2
  <2>5. Head(socket) \in 0 .. SfnPeriod - 1 /\ Head(socket) \in InFlight
    BY <2>4, SocketElements
  <2>6. TypeOK'
    <3>1. [pc |-> "update", sfn |-> Head(socket)]
            \in [pc : {"receive", "update", "flag"}, sfn : 0 .. SfnPeriod - 1]
      BY <2>5, Zenon
    <3>2. Len(socket') <= SocketSize
      BY <2>2, <2>3, Bounds
    <3> QED
      BY <1>1, <2>1, <2>3, <3>1, <3>2, Zenon DEF TypeOK
  <2>7. InFlight' \subseteq InFlight
    <3>1. \A j \in DOMAIN socket' : socket'[j] \in InFlight
      <4>1. SUFFICES ASSUME NEW j \in 1 .. Len(socket') PROVE socket'[j] \in InFlight
        BY <2>3
      <4>2. j + 1 \in DOMAIN socket
        BY <2>2, <2>3
      <4> QED
        BY <2>3, <4>2, SocketElements
    <3>2. rx'.sfn \in InFlight
      BY <2>1, <2>5
    <3> QED
      BY <1>1, <3>1, <3>2 DEF InFlight
  <2>8. Owed' = Owed
    BY <1>1, <2>1 DEF Owed
  <2> QED
    BY <1>1, <2>1, <2>6, <2>7, <2>8 DEF Fresh, Seen, Followed, ShiftedBy
<1>4. CASE UpdateClk
  <2>1. /\ rx.pc = "update" /\ rx' = [rx EXCEPT !.pc = "flag", !.sfn = 0]
        /\ state' = "ASYNC" /\ ueClk' = FrameStart(rx.sfn) /\ lead' = 0 /\ synced' = TRUE
        /\ UNCHANGED <<socket, just>>
    BY <1>4 DEF UpdateClk, clk_of_mib, FrameStart
  <2>2. rx' = [pc |-> "flag", sfn |-> 0]
    BY <1>2, <2>1
  <2>3. rx.sfn \in InFlight /\ rx.sfn \in 0 .. SfnPeriod - 1
    BY <1>2, <2>1 DEF InFlight
  <2>4. FrameStart(rx.sfn) \in Clock
    BY <2>3, FrameStartType
  <2>5. TypeOK'
    <3>1. [pc |-> "flag", sfn |-> 0]
            \in [pc : {"receive", "update", "flag"}, sfn : 0 .. SfnPeriod - 1]
      BY <1>2, Zenon
    <3>2. lead' \in -Jitter .. Jitter
      BY <2>1, Bounds
    <3> QED
      BY <1>1, <2>1, <2>2, <2>4, <3>1, <3>2, Zenon DEF TypeOK
  <2>6. InFlight' \subseteq InFlight
    BY <1>1, <2>1, <2>2 DEF InFlight
  <2>7. Followed'
    <3> DEFINE age == Lag(gnbClk, FrameStart(rx.sfn))
    <3>1. age \in Nat /\ age <= MibDelay
      BY <1>2, <2>3, <2>4, LagType, Bounds DEF Fresh
    <3>2. ShiftedBy(FrameStart(rx.sfn), gnbClk, -age)
      BY <1>2, <2>4, ShiftedByLag
    <3>3. Owed' <= 3 /\ Owed' \in Nat
      BY DEF Owed
    <3> HIDE DEF age
    <3>4. lead' + 0 - age = -age /\ 0 + Owed' <= 3 /\ age \in 0 .. MibDelay
      BY <2>1, <3>1, <3>3, Bounds
    <3>5. ShiftedBy(ueClk', gnbClk', lead' + 0 - age)
      BY <1>1, <2>1, <3>2, <3>4
    <3>6. \E a \in 0 .. MibDelay, extra \in 0 .. 3 :
            extra + Owed' <= 3 /\ ShiftedBy(ueClk', gnbClk', lead' + extra - a)
      BY <3>4, <3>5
    <3> QED
      BY <3>6 DEF Followed, ShiftedBy
  <2> QED
    BY <1>1, <2>1, <2>5, <2>6, <2>7 DEF Fresh, Seen
<1>5. CASE FlagUpdate
  <2>1. /\ rx.pc = "flag" /\ rx' = [rx EXCEPT !.pc = "receive"]
        /\ state' = "SYNC" /\ just' = TRUE
        /\ UNCHANGED <<lead, socket, ueClk, synced>>
    BY <1>5 DEF FlagUpdate
  <2>2. rx' = [pc |-> "receive", sfn |-> rx.sfn] /\ rx.sfn \in 0 .. SfnPeriod - 1
    BY <1>2, <2>1
  <2>3. TypeOK'
    <3>1. [pc |-> "receive", sfn |-> rx.sfn]
            \in [pc : {"receive", "update", "flag"}, sfn : 0 .. SfnPeriod - 1]
      BY <2>2, Zenon
    <3> QED
      BY <1>1, <2>1, <2>2, <3>1, Zenon DEF TypeOK
  <2>4. InFlight' \subseteq InFlight
    BY <1>1, <2>1, <2>2 DEF InFlight
  <2>5. Owed' <= Owed /\ Owed' \in 0 .. 3 /\ Owed \in 0 .. 3
    BY <1>1, <2>1, <2>2 DEF Owed
  <2>6. Followed'
    <3>1. SUFFICES ASSUME synced
                   PROVE  \E age \in 0 .. MibDelay, extra \in 0 .. 3 :
                            /\ extra + Owed' <= 3
                            /\ ShiftedBy(ueClk, gnbClk, lead + extra - age)
      BY <1>1, <2>1, <2>5 DEF Followed, ShiftedBy
    <3>2. PICK age \in 0 .. MibDelay, extra \in 0 .. 3 :
            extra + Owed <= 3 /\ ShiftedBy(ueClk, gnbClk, lead + extra - age)
      BY <3>1 DEF Followed
    <3>3. \A o, p \in 0 .. 3 : extra + o <= 3 /\ p <= o => extra + p <= 3
      OBVIOUS
    <3>4. extra + Owed' <= 3
      BY <2>5, <3>2, <3>3, Zenon
    <3> QED
      BY <3>2, <3>4
  <2> QED
    BY <1>1, <2>1, <2>3, <2>4, <2>6 DEF Fresh, Seen
<1> QED
  BY <1>3, <1>4, <1>5 DEF receive_mib_thread

\* clock_thread of the UE: a tick of its timer is counted in the drift, an extra tick
\* is one that was owed.
LEMMA TimerStep ==
  ASSUME SyncInvariant, ue_clock_thread
  PROVE  SyncInvariant'
<1> USE DEF SyncInvariant
<1>1. /\ UNCHANGED <<gnbClk, caster, socket, state, rx, synced>>
      /\ InFlight' = InFlight
  BY DEF ue_clock_thread, UeTick, CheckJust, ClearJust, ClearAgain, ExtraTick, gnbVars, InFlight
<1>2. Fresh'
  BY <1>1 DEF Fresh
<1>3. /\ timer \in [pc : {"tick", "check", "clear", "again", "extra"}, increased : BOOLEAN]
      /\ timer.increased \in BOOLEAN /\ just \in BOOLEAN
      /\ gnbClk \in Clock /\ ueClk \in Clock /\ lead \in -Jitter .. Jitter
  BY DEF TypeOK
<1>4. tick(ueClk) \in Clock
  BY <1>3, TickType
<1>5. \A pc \in {"tick", "check", "clear", "again", "extra"}, b \in BOOLEAN :
        [pc |-> pc, increased |-> b]
          \in [pc : {"tick", "check", "clear", "again", "extra"}, increased : BOOLEAN]
  BY Zenon
<1>6. CASE UeTick
  <2>1. /\ timer.pc = "tick" /\ lead < Jitter /\ lead' = lead + 1 /\ just' = just
        /\ ueClk' = tick(ueClk)
        /\ timer' = [pc |-> "check", increased |-> ueClk'.sf = 0]
    BY <1>6 DEF UeTick
  <2>2. TypeOK'
    <3>1. lead' \in -Jitter .. Jitter
      BY <1>3, <2>1, Bounds
    <3>2. [pc |-> "check", increased |-> ueClk'.sf = 0]
            \in [pc : {"tick", "check", "clear", "again", "extra"}, increased : BOOLEAN]
      BY <1>5, Zenon
    <3> QED
      BY <1>1, <1>4, <2>1, <3>1, <3>2, Zenon DEF TypeOK
  <2>3. timer'.pc = "check"
    BY <2>1
  <2>4. Owed' = Owed
    BY <1>1, <2>1, <2>3 DEF Owed
  <2>5. Followed'
    <3>1. SUFFICES ASSUME synced
                   PROVE  \E age \in 0 .. MibDelay, extra \in 0 .. 3 :
                            /\ extra + Owed <= 3
                            /\ ShiftedBy(tick(ueClk), gnbClk, lead + 1 + extra - age)
      BY <1>1, <2>1, <2>4 DEF Followed, ShiftedBy
    <3>2. PICK age \in 0 .. MibDelay, extra \in 0 .. 3 :
            extra + Owed <= 3 /\ ShiftedBy(ueClk, gnbClk, lead + extra - age)
      BY <3>1 DEF Followed
    <3>3. ShiftedBy(tick(ueClk), gnbClk, lead + extra - age + 1)
      BY <1>3, <3>2, SmallShift, TickNow
    <3>4. lead + extra - age + 1 = lead + 1 + extra - age
      BY <1>3
    <3>5. ShiftedBy(tick(ueClk), gnbClk, lead + 1 + extra - age)
      BY <3>3, <3>4
    <3> QED
      BY <3>2, <3>5
  <2> QED
    BY <1>2, <2>2, <2>3, <2>5 DEF Seen
<1>7. ASSUME UNCHANGED <<ueClk, lead>>,
             timer'.pc = "clear" => just',
             Owed' <= Owed,
             just' \in BOOLEAN,
             timer' \in [pc : {"tick", "check", "clear", "again", "extra"}, increased : BOOLEAN]
      PROVE  SyncInvariant'
  <2>1. TypeOK'
    BY <1>1, <1>7, Zenon DEF TypeOK
  <2>2. Followed'
    <3>1. SUFFICES ASSUME synced
                   PROVE  \E age \in 0 .. MibDelay, extra \in 0 .. 3 :
                            /\ extra + Owed' <= 3
                            /\ ShiftedBy(ueClk, gnbClk, lead + extra - age)
      BY <1>1, <1>7 DEF Followed, ShiftedBy
    <3>2. PICK age \in 0 .. MibDelay, extra \in 0 .. 3 :
            extra + Owed <= 3 /\ ShiftedBy(ueClk, gnbClk, lead + extra - age)
      BY <3>1 DEF Followed
    <3>3. Owed \in Int /\ Owed' \in Int
      BY DEF Owed
    <3>4. extra + Owed <= 3 /\ Owed' <= Owed /\ extra \in Int
      BY <1>7, <3>2
    <3>5. \A o, p \in Int : extra + o <= 3 /\ p <= o => extra + p <= 3
      BY <3>4
    <3>6. extra + Owed' <= 3
      BY <3>3, <3>4, <3>5, Zenon
    <3> QED
      BY <3>2, <3>6
  <2> QED
    BY <1>2, <1>7, <2>1, <2>2 DEF Seen
<1>8. CASE CheckJust
  <2>1. /\ timer.pc = "check" /\ UNCHANGED <<ueClk, lead, just>>
        /\ timer' = IF just THEN [timer EXCEPT !.pc = "clear"]
                            ELSE [pc |-> "tick", increased |-> FALSE]
    BY <1>8 DEF CheckJust
  <2>2. \/ just /\ timer' = [pc |-> "clear", increased |-> timer.increased]
        \/ timer' = [pc |-> "tick", increased |-> FALSE]
    BY <1>3, <2>1
  <2>3. timer' \in [pc : {"tick", "check", "clear", "again", "extra"}, increased : BOOLEAN]
    BY <1>3, <1>5, <2>2, Zenon
  <2>4. (timer'.pc = "clear" => just') /\ Owed' <= Owed
    BY <1>1, <2>1, <2>2 DEF Owed
  <2> QED
    BY <1>3, <1>7, <2>1, <2>3, <2>4
<1>9. CASE ClearJust
  <2>1. /\ timer.pc = "clear" /\ UNCHANGED <<ueClk, lead>> /\ just' = FALSE
        /\ timer' = IF timer.increased THEN [pc |-> "tick", increased |-> FALSE]
                                       ELSE [timer EXCEPT !.pc = "again"]
    BY <1>9 DEF ClearJust
  <2>2. \/ timer' = [pc |-> "again", increased |-> timer.increased]
        \/ timer' = [pc |-> "tick", increased |-> FALSE]
    BY <1>3, <2>1
  <2>3. timer' \in [pc : {"tick", "check", "clear", "again", "extra"}, increased : BOOLEAN]
    BY <1>3, <1>5, <2>2, Zenon
  <2>4. (timer'.pc = "clear" => just') /\ Owed' <= Owed
    BY <1>1, <2>1, <2>2 DEF Owed, Seen
  <2> QED
    BY <1>7, <2>1, <2>3, <2>4
<1>10. CASE ClearAgain
  <2>1. /\ timer.pc = "again" /\ UNCHANGED <<ueClk, lead>> /\ just' = FALSE
        /\ timer' = [timer EXCEPT !.pc = "extra"]
    BY <1>10 DEF ClearAgain
  <2>2. timer' = [pc |-> "extra", increased |-> timer.increased]
    BY <1>3, <2>1
  <2>3. timer' \in [pc : {"tick", "check", "clear", "again", "extra"}, increased : BOOLEAN]
    BY <1>3, <1>5, <2>2, Zenon
  <2>4. (timer'.pc = "clear" => just') /\ Owed' <= Owed
    BY <1>1, <2>1, <2>2 DEF Owed
  <2> QED
    BY <1>7, <2>1, <2>3, <2>4
<1>11. CASE ExtraTick
  <2>1. /\ timer.pc = "extra" /\ just' = just /\ ueClk' = tick(ueClk) /\ lead' = lead
        /\ timer' = [pc |-> "tick", increased |-> FALSE]
    BY <1>11 DEF ExtraTick
  <2>2. TypeOK'
    BY <1>1, <1>4, <1>5, <2>1, Zenon DEF TypeOK
  <2>3. timer'.pc = "tick"
    BY <2>1
  <2>4. Owed = Owed' + 1 /\ Owed' \in 0 .. 2
    BY <1>1, <2>1, <2>3 DEF Owed
  <2>5. Followed'
    <3>1. SUFFICES ASSUME synced
                   PROVE  \E age \in 0 .. MibDelay, extra \in 0 .. 3 :
                            /\ extra + Owed' <= 3
                            /\ ShiftedBy(tick(ueClk), gnbClk, lead + extra - age)
      BY <1>1, <2>1 DEF Followed, ShiftedBy
    <3>2. PICK age \in 0 .. MibDelay, extra \in 0 .. 3 :
            extra + Owed <= 3 /\ ShiftedBy(ueClk, gnbClk, lead + extra - age)
      BY <3>1 DEF Followed
    <3>3. ShiftedBy(tick(ueClk), gnbClk, lead + extra - age + 1)
      BY <1>3, <3>2, SmallShift, TickNow
    <3>4. lead + extra - age + 1 = lead + (extra + 1) - age
      BY <1>3
    <3>5. ShiftedBy(tick(ueClk), gnbClk, lead + (extra + 1) - age)
      BY <3>3, <3>4
    <3>6. extra + Owed <= 3
      BY <3>2
    <3>7. \A p \in 0 .. 2 : extra + (p + 1) <= 3 => extra + 1 \in 0 .. 3 /\ extra + 1 + p <= 3
      OBVIOUS
    <3>8. extra + 1 \in 0 .. 3 /\ extra + 1 + Owed' <= 3
      BY <2>4, <3>6, <3>7, Zenon
    <3> QED
      BY <3>5, <3>8
  <2> QED
    BY <1>2, <2>2, <2>3, <2>5 DEF Seen
<1> QED
  BY <1>6, <1>8, <1>9, <1>10, <1>11 DEF ue_clock_thread

LEMMA SyncStep ==
  ASSUME SyncInvariant, [Next]_vars
  PROVE  SyncInvariant'
<1>1. CASE UNCHANGED vars
  BY <1>1 DEF SyncInvariant, TypeOK, Fresh, Seen, Followed, ShiftedBy, InFlight, Owed,
              vars, gnbVars, ueVars
<1> QED
  BY <1>1, GnbTickStep, CasterStep, ReceiverStep, TimerStep DEF Next

(***************************************************************************)
(* The invariant of the synchronisation holds (broadcast_mib_thread of     *)
(* gnb/caculate.c; receive_mib_thread and clock_thread of ue/connect.c).   *)
(***************************************************************************)
THEOREM SyncCorrect == Spec => []SyncInvariant
<1>1. Init => SyncInvariant
  BY SyncStart
<1>2. SyncInvariant /\ [Next]_vars => SyncInvariant'
  BY SyncStep
<1> QED
  BY <1>1, <1>2, PTL DEF Spec

LEMMA SkewFollows ==
  ASSUME SyncInvariant
  PROVE  SkewBounded
<1>1. SUFFICES ASSUME synced
               PROVE  Skew \in -(MibDelay + Jitter) .. Jitter + 3
  BY DEF SkewBounded
<1>2. PICK age \in 0 .. MibDelay, extra \in 0 .. 3 :
        ShiftedBy(ueClk, gnbClk, lead + extra - age)
  BY <1>1 DEF SyncInvariant, Followed
<1>3. /\ ueClk \in Clock /\ gnbClk \in Clock /\ lead \in -Jitter .. Jitter
  BY DEF SyncInvariant, TypeOK
<1>4. Centred(Slot(ueClk) - Slot(gnbClk)) = lead + extra - age
  BY <1>2, <1>3, SmallShift, CentredShift
<1>5. Skew = lead + extra - age
  BY <1>4 DEF Skew, Centred
<1> QED
  BY <1>3, <1>5, Bounds

(***************************************************************************)
(* Once the UE has applied a MIB, its clock is behind the gNB's by no more *)
(* than the age of a MIB and the drift, and ahead by no more than the      *)
(* drift and three extra ticks.                                            *)
(***************************************************************************)
THEOREM StaysNear == Spec => []SkewBounded
<1>1. SyncInvariant => SkewBounded
  BY SkewFollows
<1> QED
  BY <1>1, SyncCorrect, PTL

-----------------------------------------------------------------------------
(* The pages                                                               *)

PageTypes ==
  /\ worker \in [pc : {"snapshot", "loop"}, at : Clock]
  /\ rrcs \in Seq(Clock) /\ Len(rrcs) <= RrcSocket
  /\ receiver \in [pc : {"recv", "judge"}, page : Clock]
  /\ verdict \in {"none", "CORRECT", "WRONG"}

IsOccasion(at) == check_correct_rrc_time(UE_ID, at.sfn, at.sf)

\* A page that is under way was sent at most RrcDelay ago, and in one of the UE's
\* own occasions.
Punctual == \A at \in Underway : Lag(gnbClk, at) <= RrcDelay /\ IsOccasion(at)

PageInvariant == SyncInvariant /\ PageTypes /\ Punctual

\* The bounds of this module as plain facts.
LEMMA PageBounds ==
  /\ UE_ID \in Nat /\ UE_ID \div N0 <= 255
  /\ RrcDelay \in Nat \ {0} /\ RrcSocket \in Nat \ {0}
  /\ 2 * (RrcDelay + Jitter + 3) <= Hyper
  BY PageOnTimeAssumption, ShortPage

LEMMA UnderwayType ==
  ASSUME PageTypes
  PROVE  /\ Underway \subseteq Clock
         /\ \A j \in DOMAIN rrcs : rrcs[j] \in Underway
<1>1. worker.at \in Clock /\ receiver.page \in Clock /\ rrcs \in Seq(Clock)
  BY DEF PageTypes
<1>2. \A j \in DOMAIN rrcs : rrcs[j] \in Clock
  <2>1. SUFFICES ASSUME NEW j \in 1 .. Len(rrcs) PROVE rrcs[j] \in Clock
    BY <1>1
  <2> QED
    BY <1>1, ElementOfSeq
<1> QED
  BY <1>1, <1>2 DEF Underway

\* A slot that the gNB files the UE's pages under is an occasion of the UE.
LEMMA FiledIsOccasion ==
  ASSUME NEW at \in Clock, Slot(at) \in FiledSlots
  PROVE  IsOccasion(at)
<1>1. PICK c \in Clock :
        LET p == calculate_rrc_parameter(UE_ID, c.sfn, c.sf) IN Slot(at) = Key(p.PF, p.PO)
  BY DEF FiledSlots
<1> DEFINE pf == calculate_rrc_parameter(UE_ID, c.sfn, c.sf).PF
           po == calculate_rrc_parameter(UE_ID, c.sfn, c.sf).PO
<1>2. c.sfn \in 0 .. SfnPeriod - 1 /\ c.sf \in 0 .. SubFrames - 1
  BY DEF Clock
<1>3. /\ pf \in 0 .. SfnPeriod + DRX - 1 /\ po \in 0 .. SubFrames - 1
      /\ check_correct_rrc_time(UE_ID, pf, po)
  BY <1>2, PageBounds, FiledOccasion
<1>4. Key(at.sfn, at.sf) = Key(pf, po)
  BY <1>1 DEF Slot, Key
<1> HIDE DEF pf, po
<1>5. pf \in Nat /\ at.sfn \in Nat /\ at.sf \in 0 .. SubFrames - 1
  BY <1>3, Constants DEF Clock
<1>6. at.sfn = pf /\ at.sf = po
  BY <1>3, <1>4, <1>5, KeyParts
<1> QED
  BY <1>3, <1>6 DEF IsOccasion

LEMMA PageStart ==
  ASSUME PageInit
  PROVE  PageInvariant
<1> USE DEF PageInit
<1>1. SyncInvariant
  BY SyncStart
<1>2. /\ worker \in [pc : {"snapshot", "loop"}, at : Clock]
      /\ receiver \in [pc : {"recv", "judge"}, page : Clock]
  BY InitClockType, Zenon
<1>3. rrcs \in Seq(Clock) /\ Len(rrcs) <= RrcSocket
  BY PageBounds
<1>4. PageTypes
  BY <1>2, <1>3 DEF PageTypes
<1>5. Underway = {}
  BY DEF Underway
<1> QED
  BY <1>1, <1>4, <1>5 DEF PageInvariant, Punctual

\* The gNB's clock: no page gets older than it may.
LEMMA ClockStep ==
  ASSUME PageInvariant, clock_thread
  PROVE  PageInvariant'
<1> USE DEF PageInvariant
<1>1. GnbTick /\ UNCHANGED <<worker, rrcs, receiver, verdict>>
  BY DEF clock_thread, pageVars
<1>2. SyncInvariant'
  BY <1>1, GnbTickStep
<1>3. PageTypes' /\ Underway' = Underway
  BY <1>1 DEF PageTypes, Underway
<1>4. gnbClk \in Clock /\ gnbClk' = tick(gnbClk)
  BY <1>1 DEF SyncInvariant, TypeOK, GnbTick
<1>5. ASSUME NEW at \in Underway PROVE Lag(tick(gnbClk), at) <= RrcDelay
  <2>1. at \in Clock
    BY UnderwayType
  <2>2. Lag(gnbClk, at) < RrcDelay
    BY DEF clock_thread
  <2>3. Lag(gnbClk, at) \in 0 .. Hyper - 1
    BY <1>4, <2>1, LagType
  <2>4. \/ Lag(tick(gnbClk), at) = 0
        \/ Lag(tick(gnbClk), at) = Lag(gnbClk, at) + 1
    BY <1>4, <2>1, TickLag
  <2> QED
    BY <2>2, <2>3, <2>4, PageBounds, Bounds
<1>6. Punctual'
  BY <1>3, <1>4, <1>5 DEF Punctual
<1> QED
  BY <1>2, <1>3, <1>6

\* The other threads of the synchronisation leave the gNB's clock alone.
LEMMA ThreadsStep ==
  ASSUME PageInvariant, sync_threads
  PROVE  PageInvariant'
<1> USE DEF PageInvariant
<1>1. UNCHANGED <<worker, rrcs, receiver, verdict>>
  BY DEF sync_threads, pageVars
<1>2. SyncInvariant'
  BY CasterStep, ReceiverStep, TimerStep DEF sync_threads
<1>3. gnbClk' = gnbClk
  BY DEF sync_threads, broadcast_mib_thread, CasterRead, send_mib, receive_mib_thread,
         receive_mib, UpdateClk, FlagUpdate, ue_clock_thread, UeTick, CheckJust, ClearJust,
         ClearAgain, ExtraTick, gnbVars
<1>4. PageTypes' /\ Underway' = Underway
  BY <1>1 DEF PageTypes, Underway
<1>5. Punctual'
  BY <1>3, <1>4 DEF Punctual
<1> QED
  BY <1>2, <1>4, <1>5

\* A page goes on its way, and through the socket to the UE.
LEMMA PageStep ==
  ASSUME PageInvariant, WorkerGet \/ send_rrc \/ receive_rrc_thread
  PROVE  PageInvariant'
<1> USE DEF PageInvariant
<1>1. UNCHANGED <<gnbClk, caster, lead, socket, ueClk, state, just, rx, timer, synced>>
  BY DEF WorkerGet, send_rrc, receive_rrc_thread, RrcArrives, receive_rrc, vars, gnbVars, ueVars
<1>2. SyncInvariant'
  <2>1. UNCHANGED vars
    BY <1>1 DEF vars, gnbVars, ueVars
  <2> QED
    BY <2>1, SyncStep
<1>3. /\ gnbClk \in Clock /\ ueClk \in Clock /\ InitClock \in Clock
      /\ worker \in [pc : {"snapshot", "loop"}, at : Clock] /\ worker.at \in Clock
      /\ receiver \in [pc : {"recv", "judge"}, page : Clock] /\ receiver.page \in Clock
      /\ rrcs \in Seq(Clock) /\ Len(rrcs) <= RrcSocket /\ Len(rrcs) \in Nat
      /\ verdict \in {"none", "CORRECT", "WRONG"}
  BY InitClockType DEF SyncInvariant, TypeOK, PageTypes
<1>4. ASSUME Underway' \subseteq Underway
      PROVE  Punctual'
  BY <1>1, <1>4 DEF Punctual
<1>5. CASE WorkerGet
  <2>1. /\ Slot(gnbClk) \in FiledSlots /\ worker' = [pc |-> "loop", at |-> gnbClk]
        /\ UNCHANGED <<rrcs, receiver, verdict>>
    BY <1>5 DEF WorkerGet
  <2>2. [pc |-> "loop", at |-> gnbClk] \in [pc : {"snapshot", "loop"}, at : Clock]
    BY <1>3, Zenon
  <2>3. PageTypes'
    BY <1>3, <2>1, <2>2, Zenon DEF PageTypes
  <2>4. Underway' \subseteq Underway \cup {gnbClk}
    BY <2>1 DEF Underway
  <2>5. Lag(gnbClk, gnbClk) <= RrcDelay
    BY <1>3, TickLag, PageBounds
  <2>6. IsOccasion(gnbClk)
    BY <1>3, <2>1, FiledIsOccasion
  <2>7. Punctual'
    BY <1>1, <2>4, <2>5, <2>6 DEF Punctual
  <2> QED
    BY <1>2, <2>3, <2>7
<1>6. CASE send_rrc
  <2>1. /\ worker.pc = "loop"
        /\ rrcs' = IF Len(rrcs) < RrcSocket THEN Append(rrcs, worker.at) ELSE rrcs
        /\ worker' = worker \/ worker' = [pc |-> "snapshot", at |-> InitClock]
        /\ UNCHANGED <<receiver, verdict>>
    BY <1>6 DEF send_rrc
  <2>2. [pc |-> "snapshot", at |-> InitClock] \in [pc : {"snapshot", "loop"}, at : Clock]
    BY <1>3, Zenon
  <2>3. worker' \in [pc : {"snapshot", "loop"}, at : Clock]
    BY <1>3, <2>1, <2>2, Zenon
  <2>4. worker.at \in Underway
    BY <2>1 DEF Underway
  <2>5. rrcs' \in Seq(Clock) /\ Len(rrcs') <= RrcSocket
    BY <1>3, <2>1, PageBounds
  <2>6. \A j \in DOMAIN rrcs' : rrcs'[j] \in Underway
    <3>1. CASE rrcs' = rrcs
      BY <3>1, UnderwayType
    <3>2. CASE rrcs' = Append(rrcs, worker.at)
      <4>1. SUFFICES ASSUME NEW j \in 1 .. Len(rrcs) + 1
                     PROVE  Append(rrcs, worker.at)[j] \in Underway
        BY <1>3, <3>2
      <4>2. CASE j = Len(rrcs) + 1
        BY <1>3, <2>4, <4>2
      <4>3. CASE j \in 1 .. Len(rrcs)
        <5>1. rrcs[j] \in Underway
          BY <1>3, <4>3, UnderwayType
        <5> QED
          BY <1>3, <4>3, <5>1
      <4> QED
        BY <1>3, <4>2, <4>3
    <3> QED
      BY <2>1, <3>1, <3>2
  <2>7. Underway' \subseteq Underway
    <3>1. worker'.pc = "loop" => worker'.at \in Underway
      BY <2>1, <2>4
    <3> QED
      BY <2>1, <2>6, <3>1 DEF Underway
  <2>8. PageTypes'
    BY <1>3, <2>1, <2>3, <2>5, Zenon DEF PageTypes
  <2>9. Punctual'
    BY <1>4, <2>7
  <2> QED
    BY <1>2, <2>8, <2>9
<1>7. CASE RrcArrives
  <2>1. /\ rrcs # << >> /\ rrcs' = Tail(rrcs)
        /\ receiver' = [pc |-> "judge", page |-> Head(rrcs)]
        /\ UNCHANGED <<worker, verdict>>
    BY <1>7 DEF RrcArrives
  <2>2. Len(rrcs) \in Nat \ {0}
    BY <1>3, <2>1
  <2>3. /\ rrcs' \in Seq(Clock) /\ Len(rrcs') = Len(rrcs) - 1
        /\ \A j \in 1 .. Len(rrcs') : rrcs'[j] = rrcs[j + 1]
    BY <1>3, <2>1, HeadTailProperties
  <2>4. Head(rrcs) = rrcs[1] /\ 1 \in DOMAIN rrcs
    BY <1>3, <2>2
  <2>5. Head(rrcs) \in Underway /\ Head(rrcs) \in Clock
    BY <2>4, UnderwayType
  <2>6. PageTypes'
    <3>1. [pc |-> "judge", page |-> Head(rrcs)] \in [pc : {"recv", "judge"}, page : Clock]
      BY <2>5, Zenon
    <3>2. Len(rrcs') <= RrcSocket
      BY <1>3, <2>2, <2>3, PageBounds
    <3> QED
      BY <1>3, <2>1, <2>3, <3>1, <3>2, Zenon DEF PageTypes
  <2>7. Underway' \subseteq Underway
    <3>1. \A j \in DOMAIN rrcs' : rrcs'[j] \in Underway
      <4>1. SUFFICES ASSUME NEW j \in 1 .. Len(rrcs') PROVE rrcs'[j] \in Underway
        BY <2>3
      <4>2. j + 1 \in DOMAIN rrcs
        BY <1>3, <2>2, <2>3
      <4> QED
        BY <2>3, <4>2, UnderwayType
    <3>2. receiver'.page \in Underway
      BY <2>1, <2>5
    <3> QED
      BY <2>1, <3>1, <3>2 DEF Underway
  <2>8. Punctual'
    BY <1>4, <2>7
  <2> QED
    BY <1>2, <2>6, <2>8
<1>8. CASE receive_rrc
  <2>1. /\ receiver' = [pc |-> "recv", page |-> InitClock]
        /\ verdict' \in {"CORRECT", "WRONG"}
        /\ UNCHANGED <<worker, rrcs>>
    BY <1>8 DEF receive_rrc
  <2>2. [pc |-> "recv", page |-> InitClock] \in [pc : {"recv", "judge"}, page : Clock]
    BY <1>3, Zenon
  <2>3. PageTypes'
    BY <1>3, <2>1, <2>2, Zenon DEF PageTypes
  <2>4. Underway' \subseteq Underway
    BY <2>1 DEF Underway
  <2>5. Punctual'
    BY <1>4, <2>4
  <2> QED
    BY <1>2, <2>3, <2>5
<1> QED
  BY <1>5, <1>6, <1>7, <1>8 DEF receive_rrc_thread

LEMMA PageInvariantStep ==
  ASSUME PageInvariant, [PageNext]_allVars
  PROVE  PageInvariant'
<1>1. CASE UNCHANGED allVars
  <2>1. UNCHANGED vars /\ UNCHANGED <<gnbClk, worker, rrcs, receiver, verdict>>
    BY <1>1 DEF allVars, pageVars, vars, gnbVars
  <2>2. SyncInvariant'
    BY <2>1, SyncStep DEF PageInvariant
  <2>3. PageTypes' /\ Underway' = Underway
    BY <2>1 DEF PageInvariant, PageTypes, Underway
  <2> QED
    BY <2>1, <2>2, <2>3 DEF PageInvariant, Punctual
<1> QED
  BY <1>1, ClockStep, ThreadsStep, PageStep DEF PageNext

(***************************************************************************)
(* The invariant of the pages, with that of the synchronisation, holds.    *)
(***************************************************************************)
THEOREM PagesCorrect == PageSpec => []PageInvariant
<1>1. PageInit => PageInvariant
  BY PageStart
<1>2. PageInvariant /\ [PageNext]_allVars => PageInvariant'
  BY PageInvariantStep
<1> QED
  BY <1>1, <1>2, PTL DEF PageSpec

(***************************************************************************)
(* The paging adds nothing to the synchronisation: what is true of it      *)
(* alone is true of it here.                                               *)
(***************************************************************************)
LEMMA PagingLeavesSync == PageSpec => Spec
<1>1. PageInit => Init
  BY DEF PageInit
<1>2. [PageNext]_allVars => [Next]_vars
  BY DEF PageNext, clock_thread, sync_threads, WorkerGet, send_rrc, receive_rrc_thread,
         RrcArrives, receive_rrc, allVars, Next
<1> QED
  BY <1>1, <1>2, PTL DEF PageSpec, Spec

(***************************************************************************)
(* With paging going on too, the UE's clock stays near the gNB's.          *)
(***************************************************************************)
THEOREM StaysNearPaging == PageSpec => []SkewBounded
  BY PagingLeavesSync, StaysNear, PTL

(***************************************************************************)
(* Type correctness.                                                       *)
(***************************************************************************)
THEOREM PageTypeCorrect == PageSpec => []PageTypeOK
<1>1. PageInvariant => PageTypeOK
  BY DEF PageInvariant, SyncInvariant, PageTypes, PageTypeOK
<1> QED
  BY <1>1, PagesCorrect, PTL

\* How far the UE's clock is past the slot of the page it is about to judge.
LEMMA JudgedBy ==
  ASSUME PageInvariant, receiver.pc = "judge", synced
  PROVE  \E t \in -(MibDelay + Jitter) .. RrcDelay + Jitter + 3 :
           ShiftedBy(ueClk, receiver.page, t)
<1>1. /\ ueClk \in Clock /\ gnbClk \in Clock /\ receiver.page \in Clock
      /\ lead \in -Jitter .. Jitter
  BY DEF PageInvariant, SyncInvariant, TypeOK, PageTypes
<1>2. PICK age \in 0 .. MibDelay, extra \in 0 .. 3 :
        ShiftedBy(ueClk, gnbClk, lead + extra - age)
  BY DEF PageInvariant, SyncInvariant, Followed
<1> DEFINE d == lead + extra - age
           old == Lag(gnbClk, receiver.page)
<1>3. d \in -(MibDelay + Jitter) .. Jitter + 3
  BY <1>1, Bounds
<1>4. old \in 0 .. Hyper - 1
  BY <1>1, LagType
<1>5. old <= RrcDelay
  <2>1. receiver.page \in Underway
    BY DEF Underway
  <2> QED
    BY <2>1 DEF PageInvariant, Punctual
<1>6. ShiftedBy(ueClk, gnbClk, d)
  BY <1>2
<1> HIDE DEF d
<1>7. Near(d + old) /\ d \in Int
  <2> HIDE DEF old
  <2> QED
    BY <1>3, <1>4, <1>5, Bounds, PageBounds DEF Near
<1>8. ShiftedBy(ueClk, receiver.page, d + old)
  BY <1>1, <1>6, <1>7, ShiftedFurther
<1> HIDE DEF old
<1>9. d + old \in -(MibDelay + Jitter) .. RrcDelay + Jitter + 3
  BY <1>3, <1>4, <1>5, Bounds, PageBounds
<1> QED
  BY <1>8, <1>9

(***************************************************************************)
(* A UE that has applied a MIB judges a page by a clock that is near the   *)
(* slot that the page was filed under (receive_rrc, ue/connect.c).         *)
(***************************************************************************)
THEOREM JudgedNear == PageSpec => []JudgedNearItsSlot
<1>1. ASSUME PageInvariant PROVE JudgedNearItsSlot
  <2>1. SUFFICES ASSUME receiver.pc = "judge", synced
                 PROVE  Offset(receiver.page) \in -(MibDelay + Jitter) .. RrcDelay + Jitter + 3
    BY DEF JudgedNearItsSlot
  <2>2. PICK t \in -(MibDelay + Jitter) .. RrcDelay + Jitter + 3 :
          ShiftedBy(ueClk, receiver.page, t)
    BY <1>1, <2>1, JudgedBy
  <2>3. ueClk \in Clock /\ receiver.page \in Clock
    BY <1>1 DEF PageInvariant, SyncInvariant, TypeOK, PageTypes
  <2>4. t \in Int /\ -Hyper < 2 * t /\ 2 * t <= Hyper
    BY Bounds, PageBounds
  <2>5. Centred(Slot(ueClk) - Slot(receiver.page)) = t
    BY <2>2, <2>3, <2>4, CentredShift
  <2> QED
    BY <2>5 DEF Offset, Centred
<1>2. PageInvariant => JudgedNearItsSlot
  BY <1>1
<1> QED
  BY <1>2, PagesCorrect, PTL

\* The occasions of a UE are a whole number of paging cycles from each other.
LEMMA OccasionSlot ==
  ASSUME NEW at \in Clock, IsOccasion(at)
  PROVE  \E cycle \in Nat :
           /\ Slot(at) = cycle * (DRX * SubFrames)
                           + (UePF(UE_ID) * SubFrames + UePO(UE_ID))
           /\ cycle * (DRX * SubFrames) + DRX * SubFrames <= Hyper
<1> DEFINE cycle == at.sfn \div DRX
           pf == UePF(UE_ID)
           po == UePO(UE_ID)
<1>1. at.sfn \in 0 .. SfnPeriod - 1 /\ at.sfn \in Nat /\ at.sf \in Nat
  BY Constants DEF Clock
<1>2. at.sfn % DRX = pf /\ at.sf = po
  BY DEF IsOccasion, check_correct_rrc_time
<1>3. cycle \in Nat /\ pf \in Nat /\ at.sfn = cycle * DRX + pf
  BY <1>1, <1>2, CycleDivision, FrameOfUe, PageBounds
<1>4. po \in Nat
  BY <1>1, <1>2
<1>5. (cycle + 1) * DRX <= SfnPeriod
  BY <1>1, CycleOf
<1> HIDE DEF cycle, pf, po
<1>6. (cycle * DRX + pf) * SubFrames = cycle * (DRX * SubFrames) + pf * SubFrames
  BY <1>3, Constants
<1>7. Slot(at) = cycle * (DRX * SubFrames) + (pf * SubFrames + po)
  <2>1. Slot(at) = (cycle * DRX + pf) * SubFrames + po
    BY <1>2, <1>3 DEF Slot
  <2> DEFINE x == cycle * (DRX * SubFrames)
             y == pf * SubFrames
  <2>2. x \in Nat /\ y \in Nat
    BY <1>3, Constants
  <2>3. Slot(at) = (x + y) + po
    BY <1>6, <2>1
  <2> HIDE DEF x, y
  <2>4. Slot(at) = x + (y + po)
    BY <1>4, <2>2, <2>3
  <2> QED
    BY <2>4 DEF x, y
<1>8. cycle * (DRX * SubFrames) + DRX * SubFrames <= Hyper
  <2>1. (cycle + 1) * DRX \in Nat
    BY <1>3, Constants
  <2>2. ((cycle + 1) * DRX) * SubFrames <= SfnPeriod * SubFrames
    BY <1>5, <2>1, ProductMono, Constants
  <2>3. ((cycle + 1) * DRX) * SubFrames = cycle * (DRX * SubFrames) + DRX * SubFrames
    BY <1>3, Constants
  <2> QED
    BY <2>2, <2>3 DEF Hyper
<1> QED
  BY <1>3, <1>7, <1>8 DEF pf, po

\* Two occasions of a UE that are less than a cycle apart are the same.
LEMMA OneOccasionNear ==
  ASSUME NEW now \in Clock, NEW past \in Clock, IsOccasion(now), IsOccasion(past),
         NEW t \in Int, ShiftedBy(now, past, t),
         -(DRX * SubFrames) < t, t < DRX * SubFrames
  PROVE  now = past
<1> DEFINE c == DRX * SubFrames
           rest == UePF(UE_ID) * SubFrames + UePO(UE_ID)
<1>1. c \in Nat \ {0}
  BY Constants
<1>2. PICK a \in Nat : Slot(now) = a * c + rest /\ a * c + c <= Hyper
  BY OccasionSlot
<1>3. PICK b \in Nat : Slot(past) = b * c + rest /\ b * c + c <= Hyper
  BY OccasionSlot
<1>4. rest \in Nat
  <2>1. UePF(UE_ID) \in Nat /\ UePO(UE_ID) \in Nat
    BY PageBounds, FrameOfUe, OccasionOfUe
  <2> QED
    BY <2>1, Constants
<1>5. -c < t /\ t < c
  OBVIOUS
<1>6. Slot(now) - Slot(past) \in {t, t - Hyper, t + Hyper}
  BY DEF ShiftedBy
<1> HIDE DEF c, rest
<1> DEFINE x == a * c
           y == b * c
<1>7. x \in Nat /\ y \in Nat
  BY <1>1, <1>2, <1>3
<1>8. (a < b => x + c <= y) /\ (b < a => y + c <= x)
  BY <1>1, ProductStrict
<1>9. Slot(now) = x + rest /\ x + c <= Hyper /\ Slot(past) = y + rest /\ y + c <= Hyper
  BY <1>2, <1>3
<1>10. a = b
  <2> HIDE DEF x, y
  <2>1. x - y \in {t, t - Hyper, t + Hyper}
    BY <1>4, <1>6, <1>7, <1>9
  <2>2. ~(a < b) /\ ~(b < a)
    BY <1>1, <1>5, <1>7, <1>8, <1>9, <2>1, HyperType
  <2> QED
    BY <2>2
<1>11. Slot(now) = Slot(past)
  BY <1>9, <1>10
<1> QED
  BY <1>11, SlotInjective

(***************************************************************************)
(* A page is called CORRECT just when the UE's clock shows the subframe    *)
(* that the gNB filed it under (send_rrc, gnb/connect.c; receive_rrc,      *)
(* ue/connect.c).                                                          *)
(***************************************************************************)
THEOREM CorrectIsItsSlot == PageSpec => CorrectMeansItsSlot
<1>1. ASSUME PageInvariant, receive_rrc, synced
      PROVE  (verdict' = "CORRECT") = (ueClk = receiver.page)
  <2>1. /\ receiver.pc = "judge"
        /\ verdict' = IF IsOccasion(ueClk) THEN "CORRECT" ELSE "WRONG"
    BY <1>1 DEF receive_rrc, IsOccasion
  <2>2. ueClk \in Clock /\ receiver.page \in Clock
    BY <1>1 DEF PageInvariant, SyncInvariant, TypeOK, PageTypes
  <2>3. IsOccasion(receiver.page)
    <3>1. receiver.page \in Underway
      BY <2>1 DEF Underway
    <3> QED
      BY <1>1, <3>1 DEF PageInvariant, Punctual
  <2>4. ASSUME IsOccasion(ueClk) PROVE ueClk = receiver.page
    <3>1. PICK t \in -(MibDelay + Jitter) .. RrcDelay + Jitter + 3 :
            ShiftedBy(ueClk, receiver.page, t)
      BY <1>1, <2>1, JudgedBy
    <3> DEFINE c == DRX * SubFrames
    <3>2. MibDelay + Jitter < c /\ RrcDelay + Jitter + 3 < c /\ c \in Nat
      BY ShortPage, Constants
    <3> HIDE DEF c
    <3>3. t \in Int /\ -c < t /\ t < c
      BY <3>2, Bounds, PageBounds
    <3> QED
      BY <2>2, <2>3, <2>4, <3>1, <3>3, OneOccasionNear DEF c
  <2>5. IsOccasion(ueClk) <=> ueClk = receiver.page
    BY <2>3, <2>4
  <2>6. (verdict' = "CORRECT") <=> IsOccasion(ueClk)
    BY <2>1
  <2> QED
    BY <2>5, <2>6
<1>2. PageInvariant /\ [PageNext]_allVars =>
        [receive_rrc /\ synced =>
           (verdict' = "CORRECT") = (ueClk = receiver.page)]_allVars
  BY <1>1
<1> QED
  BY <1>2, PagesCorrect, PTL DEF PageSpec, CorrectMeansItsSlot
=============================================================================
