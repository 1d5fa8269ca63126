---------------------------- MODULE PagingLockstep ----------------------------
(***************************************************************************)
(* Exercise 4: the two loops of exercise 3, and paging.  A thread of the   *)
(* gNB receives NgAP messages from the AMF into a buffer it shares with    *)
(* the main loop and raises `ready`; in every paging frame the main loop   *)
(* sends the UE an RRC, made from the buffer if `ready`, else empty.  RRCs *)
(* and MIBs go through one socket, and the UE takes what comes next for    *)
(* what it waits for.                                                      *)
(***************************************************************************)
EXTENDS Integers, Sequences, FiniteSets

CONSTANTS
  SfnPeriod,    \* 1024
  MibMs,        \* ms between two MIBs: 80
  UpdateMs,     \* ms between two updates of a UE in SYNC: 800
  TimeModulus,  \* where sp.time wraps: 2^32
  DRX,          \* frames in a paging cycle: 128
  sfn_mod_t,    \* the UE's paging frame in a cycle, its id modulo DRX: 123
  MaxAhead,     \* bound: rounds by which the gNB gets ahead of the UE; after
                \*   a loss, messages that wait for the UE
  MaxLost,      \* bound: MIBs and RRCs that are lost
  MaxNgap,      \* bound: messages the AMF sends; they are 1, 2, ...
  MaxPhantom    \* bound: messages the listener takes from a closed connection

ASSUME PagingLockstepAssumption ==
  /\ SfnPeriod \in Nat \ {0}
  /\ MibMs \in Nat \ {0} /\ MibMs % 10 = 0
  /\ UpdateMs \in Nat \ {0} /\ UpdateMs % MibMs = 0
  /\ SfnPeriod % (MibMs \div 10) = 0
  /\ TimeModulus \in Nat \ {0}
  /\ DRX \in Nat \ {0}
  /\ sfn_mod_t \in 0 .. DRX - 1
  /\ MaxAhead \in Nat
  /\ MaxLost \in Nat
  /\ MaxNgap \in Nat
  /\ MaxPhantom \in Nat

VARIABLES
  tcp,       \* NgAP messages on their way to the gNB
  amf,       \* how many the AMF has sent
  closed,    \* has the AMF closed its socket?
  ngap,      \* the buffer main and listening_amf share; 0: no message
  listener,  \* listening_amf: its next step and the message it has received
  ready,     \* is there a message that no RRC was made of yet?
  main,      \* the gNB's loop: its next step and the RRC it is making
  gnb,       \* the gNB's sp: time and sfn
  udp,       \* what is in the UE's socket
  ue,        \* the UE: its next step and its sp: time, sfn and state
  ahead,     \* history: rounds of the gNB minus rounds of the UE, until the
             \*   first loss
  lost,      \* history: MIBs and RRCs lost
  phantoms,  \* history: receives that returned nothing and were announced
  heard,     \* history: messages the listener has announced by `ready`
  pages      \* history: the RRCs made from NgAP messages and sent, each with its
             \*   message and the value of `heard` when it was sent

amfVars == <<tcp, amf, closed>>
pagingVars == <<amfVars, ngap, listener, ready, phantoms, heard, pages>>
syncVars == <<gnb, udp, ue, ahead, lost>>
vars == <<pagingVars, main, syncVars>>

\* Mutant: sfn_value is never assigned.
Mib_unset(sfn) == [type |-> "MIB", sfn |-> 0]

\* Mutant: sfn_value is assigned a frame late.
Mib_late(sfn) == [type |-> "MIB", sfn |-> (sfn + 1) % SfnPeriod]

Mib(sfn) == [type |-> "MIB", sfn |-> sfn]
Rrc(n)   == [type |-> "RRC", page |-> n]     \* Rrc(0) is the empty rrc0

Init ==
  /\ tcp = << >> /\ amf = 0 /\ closed = FALSE
  /\ ngap = 0
  /\ listener = [pc |-> "recv", got |-> 0]
  /\ ready = FALSE
  /\ main = [pc |-> "init", rrc |-> 0]
  /\ gnb = [time |-> 0, sfn |-> 0]
  /\ udp = << >>
  /\ ue = [pc |-> "sleep", time |-> 0, sfn |-> 0, state |-> "ASYNC"]
  /\ ahead = 0 /\ lost = 0 /\ phantoms = 0 /\ heard = 0 /\ pages = << >>

\* Mutant: the frame number runs to SfnPeriod before it wraps.
increase_sfn_late(sfn) == (sfn + 1) % (SfnPeriod + 1)

increase_sfn(sfn) == (sfn + 1) % SfnPeriod

after_sleep(sp) ==
  LET time == (sp.time + 10) % TimeModulus
  IN  [sp EXCEPT !.time = time,
                 !.sfn = IF time % 10 = 0 THEN increase_sfn(@) ELSE @]

-----------------------------------------------------------------------------
(* AMF and listening_amf *)

AmfSend ==
  /\ amf < MaxNgap
  /\ amf' = amf + 1
  /\ tcp' = Append(tcp, amf + 1)
  /\ UNCHANGED <<closed, ngap, listener, ready, phantoms, heard, pages, main,
                 syncVars>>

\* After its last message.
AmfClose ==
  /\ amf = MaxNgap
  /\ ~closed
  /\ closed' = TRUE
  /\ UNCHANGED <<tcp, amf, ngap, listener, ready, phantoms, heard, pages, main,
                 syncVars>>

\* receive_ngap returns from recv; the memcpy into ngap begins.
Receive ==
  /\ main.pc # "init"
  /\ listener.pc = "recv"
  /\ tcp # << >>
  /\ listener' = [pc |-> "memcpy", got |-> Head(tcp)]
  /\ tcp' = Tail(tcp)
  /\ UNCHANGED <<amf, closed, ngap, ready, phantoms, heard, pages, main, syncVars>>

\* When the AMF has closed and all was read, recv returns 0 at once.  That is not
\* SOCKET_ERROR: the stack buffer, never written, is taken for a message.
ReceiveNothing ==
  /\ main.pc # "init"
  /\ listener.pc = "recv"
  /\ tcp = << >> /\ closed
  /\ phantoms < MaxPhantom
  /\ phantoms' = phantoms + 1
  /\ \E junk \in {0, ngap} : listener' = [pc |-> "memcpy", got |-> junk]
  /\ UNCHANGED <<amfVars, ngap, ready, heard, pages, main, syncVars>>

\* Mutant: the listener has a buffer of its own.
written_elsewhere(got) == ngap

written(got) == got

\* The end of the memcpy; no lock is held.
WriteNgap ==
  /\ listener.pc = "memcpy"
  /\ ngap' = written(listener.got)
  /\ listener' = [pc |-> "announce", got |-> 0]
  /\ UNCHANGED <<amfVars, ready, phantoms, heard, pages, main, syncVars>>

cs_free == main.pc \notin {"copy", "send"}

Announce ==
  /\ listener.pc = "announce"
  /\ cs_free
  /\ ready' = TRUE
  /\ heard' = heard + 1
  /\ listener' = [listener EXCEPT !.pc = "recv"]
  /\ UNCHANGED <<amfVars, ngap, phantoms, pages, main, syncVars>>

-----------------------------------------------------------------------------
(* The main loop of the gNB *)

\* Before the loop main receives one message itself, for the paging frame; the
\* rrc it copies it to is overwritten before it is ever sent.
MainStart ==
  /\ main.pc = "init"
  /\ tcp # << >>
  /\ ngap' = Head(tcp)
  /\ tcp' = Tail(tcp)
  /\ main' = [main EXCEPT !.pc = "sleep"]
  /\ UNCHANGED <<amf, closed, listener, ready, phantoms, heard, pages, syncVars>>

\* Mutant: the frame is not taken modulo the paging cycle.
in_paging_frame_once(sp) == sp.sfn = sfn_mod_t

in_paging_frame(sp) == sp.sfn % DRX = sfn_mod_t

\* A datagram arrives, or it is lost.
sendto(msg) ==
  \/ udp' = Append(udp, msg) /\ UNCHANGED lost
  \/ lost < MaxLost /\ lost' = lost + 1 /\ UNCHANGED udp

send_mib(sfn) == sendto(Mib(sfn))
send_rrc(n)   == sendto(Rrc(n))

\* The history `ahead`, when a round of the gNB (1) or of the UE (-1) begins.
Count(rounds) == ahead' = IF lost = 0 THEN ahead + rounds ELSE 0

GnbRound ==
  /\ main.pc = "sleep"
  /\ IF lost = 0 THEN ahead < MaxAhead ELSE Len(udp) < MaxAhead
  /\ gnb' = after_sleep(gnb)
  /\ IF gnb'.time % MibMs = 0 THEN send_mib(gnb'.sfn) ELSE UNCHANGED <<udp, lost>>
  /\ main' = [main EXCEPT !.pc = IF in_paging_frame(gnb') THEN "lock" ELSE "sleep"]
  /\ Count(1)
  /\ UNCHANGED <<pagingVars, ue>>

\* Nothing to announce: the empty RRC is sent.
SendEmpty ==
  /\ main.pc = "lock"
  /\ ~ready
  /\ send_rrc(0)
  /\ main' = [main EXCEPT !.pc = "sleep"]
  /\ UNCHANGED <<pagingVars, gnb, ue, ahead>>

\* Enter cs and begin to copy ngap into rrc.
BeginCopy ==
  /\ main.pc = "lock"
  /\ ready
  /\ main' = [main EXCEPT !.pc = "copy"]
  /\ UNCHANGED <<pagingVars, syncVars>>

\* A copy made while the listener writes may have any part of the old message and
\* of the new one; those of this AMF are all alike, so it is the one or the other.
EndCopy ==
  /\ main.pc = "copy"
  /\ \E n \in {ngap} \cup (IF listener.pc = "memcpy" THEN {listener.got} ELSE {}) :
       main' = [pc |-> "send", rrc |-> n]
  /\ UNCHANGED <<pagingVars, syncVars>>

\* Mutant: ready stays up after the RRC was sent.
lowered_never(r) == r

lowered(r) == FALSE

SendRrc ==
  /\ main.pc = "send"
  /\ send_rrc(main.rrc)
  /\ ready' = lowered(ready)
  /\ pages' = Append(pages, [msg |-> main.rrc, heard |-> heard])
  /\ main' = [pc |-> "sleep", rrc |-> 0]
  /\ UNCHANGED <<amfVars, ngap, listener, phantoms, heard, gnb, ue, ahead>>

-----------------------------------------------------------------------------
(* The UE *)

\* Mutant: the UE listens for an RRC in the frame after its own.
ue_paging_frame_late(sp) == sp.sfn % DRX = (sfn_mod_t + 1) % DRX

ue_paging_frame(sp) == sp.sfn % DRX = sfn_mod_t

UeRound ==
  /\ ue.pc = "sleep"
  /\ LET sp == after_sleep(ue) IN
       ue' = [sp EXCEPT !.pc = IF sp.time % MibMs = 0 THEN "mib"
                               ELSE IF ue_paging_frame(sp) THEN "rrc" ELSE "sleep"]
  /\ Count(-1)
  /\ UNCHANGED <<pagingVars, main, gnb, udp, lost>>

\* Mutant: once it is synchronous the UE never updates its frame number.
update_due_once(sp) == sp.state = "ASYNC"

update_due(sp) == sp.state = "ASYNC" \/ sp.time % UpdateMs = 0

\* The bytes of an RRC read as a MIB: its first field is 100 in the low byte and
\* zero where the MIB has sfn_value.
sfn_value(msg) == IF msg.type = "MIB" THEN msg.sfn ELSE 0

\* recvfrom blocks until a message is there, and any is long enough for a MIB.
receive_mib(sfn) == udp # << >> /\ sfn = sfn_value(Head(udp)) /\ udp' = Tail(udp)

UeSync ==
  /\ ue.pc = "mib"
  /\ \E sfn \in 0 .. SfnPeriod - 1 :
       /\ receive_mib(sfn)
       /\ LET sp == [ue EXCEPT !.state = "SYNC",
                               !.sfn = IF update_due(ue) THEN sfn ELSE @]
          IN  ue' = [sp EXCEPT !.pc = IF ue_paging_frame(sp) THEN "rrc" ELSE "sleep"]
  /\ UNCHANGED <<pagingVars, main, gnb, ahead, lost>>

\* A MIB is too short for an RRC and thrown away; an RRC is printed.
receive_rrc ==
  /\ ue.pc = "rrc"
  /\ udp # << >>
  /\ ue' = [ue EXCEPT !.pc = "sleep"]
  /\ udp' = Tail(udp)
  /\ UNCHANGED <<pagingVars, main, gnb, ahead, lost>>

-----------------------------------------------------------------------------
Gnb == MainStart \/ GnbRound \/ SendEmpty \/ BeginCopy \/ EndCopy \/ SendRrc
Amf == AmfSend \/ AmfClose
Listener == Receive \/ ReceiveNothing \/ WriteNgap \/ Announce
Ue == UeRound \/ UeSync \/ receive_rrc

Next == Amf \/ Listener \/ Gnb \/ Ue

Spec == Init /\ [][Next]_vars

\* The loops never end.  The listener gets cs in the end: main holds it for the
\* time of one send in a round of 100 ms.
FairSpec ==
  /\ Spec
  /\ WF_vars(Gnb) /\ WF_vars(Ue)
  /\ WF_vars(Receive \/ WriteNgap) /\ SF_vars(Announce)

-----------------------------------------------------------------------------
TypeOK ==
  /\ tcp \in Seq(1 .. MaxNgap)
  /\ {amf, ngap} \subseteq 0 .. MaxNgap
  /\ closed \in BOOLEAN /\ phantoms \in 0 .. MaxPhantom
  /\ heard \in 0 .. MaxNgap + MaxPhantom
  /\ pages \in Seq([msg : 0 .. MaxNgap, heard : 0 .. MaxNgap + MaxPhantom])
  /\ listener \in [pc : {"recv", "memcpy", "announce"}, got : 0 .. MaxNgap]
  /\ ready \in BOOLEAN
  /\ main \in [pc : {"init", "sleep", "lock", "copy", "send"}, rrc : 0 .. MaxNgap]
  /\ gnb \in [time : 0 .. TimeModulus - 1, sfn : 0 .. SfnPeriod - 1]
  /\ \A j \in DOMAIN udp :
       udp[j] \in [type : {"MIB"}, sfn : 0 .. SfnPeriod - 1]
                    \cup [type : {"RRC"}, page : 0 .. MaxNgap]
  /\ ue \in [pc : {"sleep", "mib", "rrc"}, time : 0 .. TimeModulus - 1,
             sfn : 0 .. SfnPeriod - 1, state : {"ASYNC", "SYNC"}]

\* The UE is about to take an RRC for a MIB, or a MIB for an RRC.
Mistaken ==
  udp # << >> /\ \/ ue.pc = "mib" /\ Head(udp).type = "RRC"
                 \/ ue.pc = "rrc" /\ Head(udp).type = "MIB"

\* As long as nothing is lost the UE takes every message for what it is, although
\* nothing in a message tells: it waits for them in the order in which the gNB sends
\* them, however far behind it is.
NeverMistaken == lost = 0 => ~Mistaken

\* After a loss MIBs and RRCs get mixed up: the UE takes the one for the other, and
\* frame 0 from an RRC.  That comes to an end after the last loss, and the UE's own
\* count of frames agrees with the MIBs again: a periodic update from a true MIB sets
\* all right, and not every update meets an RRC.
Resumes ==
  <>[](/\ ~Mistaken
       /\ ue.pc = "mib" /\ udp # << >> => ue.sfn = Head(udp).sfn)

\* As long as the connection lasts, the UE is never paged for a message after it was
\* paged for a newer one; and it is paged again for the same message only by the very
\* next RRC, and only if the first was made before the message was announced.  (Main
\* keeps message 1 for itself, so the k-th that is announced is k + 1.)  That case is
\* real: the buffer is written without the lock before `ready` is raised, so an RRC
\* for an older request may take the new message, and `ready` then asks for another.
TwiceOnlyIfEarly ==
  phantoms = 0 =>
    \A i, j \in DOMAIN pages : i < j =>
      /\ pages[i].msg <= pages[j].msg
      /\ pages[i].msg = pages[j].msg => j = i + 1 /\ pages[i].msg > pages[i].heard + 1

\* With the RRCs left out, this is exercise 3: paging does not disturb how the UE
\* follows the gNB's frames.
MibsAt(s) == {j \in DOMAIN s : s[j].type = "MIB"}

\* The k-th smallest member of a set of numbers.
Kth(S, k) == CHOOSE j \in S : Cardinality({i \in S : i <= j}) = k

MibsOf(s) == [k \in 1 .. Cardinality(MibsAt(s)) |-> s[Kth(MibsAt(s), k)].sfn]

Lockstep ==
  INSTANCE MibLockstep WITH
    StartSfn <- 0,
    udp      <- MibsOf(udp),
    ue       <- [ue EXCEPT !.pc = IF @ = "mib" THEN "receive" ELSE "sleep"]

ImplementsLockstep == Lockstep!Spec

\* The UE of exercise 4 shows in each of its rounds the gNB's frame of the same
\* round, also when sp.time has wrapped and the frames stand still, perhaps in the
\* paging frame, with an RRC in every round.
InStep == Lockstep!InStep

\* What the listener announces is paged: the next paging frame comes and finds it.
AnnouncedIsPaged == ready ~> ~ready

\* As long as the connection lasts, an RRC is made from the message announced last,
\* or from the one that the listener writes at that time or is about to announce, which
\* will be paged again: never from an older one, though the buffer is copied while it
\* is written, for which the listener holds no lock.
NewestIsPaged ==
  main.pc = "send" /\ phantoms = 0 =>
    \/ main.rrc = heard + 1
    \/ main.rrc = heard + 2 /\ listener.pc # "recv"

\* The UE is paged for requests of the AMF only ("without a paging request from the
\* amf nothing is sent to the ue", gnb.c:245 of exercise 4).
NoPhantomPage == Len(pages) <= amf
=============================================================================
