----------------------------- MODULE MibLockstep -----------------------------
(***************************************************************************)
(* Exercise 3: a gNB and a UE that count frames in two loops of 10 ms and  *)
(* meet only through the MIBs in a UDP socket.  Every 80 ms the gNB sends  *)
(* one and the UE blocks until it has one; the UE takes the frame number   *)
(* from the first, and later from those at multiples of 800 ms.            *)
(*                                                                         *)
(* Exercise 4 runs the same two loops: see module PagingLockstep.          *)
(***************************************************************************)
EXTENDS Integers, Sequences, FiniteSets

CONSTANTS
  SfnPeriod,    \* frames before the frame number wraps: 1024
  StartSfn,     \* the gNB's first frame number: 567, in exercise 4 it is 0
  MibMs,        \* ms between two MIBs: 80
  UpdateMs,     \* ms between two updates of a UE in SYNC: 800
  TimeModulus,  \* where sp.time, an unsigned int, wraps: 2^32
  MaxAhead,     \* bound: rounds by which the gNB gets ahead of the UE, besides
                \*   those the UE waits for because of a lost MIB
  MaxLost       \* bound: MIBs that are lost

ASSUME LockstepAssumption ==
  /\ SfnPeriod \in Nat \ {0}
  /\ StartSfn \in 0 .. SfnPeriod - 1
  /\ MibMs \in Nat \ {0} /\ MibMs % 10 = 0
  /\ UpdateMs \in Nat \ {0} /\ UpdateMs % MibMs = 0
  /\ SfnPeriod % (MibMs \div 10) = 0
  /\ TimeModulus \in Nat \ {0}
  /\ MaxAhead \in Nat
  /\ MaxLost \in Nat

MibFrames == MibMs \div 10

VARIABLES
  gnb,    \* the gNB's sp: time and sfn
  udp,    \* MIBs in the UE's socket: their sfn_value
  ue,     \* the UE: its next step and its sp: time, sfn and state
  ahead,  \* history: rounds of the gNB minus rounds of the UE
  lost    \* history: MIBs lost

vars == <<gnb, udp, ue, ahead, lost>>

Init ==
  /\ gnb = [time |-> 0, sfn |-> StartSfn]
  /\ udp = << >>
  /\ ue = [pc |-> "sleep", time |-> 0, sfn |-> 0, state |-> "ASYNC"]
  /\ ahead = 0
  /\ lost = 0

\* Mutant: the frame number runs to SfnPeriod before it wraps.
increase_sfn_late(sfn) == (sfn + 1) % (SfnPeriod + 1)

increase_sfn(sfn) == (sfn + 1) % SfnPeriod

\* The beginning of both loops: 10 ms have passed.
after_sleep(sp) ==
  LET time == (sp.time + 10) % TimeModulus
  IN  [sp EXCEPT !.time = time,
                 !.sfn = IF time % 10 = 0 THEN increase_sfn(@) ELSE @]

\* A MIB arrives, or it is lost.
send_mib(sfn) ==
  \/ udp' = Append(udp, sfn) /\ UNCHANGED lost
  \/ lost < MaxLost /\ lost' = lost + 1 /\ UNCHANGED udp

GnbRound ==
  /\ ahead < MaxAhead + MibFrames * lost
  /\ gnb' = after_sleep(gnb)
  /\ IF gnb'.time % MibMs = 0 THEN send_mib(gnb'.sfn) ELSE UNCHANGED <<udp, lost>>
  /\ ahead' = ahead + 1
  /\ UNCHANGED ue

\* Mutant: the UE does not wait for a MIB.
mib_expected_never(sp) == FALSE

mib_expected(sp) == sp.time % MibMs = 0

\* A round of the UE up to the point where it needs a MIB, or to its end.
UeRound ==
  /\ ue.pc = "sleep"
  /\ ue' = [after_sleep(ue) EXCEPT !.pc =
              IF mib_expected(after_sleep(ue)) THEN "receive" ELSE "sleep"]
  /\ ahead' = ahead - 1
  /\ UNCHANGED <<gnb, udp, lost>>

\* Mutant: once it is synchronous the UE never updates its frame number.
update_due_once(sp) == sp.state = "ASYNC"

\* Mutant: the first MIB makes the UE synchronous but leaves its frame number.
update_due_later(sp) == sp.time % UpdateMs = 0

update_due(sp) == sp.state = "ASYNC" \/ sp.time % UpdateMs = 0

\* recvfrom blocks until a MIB is there.
receive_mib(sfn) == udp # << >> /\ sfn = Head(udp) /\ udp' = Tail(udp)

\* The rest of the round, from the receive on.
UeSync ==
  /\ ue.pc = "receive"
  /\ \E sfn \in 0 .. SfnPeriod - 1 :
       /\ receive_mib(sfn)
       /\ ue' = [ue EXCEPT !.pc = "sleep",
                           !.state = "SYNC",
                           !.sfn = IF update_due(ue) THEN sfn ELSE @]
  /\ UNCHANGED <<gnb, ahead, lost>>

Next == GnbRound \/ UeRound \/ UeSync

Spec == Init /\ [][Next]_vars

\* Both loops go on for ever; only the UE blocks, in recvfrom.
FairSpec == Spec /\ WF_vars(GnbRound) /\ WF_vars(UeRound) /\ WF_vars(UeSync)

-----------------------------------------------------------------------------
TypeOK ==
  /\ gnb \in [time : 0 .. TimeModulus - 1, sfn : 0 .. SfnPeriod - 1]
  /\ udp \in Seq(0 .. SfnPeriod - 1)
  /\ ue \in [pc : {"sleep", "receive"}, time : 0 .. TimeModulus - 1,
             sfn : 0 .. SfnPeriod - 1, state : {"ASYNC", "SYNC"}]
  /\ ahead \in Int /\ ahead <= MaxAhead + MibFrames * lost
  /\ lost \in 0 .. MaxLost

\* In how many of its last n rounds has a loop, now at this time, moved its frame?
\* sp.time wraps at 2^32, which 10 does not divide: from the first wrap to the fifth
\* no time is a multiple of 10, the frame stands still, and no MIB is sent.
FramesIn(time, n) ==
  Cardinality({k \in 0 .. n - 1 : ((time - 10 * k) % TimeModulus) % 10 = 0})

FramesAhead == FramesIn(gnb.time, ahead) - FramesIn(ue.time, -ahead)

\* How far the UE's frame number is from the one the gNB showed, or will show, in
\* the round the UE is in.  A MIB that was lost makes the UE wait a period more,
\* and from its next update on it counts that period.
Offset == (gnb.sfn - FramesAhead + MibFrames * lost - ue.sfn) % SfnPeriod

\* As long as no MIB is lost, a UE in state SYNC shows in every round of its own
\* the frame number of the gNB's round of the same number, however the two loops
\* are scheduled, however many MIBs wait in the socket meanwhile, and across the
\* times in which sp.time is out of step with the frames.
InStep == lost = 0 /\ ue.state = "SYNC" /\ ue.pc = "sleep" => Offset = 0

\* The UE never gets a whole MIB period of frames ahead of the gNB: the receive it
\* blocks in is what keeps the two loops together.  Where no MIBs are sent it runs
\* free, but counts no frames.
NotAhead == ue.pc = "sleep" => FramesAhead > -MibFrames

\* When MIBs have been lost, the update at the next multiple of 800 ms brings the
\* UE back in step: it ends in step for good once no more are lost.
Recovers == <>[](ue.pc = "sleep" => Offset = 0)
=============================================================================
