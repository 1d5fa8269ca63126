------------------------------ MODULE PageOnTime ------------------------------
(***************************************************************************)
(* Exercise 5 from the gNB's worker to the UE's verdict.  The worker sends *)
(* an RRC in the subframe that the gNB's clock shows; the UE's             *)
(* receive_rrc_thread takes it from its socket, reads the UE's clock only  *)
(* then, and calls the page CORRECT or WRONG by that reading.  Meanwhile   *)
(* the two clocks drift and are corrected as in module MibSync.            *)
(***************************************************************************)
EXTENDS MibSync, PagingOccasion

CONSTANTS
  UE_ID,      \* the UE, in both programs: 300
  RrcDelay,   \* bound: subframes between the worker's reading of the clock
              \*   and the UE's reading of its own
  RrcSocket   \* bound: RRCs the UE's socket holds; what does not fit is lost

ASSUME PageOnTimeAssumption ==
  /\ UE_ID \in Nat /\ UE_ID \div N0 <= 255
  /\ RrcDelay \in Nat \ {0}
  /\ RrcSocket \in Nat \ {0}

\* So is an RRC; and all of it is less than a paging cycle, which is 1.28 s.
ASSUME ShortPage ==
  /\ 2 * (RrcDelay + Jitter + 3) <= Hyper
  /\ MibDelay + Jitter < DRX * SubFrames
  /\ RrcDelay + Jitter + 3 < DRX * SubFrames

VARIABLES
  worker,    \* the gNB's worker: its next step and clock reading
  rrcs,      \* RRCs in the UE's socket: the slot each was filed under
  receiver,  \* receive_rrc_thread: its next step and the RRC's slot
  verdict    \* what the last page was called

pageVars == <<worker, rrcs, receiver, verdict>>
allVars == <<vars, pageVars>>

PageInit ==
  /\ Init
  /\ worker = [pc |-> "snapshot", at |-> InitClock]
  /\ rrcs = << >>
  /\ receiver = [pc |-> "recv", page |-> InitClock]
  /\ verdict = "none"

-----------------------------------------------------------------------------
\* The slots the scheduler files the UE's pages under, whatever the clock was.
FiledSlots ==
  {LET p == calculate_rrc_parameter(UE_ID, c.sfn, c.sf) IN Key(p.PF, p.PO) :
     c \in Clock}

\* The worker finds an entry with pages for this UE under the slot it read.
WorkerGet ==
  /\ worker.pc = "snapshot"
  /\ Slot(gnbClk) \in FiledSlots
  /\ worker' = [pc |-> "loop", at |-> gnbClk]
  /\ UNCHANGED <<vars, rrcs, receiver, verdict>>

\* One page of the entry goes out; there may be more.
send_rrc ==
  /\ worker.pc = "loop"
  /\ rrcs' = IF Len(rrcs) < RrcSocket THEN Append(rrcs, worker.at) ELSE rrcs
  /\ \/ UNCHANGED worker
     \/ worker' = [pc |-> "snapshot", at |-> InitClock]
  /\ UNCHANGED <<vars, receiver, verdict>>

\* recvfrom returns.
RrcArrives ==
  /\ receiver.pc = "recv"
  /\ rrcs # << >>
  /\ receiver' = [pc |-> "judge", page |-> Head(rrcs)]
  /\ rrcs' = Tail(rrcs)
  /\ UNCHANGED <<vars, worker, verdict>>

\* The clock is read, under sfn_lock, and the page judged by it.  Its length and
\* its ue_id are as they must be: the worker sends no others.
receive_rrc ==
  /\ receiver.pc = "judge"
  /\ verdict' = IF check_correct_rrc_time(UE_ID, ueClk.sfn, ueClk.sf)
                THEN "CORRECT" ELSE "WRONG"
  /\ receiver' = [pc |-> "recv", page |-> InitClock]
  /\ UNCHANGED <<vars, worker, rrcs>>

-----------------------------------------------------------------------------
Underway == {rrcs[j] : j \in DOMAIN rrcs}
              \cup (IF worker.pc = "loop" THEN {worker.at} ELSE {})
              \cup (IF receiver.pc = "judge" THEN {receiver.page} ELSE {})

\* The gNB's clock moves on unless that made a page older than RrcDelay.
clock_thread ==
  /\ \A at \in Underway : Lag(gnbClk, at) < RrcDelay
  /\ GnbTick
  /\ UNCHANGED pageVars

sync_threads ==
  /\ broadcast_mib_thread \/ receive_mib_thread \/ ue_clock_thread
  /\ UNCHANGED pageVars

receive_rrc_thread == RrcArrives \/ receive_rrc

PageNext == clock_thread \/ sync_threads
              \/ WorkerGet \/ send_rrc \/ receive_rrc_thread

PageSpec == PageInit /\ [][PageNext]_allVars

\* As in MibSync.  Whether the AMF pages the UE is open; a page that is sent
\* is sent to its end, and the UE's thread does nothing but receive.
PageFairSpec ==
  /\ PageSpec
  /\ WF_allVars(clock_thread)
  /\ SF_vars(CasterRead) /\ WF_vars(send_mib)
  /\ WF_vars(receive_mib_thread) /\ WF_vars(ue_clock_thread)
  /\ WF_allVars(send_rrc /\ worker'.pc = "snapshot")
  /\ WF_allVars(receive_rrc_thread)

-----------------------------------------------------------------------------
PageTypeOK ==
  /\ TypeOK
  /\ worker \in [pc : {"snapshot", "loop"}, at : Clock]
  /\ rrcs \in Seq(Clock) /\ Len(rrcs) <= RrcSocket
  /\ receiver \in [pc : {"recv", "judge"}, page : Clock]
  /\ verdict \in {"none", "CORRECT", "WRONG"}

\* How far the UE's clock is past the slot a page was filed under.
Offset(page) ==
  LET d == (Slot(ueClk) - Slot(page)) % Hyper
  IN  IF d > Hyper \div 2 THEN d - Hyper ELSE d

\* A UE that has applied a MIB judges a page by a clock that is near the slot the
\* page was filed under: behind it by no more than the age of a MIB and the drift,
\* past it by no more than the page's own delay, the drift and three extra ticks.  The
\* reading is taken after recvfrom, so a correction may even come in between.
JudgedNearItsSlot ==
  receiver.pc = "judge" /\ synced =>
    Offset(receiver.page) \in -(MibDelay + Jitter) .. RrcDelay + Jitter + 3

\* A page is called CORRECT just when the UE's clock shows the very subframe that
\* the gNB filed it under: the paging frames and occasions that the two programs
\* compute apart agree, and no other occasion of the UE is taken for this one.
CorrectMeansItsSlot ==
  [][receive_rrc /\ synced =>
       (verdict' = "CORRECT") = (ueClk = receiver.page)]_allVars
=============================================================================
