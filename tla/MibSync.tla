------------------------------- MODULE MibSync -------------------------------
(***************************************************************************)
(* How the UE of exercise 5 follows the clock of its gNB: the gNB's        *)
(* broadcast_mib_thread, the UDP socket, and the UE's receive_mib_thread   *)
(* and clock_thread, which share clk and the flag just_update_param.       *)
(*                                                                         *)
(* Each side advances its clock by a timer of its own.  A timer starts the *)
(* next millisecond at the moment it noticed the end of the last one       *)
(* (`last = now`), so the two drift apart for as long as nothing corrects  *)
(* them; the MIB does.                                                     *)
(***************************************************************************)
EXTENDS FrameClock, Sequences

CONSTANTS
  MibPeriod,   \* frames between two MIBs: 8
  SocketSize,  \* bound: MIBs the UE's socket holds; what does not fit is lost
  MibDelay,    \* bound: subframes between the broadcaster's reading of the
               \*   clock and the moment the UE has set its own by it
  Jitter       \* bound: ticks by which one timer gets ahead of the other
               \*   between two corrections

ASSUME SyncAssumption ==
  /\ MibPeriod \in Nat \ {0}
  /\ SfnPeriod % MibPeriod = 0
  /\ SocketSize \in Nat \ {0}
  /\ MibDelay \in Nat
  /\ Jitter \in Nat

\* A MIB is under way, and the timers drift apart between two MIBs, for less than
\* half a period of the clock, which is 5.12 s; MIBs are 80 ms apart.
ASSUME ShortDelays ==
  /\ 2 * (MibDelay + Jitter) < Hyper
  /\ 2 * (Jitter + 3) <= Hyper

VARIABLES
  gnbClk,    \* the gNB's clk
  caster,    \* broadcast_mib_thread: its next step and the frame it read
  lead,      \* ticks of the UE's timer minus ticks of the gNB's, since the
             \*   last correction
  socket,    \* MIBs in the UE's socket: their sfn_value
  ueClk,     \* the UE's clk
  state,     \* ASYNC or SYNC
  just,      \* just_update_param
  rx,        \* receive_mib_thread: its next step and its MIB
  timer,     \* clock_thread: its next step and increased_at_update_param
  synced     \* history: has the UE ever applied a MIB

gnbVars == <<gnbClk, caster>>
ueVars  == <<ueClk, state, just, rx, timer, synced>>
vars == <<gnbVars, lead, socket, ueVars>>

\* The clock that started later is at zero when both run; the other may be anywhere.
Init ==
  /\ gnbClk \in Clock /\ ueClk \in Clock
  /\ gnbClk = InitClock \/ ueClk = InitClock
  /\ caster = [pc |-> "read", sfn |-> 0]
  /\ lead = 0
  /\ socket = << >>
  /\ state = "ASYNC"
  /\ just = FALSE
  /\ rx = [pc |-> "receive", sfn |-> 0]
  /\ timer = [pc |-> "tick", increased |-> FALSE]
  /\ synced = FALSE

-----------------------------------------------------------------------------
(* The gNB                                                                 *)

\* The frames read and not yet applied by the UE: each was read in subframe 0.
InFlight == {socket[j] : j \in DOMAIN socket}
              \cup (IF caster.pc = "send" THEN {caster.sfn} ELSE {})
              \cup (IF rx.pc = "update" THEN {rx.sfn} ELSE {})

\* clock_thread of the gNB.
GnbTick ==
  /\ lead > -Jitter
  /\ \A sfn \in InFlight : Lag(gnbClk, [sfn |-> sfn, sf |-> 0]) < MibDelay
  /\ gnbClk' = tick(gnbClk)
  /\ lead' = lead - 1
  /\ UNCHANGED <<caster, socket, ueVars>>

\* Mutant: no subframe has this number.
mib_due_never(c) == c.sfn % MibPeriod = 0 /\ c.sf = SubFrames

\* A MIB is due all through subframe 0 of every MibPeriod-th frame.
mib_due(c) == c.sfn % MibPeriod = 0 /\ c.sf = 0

CasterRead ==
  /\ caster.pc = "read"
  /\ mib_due(gnbClk)
  /\ caster' = [pc |-> "send", sfn |-> gnbClk.sfn]
  /\ UNCHANGED <<gnbClk, lead, socket, ueVars>>

send_mib ==
  /\ caster.pc = "send"
  /\ socket' = IF Len(socket) < SocketSize
               THEN Append(socket, caster.sfn) ELSE socket
  /\ caster' = [caster EXCEPT !.pc = "read", !.sfn = 0]
  /\ UNCHANGED <<gnbClk, lead, ueVars>>

-----------------------------------------------------------------------------
(* The UE: receive_mib_thread                                              *)

receive_mib ==
  /\ rx.pc = "receive"
  /\ socket # << >>
  /\ socket' = Tail(socket)
  /\ rx' = [pc |-> "update", sfn |-> Head(socket)]
  /\ UNCHANGED <<gnbVars, lead, ueClk, state, just, timer, synced>>

\* Mutant: the frame is taken over, the subframe is not.
clk_of_mib_frame_only(sfn) == [sfn |-> sfn, sf |-> ueClk.sf]

\* Mutant: the MIB's frame is taken for one that has passed.
clk_of_mib_next_frame(sfn) == [sfn |-> increase_sfn(sfn), sf |-> 0]

\* A MIB tells the frame; that it was sent in subframe 0 is understood.
clk_of_mib(sfn) == [sfn |-> sfn, sf |-> 0]

\* The condition of the code is the assignment `state = ASYNC`, which is true:
\* every MIB sets the clock, and the branch that counts to ten is never taken.
UpdateClk ==
  /\ rx.pc = "update"
  /\ state' = "ASYNC"
  /\ ueClk' = clk_of_mib(rx.sfn)
  /\ rx' = [rx EXCEPT !.pc = "flag", !.sfn = 0]
  /\ lead' = 0
  /\ synced' = TRUE
  /\ UNCHANGED <<gnbVars, socket, just, timer>>

FlagUpdate ==
  /\ rx.pc = "flag"
  /\ just' = TRUE
  /\ state' = "SYNC"
  /\ rx' = [rx EXCEPT !.pc = "receive"]
  /\ UNCHANGED <<gnbVars, lead, socket, ueClk, timer, synced>>

-----------------------------------------------------------------------------
(* The UE: clock_thread                                                    *)

UeTick ==
  /\ timer.pc = "tick"
  /\ lead < Jitter
  /\ lead' = lead + 1
  /\ ueClk' = tick(ueClk)
  /\ timer' = [pc |-> "check", increased |-> ueClk'.sf = 0]
  /\ UNCHANGED <<gnbVars, socket, state, just, rx, synced>>

CheckJust ==
  /\ timer.pc = "check"
  /\ timer' = IF just THEN [timer EXCEPT !.pc = "clear"]
                      ELSE [pc |-> "tick", increased |-> FALSE]
  /\ UNCHANGED <<gnbVars, lead, socket, ueClk, state, just, rx, synced>>

ClearJust ==
  /\ timer.pc = "clear"
  /\ just' = FALSE
  /\ timer' = IF timer.increased THEN [pc |-> "tick", increased |-> FALSE]
                                 ELSE [timer EXCEPT !.pc = "again"]
  /\ UNCHANGED <<gnbVars, lead, socket, ueClk, state, rx, synced>>

\* The flag is cleared once more, then the thread waits for sfn_lock.
ClearAgain ==
  /\ timer.pc = "again"
  /\ just' = FALSE
  /\ timer' = [timer EXCEPT !.pc = "extra"]
  /\ UNCHANGED <<gnbVars, lead, socket, ueClk, state, rx, synced>>

\* The second tick in one millisecond.
ExtraTick ==
  /\ timer.pc = "extra"
  /\ ueClk' = tick(ueClk)
  /\ timer' = [pc |-> "tick", increased |-> FALSE]
  /\ UNCHANGED <<gnbVars, lead, socket, state, just, rx, synced>>

-----------------------------------------------------------------------------
broadcast_mib_thread == CasterRead \/ send_mib
receive_mib_thread   == receive_mib \/ UpdateClk \/ FlagUpdate
ue_clock_thread      == UeTick \/ CheckJust \/ ClearJust
                          \/ ClearAgain \/ ExtraTick

Next == \/ GnbTick \/ broadcast_mib_thread
        \/ receive_mib_thread \/ ue_clock_thread

Spec == Init /\ [][Next]_vars

(***************************************************************************)
(* The loops never end and never wait but for a MIB, so each is weakly     *)
(* fair.  A MIB is due for one millisecond only; the broadcaster spins, so *)
(* it may miss some of them but does not miss them all: strong fairness.   *)
(***************************************************************************)
Fairness ==
  /\ WF_vars(GnbTick)
  /\ SF_vars(CasterRead)
  /\ WF_vars(send_mib)
  /\ WF_vars(receive_mib_thread)
  /\ WF_vars(ue_clock_thread)

FairSpec == Spec /\ Fairness

-----------------------------------------------------------------------------
TypeOK ==
  /\ gnbClk \in Clock /\ ueClk \in Clock
  /\ caster \in [pc : {"read", "send"}, sfn : 0 .. SfnPeriod - 1]
  /\ just \in BOOLEAN /\ synced \in BOOLEAN
  /\ lead \in -Jitter .. Jitter
  /\ socket \in Seq(0 .. SfnPeriod - 1) /\ Len(socket) <= SocketSize
  /\ state \in {"ASYNC", "SYNC"}
  /\ rx \in [pc : {"receive", "update", "flag"}, sfn : 0 .. SfnPeriod - 1]
  /\ timer \in [pc : {"tick", "check", "clear", "again", "extra"}, increased : BOOLEAN]

\* How far the UE's clock is ahead of the gNB's (behind it, when negative).
Skew ==
  LET d == (Slot(ueClk) - Slot(gnbClk)) % Hyper
  IN  IF d > Hyper \div 2 THEN d - Hyper ELSE d

\* Once the UE has applied a MIB, its clock is never further behind the gNB's
\* than the age of a MIB and the drift since, nor further ahead than the drift
\* and three of the extra ticks that just_update_param stands for.  clock_thread may
\* have decided on one before the correction; while it waits for sfn_lock, two MIBs
\* may be applied, and the flag that the first of them raised, and the one that the
\* second does, each bring another.
SkewBounded == synced => Skew \in -(MibDelay + Jitter) .. Jitter + 3

\* The UE's clock is corrected again and again, whatever the two clocks showed at
\* first and however the threads race for the one subframe in which a MIB is due.
Corrected == []<>(rx.pc = "flag")
=============================================================================
