------------------------------ MODULE FrameClock ------------------------------
(***************************************************************************)
(* The radio clock kept by both programs of exercise 5 (`SystemClock clk`):*)
(* a system frame number and a subframe inside the frame.  The gNB and the *)
(* UE advance it with the same code, one subframe per millisecond.         *)
(*                                                                         *)
(* The field time_ms is left out: it is incremented and never read.        *)
(***************************************************************************)
EXTENDS Integers

CONSTANTS
  SfnPeriod,   \* frames before the frame number wraps: 1024 in the code
  SubFrames    \* subframes in a frame: 10 in the code

ASSUME FrameClockAssumption ==
  /\ SfnPeriod \in Nat \ {0}
  /\ SubFrames \in Nat \ {0}

Clock == [sfn : 0 .. SfnPeriod - 1, sf : 0 .. SubFrames - 1]

InitClock == [sfn |-> 0, sf |-> 0]

\* Mutant: the frame number does not wrap.
increase_sfn_unbounded(sfn) == sfn + 1

\* As clock_thread does it; the function of this name is never called.
increase_sfn(sfn) == (sfn + 1) % SfnPeriod

\* The critical section of clock_thread: the frame moves when the subframe wraps.
tick(c) ==
  LET sf == (c.sf + 1) % SubFrames
  IN  [sfn |-> IF sf = 0 THEN increase_sfn(c.sfn) ELSE c.sfn, sf |-> sf]

-----------------------------------------------------------------------------
(* Slots: a clock value as one number, so that distances can be measured.  *)

Hyper == SfnPeriod * SubFrames     \* subframes before the clock repeats

Slot(c) == c.sfn * SubFrames + c.sf

\* How many subframes ago the clock showed `past`, at most one period back.
Lag(now, past) ==
  IF Slot(now) >= Slot(past) THEN Slot(now) - Slot(past)
                             ELSE Slot(now) - Slot(past) + Hyper
=============================================================================
