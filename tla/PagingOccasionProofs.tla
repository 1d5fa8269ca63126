------------------------- MODULE PagingOccasionProofs -------------------------
(***************************************************************************)
(* The arithmetic of the radio clock, and what the paging occasion of a UE *)
(* satisfies, for all values of the constants: the gNB, in bytes, and the  *)
(* UE, in macros, agree on it, and the gNB files a page strictly later     *)
(* than the clock it was computed from and less than two paging cycles     *)
(* later.                                                                  *)
(***************************************************************************)
EXTENDS PagingOccasion, TLAPS

(***************************************************************************)
(* Quotients and remainders                                                *)
(***************************************************************************)

\* A number below n counts on, modulo n, by wrapping at n - 1.
LEMMA Successor ==
  ASSUME NEW n \in Nat \ {0}, NEW x \in 0 .. n - 1
  PROVE  (x + 1) % n = IF x + 1 = n THEN 0 ELSE x + 1
  BY SMT

\* A remainder below the divisor makes quotient and remainder unique.
LEMMA Quotient ==
  ASSUME NEW n \in Nat \ {0}, NEW q \in Nat, NEW r \in 0 .. n - 1
  PROVE  (q * n + r) \div n = q /\ (q * n + r) % n = r
  BY SMT

LEMMA Division ==
  ASSUME NEW n \in Nat \ {0}, NEW x \in Nat
  PROVE  /\ x \div n \in Nat
         /\ x % n \in 0 .. n - 1
         /\ x = n * (x \div n) + (x % n)
  BY SMT

LEMMA SmallModulus ==
  ASSUME NEW n \in Nat \ {0}, NEW x \in Nat, x < n
  PROVE  x % n = x
  BY SMT

LEMMA ProductMono ==
  ASSUME NEW n \in Nat, NEW a \in Nat, NEW b \in Nat, a <= b
  PROVE  a * n <= b * n
  BY SMT

LEMMA ProductStrict ==
  ASSUME NEW n \in Nat, NEW a \in Nat, NEW b \in Nat, a < b
  PROVE  a * n + n <= b * n
<1>1. a + 1 <= b
  BY SMT
<1>2. (a + 1) * n <= b * n
  BY <1>1, ProductMono
<1>3. (a + 1) * n = a * n + n
  BY SMT
<1> QED
  BY <1>2, <1>3

(***************************************************************************)
(* The clock                                                               *)
(***************************************************************************)

LEMMA TickType ==
  ASSUME NEW c \in Clock
  PROVE  tick(c) \in Clock
<1>1. c.sfn \in 0 .. SfnPeriod - 1 /\ c.sf \in 0 .. SubFrames - 1
  BY DEF Clock
<1>2. (c.sf + 1) % SubFrames \in 0 .. SubFrames - 1
  BY <1>1, Division, FrameClockAssumption
<1>3. (c.sfn + 1) % SfnPeriod \in 0 .. SfnPeriod - 1
  BY <1>1, Division, FrameClockAssumption
<1> QED
  BY <1>1, <1>2, <1>3 DEF tick, increase_sfn, Clock

LEMMA HyperType == Hyper \in Nat \ {0}
  BY FrameClockAssumption DEF Hyper

LEMMA SlotType ==
  ASSUME NEW c \in Clock
  PROVE  Slot(c) \in 0 .. Hyper - 1
<1>1. c.sfn \in 0 .. SfnPeriod - 1 /\ c.sf \in 0 .. SubFrames - 1
  BY DEF Clock
<1>2. c.sfn * SubFrames + SubFrames <= SfnPeriod * SubFrames
  BY <1>1, ProductStrict, FrameClockAssumption
<1>3. c.sfn * SubFrames \in Nat
  BY <1>1, FrameClockAssumption
<1> QED
  BY <1>1, <1>2, <1>3, FrameClockAssumption DEF Slot, Hyper

\* A tick moves to the next slot, round the period.
LEMMA TickSlot ==
  ASSUME NEW c \in Clock
  PROVE  Slot(tick(c)) = IF Slot(c) + 1 = Hyper THEN 0 ELSE Slot(c) + 1
<1>1. c.sfn \in 0 .. SfnPeriod - 1 /\ c.sf \in 0 .. SubFrames - 1
  BY DEF Clock
<1>2. (c.sf + 1) % SubFrames = IF c.sf + 1 = SubFrames THEN 0 ELSE c.sf + 1
  BY <1>1, Successor, FrameClockAssumption
<1>3. (c.sfn + 1) % SfnPeriod = IF c.sfn + 1 = SfnPeriod THEN 0 ELSE c.sfn + 1
  BY <1>1, Successor, FrameClockAssumption
<1>4. CASE c.sf + 1 < SubFrames
  <2>1. tick(c).sfn = c.sfn /\ tick(c).sf = c.sf + 1
    BY <1>1, <1>2, <1>4 DEF tick
  <2>2. Slot(tick(c)) = Slot(c) + 1
    BY <1>1, <2>1, FrameClockAssumption DEF Slot
  <2>3. Slot(tick(c)) \in 0 .. Hyper - 1
    BY SlotType, TickType
  <2> QED
    BY <2>2, <2>3, HyperType
<1>5. CASE c.sf + 1 = SubFrames /\ c.sfn + 1 < SfnPeriod
  <2>1. tick(c).sfn = c.sfn + 1 /\ tick(c).sf = 0
    BY <1>1, <1>2, <1>3, <1>5 DEF tick, increase_sfn
  <2>2. (c.sfn + 1) * SubFrames = c.sfn * SubFrames + SubFrames
    BY <1>1, FrameClockAssumption
  <2>3. Slot(tick(c)) = Slot(c) + 1
    BY <1>1, <1>5, <2>1, <2>2, FrameClockAssumption DEF Slot
  <2>4. Slot(tick(c)) \in 0 .. Hyper - 1
    BY SlotType, TickType
  <2> QED
    BY <2>3, <2>4, HyperType
<1>6. CASE c.sf + 1 = SubFrames /\ c.sfn + 1 = SfnPeriod
  <2>1. tick(c).sfn = 0 /\ tick(c).sf = 0
    BY <1>1, <1>2, <1>3, <1>6 DEF tick, increase_sfn
  <2>2. Slot(tick(c)) = 0
    BY <2>1, FrameClockAssumption DEF Slot
  <2>3. (c.sfn + 1) * SubFrames = c.sfn * SubFrames + SubFrames
    BY <1>1, FrameClockAssumption
  <2>4. Slot(c) + 1 = Hyper
    BY <1>1, <1>6, <2>3, FrameClockAssumption DEF Slot, Hyper
  <2> QED
    BY <2>2, <2>4
<1> QED
  BY <1>1, <1>4, <1>5, <1>6, FrameClockAssumption

LEMMA SlotInjective ==
  ASSUME NEW c \in Clock, NEW d \in Clock, Slot(c) = Slot(d)
  PROVE  c = d
<1>1. /\ c.sfn \in Nat /\ c.sf \in 0 .. SubFrames - 1
      /\ d.sfn \in Nat /\ d.sf \in 0 .. SubFrames - 1
      /\ SubFrames \in Nat \ {0}
  BY FrameClockAssumption DEF Clock
<1>2. /\ (c.sfn * SubFrames + c.sf) \div SubFrames = c.sfn
      /\ (c.sfn * SubFrames + c.sf) % SubFrames = c.sf
  BY <1>1, Quotient
<1>3. /\ (d.sfn * SubFrames + d.sf) \div SubFrames = d.sfn
      /\ (d.sfn * SubFrames + d.sf) % SubFrames = d.sf
  BY <1>1, Quotient
<1>4. c.sfn = d.sfn /\ c.sf = d.sf
  BY <1>2, <1>3 DEF Slot
<1> QED
  BY <1>4 DEF Clock

LEMMA LagType ==
  ASSUME NEW c \in Clock, NEW d \in Clock
  PROVE  Lag(c, d) \in 0 .. Hyper - 1
  BY SlotType, HyperType DEF Lag

\* A reading of the clock is one tick older after a tick, or a whole period old.
LEMMA TickLag ==
  ASSUME NEW c \in Clock, NEW past \in Clock
  PROVE  /\ Lag(tick(c), past) = IF Lag(c, past) + 1 = Hyper THEN 0
                                                              ELSE Lag(c, past) + 1
         /\ Lag(c, c) = 0
<1>1. Slot(c) \in 0 .. Hyper - 1 /\ Slot(past) \in 0 .. Hyper - 1
  BY SlotType
<1> QED
  BY <1>1, TickSlot, HyperType DEF Lag

(***************************************************************************)
(* The paging occasion                                                     *)
(***************************************************************************)

\* The constants as plain facts about integers.
LEMMA Constants ==
  /\ DRX \in Nat \ {0} /\ Ns \in Nat \ {0} /\ N0 \in Nat \ {0}
  /\ SfnPeriod \in Nat \ {0} /\ SubFrames \in Nat \ {0}
  /\ N0 < 256 /\ SfnPeriod + DRX <= 65536 /\ SubFrames <= 256
<1>1. Ns \in Nat \ {0}
  BY OccasionAssumption
<1> QED
  BY <1>1, OccasionAssumption, FrameClockAssumption

LEMMA CycleProduct == DRX = Ns * N0
  BY OccasionAssumption

\* N0 fits in the byte that the gNB keeps it in.
LEMMA PagingFrames ==
  /\ N = N0
  /\ DRX \div N = Ns
  /\ DRX \div N0 = Ns
<1>1. N = N0
  <2>1. N0 \in Nat /\ N0 < 256
    BY Constants
  <2>2. N0 % 256 = N0
    BY <2>1, SmallModulus
  <2> QED
    BY <2>2 DEF N
<1>2. (Ns * N0 + 0) \div N0 = Ns
  BY Constants, Quotient
<1>3. Ns * N0 + 0 = DRX
  BY Constants, CycleProduct
<1> QED
  BY <1>1, <1>2, <1>3

LEMMA FrameOfUe ==
  ASSUME NEW ue \in Nat
  PROVE  /\ UePF(ue) \in Nat
         /\ UePF(ue) < DRX
         /\ caculate_pf_mod_t(ue) = UePF(ue)
<1>1. ue % N0 \in Nat /\ ue % N0 < N0
  BY Constants, Division
<1>2. (ue % N0) * Ns + Ns <= N0 * Ns
  BY <1>1, Constants, ProductStrict
<1>3. Ns * (ue % N0) \in Nat /\ Ns * (ue % N0) < DRX
  BY <1>1, <1>2, Constants, CycleProduct
<1>4. UePF(ue) = Ns * (ue % N0)
  BY PagingFrames DEF UePF
<1>5. caculate_pf_mod_t(ue) = UePF(ue) % 65536
  BY <1>4, PagingFrames DEF caculate_pf_mod_t
<1>6. UePF(ue) \in Nat /\ UePF(ue) < DRX
  BY <1>3, <1>4
<1>7. UePF(ue) < 65536
  BY <1>6, Constants
<1>8. UePF(ue) % 65536 = UePF(ue)
  BY <1>6, <1>7, SmallModulus
<1> QED
  BY <1>5, <1>6, <1>8

LEMMA OccasionOfUe ==
  ASSUME NEW ue \in Nat, ue \div N0 <= 255
  PROVE  /\ UePO(ue) \in Nat
         /\ UePO(ue) < SubFrames
         /\ table[Ns][((ue \div N) % 256) % Ns] % 256 = UePO(ue)
<1>1. ue \div N0 \in Nat /\ ue \div N0 < 256
  BY Constants, Division
<1>2. (ue \div N0) % 256 = ue \div N0
  BY <1>1, SmallModulus
<1>3. (ue \div N0) % Ns \in 0 .. Ns - 1
  BY <1>1, Constants, Division
<1>4. UePO(ue) \in Nat /\ UePO(ue) < SubFrames
  BY <1>3, OccasionAssumption, FrameClockAssumption DEF UePO
<1>5. UePO(ue) < 256
  BY <1>4, Constants
<1>6. UePO(ue) % 256 = UePO(ue)
  BY <1>4, <1>5, SmallModulus
<1>7. table[Ns][((ue \div N) % 256) % Ns] = UePO(ue)
  BY <1>2, PagingFrames DEF UePO
<1> QED
  BY <1>4, <1>6, <1>7

-----------------------------------------------------------------------------
\* The cycle of a frame, and the start of the next cycle.
LEMMA CycleOf ==
  ASSUME NEW sfn \in 0 .. SfnPeriod - 1
  PROVE  /\ sfn \div DRX \in Nat
         /\ sfn \div DRX < 255
         /\ (sfn \div DRX + 1) * DRX \in Nat
         /\ sfn < (sfn \div DRX + 1) * DRX
         /\ (sfn \div DRX + 1) * DRX <= sfn + DRX
         /\ (sfn \div DRX + 1) * DRX <= SfnPeriod
<1> DEFINE cycle == sfn \div DRX
           rest == sfn % DRX
<1>1. cycle \in Nat /\ rest \in Nat /\ rest < DRX /\ sfn = DRX * cycle + rest
  BY Division, Constants
<1>2. PICK cycles \in 1 .. 255 : SfnPeriod = cycles * DRX
  BY OccasionAssumption
<1> HIDE DEF cycle, rest
<1>3. cycle < cycles
  <2>1. SUFFICES ASSUME cycles <= cycle PROVE FALSE
    BY <1>1, <1>2
  <2>2. cycles * DRX <= cycle * DRX
    BY <1>1, <1>2, <2>1, ProductMono, Constants
  <2> QED
    BY <1>1, <1>2, <2>2, Constants
<1>4. (cycle + 1) * DRX = cycle * DRX + DRX /\ cycle * DRX \in Nat /\ DRX * cycle = cycle * DRX
  BY <1>1, Constants
<1>5. cycle * DRX + DRX <= cycles * DRX
  BY <1>1, <1>2, <1>3, ProductStrict, Constants
<1>6. cycle < 255
  BY <1>1, <1>2, <1>3
<1>7. /\ (cycle + 1) * DRX \in Nat /\ sfn < (cycle + 1) * DRX
      /\ (cycle + 1) * DRX <= sfn + DRX /\ (cycle + 1) * DRX <= SfnPeriod
  BY <1>1, <1>2, <1>4, <1>5, Constants
<1> QED
  BY <1>1, <1>6, <1>7, Zenon DEF cycle

\* The frame of a page: this one if the occasion is still to come, else that of
\* the next cycle.  No conversion to a C type loses a bit.
LEMMA FiledFrame ==
  ASSUME NEW ue \in Nat, ue \div N0 <= 255,
         NEW sfn \in 0 .. SfnPeriod - 1, NEW sf \in 0 .. SubFrames - 1
  PROVE  LET p == calculate_rrc_parameter(ue, sfn, sf)
         IN  /\ p.PO = UePO(ue)
             /\ p.PF = IF sfn % DRX = UePF(ue) /\ UePO(ue) > sf
                       THEN sfn ELSE (sfn \div DRX + 1) * DRX + UePF(ue)
<1> DEFINE next == (sfn \div DRX + 1) * DRX + UePF(ue)
<1>1. (sfn \div DRX) % 256 = sfn \div DRX
  <2>1. sfn \div DRX \in Nat /\ sfn \div DRX < 256
    BY CycleOf
  <2> QED
    BY <2>1, SmallModulus
<1>2. next \in Nat /\ next < 65536
  <2>1. (sfn \div DRX + 1) * DRX \in Nat /\ (sfn \div DRX + 1) * DRX <= SfnPeriod
    BY CycleOf
  <2>2. UePF(ue) \in Nat /\ UePF(ue) < DRX
    BY FrameOfUe
  <2> QED
    BY <2>1, <2>2, Constants
<1>3. next % 65536 = next
  BY <1>2, SmallModulus
<1> QED
  BY <1>1, <1>3, FrameOfUe, OccasionOfUe DEF calculate_rrc_parameter

\* The occasion that the gNB files a page under is one of the UE's.
LEMMA FiledOccasion ==
  ASSUME NEW ue \in Nat, ue \div N0 <= 255,
         NEW sfn \in 0 .. SfnPeriod - 1, NEW sf \in 0 .. SubFrames - 1
  PROVE  LET p == calculate_rrc_parameter(ue, sfn, sf)
         IN  /\ p.PF \in 0 .. SfnPeriod + DRX - 1
             /\ p.PO \in 0 .. SubFrames - 1
             /\ check_correct_rrc_time(ue, p.PF, p.PO)
<1> DEFINE p == calculate_rrc_parameter(ue, sfn, sf)
           pf == UePF(ue)
           next == sfn \div DRX + 1
           start == next * DRX
<1>1. pf \in Nat /\ pf < DRX
  BY FrameOfUe
<1>2. p.PO = UePO(ue) /\ p.PO \in 0 .. SubFrames - 1
  <2>1. UePO(ue) \in Nat /\ UePO(ue) < SubFrames
    BY OccasionOfUe
  <2> QED
    BY <2>1, FiledFrame, Constants
<1>3. start \in Nat /\ start <= SfnPeriod /\ next \in Nat
  BY CycleOf
<1>4. (start + pf) % DRX = pf
  <2>1. pf \in 0 .. DRX - 1
    BY <1>1, Constants
  <2> HIDE DEF pf, next
  <2> QED
    BY <1>3, <2>1, Quotient, Constants
<1>5. \/ p.PF = sfn /\ sfn % DRX = pf
      \/ p.PF = start + pf
  BY FiledFrame
<1> HIDE DEF pf, start, p
<1>6. p.PF % DRX = pf
  BY <1>4, <1>5
<1>7. p.PF \in 0 .. SfnPeriod + DRX - 1
  BY <1>1, <1>3, <1>5, Constants
<1> QED
  BY <1>2, <1>6, <1>7 DEF check_correct_rrc_time, p, pf

\* The key taken apart again.
LEMMA KeyParts ==
  ASSUME NEW pf \in Nat, NEW po \in 0 .. SubFrames - 1
  PROVE  /\ Key(pf, po) \in Nat
         /\ Key(pf, po) \div SubFrames = pf
         /\ Key(pf, po) % SubFrames = po
<1>1. pf * SubFrames \in Nat
  BY Constants
<1>2. (pf * SubFrames + po) \div SubFrames = pf /\ (pf * SubFrames + po) % SubFrames = po
  BY Quotient, Constants
<1> QED
  BY <1>1, <1>2, Constants DEF Key

(***************************************************************************)
(* A page is filed strictly after the slot of the clock reading it was     *)
(* computed from, and less than two paging cycles after it                 *)
(* (calculate_rrc_parameter, gnb/caculate.c:171-200).                      *)
(***************************************************************************)
THEOREM FiledAhead ==
  ASSUME NEW ue \in Nat, ue \div N0 <= 255,
         NEW sfn \in 0 .. SfnPeriod - 1, NEW sf \in 0 .. SubFrames - 1
  PROVE  LET p == calculate_rrc_parameter(ue, sfn, sf)
         IN  /\ Key(sfn, sf) < Key(p.PF, p.PO)
             /\ Key(p.PF, p.PO) < Key(sfn, sf) + 2 * DRX * SubFrames
<1> DEFINE pf == calculate_rrc_parameter(ue, sfn, sf).PF
           po == calculate_rrc_parameter(ue, sfn, sf).PO
           start == (sfn \div DRX + 1) * DRX
<1>1. UePF(ue) \in Nat /\ UePF(ue) < DRX
  BY FrameOfUe
<1>2. pf \in Nat /\ po \in 0 .. SubFrames - 1
  BY FiledOccasion, Constants
<1>3. \/ pf = sfn /\ po > sf
      \/ pf = start + UePF(ue)
  BY FiledFrame
<1>4. start \in Nat /\ sfn < start /\ start <= sfn + DRX
  BY CycleOf
<1> SUFFICES /\ Key(sfn, sf) < Key(pf, po)
             /\ Key(pf, po) < Key(sfn, sf) + 2 * DRX * SubFrames
  OBVIOUS
<1> HIDE DEF pf, po, start
<1> DEFINE from == sfn * SubFrames
           to == pf * SubFrames
           cycle == DRX * SubFrames
<1>5. cycle \in Nat /\ SubFrames <= cycle
  <2>1. 1 * SubFrames <= DRX * SubFrames
    BY Constants, ProductMono
  <2> QED
    BY <2>1, Constants
<1>6. 2 * DRX * SubFrames = 2 * cycle
  BY Constants
<1>7. from \in Nat /\ to \in Nat
  BY <1>2, Constants
<1>8. CASE pf = sfn /\ po > sf
  <2>1. to = from
    BY <1>8
  <2> HIDE DEF from, to, cycle
  <2>2. from + sf < to + po /\ to + po < from + sf + 2 * cycle
    BY <1>2, <1>5, <1>7, <1>8, <2>1, Constants
  <2> QED
    BY <1>6, <2>2 DEF Key, from, to
<1>9. CASE pf = start + UePF(ue)
  <2>1. sfn < pf /\ pf < sfn + 2 * DRX
    BY <1>1, <1>4, <1>9, Constants
  <2>2. from + SubFrames <= to
    BY <1>2, <2>1, ProductStrict, Constants
  <2>3. pf * SubFrames + SubFrames <= (sfn + 2 * DRX) * SubFrames
    BY <1>2, <2>1, ProductStrict, Constants
  <2>4. (sfn + 2 * DRX) * SubFrames = from + 2 * cycle
    BY Constants
  <2>5. to + SubFrames <= from + 2 * cycle
    BY <2>3, <2>4
  <2> HIDE DEF from, to, cycle
  <2>6. from + sf < to + po /\ to + po < from + sf + 2 * cycle
    BY <1>2, <1>5, <1>7, <2>2, <2>5, Constants
  <2> QED
    BY <1>6, <2>6 DEF Key, from, to
<1> QED
  BY <1>3, <1>8, <1>9

-----------------------------------------------------------------------------
\* Division by the length of a paging cycle, and of a frame.
LEMMA CycleDivision ==
  ASSUME NEW x \in Nat
  PROVE  /\ x \div DRX \in Nat
         /\ x % DRX \in 0 .. DRX - 1
         /\ x = (x \div DRX) * DRX + (x % DRX)
<1>1. DRX \in Nat \ {0}
  BY Constants
<1> QED
  BY <1>1, SMT

LEMMA FrameDivision ==
  ASSUME NEW x \in Nat
  PROVE  /\ x \div SubFrames \in Nat
         /\ x % SubFrames \in 0 .. SubFrames - 1
         /\ x = (x \div SubFrames) * SubFrames + (x % SubFrames)
<1>1. SubFrames \in Nat \ {0}
  BY Constants
<1> QED
  BY <1>1, SMT

LEMMA CycleRemainder ==
  ASSUME NEW q \in Nat, NEW r \in 0 .. DRX - 1
  PROVE  (q * DRX + r) % DRX = r
<1>1. DRX \in Nat \ {0}
  BY Constants
<1> QED
  BY <1>1, Quotient

\* A frame that is the UE's and not before `sfn` is no earlier than the UE's frame
\* in the cycle of `sfn`; and earlier than the next cycle's only if it is that one.
LEMMA FrameInCycle ==
  ASSUME NEW f \in Nat, NEW sfn \in Nat, NEW pf \in 0 .. DRX - 1,
         f % DRX = pf, sfn <= f
  PROVE  LET start == (sfn \div DRX) * DRX
         IN  /\ start \in Nat
             /\ start + pf <= f
             /\ f < start + DRX + pf => f = start + pf
<1> DEFINE y == sfn \div DRX
           rest == sfn % DRX
           q == f \div DRX
<1>1. y \in Nat /\ rest \in 0 .. DRX - 1 /\ sfn = y * DRX + rest
  BY CycleDivision
<1>2. q \in Nat /\ f = q * DRX + pf
  BY CycleDivision
<1>3. y * DRX \in Nat /\ q * DRX \in Nat
  BY <1>1, <1>2, Constants
<1> HIDE DEF y, q, rest
<1>4. y <= q
  <2>1. SUFFICES ASSUME q < y PROVE FALSE
    BY <1>1, <1>2
  <2>2. q * DRX + DRX <= y * DRX
    BY <1>1, <1>2, <2>1, ProductStrict, Constants
  <2> QED
    BY <1>1, <1>2, <1>3, <2>2, Constants
<1>5. y * DRX <= q * DRX
  BY <1>1, <1>2, <1>4, ProductMono, Constants
<1>6. ASSUME f < y * DRX + DRX + pf PROVE f = y * DRX + pf
  <2>1. q <= y
    <3>1. SUFFICES ASSUME y < q PROVE FALSE
      BY <1>1, <1>2
    <3>2. y * DRX + DRX <= q * DRX
      BY <1>1, <1>2, <3>1, ProductStrict, Constants
    <3> QED
      BY <1>2, <1>3, <1>6, <3>2, Constants
  <2>2. q = y
    BY <1>1, <1>2, <1>4, <2>1
  <2> QED
    BY <1>2, <1>3, <2>2
<1> QED
  BY <1>2, <1>3, <1>5, <1>6 DEF y

\* The UE's next slot, given as the first of its slots after a clock reading.
LEMMA NextAwakeIs ==
  ASSUME NEW ue, NEW at, NEW s \in Awake(ue, at),
         Awake(ue, at) \subseteq Int,
         \A t \in Awake(ue, at) : s <= t
  PROVE  NextAwake(ue, at) = s
<1>1. PICK c \in Awake(ue, at) :
        c = NextAwake(ue, at) /\ \A t \in Awake(ue, at) : c <= t
  BY DEF NextAwake
<1>2. c <= s /\ s <= c
  BY <1>1
<1> QED
  BY <1>1, <1>2

(***************************************************************************)
(* For every UE and at every clock value the gNB files a page under the    *)
(* UE's next occasion, or exactly one cycle after it; the latter just when *)
(* the UE's frame is still ahead in the current cycle                      *)
(* (calculate_rrc_parameter, gnb/caculate.c:171-200).                      *)
(***************************************************************************)
THEOREM FiledNextOrLate ==
  ASSUME NEW ue \in Nat, ue \div N0 <= 255, NEW at \in Clock
  PROVE  LET p == calculate_rrc_parameter(ue, at.sfn, at.sf)
         IN  Key(p.PF, p.PO) =
               NextAwake(ue, at)
                 + IF at.sfn % DRX < UePF(ue) THEN DRX * SubFrames ELSE 0
<1> DEFINE sfn == at.sfn
           sf == at.sf
           pf == UePF(ue)
           po == UePO(ue)
           rest == sfn % DRX
           y == sfn \div DRX
           start == y * DRX
           early == rest < pf \/ (rest = pf /\ po > sf)
           n == IF early THEN start + pf ELSE start + DRX + pf
           s == n * SubFrames + po
           two == 2 * DRX * SubFrames
<1>1. /\ sfn \in 0 .. SfnPeriod - 1 /\ sfn \in Nat
      /\ sf \in 0 .. SubFrames - 1
  BY Constants DEF Clock
<1>2. pf \in 0 .. DRX - 1
  BY FrameOfUe, Constants
<1>3. po \in 0 .. SubFrames - 1
  BY OccasionOfUe, Constants
<1>4. y \in Nat /\ rest \in 0 .. DRX - 1 /\ sfn = y * DRX + rest
  BY <1>1, CycleDivision
<1>5. start \in Nat /\ sfn = start + rest /\ (y + 1) * DRX = start + DRX
  <2> HIDE DEF y, rest, sfn
  <2> QED
    BY <1>4, Constants
<1>6. /\ (start + pf) % DRX = pf
      /\ (start + DRX + pf) % DRX = pf
  <2> HIDE DEF y, pf
  <2>1. (y * DRX + pf) % DRX = pf
    BY <1>2, <1>4, CycleRemainder
  <2>2. y + 1 \in Nat
    BY <1>4
  <2>3. ((y + 1) * DRX + pf) % DRX = pf
    BY <1>2, <2>2, CycleRemainder
  <2> QED
    BY <1>5, <2>1, <2>3 DEF start
<1>7. LET p == calculate_rrc_parameter(ue, sfn, sf)
      IN  /\ p.PO = po
          /\ p.PF = IF rest = pf /\ po > sf THEN sfn ELSE start + DRX + pf
  BY <1>1, <1>5, FiledFrame
<1> HIDE DEF sfn, sf, pf, po, rest, y, start
<1>8. n \in Nat /\ n % DRX = pf
  BY <1>2, <1>5, <1>6, Constants
<1>9. s \in Nat /\ s \div SubFrames = n /\ s % SubFrames = po
  <2>1. n * SubFrames \in Nat
    BY <1>8, Constants
  <2> HIDE DEF n
  <2> QED
    BY <1>3, <1>8, <2>1, Quotient, Constants
<1>10. Slot(at) = sfn * SubFrames + sf /\ sfn * SubFrames \in Nat /\ Slot(at) \in Nat
  BY <1>1, Constants DEF Slot, sfn, sf
<1>11. s \in Slot(at) + 1 .. Slot(at) + two
  <2>1. \/ n = sfn /\ po > sf
        \/ sfn < n
    BY <1>2, <1>4, <1>5, Constants
  <2>2. n < sfn + 2 * DRX
    BY <1>2, <1>4, <1>5, Constants
  <2>3. n * SubFrames + SubFrames <= (sfn + 2 * DRX) * SubFrames
    BY <1>1, <1>8, <2>2, ProductStrict, Constants
  <2>4. (sfn + 2 * DRX) * SubFrames = sfn * SubFrames + two /\ two \in Nat
    BY <1>1, Constants
  <2>5. n * SubFrames \in Nat
    BY <1>8, Constants
  <2> HIDE DEF n, two
  <2>6. CASE n = sfn /\ po > sf
    BY <1>1, <1>3, <1>10, <2>3, <2>4, <2>6, Constants
  <2>7. CASE sfn < n
    <3>1. sfn * SubFrames + SubFrames <= n * SubFrames
      BY <1>1, <1>8, <2>7, ProductStrict, Constants
    <3> QED
      BY <1>1, <1>3, <1>10, <2>3, <2>4, <2>5, <3>1, Constants
  <2> QED
    BY <2>1, <2>6, <2>7
<1>12. s \in Awake(ue, at)
  BY <1>8, <1>9, <1>11 DEF Awake, check_correct_rrc_time, pf, po
<1>13. ASSUME NEW t \in Awake(ue, at)
       PROVE  t \in Int /\ s <= t
  <2> DEFINE f == t \div SubFrames
  <2>1. t \in Slot(at) + 1 .. Slot(at) + two /\ f % DRX = pf /\ t % SubFrames = po
    BY DEF Awake, check_correct_rrc_time, pf, po
  <2>2. t \in Nat /\ Slot(at) < t
    BY <1>10, <2>1
  <2>3. f \in Nat /\ t = f * SubFrames + po
    <3>1. f \in Nat /\ t = f * SubFrames + (t % SubFrames)
      BY <2>2, FrameDivision
    <3> QED
      BY <2>1, <3>1, Zenon
  <2> HIDE DEF f, n, two
  <2>4. t = f * SubFrames + po /\ f * SubFrames \in Nat
    BY <2>3, Constants
  <2>5. sfn <= f
    <3>1. SUFFICES ASSUME f < sfn PROVE FALSE
      BY <1>1, <2>3
    <3>2. f * SubFrames + SubFrames <= sfn * SubFrames
      BY <1>1, <2>3, <3>1, ProductStrict, Constants
    <3> QED
      BY <1>1, <1>3, <1>10, <2>2, <2>4, <3>2, Constants
  <2>6. n <= f
    <3>1. start + pf <= f /\ (f < start + DRX + pf => f = start + pf)
      BY <1>1, <1>2, <2>1, <2>3, <2>5, FrameInCycle DEF start, y
    <3>2. CASE early
      BY <3>1, <3>2 DEF n
    <3>3. CASE ~early
      <4>1. SUFFICES ASSUME f < start + DRX + pf PROVE FALSE
        BY <1>2, <1>5, <2>3, <3>3, Constants DEF n
      <4>2. f = sfn /\ po <= sf
        BY <1>1, <1>2, <1>3, <1>4, <1>5, <2>5, <3>1, <3>3, <4>1
      <4> QED
        BY <1>1, <1>3, <1>10, <2>2, <2>4, <4>2
    <3> QED
      BY <3>2, <3>3
  <2>7. n * SubFrames <= f * SubFrames
    BY <1>8, <2>3, <2>6, ProductMono, Constants
  <2>8. n * SubFrames \in Nat
    BY <1>8, Constants
  <2> QED
    BY <1>3, <2>2, <2>4, <2>7, <2>8
<1>14. NextAwake(ue, at) = s
  <2> HIDE DEF s
  <2> QED
    BY <1>12, <1>13, NextAwakeIs
<1>15. CASE rest < pf
  <2>1. n = start + pf /\ ~(rest = pf)
    BY <1>2, <1>4, <1>15
  <2>2. (n + DRX) * SubFrames = n * SubFrames + DRX * SubFrames
    BY <1>8, Constants
  <2>3. start + DRX + pf = n + DRX
    BY <1>2, <1>5, <2>1, Constants
  <2> HIDE DEF n
  <2>4. n * SubFrames \in Nat /\ DRX * SubFrames \in Nat
    BY <1>8, Constants
  <2>5. Key(n + DRX, po) = s + DRX * SubFrames
    BY <1>3, <2>2, <2>4 DEF Key
  <2> QED
    BY <1>7, <1>14, <1>15, <2>1, <2>3, <2>5 DEF sfn, sf, pf, rest
<1>16. CASE ~(rest < pf)
  <2>1. n = IF rest = pf /\ po > sf THEN sfn ELSE start + DRX + pf
    BY <1>2, <1>4, <1>5, <1>16
  <2> HIDE DEF n
  <2>2. Key(n, po) = s + 0
    BY <1>9 DEF Key
  <2> QED
    BY <1>7, <1>14, <1>16, <2>1, <2>2 DEF sfn, sf, pf, rest
<1> QED
  BY <1>15, <1>16
=============================================================================
