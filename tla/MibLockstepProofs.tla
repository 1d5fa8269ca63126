-------------------------- MODULE MibLockstepProofs --------------------------
(***************************************************************************)
(* The two loops of exercise 3 stay in step, for all periods, however far  *)
(* the one gets ahead of the other, and across every wrap of sp.time.      *)
(*                                                                         *)
(* No round has a number in the state.  A round is named by its age, the   *)
(* rounds the gNB has done since; the UE's round has the age `ahead`.  The *)
(* invariant knows of every MIB in the socket the age of its round, and    *)
(* that the UE has not passed that round yet.                              *)
(***************************************************************************)
EXTENDS MibLockstep, FiniteSetTheorems, FunctionTheorems, SequenceTheorems, TLAPS

(***************************************************************************)
(* sp.time, k rounds ago                                                   *)
(***************************************************************************)
LEMMA Modulo ==
  ASSUME NEW m \in Nat \ {0}, NEW x \in Int
  PROVE  /\ x % m \in 0 .. m - 1
         /\ x \div m \in Int
         /\ x = m * (x \div m) + (x % m)
  BY SMT

LEMMA ModuloUnique ==
  ASSUME NEW m \in Nat \ {0}, NEW q \in Int, NEW r \in 0 .. m - 1
  PROVE  (m * q + r) % m = r
  BY SMT

LEMMA ModuloSmall ==
  ASSUME NEW m \in Nat \ {0}, NEW r \in 0 .. m - 1
  PROVE  r % m = r
  BY SMT

LEMMA Tens ==
  ASSUME NEW x \in Int
  PROVE  x = 10 * (x \div 10) + (x % 10) /\ x \div 10 \in Int /\ x % 10 \in 0 .. 9
  BY SMT

\* An addition may be reduced early or late.
LEMMA ModuloAdd ==
  ASSUME NEW m \in Nat \ {0}, NEW x \in Int, NEW y \in Int
  PROVE  ((x % m) + y) % m = (x + y) % m
<1> DEFINE q == x \div m
           s == (x % m) + y
           p == s \div m
           r == s % m
<1>1. q \in Int /\ s \in Int /\ x + y = m * q + s
  BY Modulo
<1>2. p \in Int /\ r \in 0 .. m - 1 /\ s = m * p + r
  BY <1>1, Modulo
<1> HIDE DEF q, s, p, r
<1>3. m * q + (m * p + r) = m * (q + p) + r
  BY <1>1, <1>2
<1>4. x + y = m * (q + p) + r
  BY <1>1, <1>2, <1>3
<1>5. (m * (q + p) + r) % m = r
  BY <1>1, <1>2, ModuloUnique
<1> QED
  BY <1>4, <1>5 DEF r, s

Back(t, k) == (t - 10 * k) % TimeModulus

LEMMA Periods ==
  /\ SfnPeriod \in Nat \ {0} /\ TimeModulus \in Nat \ {0} /\ MibMs \in Nat \ {0}
  /\ MibMs % 10 = 0
  BY LockstepAssumption

\* What is added to a frame number may be taken off again.
LEMMA ModuloCancel ==
  ASSUME NEW x \in Int, NEW m \in Int, NEW d \in Int
  PROVE  (((x + m) % SfnPeriod) - (d + m)) % SfnPeriod = (x - d) % SfnPeriod
<1>1. x + m \in Int /\ -(d + m) \in Int /\ SfnPeriod \in Nat \ {0}
  BY Periods
<1>2. (((x + m) % SfnPeriod) + (-(d + m))) % SfnPeriod = (x + m + (-(d + m))) % SfnPeriod
  BY <1>1, ModuloAdd
<1>3. (x + m) % SfnPeriod \in Int
  BY <1>1, Modulo
<1>4. ((x + m) % SfnPeriod) + (-(d + m)) = ((x + m) % SfnPeriod) - (d + m)
  BY <1>3
<1>5. x + m + (-(d + m)) = x - d
  OBVIOUS
<1> QED
  BY <1>2, <1>4, <1>5

LEMMA BackType ==
  ASSUME NEW t \in Int, NEW k \in Int
  PROVE  Back(t, k) \in 0 .. TimeModulus - 1
<1>1. t - 10 * k \in Int
  OBVIOUS
<1> QED
  BY <1>1, Modulo, Periods DEF Back

LEMMA BackNow ==
  ASSUME NEW t \in 0 .. TimeModulus - 1
  PROVE  Back(t, 0) = t /\ Back(t, -1) = (t + 10) % TimeModulus
<1>1. t % TimeModulus = t
  BY ModuloSmall, Periods
<1>2. t - 10 * 0 = t /\ t - 10 * (-1) = t + 10
  BY Periods
<1> QED
  BY <1>1, <1>2 DEF Back

LEMMA BackSum ==
  ASSUME NEW t \in Int, NEW j \in Int, NEW k \in Int
  PROVE  Back(Back(t, j), k) = Back(t, j + k)
<1> DEFINE x == t - 10 * j
           y == -(10 * k)
           n == TimeModulus
<1>1. x \in Int /\ y \in Int /\ n \in Nat \ {0} /\ x + y = t - 10 * (j + k)
  BY Periods
<1>2. x % n \in Int
  BY <1>1, Modulo
<1>3. (x % n) - 10 * k = (x % n) + y
  BY <1>2
<1>4. ((x % n) + y) % n = (x + y) % n
  BY <1>1, ModuloAdd
<1> QED
  BY <1>1, <1>3, <1>4 DEF Back

(***************************************************************************)
(* Frames counted in the last n rounds                                     *)
(***************************************************************************)
Moves(t, n) == {k \in 0 .. n - 1 : Back(t, k) % 10 = 0}

Moved(t) == IF t % 10 = 0 THEN 1 ELSE 0

LEMMA FramesInIs ==
  ASSUME NEW t, NEW n
  PROVE  FramesIn(t, n) = Cardinality(Moves(t, n))
  BY DEF FramesIn, Moves, Back

LEMMA MovesFinite ==
  ASSUME NEW t, NEW n \in Int
  PROVE  IsFiniteSet(Moves(t, n)) /\ Cardinality(Moves(t, n)) \in Nat
<1>1. IsFiniteSet(0 .. n - 1)
  BY FS_Interval
<1>2. Moves(t, n) \in SUBSET (0 .. n - 1)
  BY DEF Moves
<1> QED
  BY <1>1, <1>2, FS_Subset, FS_CardinalityType

LEMMA FramesInType ==
  ASSUME NEW t, NEW n \in Int
  PROVE  /\ FramesIn(t, n) \in Nat
         /\ n <= 0 => FramesIn(t, n) = 0
<1>1. n <= 0 => Moves(t, n) = {}
  BY DEF Moves
<1> QED
  BY <1>1, FramesInIs, MovesFinite, FS_EmptySet

\* One round more at the far end.
LEMMA FramesInFar ==
  ASSUME NEW t \in Int, NEW n \in Nat
  PROVE  FramesIn(t, n + 1) = FramesIn(t, n) + Moved(Back(t, n))
<1>1. n \notin Moves(t, n) /\ IsFiniteSet(Moves(t, n)) /\ Cardinality(Moves(t, n)) \in Nat
  <2>1. n \in Int /\ n \notin 0 .. n - 1
    OBVIOUS
  <2> QED
    BY <2>1, MovesFinite, Zenon DEF Moves
<1>2. CASE Back(t, n) % 10 = 0
  <2>1. Moves(t, n + 1) = Moves(t, n) \cup {n}
    BY <1>2 DEF Moves
  <2>2. Cardinality(Moves(t, n) \cup {n}) = Cardinality(Moves(t, n)) + 1
    BY <1>1, FS_AddElement
  <2> QED
    BY <1>2, <2>1, <2>2, FramesInIs DEF Moved
<1>3. CASE Back(t, n) % 10 # 0
  <2>1. Moves(t, n + 1) = Moves(t, n)
    BY <1>3 DEF Moves
  <2> QED
    BY <1>1, <1>3, <2>1, FramesInIs DEF Moved
<1> QED
  BY <1>2, <1>3

\* One round more at the near end: the others get older.
LEMMA FramesInNear ==
  ASSUME NEW t \in Int, NEW n \in Nat
  PROVE  FramesIn(Back(t, -1), n + 1) = FramesIn(t, n) + Moved(Back(t, -1))
<1> DEFINE old == Moves(t, n)
           older == {k + 1 : k \in old}
           new == Moves(Back(t, -1), n + 1)
           f == [k \in old |-> k + 1]
<1>1. old \subseteq Nat /\ IsFiniteSet(old) /\ Cardinality(old) \in Nat
  <2>1. n \in Int /\ old \subseteq Nat
    BY DEF Moves
  <2> QED
    BY <2>1, MovesFinite, Zenon
<1>2. \A k \in Int : Back(Back(t, -1), k + 1) = Back(t, k)
  <2>1. ASSUME NEW k \in Int PROVE Back(Back(t, -1), k + 1) = Back(t, k)
    <3>1. Back(Back(t, -1), k + 1) = Back(t, -1 + (k + 1))
      BY BackSum
    <3>2. -1 + (k + 1) = k
      OBVIOUS
    <3> QED
      BY <3>1, <3>2
  <2> QED
    BY <2>1
<1>3. Back(Back(t, -1), 0) = Back(t, -1)
  BY BackType, BackNow
<1>4. f \in Bijection(old, older)
  <2>1. f \in [old -> older]
    OBVIOUS
  <2>2. \A a, b \in old : f[a] = f[b] => a = b
    BY <1>1
  <2>3. \A s \in older : \E k \in old : f[k] = s
    OBVIOUS
  <2> HIDE DEF f, old, older
  <2> QED
    BY <2>1, <2>2, <2>3, Fun_IsBij
<1>5. IsFiniteSet(older) /\ Cardinality(older) = Cardinality(old)
  <2> HIDE DEF f, old, older
  <2> QED
    BY <1>1, <1>4, FS_Bijection, Fun_ExistsBij
<1>6. new \ {0} = older
  <2>1. ASSUME NEW k \in new \ {0} PROVE k \in older
    <3>1. k \in 1 .. n /\ Back(Back(t, -1), k) % 10 = 0
      BY <2>1 DEF Moves
    <3>2. k - 1 \in 0 .. n - 1 /\ (k - 1) + 1 = k
      BY <3>1
    <3>3. Back(t, k - 1) % 10 = 0
      BY <1>2, <3>1, <3>2
    <3> QED
      BY <3>2, <3>3 DEF Moves
  <2>2. ASSUME NEW k \in old PROVE k + 1 \in new \ {0}
    <3>1. k \in 0 .. n - 1 /\ Back(t, k) % 10 = 0
      BY DEF Moves
    <3> QED
      BY <1>2, <3>1 DEF Moves
  <2> QED
    BY <2>1, <2>2
<1>7. 0 \in new <=> Back(t, -1) % 10 = 0
  BY <1>3 DEF Moves
<1>8. 0 \notin older
  BY <1>1
<1>9. Cardinality(new) = Cardinality(old) + Moved(Back(t, -1))
  <2> HIDE DEF old, older, new
  <2>1. CASE Back(t, -1) % 10 = 0
    <3>1. new = older \cup {0}
      BY <1>6, <1>7, <2>1
    <3>2. Cardinality(older \cup {0}) = Cardinality(older) + 1
      BY <1>5, <1>8, FS_AddElement
    <3> QED
      BY <1>5, <2>1, <3>1, <3>2 DEF Moved
  <2>2. CASE Back(t, -1) % 10 # 0
    <3>1. new = older
      BY <1>6, <1>7, <2>2
    <3> QED
      BY <1>1, <1>5, <2>2, <3>1 DEF Moved
  <2> QED
    BY <2>1, <2>2
<1> QED
  BY <1>9, FramesInIs

(***************************************************************************)
(* The invariant                                                           *)
(***************************************************************************)

\* The gNB's frame k rounds ago, given what it shows now.
FrameBack(sfn, t, k) == (sfn - FramesIn(t, k)) % SfnPeriod

\* A MIB is sent, or waited for, in the rounds of these times.
Due(t) == t % MibMs = 0

\* The two loops have counted the same rounds.
SameRounds == ue.time = Back(gnb.time, ahead)

\* A UE in the receive has not passed its round yet.
Waiting == IF ue.pc = "receive" THEN 1 ELSE 0

WaitsWhenDue == ue.pc = "receive" => Due(ue.time)

\* The MIBs in the socket are from rounds that the UE has still to pass, in order,
\* and unless one was lost, from all of them.
Ages(age) ==
  /\ age \in Seq(Nat) /\ Len(age) = Len(udp)
  /\ \A j \in 1 .. Len(age) :
       /\ age[j] < ahead + Waiting
       /\ Due(Back(gnb.time, age[j]))
       /\ udp[j] = FrameBack(gnb.sfn, gnb.time, age[j])
  /\ \A i, j \in 1 .. Len(age) : i < j => age[j] < age[i]
  /\ lost = 0 => \A k \in Nat : k < ahead + Waiting /\ Due(Back(gnb.time, k))
                                  => \E j \in 1 .. Len(age) : age[j] = k

Queued == \E age \in Seq(Nat) : Ages(age)

\* The UE has passed no round of a MIB that the gNB has still to begin.
NotPassed ==
  \A k \in Int : ahead + Waiting <= k /\ k < 0 => ~Due(Back(gnb.time, k))

\* The frames a loop can have counted since a MIB was due.
SinceDue(t) == IF t % 10 = 0 THEN (t % MibMs) \div 10 ELSE MibFrames - 1

\* Where the UE is ahead, no MIB was due since the gNB's round.
Leads == ue.pc = "sleep" /\ ahead <= 0 => FramesIn(ue.time, -ahead) <= SinceDue(ue.time)

\* A UE in SYNC counts the frames that the gNB shows or will show in its round.
Follows ==
  lost = 0 /\ ue.state = "SYNC" => ue.sfn = (gnb.sfn - FramesAhead) % SfnPeriod

StepInvariant ==
  TypeOK /\ SameRounds /\ WaitsWhenDue /\ Queued /\ NotPassed /\ Leads /\ Follows

-----------------------------------------------------------------------------
LEMMA Bounds ==
  /\ StartSfn \in 0 .. SfnPeriod - 1 /\ 0 \in 0 .. SfnPeriod - 1
  /\ 0 \in 0 .. TimeModulus - 1
  /\ MaxAhead \in Nat /\ MaxLost \in Nat /\ MibFrames \in Nat \ {0}
  /\ MibMs = 10 * MibFrames
<1>1. MibMs = 10 * (MibMs \div 10) + (MibMs % 10) /\ MibMs \div 10 \in Int
  BY Periods, Tens
<1> QED
  BY <1>1, Periods, LockstepAssumption DEF MibFrames

\* A frame comes right after the one before, or when sp.time is 0 again.
LEMMA MoveAfter ==
  ASSUME NEW t \in 0 .. TimeModulus - 1, Back(t, -1) % 10 = 0
  PROVE  \/ Back(t, -1) = 0
         \/ Back(t, -1) = t + 10 /\ t % 10 = 0
<1> DEFINE n == TimeModulus
           r == (t + 10) % n
           q == (t + 10) \div n
<1>1. Back(t, -1) = r
  BY BackNow
<1>2. n \in Nat \ {0} /\ t \in 0 .. n - 1
  BY Periods
<1>3. r \in 0 .. n - 1 /\ q \in Int /\ t + 10 = n * q + r
  BY <1>2, Modulo
<1>4. CASE t + 10 < n
  <2>1. r = t + 10
    BY <1>2, <1>4, ModuloSmall
  <2>2. t % 10 = 0
    BY <1>1, <1>2, <2>1
  <2> QED
    BY <1>1, <2>1, <2>2
<1>5. CASE t + 10 >= n
  <2>1. r < 10
    <3> HIDE DEF r, q, n
    <3>1. q >= 1
      <4>1. SUFFICES ASSUME q <= 0 PROVE FALSE
        BY <1>3
      <4>2. n * q <= 0
        BY <1>2, <1>3, <4>1
      <4> QED
        BY <1>2, <1>3, <1>5, <4>2
    <3>2. n * q >= n
      BY <1>2, <1>3, <3>1
    <3> QED
      BY <1>2, <1>3, <3>2
  <2>2. r = 0
    BY <1>1, <1>3, <2>1
  <2> QED
    BY <1>1, <2>2
<1> QED
  BY <1>2, <1>4, <1>5

LEMMA SinceDueType ==
  ASSUME NEW x \in Nat
  PROVE  /\ SinceDue(x) \in Nat /\ SinceDue(x) < MibFrames
         /\ x % 10 = 0 => x % MibMs = 10 * SinceDue(x)
<1>1. x % MibMs \in 0 .. MibMs - 1 /\ x \div MibMs \in Int
      /\ x = MibMs * (x \div MibMs) + (x % MibMs)
  BY Periods, Modulo
<1> DEFINE r == x % MibMs
           q == x \div MibMs
           s == r \div 10
<1>2. s \in Int /\ r = 10 * s + (r % 10) /\ r % 10 \in 0 .. 9
  <2>1. r \in Int
    BY <1>1
  <2> QED
    BY <2>1, Tens
<1>3. s \in Nat /\ s < MibFrames
  <2> HIDE DEF r, s
  <2> QED
    BY <1>1, <1>2, Bounds DEF r
<1>4. ASSUME x % 10 = 0 PROVE r = 10 * s
  <2>1. x = 10 * (x \div 10) /\ x \div 10 \in Int
    BY <1>4, Tens
  <2>2. MibMs * q = 10 * (MibFrames * q) /\ MibFrames * q \in Int
    <3>1. \A m, n \in Int : (10 * m) * n = 10 * (m * n) /\ m * n \in Int
      OBVIOUS
    <3>2. MibFrames \in Int /\ q \in Int /\ MibMs = 10 * MibFrames
      BY <1>1, Bounds
    <3> HIDE DEF q
    <3> QED
      BY <3>1, <3>2
  <2>3. r = 10 * ((x \div 10) - MibFrames * q)
    BY <1>1, <2>1, <2>2
  <2> HIDE DEF r, q, s
  <2> QED
    BY <1>2, <2>1, <2>2, <2>3
<1> QED
  BY <1>3, <1>4, Bounds DEF SinceDue

\* One frame more since a MIB was due, unless one is due now.
LEMMA SinceDueGrows ==
  ASSUME NEW t \in 0 .. TimeModulus - 1, ~Due(Back(t, -1))
  PROVE  SinceDue(t) + Moved(Back(t, -1)) <= SinceDue(Back(t, -1))
<1> DEFINE u == Back(t, -1)
<1>1. u \in Nat /\ t \in Nat
  BY BackType, Periods
<1>3. SinceDue(t) \in Nat /\ SinceDue(t) < MibFrames /\ SinceDue(u) \in Nat
  BY <1>1, SinceDueType
<1>4. CASE u % 10 # 0
  <2>1. SinceDue(u) = MibFrames - 1 /\ Moved(u) = 0
    BY <1>4 DEF SinceDue, Moved
  <2> QED
    BY <1>3, <2>1, Bounds
<1>5. CASE u % 10 = 0
  <2>1. u = t + 10 /\ t % 10 = 0
    <3>1. 0 % MibMs = 0
      BY Periods, ModuloSmall, Bounds
    <3>2. u # 0
      BY <3>1 DEF Due
    <3> QED
      BY <1>5, <3>2, MoveAfter
  <2>2. t % MibMs = 10 * SinceDue(t) /\ u % MibMs = 10 * SinceDue(u)
    BY <1>1, <1>5, <2>1, SinceDueType
  <2>3. ((t % MibMs) + 10) % MibMs = u % MibMs
    <3>1. ((t % MibMs) + 10) % MibMs = (t + 10) % MibMs
      <4>1. t \in Int /\ 10 \in Int /\ MibMs \in Nat \ {0}
        BY Periods
      <4> QED
        BY <4>1, ModuloAdd
    <3> QED
      BY <2>1, <3>1
  <2>4. Moved(u) = 1
    BY <1>5 DEF Moved
  <2>5. CASE SinceDue(t) + 1 < MibFrames
    <3>1. (t % MibMs) + 10 \in 0 .. MibMs - 1
      BY <1>3, <2>2, <2>5, Bounds
    <3>2. ((t % MibMs) + 10) % MibMs = (t % MibMs) + 10
      BY <3>1, Periods, ModuloSmall
    <3>3. 10 * SinceDue(u) = 10 * SinceDue(t) + 10
      BY <2>2, <2>3, <3>2
    <3> QED
      BY <1>3, <2>4, <3>3
  <2>6. CASE SinceDue(t) + 1 = MibFrames
    <3>1. (t % MibMs) + 10 = MibMs * 1 + 0
      BY <1>3, <2>2, <2>6, Bounds
    <3>2. (MibMs * 1 + 0) % MibMs = 0
      BY Periods, ModuloUnique
    <3> QED
      BY <2>3, <3>1, <3>2 DEF Due
  <2> QED
    BY <1>3, <2>5, <2>6, Bounds
<1> QED
  BY <1>4, <1>5

-----------------------------------------------------------------------------
(* One round of a loop                                                     *)

NextFrame(sfn, t) == (sfn + Moved(Back(t, -1))) % SfnPeriod

LEMMA MovedType ==
  ASSUME NEW t
  PROVE  Moved(t) \in 0 .. 1
  BY DEF Moved

LEMMA NextFrameType ==
  ASSUME NEW sfn \in Int, NEW t
  PROVE  NextFrame(sfn, t) \in 0 .. SfnPeriod - 1
<1>1. sfn + Moved(Back(t, -1)) \in Int
  BY MovedType
<1> QED
  BY <1>1, Periods, Modulo DEF NextFrame

LEMMA FrameAfterSleep ==
  ASSUME NEW t \in 0 .. TimeModulus - 1, NEW sfn \in 0 .. SfnPeriod - 1
  PROVE  (IF ((t + 10) % TimeModulus) % 10 = 0 THEN increase_sfn(sfn) ELSE sfn)
           = NextFrame(sfn, t)
<1>1. Back(t, -1) = (t + 10) % TimeModulus
  BY BackNow
<1>2. sfn % SfnPeriod = sfn /\ sfn + 0 = sfn
  BY ModuloSmall, Periods
<1> QED
  BY <1>1, <1>2 DEF NextFrame, Moved, increase_sfn

GnbState == [time : 0 .. TimeModulus - 1, sfn : 0 .. SfnPeriod - 1]
UeState  == [pc : {"sleep", "receive"}, time : 0 .. TimeModulus - 1,
             sfn : 0 .. SfnPeriod - 1, state : {"ASYNC", "SYNC"}]

LEMMA GnbAfterSleep ==
  ASSUME NEW sp \in GnbState
  PROVE  /\ after_sleep(sp).time = Back(sp.time, -1)
         /\ after_sleep(sp).sfn = NextFrame(sp.sfn, sp.time)
         /\ after_sleep(sp) \in GnbState
<1>1. sp.time \in 0 .. TimeModulus - 1 /\ sp.sfn \in 0 .. SfnPeriod - 1
  BY DEF GnbState
<1>2. (sp.time + 10) % TimeModulus = Back(sp.time, -1)
  BY <1>1, BackNow
<1>3. (IF ((sp.time + 10) % TimeModulus) % 10 = 0 THEN increase_sfn(sp.sfn) ELSE sp.sfn)
        = NextFrame(sp.sfn, sp.time)
  BY <1>1, FrameAfterSleep
<1>4. after_sleep(sp) = [sp EXCEPT !.time = Back(sp.time, -1),
                                   !.sfn = NextFrame(sp.sfn, sp.time)]
  BY <1>2, <1>3, Zenon DEF after_sleep
<1>5. /\ after_sleep(sp).time = Back(sp.time, -1)
      /\ after_sleep(sp).sfn = NextFrame(sp.sfn, sp.time)
      /\ after_sleep(sp) = [time |-> Back(sp.time, -1), sfn |-> NextFrame(sp.sfn, sp.time)]
  BY <1>4 DEF GnbState
<1>6. /\ Back(sp.time, -1) \in 0 .. TimeModulus - 1
      /\ NextFrame(sp.sfn, sp.time) \in 0 .. SfnPeriod - 1
  <2>1. sp.time \in Int /\ sp.sfn \in Int /\ -1 \in Int
    BY <1>1, Periods
  <2> QED
    BY <2>1, BackType, NextFrameType, Zenon
<1>7. [time |-> Back(sp.time, -1), sfn |-> NextFrame(sp.sfn, sp.time)] \in GnbState
  BY <1>6, Zenon DEF GnbState
<1> QED
  BY <1>5, <1>7

LEMMA UeAfterSleep ==
  ASSUME NEW sp \in UeState
  PROVE  /\ after_sleep(sp).time = Back(sp.time, -1)
         /\ \A pc : [after_sleep(sp) EXCEPT !.pc = pc] =
              [pc |-> pc, time |-> Back(sp.time, -1),
               sfn |-> NextFrame(sp.sfn, sp.time), state |-> sp.state]
         /\ \A pc \in {"sleep", "receive"} : [after_sleep(sp) EXCEPT !.pc = pc] \in UeState
<1>1. /\ sp.time \in 0 .. TimeModulus - 1 /\ sp.sfn \in 0 .. SfnPeriod - 1
      /\ sp.state \in {"ASYNC", "SYNC"}
  BY DEF UeState
<1>2. (sp.time + 10) % TimeModulus = Back(sp.time, -1)
  BY <1>1, BackNow
<1>3. (IF ((sp.time + 10) % TimeModulus) % 10 = 0 THEN increase_sfn(sp.sfn) ELSE sp.sfn)
        = NextFrame(sp.sfn, sp.time)
  BY <1>1, FrameAfterSleep
<1>4. after_sleep(sp) = [sp EXCEPT !.time = Back(sp.time, -1),
                                   !.sfn = NextFrame(sp.sfn, sp.time)]
  BY <1>2, <1>3, Zenon DEF after_sleep
<1>5. after_sleep(sp).time = Back(sp.time, -1)
  BY <1>4 DEF UeState
<1>6. /\ Back(sp.time, -1) \in 0 .. TimeModulus - 1
      /\ NextFrame(sp.sfn, sp.time) \in 0 .. SfnPeriod - 1
  <2>1. sp.time \in Int /\ sp.sfn \in Int /\ -1 \in Int
    BY <1>1, Periods
  <2> QED
    BY <2>1, BackType, NextFrameType, Zenon
<1>7. ASSUME NEW pc
      PROVE  [after_sleep(sp) EXCEPT !.pc = pc] =
               [pc |-> pc, time |-> Back(sp.time, -1),
                sfn |-> NextFrame(sp.sfn, sp.time), state |-> sp.state]
  <2> DEFINE t == Back(sp.time, -1)
             f == NextFrame(sp.sfn, sp.time)
             x == [sp EXCEPT !.time = t, !.sfn = f]
  <2>1. after_sleep(sp) = x /\ t \in 0 .. TimeModulus - 1 /\ f \in 0 .. SfnPeriod - 1
    BY <1>4, <1>6
  <2> HIDE DEF t, f
  <2>2. x \in UeState
    BY <2>1 DEF UeState
  <2>3. x.time = t /\ x.sfn = f /\ x.state = sp.state
    BY DEF UeState
  <2> HIDE DEF x
  <2>4. [x EXCEPT !.pc = pc]
          = [pc |-> pc, time |-> x.time, sfn |-> x.sfn, state |-> x.state]
    BY <2>2 DEF UeState
  <2> QED
    BY <2>1, <2>3, <2>4 DEF t, f
<1>8. ASSUME NEW pc \in {"sleep", "receive"}
      PROVE  [pc |-> pc, time |-> Back(sp.time, -1),
              sfn |-> NextFrame(sp.sfn, sp.time), state |-> sp.state] \in UeState
  BY <1>1, <1>6, Zenon DEF UeState
<1> QED
  BY <1>5, <1>7, <1>8

\* A frame of the past stays the same when it gets a round older.
LEMMA FrameBackOlder ==
  ASSUME NEW sfn \in 0 .. SfnPeriod - 1, NEW t \in 0 .. TimeModulus - 1, NEW k \in Nat
  PROVE  FrameBack(NextFrame(sfn, t), Back(t, -1), k + 1) = FrameBack(sfn, t, k)
<1> DEFINE m == Moved(Back(t, -1))
           f == FramesIn(t, k)
<1>1. FramesIn(Back(t, -1), k + 1) = f + m
  BY FramesInNear
<1>2. m \in Int /\ f \in Int
  BY MovedType, FramesInType
<1> HIDE DEF m, f
<1>3. (((sfn + m) % SfnPeriod) - (f + m)) % SfnPeriod = (sfn - f) % SfnPeriod
  <2>1. sfn \in Int
    OBVIOUS
  <2> QED
    BY <1>2, <2>1, ModuloCancel
<1> QED
  BY <1>1, <1>3 DEF FrameBack, NextFrame, m, f

LEMMA FrameBackNow ==
  ASSUME NEW sfn \in 0 .. SfnPeriod - 1, NEW t
  PROVE  FrameBack(sfn, t, 0) = sfn
<1>1. FramesIn(t, 0) = 0 /\ sfn - 0 = sfn
  BY FramesInType
<1>2. sfn % SfnPeriod = sfn
  BY Periods, ModuloSmall
<1> QED
  BY <1>1, <1>2 DEF FrameBack

\* How many frames the gNB is ahead, after a round of either loop.
Lead(g, u, a) == FramesIn(g, a) - FramesIn(u, -a)

LEMMA LeadType ==
  ASSUME NEW g, NEW u, NEW a \in Int
  PROVE  Lead(g, u, a) \in Int
  BY FramesInType DEF Lead

LEMMA LeadGnbRound ==
  ASSUME NEW g \in 0 .. TimeModulus - 1, NEW a \in Int
  PROVE  Lead(Back(g, -1), Back(g, a), a + 1)
           = Lead(g, Back(g, a), a) + Moved(Back(g, -1))
<1> DEFINE h == Back(g, -1)
           u == Back(g, a)
<1>1. /\ FramesIn(g, a) \in Nat /\ FramesIn(u, -a) \in Nat /\ Moved(h) \in Nat
      /\ FramesIn(h, a + 1) \in Nat /\ FramesIn(u, -(a + 1)) \in Nat
  BY FramesInType, MovedType
<1>2. CASE a >= 0
  <2>1. FramesIn(h, a + 1) = FramesIn(g, a) + Moved(h)
    BY <1>2, FramesInNear
  <2>2. FramesIn(u, -a) = 0 /\ FramesIn(u, -(a + 1)) = 0
    BY <1>2, FramesInType
  <2> HIDE DEF h, u
  <2>3. Lead(h, u, a + 1) = Lead(g, u, a) + Moved(h)
    BY <1>1, <2>1, <2>2 DEF Lead
  <2> QED
    BY <2>3 DEF h, u
<1>3. CASE a < 0
  <2> DEFINE n == -(a + 1)
  <2>1. n \in Nat /\ n + 1 = -a
    BY <1>3
  <2>2. FramesIn(u, n + 1) = FramesIn(u, n) + Moved(Back(u, n))
    <3>1. u \in Int
      BY BackType
    <3> HIDE DEF n, u
    <3> QED
      BY <2>1, <3>1, FramesInFar
  <2>3. Back(u, n) = h
    <3>1. Back(u, n) = Back(g, a + n)
      BY BackSum
    <3>2. a + n = -1
      OBVIOUS
    <3> QED
      BY <3>1, <3>2
  <2>4. FramesIn(g, a) = 0 /\ FramesIn(h, a + 1) = 0
    BY <1>3, FramesInType
  <2>5. FramesIn(u, -a) = FramesIn(u, -(a + 1)) + Moved(h)
    BY <2>1, <2>2, <2>3
  <2> HIDE DEF h, u
  <2>6. Lead(h, u, a + 1) = Lead(g, u, a) + Moved(h)
    BY <1>1, <2>4, <2>5 DEF Lead
  <2> QED
    BY <2>6 DEF h, u
<1> QED
  BY <1>2, <1>3

LEMMA LeadUeRound ==
  ASSUME NEW g \in 0 .. TimeModulus - 1, NEW a \in Int
  PROVE  LET u == Back(g, a)
         IN  /\ Back(u, -1) = Back(g, a - 1)
             /\ Lead(g, Back(u, -1), a - 1) = Lead(g, u, a) - Moved(Back(u, -1))
<1> DEFINE u == Back(g, a)
           v == Back(u, -1)
<1>1. u \in Int /\ v = Back(g, a - 1)
  <2>1. v = Back(g, a + (-1))
    BY BackSum
  <2>2. a + (-1) = a - 1
    OBVIOUS
  <2> QED
    BY <2>1, <2>2, BackType
<1>2. /\ FramesIn(g, a) \in Nat /\ FramesIn(u, -a) \in Nat /\ Moved(v) \in Nat
      /\ FramesIn(g, a - 1) \in Nat /\ FramesIn(v, -(a - 1)) \in Nat
  BY FramesInType, MovedType
<1>3. CASE a >= 1
  <2>1. FramesIn(g, (a - 1) + 1) = FramesIn(g, a - 1) + Moved(Back(g, a - 1))
    <3>1. a - 1 \in Nat
      BY <1>3
    <3> QED
      BY <3>1, FramesInFar
  <2>2. FramesIn(u, -a) = 0 /\ FramesIn(v, -(a - 1)) = 0 /\ (a - 1) + 1 = a
    BY <1>3, FramesInType
  <2> HIDE DEF u, v
  <2>3. Lead(g, v, a - 1) = Lead(g, u, a) - Moved(v)
    BY <1>1, <1>2, <2>1, <2>2 DEF Lead
  <2> QED
    BY <1>1, <2>3 DEF u, v
<1>4. CASE a < 1
  <2>1. FramesIn(v, -a + 1) = FramesIn(u, -a) + Moved(v)
    <3>1. -a \in Nat
      BY <1>4
    <3> HIDE DEF u
    <3> QED
      BY <1>1, <3>1, FramesInNear
  <2>2. FramesIn(g, a) = 0 /\ FramesIn(g, a - 1) = 0 /\ -(a - 1) = -a + 1
    BY <1>4, FramesInType
  <2> HIDE DEF u, v
  <2>3. Lead(g, v, a - 1) = Lead(g, u, a) - Moved(v)
    BY <1>2, <2>1, <2>2 DEF Lead
  <2> QED
    BY <1>1, <2>3 DEF u, v
<1> QED
  BY <1>3, <1>4

-----------------------------------------------------------------------------
\* What the invariant says of the state, as plain facts.
LEMMA StateFacts ==
  ASSUME TypeOK
  PROVE  /\ gnb \in GnbState /\ ue \in UeState
         /\ gnb.time \in 0 .. TimeModulus - 1 /\ gnb.sfn \in 0 .. SfnPeriod - 1
         /\ ue.time \in 0 .. TimeModulus - 1 /\ ue.sfn \in 0 .. SfnPeriod - 1
         /\ ue.pc \in {"sleep", "receive"} /\ ue.state \in {"ASYNC", "SYNC"}
         /\ udp \in Seq(0 .. SfnPeriod - 1) /\ Len(udp) \in Nat
         /\ ahead \in Int /\ lost \in Nat /\ Waiting \in 0 .. 1
  BY DEF TypeOK, GnbState, UeState, Waiting

\* The age of a round, one round later.
LEMMA OlderRound ==
  ASSUME NEW t \in 0 .. TimeModulus - 1, NEW k \in Int
  PROVE  Back(Back(t, -1), k + 1) = Back(t, k)
<1>1. Back(Back(t, -1), k + 1) = Back(t, -1 + (k + 1))
  BY BackSum
<1>2. -1 + (k + 1) = k
  OBVIOUS
<1> QED
  BY <1>1, <1>2

LEMMA StepStart ==
  ASSUME Init
  PROVE  StepInvariant
<1> USE DEF Init
<1>1. gnb \in GnbState
  <2>1. [time |-> 0, sfn |-> StartSfn] \in GnbState
    BY Bounds, Zenon DEF GnbState
  <2> QED
    BY <2>1
<1>2. ue \in UeState
  <2>1. [pc |-> "sleep", time |-> 0, sfn |-> 0, state |-> "ASYNC"] \in UeState
    BY Bounds, Zenon DEF UeState
  <2> QED
    BY <2>1
<1>3. udp \in Seq(0 .. SfnPeriod - 1) /\ Len(udp) = 0
  <2>1. udp = << >>
    BY Zenon
  <2> QED
    BY <2>1, EmptySeq
<1>4. ahead \in Int /\ lost \in 0 .. MaxLost /\ ahead <= MaxAhead + MibFrames * lost
  BY Bounds
<1>5. TypeOK
  BY <1>1, <1>2, <1>3, <1>4, Zenon DEF TypeOK, GnbState, UeState
<1>6. SameRounds
  <2>1. Back(0, 0) = 0
    BY BackNow, Bounds
  <2> QED
    BY <2>1 DEF SameRounds
<1>7. WaitsWhenDue /\ Follows
  BY DEF WaitsWhenDue, Follows
<1>8. Waiting = 0
  BY DEF Waiting
<1>9. Queued
  <2>1. Ages(<< >>)
    BY <1>3, <1>8 DEF Ages
  <2>2. << >> \in Seq(Nat)
    BY EmptySeq
  <2> QED
    BY <2>1, <2>2 DEF Queued
<1>10. Leads
  <2>1. SinceDue(0) = 0
    <3>1. 0 % 10 = 0 /\ 0 \div 10 = 0
      OBVIOUS
    <3>2. 0 % MibMs = 0
      <4>1. 0 \in 0 .. MibMs - 1
        BY Periods
      <4> QED
        BY <4>1, Periods, ModuloSmall
    <3> QED
      BY <3>1, <3>2 DEF SinceDue
  <2>2. ue.time = 0
    OBVIOUS
  <2>3. FramesIn(0, -ahead) = 0
    <3>1. ahead \in Int /\ -ahead \in Int /\ -ahead <= 0
      <4>1. \A n \in Int : n = 0 => -n \in Int /\ -n <= 0
        BY Periods
      <4> QED
        BY <1>4, <4>1
    <3> QED
      BY <3>1, FramesInType
  <2> QED
    BY <2>1, <2>2, <2>3 DEF Leads
<1>11. NotPassed
  BY <1>8 DEF NotPassed
<1> QED
  BY <1>5, <1>6, <1>7, <1>9, <1>10, <1>11 DEF StepInvariant

\* A round of the gNB: everything gets a round older, and a MIB may be new.
LEMMA GnbRoundStep ==
  ASSUME StepInvariant, GnbRound
  PROVE  StepInvariant'
<1> USE DEF StepInvariant
<1> DEFINE t == gnb.time
           s == Back(t, -1)
<1>1. /\ gnb \in GnbState /\ ue \in UeState
      /\ t \in 0 .. TimeModulus - 1 /\ gnb.sfn \in 0 .. SfnPeriod - 1
      /\ ue.time \in 0 .. TimeModulus - 1
      /\ udp \in Seq(0 .. SfnPeriod - 1) /\ Len(udp) \in Nat
      /\ ahead \in Int /\ lost \in Nat /\ Waiting \in 0 .. 1
  BY StateFacts
<1>2. /\ gnb'.time = s /\ gnb'.sfn = NextFrame(gnb.sfn, t) /\ gnb' \in GnbState
      /\ ahead' = ahead + 1 /\ ue' = ue /\ Waiting' = Waiting
  BY <1>1, GnbAfterSleep DEF GnbRound, Waiting
<1>3. gnb'.sfn \in 0 .. SfnPeriod - 1 /\ s \in 0 .. TimeModulus - 1
  BY <1>2 DEF GnbState
<1>4. \/ udp' = Append(udp, gnb'.sfn) /\ lost' = lost /\ Due(s)
      \/ udp' = udp /\ lost' = lost + 1 /\ lost < MaxLost
      \/ udp' = udp /\ lost' = lost /\ ~Due(s)
  BY <1>2 DEF GnbRound, send_mib, Due
<1>5. TypeOK'
  <2>1. udp' \in Seq(0 .. SfnPeriod - 1)
    <3>1. Append(udp, gnb'.sfn) \in Seq(0 .. SfnPeriod - 1)
      BY <1>1, <1>3, AppendProperties
    <3> QED
      BY <1>1, <1>4, <3>1
  <2>2. lost' \in 0 .. MaxLost
    <3>1. lost \in 0 .. MaxLost /\ MaxLost \in Nat
      BY Bounds DEF TypeOK
    <3> HIDE DEF s, t
    <3> QED
      BY <1>4, <3>1
  <2>3. ahead' <= MaxAhead + MibFrames * lost'
    <3>1. ahead < MaxAhead + MibFrames * lost /\ ahead' = ahead + 1
      BY DEF GnbRound
    <3>2. MibFrames * lost <= MibFrames * lost'
          /\ MibFrames * lost \in Nat /\ MibFrames * lost' \in Nat
      BY <1>1, <1>4, Bounds
    <3> HIDE DEF s, t
    <3> QED
      BY <1>1, <3>1, <3>2, Bounds
  <2>4. ahead' \in Int
    BY <1>1, <1>2
  <2>5. ue' \in UeState
    BY <1>1, <1>2
  <2> QED
    BY <1>2, <2>1, <2>2, <2>3, <2>4, <2>5, Zenon DEF TypeOK, GnbState, UeState
<1>6. SameRounds'
  <2>1. Back(s, ahead + 1) = Back(t, ahead)
    BY <1>1, OlderRound
  <2> QED
    BY <1>2, <2>1 DEF SameRounds
<1>7. WaitsWhenDue'
  BY <1>2 DEF WaitsWhenDue
<1>8. Queued'
  <2>1. PICK age \in Seq(Nat) : Ages(age)
    BY DEF Queued
  <2> DEFINE n == Len(udp)
             limit == ahead + Waiting
  <2>2. /\ Len(age) = n /\ n \in Nat /\ limit \in Int
        /\ \A j \in 1 .. n : age[j] \in Nat
    BY <1>1, <2>1 DEF Ages
  <2>3. PICK older \in Seq(Nat) : Len(older) = n /\ \A j \in 1 .. n : older[j] = age[j] + 1
    <3>1. [j \in 1 .. n |-> age[j] + 1] \in Seq(Nat)
      BY <2>2
    <3>2. Len([j \in 1 .. n |-> age[j] + 1]) = n
      BY <2>2
    <3> QED
      BY <3>1, <3>2
  <2>4. ASSUME NEW j \in 1 .. n
        PROVE  /\ older[j] < limit + 1 /\ older[j] > 0
               /\ Due(Back(s, older[j]))
               /\ udp[j] = FrameBack(gnb'.sfn, s, older[j])
    <3>1. /\ age[j] < limit /\ Due(Back(t, age[j]))
          /\ udp[j] = FrameBack(gnb.sfn, t, age[j])
      BY <2>1, <2>2 DEF Ages
    <3>2. older[j] = age[j] + 1 /\ age[j] \in Nat
      BY <2>2, <2>3
    <3>3. Back(s, age[j] + 1) = Back(t, age[j])
      <4>1. age[j] \in Int
        BY <3>2
      <4> QED
        BY <1>1, <4>1, OlderRound
    <3>4. FrameBack(gnb'.sfn, s, age[j] + 1) = FrameBack(gnb.sfn, t, age[j])
      BY <1>1, <1>2, <3>2, FrameBackOlder
    <3>5. older[j] < limit + 1 /\ older[j] > 0
      <4> HIDE DEF limit
      <4> QED
        BY <2>2, <3>1, <3>2
    <3>6. Due(Back(s, older[j])) /\ udp[j] = FrameBack(gnb'.sfn, s, older[j])
      BY <3>1, <3>2, <3>3, <3>4
    <3> QED
      BY <3>5, <3>6
  <2>5. \A i, j \in 1 .. n : i < j => older[j] < older[i]
    <3>1. \A i, j \in 1 .. n : i < j => age[j] < age[i]
      BY <2>1, <2>2 DEF Ages
    <3> QED
      BY <2>2, <2>3, <3>1
  <2>6. ASSUME lost = 0, NEW k \in Nat, k < limit + 1, Due(Back(s, k)), k # 0
        PROVE  \E j \in 1 .. n : older[j] = k
    <3>1. k - 1 \in Nat /\ k - 1 < limit /\ (k - 1) + 1 = k
      BY <2>2, <2>6
    <3>2. Back(s, (k - 1) + 1) = Back(t, k - 1)
      <4>1. k - 1 \in Int
        BY <3>1
      <4> QED
        BY <1>1, <4>1, OlderRound
    <3>3. Due(Back(t, k - 1))
      BY <2>6, <3>1, <3>2
    <3>4. PICK j \in 1 .. n : age[j] = k - 1
      BY <2>1, <2>2, <2>6, <3>1, <3>3 DEF Ages
    <3> QED
      BY <2>2, <2>3, <3>1, <3>4
  <2>7. ahead' + Waiting' = limit + 1
    BY <1>1, <1>2
  <2>8. CASE udp' = udp /\ (lost' = lost + 1 \/ (lost' = lost /\ ~Due(s)))
    <3>1. lost' = 0 => lost = 0 /\ ~Due(s)
      BY <1>1, <2>8
    <3>2. Back(s, 0) = s
      BY <1>3, BackNow
    <3>3. ASSUME lost' = 0, NEW k \in Nat, k < limit + 1, Due(Back(s, k))
          PROVE  \E j \in 1 .. n : older[j] = k
      <4>1. k # 0
        BY <3>1, <3>2, <3>3
      <4> QED
        BY <2>6, <3>1, <3>3, <4>1
    <3>4. Len(udp') = n
      BY <2>8
    <3>5. \A j \in 1 .. n : udp'[j] = FrameBack(gnb'.sfn, s, older[j])
      BY <2>4, <2>8
    <3> HIDE DEF s, t, limit, n
    <3>6. Ages(older)'
      BY <1>2, <2>3, <2>4, <2>5, <2>7, <3>3, <3>4, <3>5 DEF Ages, FrameBack
    <3> QED
      BY <2>3, <3>6 DEF Queued
  <2>9. CASE udp' = Append(udp, gnb'.sfn) /\ lost' = lost /\ Due(s)
    <3>1. PICK new \in Seq(Nat) :
            /\ Len(new) = n + 1 /\ new[n + 1] = 0
            /\ \A j \in 1 .. n : new[j] = older[j]
      <4>1. /\ Append(older, 0) \in Seq(Nat) /\ Len(Append(older, 0)) = n + 1
            /\ Append(older, 0)[n + 1] = 0
            /\ \A j \in 1 .. n : Append(older, 0)[j] = older[j]
        BY <2>2, <2>3
      <4> QED
        BY <4>1
    <3>2. /\ Len(udp') = n + 1 /\ udp'[n + 1] = gnb'.sfn
          /\ \A j \in 1 .. n : udp'[j] = udp[j]
      BY <1>1, <2>9
    <3>3. Back(s, 0) = s /\ FrameBack(gnb'.sfn, s, 0) = gnb'.sfn
      BY <1>3, BackNow, FrameBackNow
    <3>4. limit >= 0
      <4>1. ~(limit <= -1)
        BY <2>2, <2>9 DEF NotPassed
      <4> QED
        BY <2>2, <4>1
    <3>5. ASSUME NEW j \in 1 .. n + 1
          PROVE  /\ new[j] < limit + 1
                 /\ Due(Back(s, new[j]))
                 /\ udp'[j] = FrameBack(gnb'.sfn, s, new[j])
      <4>1. CASE j = n + 1
        <5> HIDE DEF limit, s, t
        <5> QED
          BY <2>2, <2>9, <3>1, <3>2, <3>3, <3>4, <4>1
      <4>2. CASE j \in 1 .. n
        <5> HIDE DEF limit, s, t
        <5> QED
          BY <2>4, <3>1, <3>2, <4>2
      <4> QED
        BY <2>2, <4>1, <4>2
    <3>6. ASSUME NEW i \in 1 .. n + 1, NEW j \in 1 .. n + 1, i < j
          PROVE  new[j] < new[i]
      <4>1. i \in 1 .. n
        BY <2>2, <3>6
      <4>2. CASE j = n + 1
        BY <2>4, <3>1, <4>1, <4>2
      <4>3. CASE j \in 1 .. n
        BY <2>5, <3>1, <3>6, <4>1, <4>3
      <4> QED
        BY <2>2, <4>2, <4>3
    <3>7. ASSUME lost' = 0, NEW k \in Nat, k < limit + 1, Due(Back(s, k))
          PROVE  \E j \in 1 .. n + 1 : new[j] = k
      <4>1. CASE k = 0
        <5>1. n + 1 \in 1 .. n + 1
          BY <2>2
        <5> QED
          BY <3>1, <4>1, <5>1
      <4>2. CASE k # 0
        <5>1. PICK j \in 1 .. n : older[j] = k
          BY <2>6, <2>9, <3>7, <4>2
        <5>2. j \in 1 .. n + 1
          BY <2>2
        <5> QED
          BY <3>1, <5>1, <5>2
      <4> QED
        BY <4>1, <4>2
    <3> HIDE DEF s, t, limit, n
    <3>8. Ages(new)'
      BY <1>2, <2>7, <3>1, <3>2, <3>5, <3>6, <3>7 DEF Ages, FrameBack
    <3> QED
      BY <3>1, <3>8 DEF Queued
  <2> QED
    BY <1>4, <2>8, <2>9
<1>9. NotPassed'
  <2>1. ASSUME NEW k \in Int, ahead + 1 + Waiting <= k, k < 0
        PROVE  ~Due(Back(s, k))
    <3>1. k - 1 \in Int /\ ahead + Waiting <= k - 1 /\ k - 1 < 0 /\ (k - 1) + 1 = k
      BY <1>1, <2>1
    <3>2. Back(s, (k - 1) + 1) = Back(t, k - 1)
      BY <1>1, <3>1, OlderRound
    <3> QED
      BY <3>1, <3>2 DEF NotPassed
  <2> QED
    BY <1>2, <2>1 DEF NotPassed
<1>10. Leads'
  <2>1. SUFFICES ASSUME ue.pc = "sleep", ahead + 1 <= 0
                 PROVE  FramesIn(ue.time, -(ahead + 1)) <= SinceDue(ue.time)
    BY <1>2 DEF Leads
  <2> DEFINE n == -(ahead + 1)
  <2>2. n \in Nat /\ n + 1 = -ahead
    BY <1>1, <2>1
  <2>3. FramesIn(ue.time, n + 1) <= SinceDue(ue.time)
    BY <1>1, <2>1, <2>2 DEF Leads
  <2>4. FramesIn(ue.time, n + 1) = FramesIn(ue.time, n) + Moved(Back(ue.time, n))
    <3>1. ue.time \in Int
      BY <1>1
    <3> HIDE DEF n
    <3> QED
      BY <2>2, <3>1, FramesInFar
  <2>5. Moved(Back(ue.time, n)) \in 0 .. 1 /\ FramesIn(ue.time, n) \in Nat
    BY <2>2, MovedType, FramesInType
  <2>6. SinceDue(ue.time) \in Int
    <3>1. ue.time \in Nat
      BY <1>1
    <3> QED
      BY <3>1, SinceDueType
  <2> HIDE DEF n
  <2>7. FramesIn(ue.time, n) <= SinceDue(ue.time)
    BY <2>3, <2>4, <2>5, <2>6
  <2> QED
    BY <2>7 DEF n
<1>11. Follows'
  <2>1. SUFFICES ASSUME lost' = 0, ue.state = "SYNC"
                 PROVE  ue.sfn = (gnb'.sfn - Lead(s, ue.time, ahead + 1)) % SfnPeriod
    BY <1>2 DEF Follows, FramesAhead, Lead
  <2>2. lost = 0
    BY <1>1, <1>4, <2>1
  <2>3. ue.sfn = (gnb.sfn - Lead(t, ue.time, ahead)) % SfnPeriod
    BY <2>1, <2>2 DEF Follows, FramesAhead, Lead
  <2> DEFINE m == Moved(s)
             d == Lead(t, ue.time, ahead)
  <2>4. Lead(s, ue.time, ahead + 1) = d + m
    <3>1. ue.time = Back(t, ahead)
      BY DEF SameRounds
    <3> QED
      BY <1>1, <3>1, LeadGnbRound
  <2>5. d \in Int /\ m \in Int
    BY <1>1, LeadType, MovedType
  <2>6. gnb'.sfn = (gnb.sfn + m) % SfnPeriod
    BY <1>2 DEF NextFrame
  <2> HIDE DEF m, d, s, t
  <2>7. (((gnb.sfn + m) % SfnPeriod) - (d + m)) % SfnPeriod = (gnb.sfn - d) % SfnPeriod
    <3>1. gnb.sfn \in Int
      BY <1>1
    <3> QED
      BY <2>5, <3>1, ModuloCancel
  <2> QED
    BY <2>3, <2>4, <2>6, <2>7 DEF d
<1> QED
  BY <1>5, <1>6, <1>7, <1>8, <1>9, <1>10, <1>11

\* A round of the UE: its MIBs come nearer, and if one is due it waits for it.
LEMMA UeRoundStep ==
  ASSUME StepInvariant, UeRound
  PROVE  StepInvariant'
<1> USE DEF StepInvariant
<1> DEFINE g == gnb.time
           u == ue.time
           v == Back(u, -1)
<1>1. /\ gnb \in GnbState /\ ue \in UeState
      /\ g \in 0 .. TimeModulus - 1 /\ gnb.sfn \in 0 .. SfnPeriod - 1
      /\ u \in 0 .. TimeModulus - 1 /\ ue.sfn \in 0 .. SfnPeriod - 1
      /\ udp \in Seq(0 .. SfnPeriod - 1) /\ Len(udp) \in Nat
      /\ ahead \in Int /\ lost \in Nat
  BY StateFacts
<1>2. /\ ue.pc = "sleep" /\ Waiting = 0
      /\ ahead' = ahead - 1 /\ gnb' = gnb /\ udp' = udp /\ lost' = lost
  BY DEF UeRound, Waiting
<1>3. /\ ue'.pc = IF Due(v) THEN "receive" ELSE "sleep"
      /\ ue'.time = v /\ ue'.sfn = NextFrame(ue.sfn, u) /\ ue'.state = ue.state
      /\ ue' \in UeState
  <2> DEFINE pc == IF Due(v) THEN "receive" ELSE "sleep"
  <2>1. ue' = [after_sleep(ue) EXCEPT !.pc = pc]
    BY <1>1, UeAfterSleep DEF UeRound, mib_expected, Due
  <2>2. pc \in {"sleep", "receive"}
    OBVIOUS
  <2> HIDE DEF pc
  <2>3. ue' \in UeState
    BY <1>1, <2>1, <2>2, UeAfterSleep
  <2>4. ue' = [pc |-> pc, time |-> v, sfn |-> NextFrame(ue.sfn, u), state |-> ue.state]
    BY <1>1, <2>1, UeAfterSleep
  <2> QED
    BY <2>3, <2>4 DEF pc
<1>4. v = Back(g, ahead - 1) /\ u = Back(g, ahead)
      /\ Lead(g, v, ahead - 1) = Lead(g, u, ahead) - Moved(v)
  <2>1. u = Back(g, ahead)
    BY DEF SameRounds
  <2> QED
    BY <1>1, <2>1, LeadUeRound
<1>5. ahead' + Waiting' = IF Due(v) THEN ahead ELSE ahead - 1
  BY <1>1, <1>2, <1>3 DEF Waiting
<1>6. TypeOK'
  <2>1. ahead - 1 \in Int /\ ahead - 1 <= MaxAhead + MibFrames * lost
    <3>1. ahead <= MaxAhead + MibFrames * lost
      BY DEF TypeOK
    <3>2. MaxAhead + MibFrames * lost \in Int
      BY <1>1, Bounds
    <3> QED
      BY <1>1, <3>1, <3>2
  <2>2. lost \in 0 .. MaxLost
    BY DEF TypeOK
  <2> QED
    BY <1>1, <1>2, <1>3, <2>1, <2>2, Zenon DEF TypeOK, GnbState, UeState
<1>7. SameRounds'
  BY <1>2, <1>3, <1>4 DEF SameRounds
<1>8. WaitsWhenDue'
  BY <1>3 DEF WaitsWhenDue
<1>9. Queued'
  <2>1. PICK age \in Seq(Nat) : Ages(age)
    BY DEF Queued
  <2> DEFINE n == Len(udp)
             limit == IF Due(v) THEN ahead ELSE ahead - 1
  <2>2. /\ Len(age) = n /\ n \in Nat /\ limit \in Int
        /\ \A j \in 1 .. n : age[j] \in Nat
    BY <1>1, <2>1 DEF Ages
  <2>3. ASSUME NEW j \in 1 .. n
        PROVE  /\ age[j] < limit /\ Due(Back(g, age[j]))
               /\ udp[j] = FrameBack(gnb.sfn, g, age[j])
    <3>1. /\ age[j] < ahead /\ Due(Back(g, age[j]))
          /\ udp[j] = FrameBack(gnb.sfn, g, age[j])
      BY <1>1, <1>2, <2>1, <2>2 DEF Ages
    <3>2. age[j] = ahead - 1 => Due(v)
      BY <1>4, <3>1
    <3>3. age[j] < limit
      BY <1>1, <2>2, <3>1, <3>2
    <3> QED
      BY <3>1, <3>3
  <2>4. \A i, j \in 1 .. n : i < j => age[j] < age[i]
    BY <2>1, <2>2 DEF Ages
  <2>5. ASSUME lost = 0, NEW k \in Nat, k < limit, Due(Back(g, k))
        PROVE  \E j \in 1 .. n : age[j] = k
    <3>1. k < ahead + Waiting
      BY <1>1, <1>2, <2>5
    <3> QED
      BY <2>1, <2>2, <2>5, <3>1 DEF Ages
  <2>6. Len(udp') = n /\ \A j \in 1 .. n : udp'[j] = FrameBack(gnb.sfn, g, age[j])
    BY <1>2, <2>3
  <2>7. ahead' + Waiting' = limit
    BY <1>5
  <2> HIDE DEF g, v, limit, n
  <2>8. gnb'.time = g /\ gnb'.sfn = gnb.sfn
    BY <1>2 DEF g
  <2>9. Ages(age)'
    BY <1>2, <2>1, <2>2, <2>3, <2>4, <2>5, <2>6, <2>7, <2>8 DEF Ages, FrameBack
  <2> QED
    BY <2>9 DEF Queued
<1>10. NotPassed'
  <2>1. ASSUME NEW k \in Int, (IF Due(v) THEN ahead ELSE ahead - 1) <= k, k < 0
        PROVE  ~Due(Back(g, k))
    <3>1. CASE ahead <= k
      BY <1>1, <1>2, <2>1, <3>1 DEF NotPassed
    <3>2. CASE k = ahead - 1 /\ ~Due(v)
      BY <1>4, <3>2
    <3> QED
      BY <1>1, <2>1, <3>1, <3>2
  <2> QED
    BY <1>2, <1>5, <2>1 DEF NotPassed
<1>11. Leads'
  <2>1. SUFFICES ASSUME ~Due(v), ahead - 1 <= 0
                 PROVE  FramesIn(v, -(ahead - 1)) <= SinceDue(v)
    BY <1>2, <1>3 DEF Leads
  <2>2. SinceDue(v) \in Nat /\ SinceDue(u) \in Nat
    <3>1. u \in Nat /\ v \in Nat
      <4>1. u \in Int /\ -1 \in Int
        BY <1>1, Periods
      <4>2. v \in 0 .. TimeModulus - 1
        BY <4>1, BackType, Zenon
      <4> HIDE DEF u, v
      <4> QED
        BY <1>1, <4>2, Periods
    <3> QED
      BY <3>1, SinceDueType
  <2>3. CASE ahead = 1
    <3>1. FramesIn(v, -(ahead - 1)) = 0
      BY <2>3, FramesInType
    <3> QED
      BY <2>2, <3>1
  <2>4. CASE ahead <= 0
    <3> DEFINE n == -ahead
    <3>1. n \in Nat /\ -(ahead - 1) = n + 1
      BY <1>1, <2>4
    <3>2. FramesIn(u, n) <= SinceDue(u)
      BY <1>2, <2>4 DEF Leads
    <3>3. FramesIn(v, n + 1) = FramesIn(u, n) + Moved(v)
      <4>1. u \in Int
        BY <1>1
      <4> HIDE DEF n, u
      <4> QED
        BY <3>1, <4>1, FramesInNear
    <3>4. SinceDue(u) + Moved(v) <= SinceDue(v)
      BY <1>1, <2>1, SinceDueGrows
    <3>5. FramesIn(u, n) \in Nat /\ Moved(v) \in 0 .. 1
      BY <3>1, FramesInType, MovedType
    <3> HIDE DEF n, u, v
    <3>6. FramesIn(v, n + 1) <= SinceDue(v)
      BY <2>2, <3>2, <3>3, <3>4, <3>5
    <3> QED
      BY <3>1, <3>6
  <2> QED
    BY <1>1, <2>1, <2>3, <2>4
<1>12. Follows'
  <2>1. SUFFICES ASSUME lost = 0, ue.state = "SYNC"
                 PROVE  NextFrame(ue.sfn, u) = (gnb.sfn - Lead(g, v, ahead - 1)) % SfnPeriod
    BY <1>2, <1>3 DEF Follows, FramesAhead, Lead
  <2>2. ue.sfn = (gnb.sfn - Lead(g, u, ahead)) % SfnPeriod
    BY <2>1 DEF Follows, FramesAhead, Lead
  <2> DEFINE m == Moved(v)
             d == Lead(g, u, ahead)
  <2>3. d \in Int /\ m \in Int /\ gnb.sfn \in Int /\ gnb.sfn - d \in Int
    BY <1>1, LeadType, MovedType
  <2>4. NextFrame(ue.sfn, u) = (((gnb.sfn - d) % SfnPeriod) + m) % SfnPeriod
    BY <2>2 DEF NextFrame
  <2>5. Lead(g, v, ahead - 1) = d - m
    BY <1>4
  <2> HIDE DEF m, d
  <2>6. (((gnb.sfn - d) % SfnPeriod) + m) % SfnPeriod = ((gnb.sfn - d) + m) % SfnPeriod
    BY <2>3, Periods, ModuloAdd
  <2>7. (gnb.sfn - d) + m = gnb.sfn - (d - m)
    BY <2>3
  <2> QED
    BY <2>4, <2>5, <2>6, <2>7
<1> QED
  BY <1>6, <1>7, <1>8, <1>9, <1>10, <1>11, <1>12

\* A MIB is received.  If none was lost it is the one of the UE's own round.
LEMMA UeSyncStep ==
  ASSUME StepInvariant, UeSync
  PROVE  StepInvariant'
<1> USE DEF StepInvariant
<1> DEFINE g == gnb.time
           u == ue.time
<1>1. /\ gnb \in GnbState /\ ue \in UeState
      /\ g \in 0 .. TimeModulus - 1 /\ gnb.sfn \in 0 .. SfnPeriod - 1
      /\ u \in 0 .. TimeModulus - 1 /\ ue.sfn \in 0 .. SfnPeriod - 1
      /\ udp \in Seq(0 .. SfnPeriod - 1) /\ Len(udp) \in Nat
      /\ ahead \in Int /\ lost \in Nat
  BY StateFacts
<1>2. PICK sfn \in 0 .. SfnPeriod - 1 :
        /\ udp # << >> /\ sfn = Head(udp) /\ udp' = Tail(udp)
        /\ ue' = [ue EXCEPT !.pc = "sleep", !.state = "SYNC",
                            !.sfn = IF update_due(ue) THEN sfn ELSE @]
  BY DEF UeSync, receive_mib
<1>3. /\ ue.pc = "receive" /\ Waiting = 1
      /\ ahead' = ahead /\ gnb' = gnb /\ lost' = lost
  BY DEF UeSync, Waiting
<1>4. /\ ue'.pc = "sleep" /\ ue'.state = "SYNC" /\ ue'.time = u
      /\ ue'.sfn = IF update_due(ue) THEN sfn ELSE ue.sfn
      /\ ue' \in UeState
  BY <1>1, <1>2 DEF UeState
<1>5. Waiting' = 0
  BY <1>4 DEF Waiting
<1>6. Due(u) /\ u = Back(g, ahead)
  BY <1>3 DEF WaitsWhenDue, SameRounds
<1>7. PICK age \in Seq(Nat) : Ages(age)
  BY DEF Queued
<1> DEFINE n == Len(udp)
<1>8. /\ Len(age) = n /\ n \in Nat \ {0} /\ Head(udp) = udp[1]
      /\ \A j \in 1 .. n : age[j] \in Nat
  BY <1>1, <1>2, <1>7 DEF Ages
<1>9. \A j \in 1 .. n : /\ age[j] < ahead + 1 /\ Due(Back(g, age[j]))
                        /\ udp[j] = FrameBack(gnb.sfn, g, age[j])
  BY <1>1, <1>3, <1>7, <1>8 DEF Ages
<1>10. \A i, j \in 1 .. n : i < j => age[j] < age[i]
  BY <1>7, <1>8 DEF Ages
<1>11. ahead \in Nat
  <2>1. 1 \in 1 .. n
    BY <1>8
  <2> QED
    BY <1>1, <1>8, <1>9, <2>1
<1>12. lost = 0 => \A k \in Nat : k < ahead + 1 /\ Due(Back(g, k))
                                    => \E j \in 1 .. n : age[j] = k
  BY <1>3, <1>7, <1>8 DEF Ages
<1>13. lost = 0 => age[1] = ahead
  <2>1. SUFFICES ASSUME lost = 0 PROVE age[1] = ahead
    OBVIOUS
  <2>2. PICK j \in 1 .. n : age[j] = ahead
    <3>1. ahead < ahead + 1 /\ Due(Back(g, ahead))
      BY <1>6, <1>11
    <3> QED
      BY <1>11, <1>12, <2>1, <3>1
  <2>3. 1 \in 1 .. n
    BY <1>8
  <2>4. ~(1 < j)
    BY <1>8, <1>9, <1>10, <1>11, <2>2, <2>3
  <2> QED
    BY <1>8, <2>2, <2>4
<1>14. TypeOK'
  <2>1. Tail(udp) \in Seq(0 .. SfnPeriod - 1)
    BY <1>1, <1>2, HeadTailProperties
  <2> QED
    BY <1>1, <1>2, <1>3, <1>4, <2>1, Zenon DEF TypeOK, GnbState, UeState
<1>15. SameRounds' /\ WaitsWhenDue'
  BY <1>3, <1>4 DEF SameRounds, WaitsWhenDue
<1>16. Queued'
  <2>1. PICK rest \in Seq(Nat) :
          Len(rest) = n - 1 /\ \A j \in 1 .. n - 1 : rest[j] = age[j + 1]
    <3>1. [j \in 1 .. n - 1 |-> age[j + 1]] \in Seq(Nat)
      BY <1>8
    <3>2. Len([j \in 1 .. n - 1 |-> age[j + 1]]) = n - 1
      BY <1>8
    <3> QED
      BY <3>1, <3>2
  <2>2. Len(udp') = n - 1 /\ \A j \in 1 .. n - 1 : udp'[j] = udp[j + 1]
    BY <1>1, <1>2, HeadTailProperties
  <2>3. ASSUME NEW j \in 1 .. n - 1
        PROVE  /\ rest[j] < ahead /\ Due(Back(g, rest[j]))
               /\ udp'[j] = FrameBack(gnb.sfn, g, rest[j])
    <3>1. j + 1 \in 1 .. n /\ 1 \in 1 .. n /\ 1 < j + 1
      BY <1>8
    <3>2. rest[j] = age[j + 1] /\ udp'[j] = udp[j + 1]
      BY <2>1, <2>2
    <3>3. age[j + 1] < age[1] /\ age[1] < ahead + 1 /\ age[j + 1] \in Nat /\ age[1] \in Nat
      BY <1>8, <1>9, <1>10, <3>1
    <3>4. rest[j] < ahead
      BY <1>11, <3>2, <3>3
    <3> QED
      BY <1>9, <3>1, <3>2, <3>4
  <2>4. \A i, j \in 1 .. n - 1 : i < j => rest[j] < rest[i]
    <3>1. ASSUME NEW i \in 1 .. n - 1, NEW j \in 1 .. n - 1, i < j
          PROVE  rest[j] < rest[i]
      <4>1. i + 1 \in 1 .. n /\ j + 1 \in 1 .. n /\ i + 1 < j + 1
        BY <1>8, <3>1
      <4> QED
        BY <1>10, <2>1, <4>1
    <3> QED
      BY <3>1
  <2>5. ASSUME lost = 0, NEW k \in Nat, k < ahead, Due(Back(g, k))
        PROVE  \E j \in 1 .. n - 1 : rest[j] = k
    <3>1. PICK j \in 1 .. n : age[j] = k
      BY <1>11, <1>12, <2>5
    <3>2. j # 1
      BY <1>11, <1>13, <2>5, <3>1
    <3>3. j - 1 \in 1 .. n - 1 /\ (j - 1) + 1 = j
      BY <1>8, <3>2
    <3> QED
      BY <2>1, <3>1, <3>3
  <2>6. ahead' + Waiting' = ahead
    BY <1>3, <1>5, <1>11
  <2> HIDE DEF g, n
  <2>7. gnb'.time = g /\ gnb'.sfn = gnb.sfn
    BY <1>3 DEF g
  <2>8. Ages(rest)'
    BY <1>3, <2>1, <2>2, <2>3, <2>4, <2>5, <2>6, <2>7 DEF Ages, FrameBack
  <2> QED
    BY <2>8 DEF Queued
<1>17. NotPassed'
  BY <1>3, <1>5, <1>11 DEF NotPassed
<1>18. Leads'
  <2>1. SUFFICES ASSUME ahead <= 0 PROVE FramesIn(u, -ahead) <= SinceDue(u)
    BY <1>3, <1>4 DEF Leads
  <2>2. FramesIn(u, -ahead) = 0
    BY <1>11, FramesInType
  <2>3. SinceDue(u) \in Nat
    <3>1. u \in Nat
      BY <1>1
    <3> QED
      BY <3>1, SinceDueType
  <2> QED
    BY <2>2, <2>3
<1>19. Follows'
  <2>1. SUFFICES ASSUME lost = 0
                 PROVE  ue'.sfn = (gnb.sfn - Lead(g, u, ahead)) % SfnPeriod
    BY <1>3, <1>4 DEF Follows, FramesAhead, Lead
  <2>2. CASE update_due(ue)
    <3>1. sfn = FrameBack(gnb.sfn, g, ahead)
      BY <1>2, <1>8, <1>9, <1>13, <2>1
    <3>2. Lead(g, u, ahead) = FramesIn(g, ahead)
      <4>1. FramesIn(u, -ahead) = 0 /\ FramesIn(g, ahead) \in Nat
        BY <1>11, FramesInType
      <4> QED
        BY <4>1 DEF Lead
    <3> QED
      BY <1>4, <2>2, <3>1, <3>2 DEF FrameBack
  <2>3. CASE ~update_due(ue)
    <3>1. ue.state = "SYNC"
      BY <1>1, <2>3 DEF update_due, UeState
    <3>2. ue.sfn = (gnb.sfn - Lead(g, u, ahead)) % SfnPeriod
      BY <2>1, <3>1 DEF Follows, FramesAhead, Lead
    <3> QED
      BY <1>4, <2>3, <3>2
  <2> QED
    BY <2>2, <2>3
<1> QED
  BY <1>14, <1>15, <1>16, <1>17, <1>18, <1>19

-----------------------------------------------------------------------------
\* Of every MIB in the socket the invariant knows the round, and that no frame
\* was missed on the way: it holds in every state of the two loops.
THEOREM StepsCorrect == Spec => []StepInvariant
<1>1. Init => StepInvariant
  BY StepStart
<1>2. StepInvariant /\ [Next]_vars => StepInvariant'
  <2>1. SUFFICES ASSUME StepInvariant, [Next]_vars PROVE StepInvariant'
    OBVIOUS
  <2>2. CASE GnbRound
    BY <2>1, <2>2, GnbRoundStep
  <2>3. CASE UeRound
    BY <2>1, <2>3, UeRoundStep
  <2>4. CASE UeSync
    BY <2>1, <2>4, UeSyncStep
  <2>5. CASE UNCHANGED vars
    BY <2>1, <2>5 DEF StepInvariant, TypeOK, SameRounds, WaitsWhenDue, Waiting, Queued,
                      Ages, NotPassed, Leads, Follows, FramesAhead, FrameBack, vars
  <2> QED
    BY <2>1, <2>2, <2>3, <2>4, <2>5 DEF Next
<1> QED
  BY <1>1, <1>2, PTL DEF Spec

\* The counters of both loops and the frame numbers in the MIBs are frame numbers
\* and times for ever, and the gNB is never further ahead than the bound allows.
THEOREM LoopTypeCorrect == Spec => []TypeOK
<1>1. StepInvariant => TypeOK
  BY DEF StepInvariant
<1> QED
  BY <1>1, StepsCorrect, PTL

\* Without a lost MIB a UE in SYNC shows in every round of its own the frame number
\* of the gNB's round of the same number: what receive_mib takes from the socket is
\* always the MIB of the UE's own round, also where sp.time wraps out of step.
THEOREM CountsInStep == Spec => []InStep
<1>1. StepInvariant => InStep
  <2>1. SUFFICES ASSUME StepInvariant, lost = 0, ue.state = "SYNC" PROVE Offset = 0
    BY DEF InStep
  <2> DEFINE x == gnb.sfn - FramesAhead
  <2>2. ue.sfn = x % SfnPeriod
    BY <2>1 DEF StepInvariant, Follows
  <2>3. x \in Int /\ ahead \in Int
    <3>1. gnb.sfn \in Int /\ ahead \in Int
      BY <2>1, StateFacts DEF StepInvariant
    <3>2. FramesAhead \in Int
      BY <3>1, FramesInType DEF FramesAhead
    <3> QED
      BY <3>1, <3>2
  <2>4. MibFrames * lost = 0
    BY <2>1, Bounds
  <2> HIDE DEF x
  <2>5. Offset = (x - (x % SfnPeriod)) % SfnPeriod
    <3>1. Offset = (x + MibFrames * lost - ue.sfn) % SfnPeriod
      BY DEF Offset, x
    <3>2. x % SfnPeriod \in Int
      BY <2>3, Periods, Modulo
    <3>3. x + MibFrames * lost - ue.sfn = x - (x % SfnPeriod)
      BY <2>2, <2>3, <2>4, <3>2
    <3> QED
      BY <3>1, <3>3
  <2> DEFINE q == x \div SfnPeriod
  <2>6. /\ x = SfnPeriod * q + (x % SfnPeriod) /\ q \in Int
        /\ x % SfnPeriod \in Int /\ SfnPeriod \in Nat \ {0}
    BY <2>3, Periods, Modulo
  <2> HIDE DEF q
  <2>7. x - (x % SfnPeriod) = SfnPeriod * q + 0
    BY <2>3, <2>6
  <2>8. (SfnPeriod * q + 0) % SfnPeriod = 0
    BY <2>6, ModuloUnique
  <2> QED
    BY <2>5, <2>7, <2>8
<1> QED
  BY <1>1, StepsCorrect, PTL

\* The UE is never a whole MIB period of frames ahead of the gNB: it blocks in
\* recvfrom in the first round in which the gNB has still to send a MIB.
THEOREM NeverAhead == Spec => []NotAhead
<1>1. StepInvariant => NotAhead
  <2>1. SUFFICES ASSUME StepInvariant, ue.pc = "sleep" PROVE FramesAhead > -MibFrames
    BY DEF NotAhead
  <2>2. ahead \in Int /\ ue.time \in Nat
    BY <2>1, StateFacts DEF StepInvariant
  <2> DEFINE f == FramesIn(gnb.time, ahead)
             h == FramesIn(ue.time, -ahead)
             s == SinceDue(ue.time)
  <2>3. f \in Nat /\ h \in Nat /\ s \in Nat /\ s < MibFrames
    BY <2>2, FramesInType, SinceDueType
  <2>4. ahead <= 0 => h <= s
    BY <2>1 DEF StepInvariant, Leads
  <2>5. ahead > 0 => h = 0
    BY <2>2, FramesInType
  <2>6. FramesAhead = f - h
    BY DEF FramesAhead
  <2> HIDE DEF f, h, s
  <2> QED
    BY <2>2, <2>3, <2>4, <2>5, <2>6, Bounds
<1> QED
  BY <1>1, StepsCorrect, PTL
=============================================================================
