--------------------------- MODULE GnbPagingProofs ---------------------------
(***************************************************************************)
(* What the paging pipeline of the gNB guarantees for all UEs, numbers of  *)
(* messages, ring sizes and frame structures.                              *)
(***************************************************************************)
EXTENDS GnbPaging, PagingOccasionProofs, FiniteSetTheorems

USE DEF histories

LEMMA ExceptType ==
  ASSUME NEW S, NEW T, NEW f \in [S -> T], NEW k, NEW v \in T
  PROVE  [f EXCEPT ![k] = v] \in [S -> T]
  OBVIOUS

LEMMA AppendType ==
  ASSUME NEW S, NEW s \in Seq(S), NEW e \in S
  PROVE  Append(s, e) \in Seq(S)
  OBVIOUS

\* The key a page would be filed under is one of the map's, it lies ahead of the
\* clock reading and is an occasion of the page's UE.
LEMMA FiledKeyFacts ==
  ASSUME TypeOK, sched.pc = "insert"
  PROVE  /\ FiledKey \in Keys
         /\ Slot(sched.at) < FiledKey
         /\ FiledKey < Slot(sched.at) + 2 * DRX * SubFrames
         /\ check_correct_rrc_time(sched.page.ue, FiledKey \div SubFrames,
                                   FiledKey % SubFrames)
<1> DEFINE ue == sched.page.ue
           sfn == sched.at.sfn
           sf == sched.at.sf
           p == calculate_rrc_parameter(ue, sfn, sf)
<1>1. ue \in Nat /\ ue \div N0 <= 255
  BY PagingAssumption DEF TypeOK, Page, SchedulerState
<1>2. sfn \in 0 .. SfnPeriod - 1 /\ sf \in 0 .. SubFrames - 1
  BY DEF TypeOK, Clock, SchedulerState
<1>3. /\ p.PF \in 0 .. SfnPeriod + DRX - 1
      /\ p.PO \in 0 .. SubFrames - 1
      /\ check_correct_rrc_time(ue, p.PF, p.PO)
  BY <1>1, <1>2, FiledOccasion
<1>4. Key(sfn, sf) < FiledKey /\ FiledKey < Key(sfn, sf) + 2 * DRX * SubFrames
  BY <1>1, <1>2, FiledAhead DEF FiledKey
<1>5. Slot(sched.at) = Key(sfn, sf)
  BY DEF Slot, Key
<1> DEFINE pf == p.PF
           po == p.PO
<1>6. FiledKey = Key(pf, po)
  BY DEF FiledKey
<1>7. pf \in Nat /\ pf < SfnPeriod + DRX /\ po \in 0 .. SubFrames - 1
  BY <1>3, Constants
<1> HIDE DEF pf, po
<1>8. /\ Key(pf, po) \in Nat
      /\ Key(pf, po) \div SubFrames = pf
      /\ Key(pf, po) % SubFrames = po
  BY <1>7, KeyParts
<1>9. Key(pf, po) < (SfnPeriod + DRX) * SubFrames
  <2>1. pf * SubFrames + SubFrames <= (SfnPeriod + DRX) * SubFrames
    BY <1>7, ProductStrict, Constants
  <2>2. pf * SubFrames \in Nat /\ (SfnPeriod + DRX) * SubFrames \in Nat
    BY <1>7, Constants
  <2> QED
    BY <1>7, <2>1, <2>2, Constants DEF Key
<1>10. FiledKey \in Keys
  <2>1. (SfnPeriod + DRX) * SubFrames \in Nat
    BY Constants
  <2> QED
    BY <1>6, <1>8, <1>9, <2>1 DEF Keys
<1> QED
  BY <1>3, <1>4, <1>5, <1>6, <1>8, <1>10 DEF pf, po

LEMMA WorkerKeyFacts ==
  ASSUME TypeOK
  PROVE  WorkerKey \in Keys /\ WorkerKey = Slot(worker.at)
<1>1. worker.at \in Clock
  BY DEF TypeOK, WorkerState
<1>2. Slot(worker.at) \in 0 .. Hyper - 1
  BY <1>1, SlotType
<1>3. WorkerKey = Slot(worker.at)
  BY DEF WorkerKey, Key, Slot
<1>4. (SfnPeriod + DRX) * SubFrames = Hyper + DRX * SubFrames /\ DRX * SubFrames \in Nat
  BY Constants DEF Hyper
<1> QED
  BY <1>2, <1>3, <1>4, HyperType DEF Keys

\* What a torn read sends, if anything, and whom the race touches: whatever is sent,
\* and the page that is passed over.
LEMMA TornRead ==
  ASSUME TypeOK, WorkerReadsTorn
  PROVE  /\ raced \subseteq raced' /\ raced' \subseteq raced \cup 1 .. MaxNgap
         /\ \/ radio' = radio
            \/ \E id \in 1 .. sent : radio' = Append(radio, id) /\ id \in raced'
         /\ \A j \in DOMAIN map[WorkerKey] :
              j = worker.i + 1 => map[WorkerKey][j].id \in raced'
<1> DEFINE passed == map[WorkerKey][worker.i + 1].id
<1>1. /\ map[WorkerKey] \in Seq(Page) /\ worker.i \in Nat
      /\ 1 .. sent \subseteq 1 .. MaxNgap
  BY WorkerKeyFacts, PagingAssumption DEF TypeOK, WorkerState
<1>2. worker.i < Len(map[WorkerKey]) => passed \in 1 .. MaxNgap
  <2> SUFFICES ASSUME worker.i < Len(map[WorkerKey]) PROVE passed \in 1 .. MaxNgap
    OBVIOUS
  <2>1. map[WorkerKey][worker.i + 1] \in Page
    BY <1>1
  <2> QED
    BY <2>1 DEF Page
<1> HIDE DEF passed
<1>3. \/ worker.i = Len(map[WorkerKey]) /\ radio' = radio /\ raced' = raced
      \/ /\ worker.i < Len(map[WorkerKey])
         /\ \/ radio' = radio /\ raced' = raced \cup {passed}
            \/ \E id \in 1 .. sent :
                 radio' = Append(radio, id) /\ raced' = raced \cup {passed, id}
  BY DEF WorkerReadsTorn, passed
<1>4. CASE worker.i = Len(map[WorkerKey]) /\ radio' = radio /\ raced' = raced
  <2>1. \A j \in DOMAIN map[WorkerKey] : j # worker.i + 1
    BY <1>1, <1>4
  <2> QED
    BY <1>4, <2>1
<1>5. CASE /\ worker.i < Len(map[WorkerKey])
           /\ \/ radio' = radio /\ raced' = raced \cup {passed}
              \/ \E id \in 1 .. sent :
                   radio' = Append(radio, id) /\ raced' = raced \cup {passed, id}
  <2>1. passed \in raced'
    BY <1>5
  <2>2. \A j \in DOMAIN map[WorkerKey] :
          j = worker.i + 1 => map[WorkerKey][j].id \in raced'
    BY <2>1 DEF passed
  <2> QED
    BY <1>1, <1>2, <1>5, <2>2
<1> QED
  BY <1>3, <1>4, <1>5

-----------------------------------------------------------------------------
\* The variables have their types in every reachable state (gnb/caculate.c).
THEOREM TypeCorrect == Spec => []TypeOK
<1>0. InitClock \in Clock
  BY FrameClockAssumption DEF InitClock, Clock
<1>1. IdleScheduler \in SchedulerState /\ IdleScheduler.pc # "insert"
  BY <1>0 DEF IdleScheduler, SchedulerState
<1>2. IdleWorker \in WorkerState
  BY <1>0 DEF IdleWorker, WorkerState
<1>3. Init => TypeOK
  <2> SUFFICES ASSUME Init PROVE TypeOK
    OBVIOUS
  <2>1. map \in [Keys -> Seq(Page)]
    BY DEF Init
  <2>2. tcp \in Seq(Page) /\ queue \in Seq(Page) /\ radio \in Seq(1 .. MaxNgap)
    BY DEF Init
  <2>3. sent \in 0 .. MaxNgap /\ rrc_sent \in Nat /\ logged \in Nat
    BY PagingAssumption DEF Init
  <2>4. /\ handled \subseteq 1 .. MaxNgap /\ dropped \subseteq 1 .. MaxNgap
        /\ raced \subseteq 1 .. MaxNgap /\ torn \in Nat
    BY DEF Init
  <2> QED
    BY <1>0, <1>1, <1>2, <2>1, <2>2, <2>3, <2>4 DEF Init, TypeOK
<1>4. TypeOK /\ [Next]_vars => TypeOK'
  <2> SUFFICES ASSUME TypeOK, [Next]_vars PROVE TypeOK'
    OBVIOUS
  <2>1. CASE AmfSend
    <3>1. PICK ue \in UE : tcp' = Append(tcp, [id |-> sent + 1, ue |-> ue])
      BY <2>1 DEF AmfSend, UE
    <3>2. [id |-> sent + 1, ue |-> ue] \in Page
      BY <2>1, PagingAssumption DEF AmfSend, Page, TypeOK
    <3>3. tcp' \in Seq(Page)
      BY <3>1, <3>2 DEF TypeOK
    <3>4. sent' \in 0 .. MaxNgap
      BY <2>1, PagingAssumption DEF AmfSend, TypeOK
    <3> QED
      BY <2>1, <3>3, <3>4 DEF AmfSend, TypeOK
  <2>2. CASE MainStart
    <3>1. tcp' \in Seq(Page)
      BY <2>2 DEF MainStart, TypeOK
    <3> QED
      BY <2>2, <3>1 DEF MainStart, TypeOK
  <2>3. CASE Listen
    <3>1. Head(tcp) \in Page /\ Tail(tcp) \in Seq(Page) /\ queue \in Seq(Page)
      BY <2>3 DEF Listen, TypeOK
    <3>2. Head(tcp).id \in 1 .. MaxNgap
      BY <3>1 DEF Page
    <3>3. queue' \in Seq(Page)
      BY <2>3, <3>1 DEF Listen
    <3>4. dropped' \subseteq 1 .. MaxNgap
      <4>1. dropped' = dropped \/ dropped' = dropped \cup {Head(tcp).id}
        BY <2>3 DEF Listen
      <4> QED
        BY <3>2, <4>1 DEF TypeOK
    <3>5. tcp' \in Seq(Page)
      BY <2>3, <3>1 DEF Listen
    <3> QED
      BY <2>3, <3>3, <3>4, <3>5 DEF Listen, TypeOK
  <2>4. CASE Tick
    BY <2>4, TickType DEF Tick, TypeOK
  <2>5. CASE SchedulerSnapshot
    <3>1. sched' \in SchedulerState /\ sched'.pc # "insert"
      BY <2>5 DEF SchedulerSnapshot, TypeOK, SchedulerState
    <3> QED
      BY <2>5, <3>1 DEF SchedulerSnapshot, TypeOK
  <2>6. CASE SchedulerDequeue
    <3>1. CASE queue = << >>
      <4>1. sched' = IdleScheduler /\ queue' = queue
        BY <2>6, <3>1 DEF SchedulerDequeue
      <4> QED
        BY <1>1, <2>6, <4>1 DEF SchedulerDequeue, TypeOK
    <3>2. CASE queue # << >>
      <4>1. Head(queue) \in Page /\ Tail(queue) \in Seq(Page)
        BY <3>2 DEF TypeOK
      <4>2. /\ queue' = Tail(queue)
            /\ sched' = [sched EXCEPT !.pc = "insert", !.page = Head(queue)]
        BY <2>6, <3>2 DEF SchedulerDequeue
      <4>3. sched \in SchedulerState
        BY DEF TypeOK
      <4>4. sched' \in SchedulerState /\ sched'.page \in Page
        BY <4>1, <4>2, <4>3 DEF SchedulerState
      <4> QED
        BY <2>6, <4>1, <4>2, <4>4 DEF SchedulerDequeue, TypeOK
    <3> QED
      BY <3>1, <3>2
  <2>7. CASE SchedulerInsert
    <3>1. map \in [Keys -> Seq(Page)] /\ sched.page \in Page
      BY <2>7 DEF SchedulerInsert, TypeOK
    <3>2. map' = [map EXCEPT ![FiledKey] = Append(@, sched.page)]
      BY <2>7 DEF SchedulerInsert
    <3>3. map' \in [Keys -> Seq(Page)]
      <4>1. FiledKey \in Keys
        BY <2>7, FiledKeyFacts DEF SchedulerInsert
      <4>2. map[FiledKey] \in Seq(Page)
        BY <3>1, <4>1
      <4>3. Append(map[FiledKey], sched.page) \in Seq(Page)
        BY <3>1, <4>2, AppendType
      <4> QED
        BY <3>1, <3>2, <4>3, ExceptType
    <3>4. raced' \subseteq 1 .. MaxNgap
      BY <2>7, <3>1 DEF SchedulerInsert, TypeOK, Page
    <3> QED
      BY <1>1, <2>7, <3>3, <3>4 DEF SchedulerInsert, TypeOK
  <2>8. CASE WorkerSnapshot
    <3>1. worker' \in WorkerState
      BY <2>8 DEF WorkerSnapshot, TypeOK, WorkerState
    <3> QED
      BY <2>8, <3>1 DEF WorkerSnapshot, TypeOK
  <2>9. CASE WorkerGet
    <3>1. worker' \in WorkerState
      BY <1>2, <2>9 DEF WorkerGet, TypeOK, WorkerState
    <3> QED
      BY <2>9, <3>1 DEF WorkerGet, TypeOK
  <2>10. CASE WorkerSend
    <3> DEFINE page == map[WorkerKey][worker.i + 1]
    <3>1. map[WorkerKey] \in Seq(Page)
      BY WorkerKeyFacts DEF TypeOK
    <3>2. worker.i \in Nat /\ worker.i < Len(map[WorkerKey])
      BY <2>10 DEF WorkerSend, TypeOK, WorkerState
    <3>3. page \in Page
      BY <3>1, <3>2
    <3>4. page.id \in 1 .. MaxNgap
      BY <3>3 DEF Page
    <3>5. /\ radio' = radio \/ radio' = Append(radio, page.id)
          /\ handled' = handled \cup {page.id}
      BY <2>10 DEF WorkerSend
    <3> HIDE DEF page
    <3>6. radio' \in Seq(1 .. MaxNgap)
      BY <3>4, <3>5, AppendType DEF TypeOK
    <3>7. handled' \subseteq 1 .. MaxNgap
      BY <3>4, <3>5 DEF TypeOK
    <3>8. worker' \in WorkerState
      <4>1. worker \in WorkerState /\ worker' = [worker EXCEPT !.i = @ + 1]
        BY <2>10 DEF WorkerSend, TypeOK
      <4> QED
        BY <4>1 DEF WorkerState
    <3> QED
      BY <2>10, <3>6, <3>7, <3>8 DEF WorkerSend, TypeOK
  <2>11. CASE WorkerReadsTorn
    <3>1. worker' \in WorkerState
      <4>1. worker \in WorkerState /\ worker' = [worker EXCEPT !.i = @ + 1]
        BY <2>11 DEF WorkerReadsTorn, TypeOK
      <4> QED
        BY <4>1 DEF WorkerState
    <3>2. radio \in Seq(1 .. MaxNgap) /\ 1 .. sent \subseteq 1 .. MaxNgap
      BY PagingAssumption DEF TypeOK
    <3>3. radio' \in Seq(1 .. MaxNgap)
      <4>1. CASE radio' = radio
        BY <3>2, <4>1
      <4>2. CASE \E id \in 1 .. sent : radio' = Append(radio, id)
        BY <3>2, <4>2, AppendType
      <4> QED
        BY <2>11, <4>1, <4>2, TornRead DEF WorkerReadsTorn
    <3>4. raced' \subseteq 1 .. MaxNgap
      BY <2>11, <3>2, TornRead DEF TypeOK
    <3> QED
      BY <2>11, <3>1, <3>3, <3>4 DEF WorkerReadsTorn, TypeOK
  <2>12. CASE WorkerLoopEnd
    <3>1. worker' \in WorkerState
      BY <2>12 DEF WorkerLoopEnd, TypeOK, WorkerState
    <3> QED
      BY <2>12, <3>1 DEF WorkerLoopEnd, TypeOK
  <2>13. CASE WorkerRemove
    <3>1. map' = [map EXCEPT ![WorkerKey] = << >>] /\ map \in [Keys -> Seq(Page)]
      BY <2>13 DEF WorkerRemove, without_entry, TypeOK
    <3>2. << >> \in Seq(Page)
      OBVIOUS
    <3>3. map' \in [Keys -> Seq(Page)]
      BY <3>1, <3>2, ExceptType
    <3> QED
      BY <1>2, <2>13, <3>3 DEF WorkerRemove, TypeOK
  <2>14. CASE Log
    BY <2>14 DEF Log, after_exchange, TypeOK
  <2>15. CASE UNCHANGED vars
    BY <2>15 DEF vars, TypeOK
  <2> QED
    BY <2>1, <2>2, <2>3, <2>4, <2>5, <2>6, <2>7, <2>8, <2>9, <2>10, <2>11,
       <2>12, <2>13, <2>14, <2>15 DEF Next, Scheduler, Worker
<1> QED
  BY <1>3, <1>4, PTL DEF Spec

-----------------------------------------------------------------------------
\* What the two steps that write the map do to each of its entries.
LEMMA InsertEffect ==
  ASSUME TypeOK, SchedulerInsert
  PROVE  \A k \in Keys :
           map'[k] = IF k = FiledKey THEN Append(map[k], sched.page) ELSE map[k]
<1>1. map \in [Keys -> Seq(Page)] /\ map' = [map EXCEPT ![FiledKey] = Append(@, sched.page)]
  BY DEF SchedulerInsert, TypeOK
<1> QED
  BY <1>1

LEMMA RemoveEffect ==
  ASSUME TypeOK, WorkerRemove
  PROVE  \A k \in Keys : map'[k] = IF k = WorkerKey THEN << >> ELSE map[k]
<1>1. map \in [Keys -> Seq(Page)] /\ map' = [map EXCEPT ![WorkerKey] = << >>]
  BY DEF WorkerRemove, without_entry, TypeOK
<1> QED
  BY <1>1

LEMMA MapStep ==
  ASSUME [Next]_vars
  PROVE  SchedulerInsert \/ WorkerRemove \/ UNCHANGED map
  BY DEF Next, Scheduler, Worker, vars, AmfSend, MainStart, Listen, Tick,
         SchedulerSnapshot, SchedulerDequeue, WorkerSnapshot, WorkerGet,
         WorkerSend, WorkerReadsTorn, WorkerLoopEnd, Log

(***************************************************************************)
(* Whatever the threads' delays, the scheduler files a page under the next *)
(* occasion of its UE after the clock reading it used, or one cycle later, *)
(* and later just when the UE's frame was still ahead in the cycle         *)
(* (gnb/caculate.c:171-200).                                               *)
(***************************************************************************)
THEOREM FiledNextOrLater == Spec => []NextOrOneCycleLate
<1>1. TypeOK => NextOrOneCycleLate
  <2> SUFFICES ASSUME TypeOK, sched.pc = "insert"
               PROVE  FiledKey = NextAwake(sched.page.ue, sched.at)
                                   + IF sched.at.sfn % DRX < UePF(sched.page.ue)
                                     THEN DRX * SubFrames ELSE 0
    BY DEF NextOrOneCycleLate
  <2>1. sched.at \in Clock /\ sched.page.ue \in UE
    BY DEF TypeOK, SchedulerState, Page
  <2>2. sched.page.ue \in Nat /\ sched.page.ue \div N0 <= 255
    BY <2>1, PagingAssumption
  <2> QED
    BY <2>1, <2>2, FiledNextOrLate DEF FiledKey
<1> QED
  BY <1>1, TypeCorrect, PTL

(***************************************************************************)
(* Whatever the threads' delays, a page waits in the map only under a slot *)
(* that its UE takes as one of its own (gnb/caculate.c:171-200 against     *)
(* ue/global.h:11-15 and ue/connect.c:261-264).                            *)
(***************************************************************************)
THEOREM FiledCorrect == Spec => []FiledAtOccasion
<1>1. Init => FiledAtOccasion
  BY DEF Init, FiledAtOccasion
<1>2. TypeOK /\ FiledAtOccasion /\ [Next]_vars => FiledAtOccasion'
  <2> SUFFICES ASSUME TypeOK, FiledAtOccasion, [Next]_vars,
                      NEW k \in Keys, NEW j \in DOMAIN map'[k]
               PROVE  check_correct_rrc_time(map'[k][j].ue, k \div SubFrames, k % SubFrames)
    BY DEF FiledAtOccasion
  <2>1. CASE SchedulerInsert
    <3>1. map[k] \in Seq(Page) /\ sched.page \in Page /\ sched.pc = "insert"
      BY <2>1 DEF TypeOK, SchedulerInsert
    <3>2. CASE k # FiledKey
      BY <2>1, <3>2, InsertEffect DEF FiledAtOccasion
    <3>3. CASE k = FiledKey /\ j \in DOMAIN map[k]
      <4>1. map'[k] = Append(map[k], sched.page)
        BY <2>1, <3>3, InsertEffect
      <4>2. map'[k][j] = map[k][j]
        BY <3>1, <3>3, <4>1
      <4> QED
        BY <3>3, <4>2 DEF FiledAtOccasion
    <3>4. CASE k = FiledKey /\ j \notin DOMAIN map[k]
      <4>1. map'[k] = Append(map[k], sched.page)
        BY <2>1, <3>4, InsertEffect
      <4>2. map'[k][j] = sched.page
        BY <3>1, <3>4, <4>1
      <4> QED
        BY <3>1, <3>4, <4>2, FiledKeyFacts
    <3> QED
      BY <3>2, <3>3, <3>4
  <2>2. CASE WorkerRemove
    <3>1. map'[k] = IF k = WorkerKey THEN << >> ELSE map[k]
      BY <2>2, RemoveEffect
    <3> QED
      BY <3>1 DEF FiledAtOccasion
  <2>3. CASE UNCHANGED map
    BY <2>3 DEF FiledAtOccasion
  <2> QED
    BY <2>1, <2>2, <2>3, MapStep
<1> QED
  BY <1>1, <1>2, TypeCorrect, PTL DEF Spec

-----------------------------------------------------------------------------
(* How far the two threads that use an old clock reading lag behind it.    *)
LagBounded ==
  /\ sched.pc # "snapshot" => Lag(clk, sched.at) <= SchedulerLag
  /\ worker.pc # "snapshot" => Lag(clk, worker.at) <= WorkerLag

LEMMA LagInvariant == Spec => []LagBounded
<1>1. Init => LagBounded
  BY DEF Init, LagBounded, IdleScheduler, IdleWorker
<1>2. TypeOK /\ LagBounded /\ [Next]_vars => LagBounded'
  <2> SUFFICES ASSUME TypeOK, LagBounded, [Next]_vars PROVE LagBounded'
    OBVIOUS
  <2>1. /\ clk \in Clock /\ sched \in SchedulerState /\ worker \in WorkerState
        /\ sched.at \in Clock /\ worker.at \in Clock
    BY DEF TypeOK, SchedulerState, WorkerState
  <2>2. SchedulerLag \in Nat /\ WorkerLag \in Nat
    BY PagingAssumption
  <2>3. CASE Tick
    <3>1. /\ Lag(clk, sched.at) \in Nat /\ Lag(clk, worker.at) \in Nat
          /\ Lag(clk', sched.at) <= Lag(clk, sched.at) + 1
          /\ Lag(clk', worker.at) <= Lag(clk, worker.at) + 1
      BY <2>1, <2>3, TickLag, LagType, HyperType DEF Tick
    <3>2. Lag(clk', sched.at) \in Nat /\ Lag(clk', worker.at) \in Nat
      BY <2>1, <2>3, TickType, LagType, HyperType DEF Tick
    <3> QED
      BY <2>2, <2>3, <3>1, <3>2 DEF Tick, LagBounded
  <2>4. CASE SchedulerSnapshot
    <3>1. sched'.at = clk /\ clk' = clk /\ worker' = worker
      BY <2>1, <2>4 DEF SchedulerSnapshot, SchedulerState
    <3> QED
      BY <2>1, <2>2, <3>1, TickLag DEF LagBounded
  <2>5. CASE SchedulerDequeue
    <3>1. sched' = IdleScheduler \/ (sched.pc = "dequeue" /\ sched'.at = sched.at)
      BY <2>1, <2>5 DEF SchedulerDequeue, SchedulerState
    <3> QED
      BY <2>5, <3>1 DEF SchedulerDequeue, LagBounded, IdleScheduler
  <2>6. CASE SchedulerInsert
    BY <2>6 DEF SchedulerInsert, LagBounded, IdleScheduler
  <2>7. CASE WorkerSnapshot
    <3>1. worker'.at = clk /\ clk' = clk /\ sched' = sched
      BY <2>1, <2>7 DEF WorkerSnapshot, WorkerState
    <3> QED
      BY <2>1, <2>2, <3>1, TickLag DEF LagBounded
  <2>8. CASE WorkerGet \/ WorkerSend \/ WorkerReadsTorn \/ WorkerLoopEnd \/ WorkerRemove
    <3>1. /\ clk' = clk /\ sched' = sched
          /\ worker' = IdleWorker \/ (worker.pc # "snapshot" /\ worker'.at = worker.at)
      BY <2>1, <2>8 DEF WorkerGet, WorkerSend, WorkerReadsTorn, WorkerLoopEnd,
                        WorkerRemove, WorkerState
    <3> QED
      BY <3>1 DEF LagBounded, IdleWorker
  <2>9. CASE UNCHANGED <<clk, sched, worker>>
    BY <2>9 DEF LagBounded
  <2> QED
    BY <2>3, <2>4, <2>5, <2>6, <2>7, <2>8, <2>9
       DEF Next, Scheduler, Worker, vars, AmfSend, MainStart, Listen, Log
<1> QED
  BY <1>1, <1>2, TypeCorrect, PTL DEF Spec

(***************************************************************************)
(* For whatever lags: the threads meet in one vector only if the clock has *)
(* gone on since the scheduler read it, or the worker has walked for more  *)
(* than a clock period less two paging cycles.  This is all that keeps     *)
(* them apart: the worker holds no lock while it walks                     *)
(* (gnb/caculate.c:116-128 against 163-200).                               *)
(***************************************************************************)
THEOREM MeetOnlyIfLate == Spec => []SharedOnlyIfLate
<1>1. TypeOK => SharedOnlyIfLate
  <2> SUFFICES ASSUME TypeOK, Shared, sched.at = clk
               PROVE  Lag(clk, worker.at) + 2 * DRX * SubFrames > Hyper
    BY DEF SharedOnlyIfLate
  <2> DEFINE now == Slot(clk)
             walked == Slot(worker.at)
             twoCycles == 2 * DRX * SubFrames
  <2>1. now \in 0 .. Hyper - 1 /\ walked \in 0 .. Hyper - 1
    BY SlotType DEF TypeOK, WorkerState
  <2>2. now < walked /\ walked < now + twoCycles
    BY FiledKeyFacts, WorkerKeyFacts DEF Shared
  <2>3. twoCycles \in Nat /\ Hyper \in Nat \ {0}
    BY Constants, HyperType
  <2>4. Lag(clk, worker.at) = IF now >= walked THEN now - walked ELSE now - walked + Hyper
    BY DEF Lag
  <2> HIDE DEF now, walked, twoCycles
  <2>5. Lag(clk, worker.at) + twoCycles > Hyper
    BY <2>1, <2>2, <2>3, <2>4
  <2> QED
    BY <2>5 DEF twoCycles
<1> QED
  BY <1>1, TypeCorrect, PTL

-----------------------------------------------------------------------------
(* Where the pages are: each in one place, and handled only by the worker  *)
(* that still walks its vector.                                            *)

Unique(s) == \A i, j \in DOMAIN s : s[i].id = s[j].id => i = j

OnePlace ==
  /\ Unique(tcp) /\ Ids(tcp) \subseteq 1 .. sent
  /\ Unique(queue) /\ Ids(queue) \subseteq 1 .. sent
  /\ InHand \subseteq 1 .. sent
  /\ Ids(tcp) \cap Ids(queue) = {}
  /\ (Ids(tcp) \cup Ids(queue)) \cap InHand = {}
  /\ \A k \in Keys : /\ Unique(map[k]) /\ Ids(map[k]) \subseteq 1 .. sent
                     /\ Ids(map[k]) \cap (Ids(tcp) \cup Ids(queue) \cup InHand) = {}
  /\ \A k, l \in Keys : k # l => Ids(map[k]) \cap Ids(map[l]) = {}

HandledOnce ==
  /\ handled \subseteq 1 .. sent
  /\ handled \cap (Ids(tcp) \cup Ids(queue) \cup InHand) = {}
  /\ \A k \in Keys : \A j \in DOMAIN map[k] :
       map[k][j].id \in handled =>
         worker.pc \in {"loop", "remove"} /\ k = WorkerKey /\ j <= worker.i

SentWasHandled ==
  /\ \A j \in DOMAIN radio : radio[j] \in handled \cup raced
  /\ SentTwiceOnlyIfRaced

LEMMA IdsAppend ==
  ASSUME NEW s \in Seq(Page), NEW p \in Page
  PROVE  /\ Ids(Append(s, p)) = Ids(s) \cup {p.id}
         /\ Unique(s) /\ p.id \notin Ids(s) => Unique(Append(s, p))
<1>1. /\ DOMAIN Append(s, p) = DOMAIN s \cup {Len(s) + 1}
      /\ \A j \in DOMAIN s : Append(s, p)[j] = s[j] /\ j # Len(s) + 1
      /\ Append(s, p)[Len(s) + 1] = p
  OBVIOUS
<1> DEFINE n == Len(s) + 1
           t == Append(s, p)
<1> HIDE DEF n, t
<1>2. /\ DOMAIN t = DOMAIN s \cup {n}
      /\ \A j \in DOMAIN s : t[j] = s[j] /\ j # n
      /\ t[n] = p
  BY <1>1 DEF n, t
<1>3. Ids(t) = Ids(s) \cup {p.id}
  BY <1>2 DEF Ids
<1>4. Unique(s) /\ p.id \notin Ids(s) => Unique(t)
  BY <1>2 DEF Ids, Unique
<1> QED
  BY <1>3, <1>4 DEF t

LEMMA IdsTail ==
  ASSUME NEW s \in Seq(Page), s # << >>
  PROVE  /\ Ids(s) = Ids(Tail(s)) \cup {Head(s).id}
         /\ Unique(s) => Unique(Tail(s)) /\ Head(s).id \notin Ids(Tail(s))
<1>1. /\ DOMAIN Tail(s) = 1 .. Len(s) - 1
      /\ DOMAIN s = 1 .. Len(s)
      /\ Len(s) \in Nat \ {0}
      /\ \A j \in DOMAIN Tail(s) : Tail(s)[j] = s[j + 1]
      /\ Head(s) = s[1]
  OBVIOUS
<1> DEFINE n == Len(s)
           t == Tail(s)
           h == Head(s)
<1> HIDE DEF n, t, h
<1>2. /\ DOMAIN t = 1 .. n - 1 /\ DOMAIN s = 1 .. n /\ n \in Nat \ {0}
      /\ \A j \in 1 .. n - 1 : t[j] = s[j + 1]
      /\ h = s[1]
  BY <1>1 DEF n, t, h
<1>3. Ids(s) = Ids(t) \cup {h.id}
  <2>1. ASSUME NEW x \in Ids(s) PROVE x \in Ids(t) \cup {h.id}
    <3>1. PICK j \in 1 .. n : x = s[j].id
      BY <1>2, <2>1 DEF Ids
    <3>2. CASE j = 1
      BY <1>2, <3>1, <3>2
    <3>3. CASE j # 1
      <4>1. j - 1 \in 1 .. n - 1 /\ t[j - 1] = s[j]
        BY <1>2, <3>1, <3>3
      <4> QED
        BY <1>2, <3>1, <4>1 DEF Ids
    <3> QED
      BY <3>2, <3>3
  <2>2. ASSUME NEW x \in Ids(t) PROVE x \in Ids(s)
    <3>1. PICK j \in 1 .. n - 1 : x = t[j].id
      BY <1>2, <2>2 DEF Ids
    <3>2. j + 1 \in 1 .. n /\ x = s[j + 1].id
      BY <1>2, <3>1
    <3> QED
      BY <1>2, <3>2 DEF Ids
  <2>3. h.id \in Ids(s)
    BY <1>2 DEF Ids
  <2> QED
    BY <2>1, <2>2, <2>3
<1>4. ASSUME Unique(s) PROVE Unique(t) /\ h.id \notin Ids(t)
  <2>1. ASSUME NEW i \in DOMAIN t, NEW j \in DOMAIN t, t[i].id = t[j].id PROVE i = j
    <3>1. i \in Nat /\ j \in Nat /\ i + 1 \in 1 .. n /\ j + 1 \in 1 .. n
      BY <1>2, <2>1
    <3>2. s[i + 1].id = s[j + 1].id
      BY <1>2, <2>1
    <3>3. i + 1 = j + 1
      BY <1>2, <1>4, <3>1, <3>2 DEF Unique
    <3> QED
      BY <3>1, <3>3
  <2>2. ASSUME h.id \in Ids(t) PROVE FALSE
    <3>1. PICK j \in 1 .. n - 1 : h.id = t[j].id
      BY <1>2, <2>2 DEF Ids
    <3>2. j + 1 \in 1 .. n /\ 1 \in 1 .. n /\ s[1].id = s[j + 1].id
      BY <1>2, <3>1
    <3>3. 1 = j + 1
      BY <1>2, <1>4, <3>2 DEF Unique
    <3> QED
      BY <3>1, <3>3
  <2> QED
    BY <2>1, <2>2 DEF Unique
<1> QED
  BY <1>3, <1>4 DEF t, h

LEMMA OnePlaceInvariant == Spec => []OnePlace
<1>1. Init => OnePlace
  <2> SUFFICES ASSUME Init PROVE OnePlace
    OBVIOUS
  <2>1. Ids(<< >>) = {} /\ Unique(<< >>)
    BY DEF Ids, Unique
  <2>2. InHand = {}
    BY DEF Init, InHand, IdleScheduler
  <2>3. \A k \in Keys : map[k] = << >>
    BY DEF Init
  <2> QED
    BY <2>1, <2>2, <2>3 DEF Init, OnePlace
<1>2. TypeOK /\ OnePlace /\ [Next]_vars => OnePlace'
  <2> SUFFICES ASSUME TypeOK, OnePlace, [Next]_vars PROVE OnePlace'
    OBVIOUS
  <2>1. /\ tcp \in Seq(Page) /\ queue \in Seq(Page) /\ sent \in Nat
        /\ \A k \in Keys : map[k] \in Seq(Page)
    BY PagingAssumption DEF TypeOK
  <2>2. CASE AmfSend
    <3>1. PICK ue \in UE : tcp' = Append(tcp, [id |-> sent + 1, ue |-> ue])
      BY <2>2 DEF AmfSend, UE
    <3> DEFINE p == [id |-> sent + 1, ue |-> ue]
    <3>2. p \in Page /\ p.id = sent + 1
      BY <2>2, PagingAssumption DEF AmfSend, Page, TypeOK
    <3>3. sent + 1 \notin 1 .. sent /\ 1 .. sent + 1 = 1 .. sent \cup {sent + 1}
      BY <2>1
    <3>4. p.id \notin Ids(tcp)
      BY <3>2, <3>3 DEF OnePlace
    <3> HIDE DEF p
    <3>5. Ids(tcp') = Ids(tcp) \cup {p.id} /\ Unique(tcp')
      BY <2>1, <3>1, <3>2, <3>4, IdsAppend DEF OnePlace, p
    <3>6. /\ sent' = sent + 1 /\ queue' = queue /\ map' = map /\ InHand' = InHand
      BY <2>2 DEF AmfSend, InHand
    <3>7. Ids(queue') = Ids(queue) /\ \A k \in Keys : Ids(map'[k]) = Ids(map[k])
      BY <3>6
    <3>8. /\ \A k \in Keys : Unique(map'[k]) /\ sent + 1 \notin Ids(map[k])
          /\ Unique(queue') /\ sent + 1 \notin Ids(queue) /\ sent + 1 \notin InHand
      BY <3>3, <3>6 DEF OnePlace
    <3>9. Ids(tcp') = Ids(tcp) \cup {sent + 1} /\ 1 .. sent' = 1 .. sent \cup {sent + 1}
      BY <3>2, <3>3, <3>5, <3>6
    <3> QED
      BY <3>5, <3>6, <3>7, <3>8, <3>9 DEF OnePlace
  <2>3. CASE MainStart
    <3>1. /\ tcp # << >> /\ tcp' = Tail(tcp)
          /\ sent' = sent /\ queue' = queue /\ map' = map /\ InHand' = InHand
      BY <2>3 DEF MainStart, InHand
    <3>2. Ids(tcp') \subseteq Ids(tcp) /\ Unique(tcp')
      BY <2>1, <3>1, IdsTail DEF OnePlace
    <3>3. Ids(queue') = Ids(queue) /\ \A k \in Keys : Ids(map'[k]) = Ids(map[k])
      BY <3>1
    <3> QED
      BY <3>1, <3>2, <3>3 DEF OnePlace
  <2>4. CASE Listen
    <3> DEFINE h == Head(tcp)
    <3>1. /\ tcp # << >> /\ tcp' = Tail(tcp)
          /\ queue' = queue \/ queue' = Append(queue, h)
          /\ sent' = sent /\ map' = map /\ InHand' = InHand
      BY <2>4 DEF Listen, InHand
    <3>2. h \in Page
      BY <2>1, <3>1
    <3> HIDE DEF h
    <3>3. /\ Ids(tcp) = Ids(tcp') \cup {h.id} /\ Unique(tcp')
          /\ h.id \notin Ids(tcp')
      BY <2>1, <3>1, IdsTail DEF OnePlace, h
    <3>4. h.id \notin Ids(queue)
      BY <3>3 DEF OnePlace
    <3>5. /\ Ids(queue') \subseteq Ids(queue) \cup {h.id}
          /\ Unique(queue')
      BY <2>1, <3>1, <3>2, <3>4, IdsAppend DEF OnePlace
    <3>6. \A k \in Keys : Ids(map'[k]) = Ids(map[k]) /\ Unique(map'[k])
      BY <3>1 DEF OnePlace
    <3>7. h.id \in 1 .. sent /\ h.id \notin InHand /\ \A k \in Keys : h.id \notin Ids(map[k])
      BY <3>3 DEF OnePlace
    <3> QED
      BY <3>1, <3>3, <3>5, <3>6, <3>7 DEF OnePlace
  <2>5. CASE SchedulerDequeue /\ queue # << >>
    <3> DEFINE h == Head(queue)
    <3>1. /\ queue' = Tail(queue)
          /\ sched' = [sched EXCEPT !.pc = "insert", !.page = h]
          /\ sent' = sent /\ map' = map /\ tcp' = tcp
          /\ sched.pc = "dequeue"
      BY <2>5 DEF SchedulerDequeue
    <3>2. sched'.pc = "insert" /\ sched'.page = h
      BY <3>1 DEF TypeOK, SchedulerState
    <3>3. InHand' = {h.id}
      BY <3>2 DEF InHand
    <3> HIDE DEF h
    <3>4. /\ Ids(queue) = Ids(queue') \cup {h.id} /\ Unique(queue')
          /\ h.id \notin Ids(queue')
      BY <2>1, <2>5, <3>1, IdsTail DEF OnePlace, h
    <3>5. /\ Ids(tcp') = Ids(tcp)
          /\ \A k \in Keys : Ids(map'[k]) = Ids(map[k]) /\ Unique(map'[k])
      BY <3>1 DEF OnePlace
    <3>6. /\ h.id \in 1 .. sent /\ h.id \notin Ids(tcp)
          /\ \A k \in Keys : h.id \notin Ids(map[k])
      BY <3>4 DEF OnePlace
    <3> QED
      BY <3>1, <3>3, <3>4, <3>5, <3>6 DEF OnePlace
  <2>6. CASE SchedulerInsert
    <3> DEFINE p == sched.page
    <3>1. p \in Page /\ InHand = {p.id} /\ InHand' = {}
      BY <2>6 DEF SchedulerInsert, TypeOK, InHand, IdleScheduler
    <3>2. /\ tcp' = tcp /\ queue' = queue /\ sent' = sent
          /\ Ids(tcp') = Ids(tcp) /\ Ids(queue') = Ids(queue)
      BY <2>6 DEF SchedulerInsert
    <3>3. FiledKey \in Keys
      BY <2>6, FiledKeyFacts DEF SchedulerInsert
    <3> HIDE DEF p
    <3>4. map'[FiledKey] = Append(map[FiledKey], p)
      BY <2>6, <3>3, InsertEffect DEF p
    <3>5. \A k \in Keys : k # FiledKey => map'[k] = map[k]
      BY <2>6, InsertEffect
    <3>6. p.id \in 1 .. sent /\ p.id \notin Ids(tcp) /\ p.id \notin Ids(queue)
      BY <3>1 DEF OnePlace
    <3>7. \A k \in Keys : p.id \notin Ids(map[k])
      BY <3>1 DEF OnePlace
    <3>8. Ids(map'[FiledKey]) = Ids(map[FiledKey]) \cup {p.id} /\ Unique(map'[FiledKey])
      BY <2>1, <3>1, <3>3, <3>4, <3>7, IdsAppend DEF OnePlace
    <3>9. \A k \in Keys : /\ Unique(map'[k])
                          /\ Ids(map'[k]) = IF k = FiledKey THEN Ids(map[k]) \cup {p.id}
                                                            ELSE Ids(map[k])
      BY <3>5, <3>8 DEF OnePlace
    <3>10. \A k, l \in Keys : k # l => Ids(map'[k]) \cap Ids(map'[l]) = {}
      BY <3>7, <3>9 DEF OnePlace
    <3>11. \A k \in Keys :
             /\ Ids(map'[k]) \subseteq 1 .. sent
             /\ Ids(map'[k]) \cap (Ids(tcp) \cup Ids(queue)) = {}
      BY <3>6, <3>9 DEF OnePlace
    <3> QED
      BY <3>1, <3>2, <3>9, <3>10, <3>11 DEF OnePlace
  <2>7. CASE WorkerRemove
    <3>1. /\ tcp' = tcp /\ queue' = queue /\ sent' = sent /\ InHand' = InHand
          /\ Ids(tcp') = Ids(tcp) /\ Ids(queue') = Ids(queue)
      BY <2>7 DEF WorkerRemove, InHand
    <3>2. Ids(<< >>) = {} /\ Unique(<< >>)
      BY DEF Ids, Unique
    <3>3. \A k \in Keys : Ids(map'[k]) \subseteq Ids(map[k]) /\ Unique(map'[k])
      BY <2>7, <3>2, RemoveEffect DEF OnePlace
    <3> QED
      BY <3>1, <3>3 DEF OnePlace
  <2>8. CASE /\ UNCHANGED <<tcp, queue, sent, map>>
             /\ InHand' = InHand
    <3>1. /\ Ids(tcp') = Ids(tcp) /\ Ids(queue') = Ids(queue)
          /\ \A k \in Keys : Ids(map'[k]) = Ids(map[k]) /\ Unique(map'[k])
          /\ Unique(tcp') /\ Unique(queue') /\ sent' = sent
      BY <2>8 DEF OnePlace
    <3> QED
      BY <2>8, <3>1 DEF OnePlace
  <2>9. CASE SchedulerDequeue /\ queue = << >>
    <3>1. InHand' = {} /\ InHand = {} /\ UNCHANGED <<tcp, queue, sent, map>>
      BY <2>9 DEF SchedulerDequeue, InHand, IdleScheduler
    <3> QED
      BY <2>8, <3>1
  <2>10. CASE SchedulerSnapshot
    <3>1. InHand' = {} /\ InHand = {} /\ UNCHANGED <<tcp, queue, sent, map>>
      BY <2>10 DEF SchedulerSnapshot, InHand, TypeOK, SchedulerState
    <3> QED
      BY <2>8, <3>1
  <2>11. CASE UNCHANGED <<tcp, queue, sent, map, sched>>
    BY <2>8, <2>11 DEF InHand
  <2>12. Tick \/ WorkerSnapshot \/ WorkerGet \/ WorkerSend \/ WorkerReadsTorn
           \/ WorkerLoopEnd \/ Log \/ UNCHANGED vars
         => UNCHANGED <<tcp, queue, sent, map, sched>>
    BY DEF Tick, WorkerSnapshot, WorkerGet, WorkerSend, WorkerReadsTorn,
           WorkerLoopEnd, Log, vars
  <2> QED
    BY <2>2, <2>3, <2>4, <2>5, <2>6, <2>7, <2>9, <2>10, <2>11, <2>12
       DEF Next, Scheduler, Worker
<1> QED
  BY <1>1, <1>2, TypeCorrect, PTL DEF Spec

\* The page of the worker's next round has not been handled, and no other cell of
\* the map holds it.
LEMMA NextRound ==
  ASSUME TypeOK, OnePlace, HandledOnce, WorkerSend
  PROVE  LET p == map[WorkerKey][worker.i + 1]
         IN  /\ p.id \in 1 .. sent /\ p.id \notin handled
             /\ p.id \notin Ids(tcp) \cup Ids(queue) \cup InHand
             /\ \A k \in Keys : \A j \in DOMAIN map[k] :
                  map[k][j].id = p.id => k = WorkerKey /\ j = worker.i + 1
             /\ handled' = handled \cup {p.id}
             /\ radio' = IF p.ue = UE_ID THEN Append(radio, p.id) ELSE radio
<1> DEFINE n == worker.i + 1
           p == map[WorkerKey][n]
<1>1. /\ map[WorkerKey] \in Seq(Page) /\ WorkerKey \in Keys
      /\ worker.i \in Nat /\ worker.i < Len(map[WorkerKey])
  BY WorkerKeyFacts DEF TypeOK, WorkerState, WorkerSend
<1>2. n \in DOMAIN map[WorkerKey] /\ n \in Nat /\ ~(n <= worker.i)
  BY <1>1
<1> HIDE DEF n
<1>3. p.id \in Ids(map[WorkerKey])
  BY <1>2 DEF Ids
<1>4. p.id \notin handled
  BY <1>1, <1>2 DEF HandledOnce
<1>5. p.id \in 1 .. sent /\ p.id \notin Ids(tcp) \cup Ids(queue) \cup InHand
  BY <1>1, <1>3 DEF OnePlace
<1>6. ASSUME NEW k \in Keys, NEW j \in DOMAIN map[k], map[k][j].id = p.id
      PROVE  k = WorkerKey /\ j = n
  <2>1. p.id \in Ids(map[k])
    BY <1>6 DEF Ids
  <2>2. k = WorkerKey
    BY <1>1, <1>3, <2>1 DEF OnePlace
  <2>3. j = n
    BY <1>1, <1>2, <1>6, <2>2 DEF OnePlace, Unique
  <2> QED
    BY <2>2, <2>3
<1>7. /\ handled' = handled \cup {p.id}
      /\ radio' = IF p.ue = UE_ID THEN Append(radio, p.id) ELSE radio
  BY DEF WorkerSend, n
<1> QED
  BY <1>4, <1>5, <1>6, <1>7 DEF n

LEMMA HandledInvariant == Spec => []HandledOnce
<1>1. Init => HandledOnce
  BY DEF Init, HandledOnce
<1>2. TypeOK /\ OnePlace /\ OnePlace' /\ HandledOnce /\ [Next]_vars => HandledOnce'
  <2> SUFFICES ASSUME TypeOK, OnePlace, HandledOnce, [Next]_vars PROVE HandledOnce'
    OBVIOUS
  <2>1. /\ tcp \in Seq(Page) /\ queue \in Seq(Page) /\ sent \in Nat
        /\ sched \in SchedulerState /\ worker \in WorkerState
        /\ \A k \in Keys : map[k] \in Seq(Page)
    BY PagingAssumption DEF TypeOK
  <2>2. CASE AmfSend
    <3>1. PICK ue \in UE : tcp' = Append(tcp, [id |-> sent + 1, ue |-> ue])
      BY <2>2 DEF AmfSend, UE
    <3> DEFINE p == [id |-> sent + 1, ue |-> ue]
    <3>2. p \in Page /\ p.id = sent + 1
      BY <2>2, PagingAssumption DEF AmfSend, Page, TypeOK
    <3> HIDE DEF p
    <3>3. Ids(tcp') = Ids(tcp) \cup {sent + 1}
      BY <2>1, <3>1, <3>2, IdsAppend DEF p
    <3>4. handled \subseteq 1 .. sent'
      BY <2>1, <2>2 DEF AmfSend, HandledOnce
    <3>5. sent + 1 \notin handled
      BY <2>1 DEF HandledOnce
    <3>6. /\ Ids(queue') = Ids(queue) /\ InHand' = InHand /\ WorkerKey' = WorkerKey
          /\ UNCHANGED <<map, worker, handled>>
      BY <2>2 DEF AmfSend, InHand, WorkerKey
    <3> QED
      BY <3>3, <3>4, <3>5, <3>6 DEF HandledOnce
  <2>3. CASE MainStart \/ Listen \/ (SchedulerDequeue /\ queue # << >>)
    <3>1. UNCHANGED <<sent, map, worker, handled>> /\ WorkerKey' = WorkerKey
      BY <2>3 DEF MainStart, Listen, SchedulerDequeue, WorkerKey
    <3>2. Ids(tcp') \cup Ids(queue') \cup InHand' \subseteq Ids(tcp) \cup Ids(queue) \cup InHand
      <4>1. CASE MainStart
        <5>1. Ids(tcp') \subseteq Ids(tcp)
          BY <2>1, <4>1, IdsTail DEF MainStart
        <5> QED
          BY <4>1, <5>1 DEF MainStart, InHand
      <4>2. CASE Listen
        <5>1. Head(tcp) \in Page /\ Ids(tcp) = Ids(Tail(tcp)) \cup {Head(tcp).id}
          BY <2>1, <4>2, IdsTail DEF Listen
        <5>2. Ids(queue') \subseteq Ids(queue) \cup {Head(tcp).id}
          BY <2>1, <4>2, <5>1, IdsAppend DEF Listen
        <5> QED
          BY <4>2, <5>1, <5>2 DEF Listen, InHand
      <4>3. CASE SchedulerDequeue /\ queue # << >>
        <5>1. sched'.pc = "insert" /\ sched'.page = Head(queue) /\ sched.pc = "dequeue"
          BY <2>1, <4>3 DEF SchedulerDequeue, SchedulerState
        <5>2. InHand' = {Head(queue).id} /\ InHand = {}
          BY <5>1 DEF InHand
        <5>3. Ids(queue) = Ids(Tail(queue)) \cup {Head(queue).id}
          BY <2>1, <4>3, IdsTail
        <5>4. queue' = Tail(queue) /\ tcp' = tcp
          BY <4>3 DEF SchedulerDequeue
        <5> QED
          BY <5>2, <5>3, <5>4
      <4> QED
        BY <2>3, <4>1, <4>2, <4>3
    <3> QED
      BY <3>1, <3>2 DEF HandledOnce
  <2>4. CASE SchedulerInsert
    <3> DEFINE p == sched.page
    <3>1. p \in Page /\ InHand = {p.id} /\ InHand' = {}
      BY <2>4 DEF SchedulerInsert, TypeOK, InHand, IdleScheduler
    <3>2. p.id \notin handled
      BY <3>1 DEF HandledOnce
    <3>3. UNCHANGED <<tcp, queue, sent, worker, handled>> /\ WorkerKey' = WorkerKey
      BY <2>4 DEF SchedulerInsert, WorkerKey
    <3> HIDE DEF p
    <3>4. ASSUME NEW k \in Keys, NEW j \in DOMAIN map'[k], map'[k][j].id \in handled
          PROVE  worker.pc \in {"loop", "remove"} /\ k = WorkerKey /\ j <= worker.i
      <4>1. map'[k] = map[k] \/ map'[k] = Append(map[k], p)
        BY <2>4, InsertEffect DEF p
      <4>2. (j \in DOMAIN map[k] /\ map'[k][j] = map[k][j]) \/ map'[k][j] = p
        <5>1. map[k] \in Seq(Page)
          BY <2>1
        <5>2. CASE map'[k] = map[k]
          BY <3>4, <5>2
        <5>3. CASE map'[k] = Append(map[k], p)
          <6>1. j \in DOMAIN Append(map[k], p)
            BY <3>4, <5>3
          <6>2. \/ j \in DOMAIN map[k] /\ Append(map[k], p)[j] = map[k][j]
                \/ Append(map[k], p)[j] = p
            BY <5>1, <6>1
          <6> QED
            BY <5>3, <6>2
        <5> QED
          BY <4>1, <5>2, <5>3
      <4>3. j \in DOMAIN map[k] /\ map[k][j].id \in handled
        BY <3>2, <3>4, <4>2
      <4> QED
        BY <4>3 DEF HandledOnce
    <3> QED
      BY <3>1, <3>3, <3>4 DEF HandledOnce
  <2>5. CASE WorkerSend
    <3> DEFINE p == map[WorkerKey][worker.i + 1]
    <3>1. /\ p.id \in 1 .. sent /\ handled' = handled \cup {p.id}
          /\ p.id \notin Ids(tcp) \cup Ids(queue) \cup InHand
          /\ \A k \in Keys : \A j \in DOMAIN map[k] :
               map[k][j].id = p.id => k = WorkerKey /\ j = worker.i + 1
      BY <2>5, NextRound
    <3> HIDE DEF p
    <3>2. /\ UNCHANGED <<tcp, queue, sent, map, sched>>
          /\ worker.pc = "loop" /\ worker'.pc = "loop" /\ worker'.at = worker.at
          /\ worker'.i = worker.i + 1 /\ worker.i \in Nat
      BY <2>1, <2>5 DEF WorkerSend, WorkerState
    <3>3. WorkerKey' = WorkerKey /\ InHand' = InHand
      BY <3>2 DEF WorkerKey, InHand
    <3>4. ASSUME NEW k \in Keys, NEW j \in DOMAIN map[k], map[k][j].id \in handled'
          PROVE  k = WorkerKey /\ j <= worker.i + 1
      <4>1. CASE map[k][j].id = p.id
        BY <3>1, <3>2, <4>1
      <4>2. CASE map[k][j].id \in handled
        <5>1. k = WorkerKey /\ j <= worker.i /\ j \in Nat
          BY <2>1, <4>2 DEF HandledOnce
        <5> QED
          BY <3>2, <5>1
      <4> QED
        BY <3>1, <3>4, <4>1, <4>2
    <3> QED
      BY <3>1, <3>2, <3>3, <3>4 DEF HandledOnce
  <2>6. CASE WorkerReadsTorn
    <3>1. /\ UNCHANGED <<tcp, queue, sent, map, sched, handled>>
          /\ worker'.pc = worker.pc /\ worker'.at = worker.at
          /\ worker'.i = worker.i + 1 /\ worker.i \in Nat
      BY <2>1, <2>6 DEF WorkerReadsTorn, WorkerState
    <3>2. WorkerKey' = WorkerKey /\ InHand' = InHand
      BY <3>1 DEF WorkerKey, InHand
    <3>3. \A k \in Keys : \A j \in DOMAIN map[k] : j \in Nat
      BY <2>1
    <3> QED
      BY <3>1, <3>2, <3>3 DEF HandledOnce
  <2>7. CASE WorkerLoopEnd
    <3>1. /\ UNCHANGED <<tcp, queue, sent, map, sched, handled>>
          /\ worker'.pc = "remove" /\ worker'.at = worker.at /\ worker'.i = worker.i
      BY <2>1, <2>7 DEF WorkerLoopEnd, WorkerState
    <3>2. WorkerKey' = WorkerKey /\ InHand' = InHand
      BY <3>1 DEF WorkerKey, InHand
    <3> QED
      BY <3>1, <3>2 DEF HandledOnce
  <2>8. CASE WorkerRemove
    <3>1. UNCHANGED <<tcp, queue, sent, sched, handled>>
      BY <2>8 DEF WorkerRemove
    <3>2. InHand' = InHand
      BY <3>1 DEF InHand
    <3>3. \A k \in Keys : \A j \in DOMAIN map'[k] : k # WorkerKey /\ map'[k] = map[k]
      BY <2>8, RemoveEffect
    <3> QED
      BY <3>1, <3>2, <3>3 DEF HandledOnce
  <2>9. CASE WorkerSnapshot \/ WorkerGet
    <3>1. UNCHANGED <<tcp, queue, sent, map, sched, handled>> /\ worker.pc \in {"snapshot", "get"}
      BY <2>9 DEF WorkerSnapshot, WorkerGet
    <3>2. InHand' = InHand
      BY <3>1 DEF InHand
    <3>3. \A k \in Keys : \A j \in DOMAIN map[k] : map[k][j].id \notin handled
      BY <3>1 DEF HandledOnce
    <3> QED
      BY <3>1, <3>2, <3>3 DEF HandledOnce
  <2>10. CASE UNCHANGED <<tcp, queue, sent, map, worker, handled>> /\ InHand' = InHand
    BY <2>10 DEF HandledOnce, WorkerKey
  <2>11. CASE SchedulerSnapshot \/ (SchedulerDequeue /\ queue = << >>)
    <3>1. InHand' = {} /\ InHand = {}
      <4>1. sched.pc # "insert"
        BY <2>11 DEF SchedulerSnapshot, SchedulerDequeue
      <4>2. sched'.pc # "insert"
        <5>1. CASE SchedulerSnapshot
          BY <2>1, <5>1 DEF SchedulerSnapshot, SchedulerState
        <5>2. CASE SchedulerDequeue /\ queue = << >>
          BY <5>2 DEF SchedulerDequeue, IdleScheduler
        <5> QED
          BY <2>11, <5>1, <5>2
      <4> QED
        BY <4>1, <4>2 DEF InHand
    <3> QED
      BY <2>10, <2>11, <3>1 DEF SchedulerSnapshot, SchedulerDequeue
  <2>12. CASE Tick \/ Log \/ UNCHANGED vars
    <3>1. UNCHANGED <<tcp, queue, sent, map, worker, handled, sched>>
      BY <2>12 DEF Tick, Log, vars
    <3>2. InHand' = InHand
      BY <3>1 DEF InHand
    <3> QED
      BY <2>10, <3>1, <3>2
  <2> QED
    BY <2>2, <2>3, <2>4, <2>5, <2>6, <2>7, <2>8, <2>9, <2>11, <2>12
       DEF Next, Scheduler, Worker
<1> QED
  BY <1>1, <1>2, TypeCorrect, OnePlaceInvariant, PTL DEF Spec

(***************************************************************************)
(* For whatever lags, a page goes out twice only if the worker read it     *)
(* from memory the scheduler had freed: an entry is gone before the        *)
(* worker, which polls the same key many times in one subframe, can find   *)
(* it again (gnb/caculate.c:106-132).                                      *)
(***************************************************************************)
THEOREM SendsTwiceOnlyRaced == Spec => []SentTwiceOnlyIfRaced
<1>1. Init => SentWasHandled
  BY DEF Init, SentWasHandled, SentTwiceOnlyIfRaced
<1>2. TypeOK /\ OnePlace /\ HandledOnce /\ SentWasHandled /\ [Next]_vars
      => SentWasHandled'
  <2> SUFFICES ASSUME TypeOK, OnePlace, HandledOnce, SentWasHandled, [Next]_vars
               PROVE  SentWasHandled'
    OBVIOUS
  <2>1. \A id : /\ radio' = Append(radio, id)
                /\ id \in handled' \cup raced'
                /\ handled \cup raced \subseteq handled' \cup raced'
                /\ raced \subseteq raced'
                /\ id \in raced' \/ id \notin handled
                => SentWasHandled'
    <3> SUFFICES ASSUME NEW id,
                        radio' = Append(radio, id),
                        id \in handled' \cup raced',
                        handled \cup raced \subseteq handled' \cup raced',
                        raced \subseteq raced',
                        id \in raced' \/ id \notin handled
                 PROVE  SentWasHandled'
      OBVIOUS
    <3> DEFINE n == Len(radio) + 1
    <3>1. /\ DOMAIN radio' = DOMAIN radio \cup {n}
          /\ \A j \in DOMAIN radio : radio'[j] = radio[j]
          /\ radio'[n] = id
      BY DEF TypeOK
    <3> HIDE DEF n
    <3>2. \A j \in DOMAIN radio : radio[j] = id => id \in raced'
      BY DEF SentWasHandled
    <3> QED
      BY <3>1, <3>2 DEF SentWasHandled, SentTwiceOnlyIfRaced
  <2>2. CASE WorkerSend
    <3> DEFINE p == map[WorkerKey][worker.i + 1]
    <3>1. /\ p.id \notin handled /\ handled' = handled \cup {p.id}
          /\ radio' = radio \/ radio' = Append(radio, p.id)
      BY <2>2, NextRound
    <3>2. raced' = raced
      BY <2>2 DEF WorkerSend
    <3> HIDE DEF p
    <3>3. CASE radio' = radio
      BY <3>1, <3>2, <3>3 DEF SentWasHandled, SentTwiceOnlyIfRaced
    <3>4. CASE radio' = Append(radio, p.id)
      BY <2>1, <3>1, <3>2, <3>4
    <3> QED
      BY <3>1, <3>3, <3>4
  <2>3. CASE UNCHANGED <<radio, handled>> /\ raced \subseteq raced'
    BY <2>3 DEF SentWasHandled, SentTwiceOnlyIfRaced
  <2>4. CASE WorkerReadsTorn
    <3>1. handled' = handled /\ raced \subseteq raced'
      BY <2>4, TornRead DEF WorkerReadsTorn
    <3>2. CASE radio' = radio
      BY <2>3, <3>1, <3>2
    <3>3. CASE \E id \in 1 .. sent : radio' = Append(radio, id) /\ id \in raced'
      BY <2>1, <3>1, <3>3
    <3> QED
      BY <2>4, <3>2, <3>3, TornRead
  <2>5. CASE SchedulerInsert
    <3>1. UNCHANGED <<radio, handled>> /\ raced \subseteq raced'
      BY <2>5 DEF SchedulerInsert
    <3> QED
      BY <2>3, <3>1
  <2> QED
    BY <2>2, <2>3, <2>4, <2>5 DEF Next, Scheduler, Worker, vars, AmfSend, MainStart,
         Listen, Tick, SchedulerSnapshot, SchedulerDequeue, WorkerSnapshot, WorkerGet,
         WorkerLoopEnd, WorkerRemove, Log
<1>3. SentWasHandled => SentTwiceOnlyIfRaced
  BY DEF SentWasHandled
<1> QED
  BY <1>1, <1>2, <1>3, TypeCorrect, OnePlaceInvariant, HandledInvariant, PTL DEF Spec

-----------------------------------------------------------------------------
(* How far the worker has come in the vector it walks: what lies behind it *)
(* has been handled, but for the pages that a race touched.                *)
Progress ==
  /\ worker.pc = "get" => worker.i = 0
  /\ worker.pc = "snapshot" => worker.i = 0
  /\ worker.pc = "loop" =>
       \A j \in DOMAIN map[WorkerKey] :
         j <= worker.i => map[WorkerKey][j].id \in handled \cup raced
  /\ worker.pc = "remove" => Ids(map[WorkerKey]) \subseteq handled \cup raced

LEMMA ProgressInvariant == Spec => []Progress
<1>1. Init => Progress
  BY DEF Init, Progress, IdleWorker
<1>2. TypeOK /\ Progress /\ [Next]_vars => Progress'
  <2> SUFFICES ASSUME TypeOK, Progress, [Next]_vars PROVE Progress'
    OBVIOUS
  <2>1. /\ worker \in WorkerState /\ WorkerKey \in Keys /\ map[WorkerKey] \in Seq(Page)
    BY WorkerKeyFacts DEF TypeOK
  <2>2. CASE SchedulerInsert
    <3> DEFINE k == WorkerKey
               p == sched.page
    <3>1. worker' = worker /\ handled' = handled /\ WorkerKey' = k /\ p \in Page
      BY <2>2 DEF SchedulerInsert, WorkerKey, TypeOK
    <3>2. CASE ~Shared
      <4>1. worker.pc \in {"loop", "remove"} => map'[k] = map[k]
        BY <2>1, <2>2, <3>2, InsertEffect DEF Shared, SchedulerInsert
      <4>2. worker.pc \in {"loop", "remove"} => Ids(map'[k]) = Ids(map[k])
        BY <4>1
      <4>3. raced' = raced
        BY <2>2, <3>2 DEF SchedulerInsert
      <4> HIDE DEF k
      <4> QED
        BY <3>1, <4>1, <4>2, <4>3 DEF Progress, k
    <3>3. CASE Shared
      <4>1. map'[k] = Append(map[k], p)
        BY <2>1, <2>2, <3>3, InsertEffect DEF Shared
      <4>2. raced' = raced \cup {p.id}
        BY <2>2, <3>3 DEF SchedulerInsert
      <4> DEFINE s == map[k]
                 t == map'[k]
      <4>3. s \in Seq(Page) /\ t = Append(s, p)
        BY <2>1, <4>1
      <4> HIDE DEF k, s, t, p
      <4>4. \A j \in DOMAIN t : (j \in DOMAIN s /\ t[j] = s[j]) \/ t[j] = p
        BY <3>1, <4>3
      <4>5. Ids(t) = Ids(s) \cup {p.id}
        BY <3>1, <4>3, IdsAppend
      <4>6. worker.pc = "loop" =>
              \A j \in DOMAIN t : j <= worker.i => t[j].id \in handled \cup raced \cup {p.id}
        BY <4>4 DEF Progress, s, k
      <4>7. worker.pc = "remove" => Ids(t) \subseteq handled \cup raced \cup {p.id}
        BY <4>5 DEF Progress, s, k
      <4>8. /\ worker'.pc = worker.pc /\ worker'.i = worker.i
            /\ map'[WorkerKey'] = t
        BY <3>1 DEF t
      <4>9. handled' \cup raced' = handled \cup raced \cup {p.id}
        BY <3>1, <4>2
      <4> QED
        BY <4>6, <4>7, <4>8, <4>9 DEF Progress
    <3> QED
      BY <3>2, <3>3
  <2>3. CASE WorkerSnapshot
    <3>1. worker'.pc = "get" /\ worker'.i = worker.i /\ worker.pc = "snapshot"
      BY <2>1, <2>3 DEF WorkerSnapshot, WorkerState
    <3> QED
      BY <3>1 DEF Progress
  <2>4. CASE WorkerGet
    <3>1. CASE worker' = IdleWorker
      BY <3>1 DEF Progress, IdleWorker
    <3>2. CASE worker' = [worker EXCEPT !.pc = "loop"]
      <4>1. worker'.pc = "loop" /\ worker'.i = 0 /\ map' = map
        BY <2>1, <2>4, <3>2 DEF WorkerGet, WorkerState, Progress
      <4>2. WorkerKey' = WorkerKey
        BY <2>1, <3>2 DEF WorkerKey, WorkerState
      <4>3. \A j \in DOMAIN map[WorkerKey] : ~(j <= 0)
        BY <2>1
      <4> QED
        BY <4>1, <4>2, <4>3 DEF Progress
    <3> QED
      BY <2>4, <3>1, <3>2 DEF WorkerGet
  <2>5. CASE WorkerSend
    <3>1. /\ map' = map /\ worker.pc = "loop" /\ worker'.pc = "loop"
          /\ worker'.i = worker.i + 1 /\ worker.i \in Nat /\ worker'.at = worker.at
          /\ handled' = handled \cup {map[WorkerKey][worker.i + 1].id}
          /\ raced' = raced
      BY <2>1, <2>5 DEF WorkerSend, WorkerState
    <3>2. WorkerKey' = WorkerKey
      BY <3>1 DEF WorkerKey
    <3>3. \A j \in DOMAIN map[WorkerKey] :
            j <= worker.i + 1 => j <= worker.i \/ j = worker.i + 1
      BY <2>1, <3>1
    <3> QED
      BY <3>1, <3>2, <3>3 DEF Progress
  <2>6. CASE WorkerReadsTorn
    <3>1. /\ map' = map /\ worker.pc = "loop" /\ worker'.pc = "loop"
          /\ worker'.i = worker.i + 1 /\ worker.i \in Nat /\ worker'.at = worker.at
          /\ handled' = handled
      BY <2>1, <2>6 DEF WorkerReadsTorn, WorkerState
    <3>2. WorkerKey' = WorkerKey
      BY <3>1 DEF WorkerKey
    <3>3. \A j \in DOMAIN map[WorkerKey] :
            j <= worker.i + 1 => j <= worker.i \/ j = worker.i + 1
      BY <2>1, <3>1
    <3>4. /\ raced \subseteq raced'
          /\ \A j \in DOMAIN map[WorkerKey] :
               j = worker.i + 1 => map[WorkerKey][j].id \in raced'
      BY <2>6, TornRead
    <3> QED
      BY <3>1, <3>2, <3>3, <3>4 DEF Progress
  <2>7. CASE WorkerLoopEnd
    <3>1. /\ map' = map /\ handled' = handled /\ raced' = raced /\ worker.pc = "loop"
          /\ worker'.pc = "remove" /\ worker'.at = worker.at
          /\ worker.i >= Len(map[WorkerKey])
      BY <2>1, <2>7 DEF WorkerLoopEnd, loop_ends, WorkerState
    <3>2. WorkerKey' = WorkerKey
      BY <3>1 DEF WorkerKey
    <3>3. \A j \in DOMAIN map[WorkerKey] : j <= worker.i
      BY <2>1, <3>1 DEF WorkerState
    <3>4. Ids(map[WorkerKey]) \subseteq handled \cup raced
      BY <3>1, <3>3 DEF Progress, Ids
    <3> QED
      BY <3>1, <3>2, <3>4 DEF Progress
  <2>8. CASE WorkerRemove
    BY <2>8 DEF WorkerRemove, Progress, IdleWorker
  <2>9. CASE UNCHANGED <<worker, map, handled, raced>>
    <3>1. WorkerKey' = WorkerKey /\ Ids(map'[WorkerKey]) = Ids(map[WorkerKey])
      BY <2>9 DEF WorkerKey
    <3> QED
      BY <2>9, <3>1 DEF Progress
  <2> QED
    BY <2>2, <2>3, <2>4, <2>5, <2>6, <2>7, <2>8, <2>9 DEF Next, Scheduler, Worker, vars,
       AmfSend, MainStart, Listen, Tick, SchedulerSnapshot, SchedulerDequeue, Log
<1> QED
  BY <1>1, <1>2, TypeCorrect, PTL DEF Spec

\* main takes the AMF's first message.
FirstInLine == ~started => Len(tcp) = sent /\ \A j \in DOMAIN tcp : tcp[j].id = j

LEMMA FirstInvariant == Spec => []FirstInLine
<1>1. Init => FirstInLine
  BY DEF Init, FirstInLine
<1>2. TypeOK /\ FirstInLine /\ [Next]_vars => FirstInLine'
  <2> SUFFICES ASSUME TypeOK, FirstInLine, [Next]_vars PROVE FirstInLine'
    OBVIOUS
  <2>1. CASE AmfSend
    <3>1. PICK ue \in UE : tcp' = Append(tcp, [id |-> sent + 1, ue |-> ue])
      BY <2>1 DEF AmfSend, UE
    <3> DEFINE p == [id |-> sent + 1, ue |-> ue]
    <3>2. p.id = sent + 1 /\ sent' = sent + 1 /\ started' = started /\ tcp \in Seq(Page)
      BY <2>1 DEF AmfSend, TypeOK
    <3> HIDE DEF p
    <3>3. Len(tcp') = Len(tcp) + 1
      BY <3>1, <3>2 DEF p
    <3>4. \A j \in DOMAIN tcp' :
            \/ j \in DOMAIN tcp /\ tcp'[j] = tcp[j]
            \/ j = Len(tcp) + 1 /\ tcp'[j] = p
      BY <3>1, <3>2 DEF p
    <3> QED
      BY <3>2, <3>3, <3>4 DEF FirstInLine
  <2>2. CASE MainStart
    BY <2>2 DEF MainStart, FirstInLine
  <2>3. CASE started /\ started' = started
    BY <2>3 DEF FirstInLine
  <2>4. CASE UNCHANGED <<started, tcp, sent>>
    BY <2>4 DEF FirstInLine
  <2> QED
    BY <2>1, <2>2, <2>3, <2>4 DEF Next, Scheduler, Worker, vars, Listen, Tick,
       SchedulerSnapshot, SchedulerDequeue, SchedulerInsert, WorkerSnapshot, WorkerGet,
       WorkerSend, WorkerReadsTorn, WorkerLoopEnd, WorkerRemove, Log
<1> QED
  BY <1>1, <1>2, TypeCorrect, PTL DEF Spec

(***************************************************************************)
(* For whatever lags, a page is lost between the socket and the radio only *)
(* if it was itself filed in a vector the worker was in, or passed over in *)
(* one that grew: what else is in an entry has been handled when the       *)
(* worker erases it (gnb/caculate.c:116-129).                              *)
(***************************************************************************)
THEOREM LosesOnlyRaced == Spec => []LostOnlyIfRaced
<1>1. Init => LostOnlyIfRaced
  BY DEF Init, LostOnlyIfRaced
<1>2. /\ TypeOK /\ Progress /\ FirstInLine /\ LostOnlyIfRaced
      /\ [Next]_vars
      => LostOnlyIfRaced'
  <2> SUFFICES ASSUME TypeOK, Progress, FirstInLine, LostOnlyIfRaced, [Next]_vars
               PROVE  LostOnlyIfRaced'
    OBVIOUS
  <2> USE DEF Known
  <2>1. /\ tcp \in Seq(Page) /\ queue \in Seq(Page) /\ sent \in Nat
        /\ sched \in SchedulerState /\ WorkerKey \in Keys
        /\ \A k \in Keys : map[k] \in Seq(Page)
    BY PagingAssumption, WorkerKeyFacts DEF TypeOK
  <2>2. map' = map => InMap' = InMap
    BY DEF InMap
  <2>3. sched' = sched => InHand' = InHand
    BY DEF InHand
  <2>4. SUFFICES 1 .. sent' \subseteq Known' \cup raced'
    BY DEF LostOnlyIfRaced
  <2>5. 1 .. sent \subseteq Known \cup raced
    BY DEF LostOnlyIfRaced
  <2>6. CASE AmfSend
    <3>1. PICK ue \in UE : tcp' = Append(tcp, [id |-> sent + 1, ue |-> ue])
      BY <2>6 DEF AmfSend, UE
    <3> DEFINE p == [id |-> sent + 1, ue |-> ue]
    <3>2. p \in Page /\ p.id = sent + 1
      BY <2>6, PagingAssumption DEF AmfSend, Page, TypeOK
    <3> HIDE DEF p
    <3>3. Ids(tcp') = Ids(tcp) \cup {sent + 1}
      BY <2>1, <3>1, <3>2, IdsAppend DEF p
    <3>4. 1 .. sent' = 1 .. sent \cup {sent + 1}
      BY <2>1, <2>6 DEF AmfSend
    <3> QED
      BY <2>2, <2>3, <2>5, <2>6, <3>3, <3>4 DEF AmfSend
  <2>7. CASE MainStart
    <3>1. Ids(tcp) = Ids(tcp') \cup {Head(tcp).id}
      BY <2>1, <2>7, IdsTail DEF MainStart
    <3>2. Head(tcp).id = 1
      BY <2>1, <2>7 DEF MainStart, FirstInLine
    <3> QED
      BY <2>2, <2>3, <2>5, <2>7, <3>1, <3>2 DEF MainStart
  <2>8. CASE Listen
    <3>1. Head(tcp) \in Page /\ Ids(tcp) = Ids(tcp') \cup {Head(tcp).id}
      BY <2>1, <2>8, IdsTail DEF Listen
    <3>2. Ids(queue) \cup dropped \cup {Head(tcp).id} \subseteq Ids(queue') \cup dropped'
      BY <2>1, <2>8, <3>1, IdsAppend DEF Listen
    <3> QED
      BY <2>2, <2>3, <2>5, <2>8, <3>1, <3>2 DEF Listen
  <2>9. CASE SchedulerSnapshot
    <3>1. InHand = {}
      BY <2>9 DEF SchedulerSnapshot, InHand
    <3> QED
      BY <2>2, <2>5, <2>9, <3>1 DEF SchedulerSnapshot
  <2>10. CASE SchedulerDequeue
    <3>1. InHand = {}
      BY <2>10 DEF SchedulerDequeue, InHand
    <3>2. CASE queue = << >>
      BY <2>2, <2>5, <2>10, <3>1, <3>2 DEF SchedulerDequeue
    <3>3. CASE queue # << >>
      <4>1. Ids(queue) = Ids(queue') \cup {Head(queue).id}
        BY <2>1, <2>10, <3>3, IdsTail DEF SchedulerDequeue
      <4>2. sched'.pc = "insert" /\ sched'.page = Head(queue)
        BY <2>1, <2>10, <3>3 DEF SchedulerDequeue, SchedulerState
      <4>3. InHand' = {Head(queue).id}
        BY <4>2 DEF InHand
      <4> QED
        BY <2>2, <2>5, <2>10, <3>1, <4>1, <4>3 DEF SchedulerDequeue
    <3> QED
      BY <3>2, <3>3
  <2>11. CASE SchedulerInsert
    <3>1. sched.page \in Page /\ InHand = {sched.page.id} /\ FiledKey \in Keys
      BY <2>11, FiledKeyFacts DEF SchedulerInsert, TypeOK, InHand
    <3>2. map'[FiledKey] = Append(map[FiledKey], sched.page)
      BY <2>11, <3>1, InsertEffect
    <3>3. Ids(map'[FiledKey]) = Ids(map[FiledKey]) \cup {sched.page.id}
      BY <2>1, <3>1, <3>2, IdsAppend
    <3>4. \A k \in Keys : Ids(map[k]) \subseteq Ids(map'[k])
      <4> SUFFICES ASSUME NEW k \in Keys PROVE Ids(map[k]) \subseteq Ids(map'[k])
        OBVIOUS
      <4>1. k # FiledKey => map'[k] = map[k]
        BY <2>11, InsertEffect
      <4> QED
        BY <3>3, <4>1
    <3>5. InMap \cup InHand \subseteq InMap'
      BY <3>1, <3>3, <3>4 DEF InMap
    <3> QED
      BY <2>5, <2>11, <3>5 DEF SchedulerInsert
  <2>12. CASE WorkerRemove
    <3>1. Ids(map[WorkerKey]) \subseteq handled \cup raced
      BY <2>12 DEF WorkerRemove, Progress
    <3>2. \A k \in Keys : Ids(map[k]) \subseteq Ids(map'[k]) \cup handled \cup raced
      <4> SUFFICES ASSUME NEW k \in Keys
                   PROVE  Ids(map[k]) \subseteq Ids(map'[k]) \cup handled \cup raced
        OBVIOUS
      <4>1. k # WorkerKey => map'[k] = map[k]
        BY <2>12, RemoveEffect
      <4> QED
        BY <3>1, <4>1
    <3>3. InMap \subseteq InMap' \cup handled \cup raced
      BY <3>2 DEF InMap
    <3> QED
      BY <2>3, <2>5, <2>12, <3>3 DEF WorkerRemove
  <2>13. CASE /\ UNCHANGED <<sent, tcp, started, queue, sched, map, dropped>>
              /\ handled \subseteq handled' /\ raced \subseteq raced'
    BY <2>2, <2>3, <2>5, <2>13
  <2>14. Tick \/ WorkerSnapshot \/ WorkerGet \/ WorkerSend \/ WorkerLoopEnd \/ Log
           \/ UNCHANGED vars
         => /\ UNCHANGED <<sent, tcp, started, queue, sched, map, dropped>>
            /\ handled \subseteq handled' /\ raced \subseteq raced'
    BY DEF Tick, WorkerSnapshot, WorkerGet, WorkerSend, WorkerLoopEnd, Log, vars
  <2>15. CASE WorkerReadsTorn
    BY <2>13, <2>15, TornRead DEF WorkerReadsTorn
  <2> QED
    BY <2>6, <2>7, <2>8, <2>9, <2>10, <2>11, <2>12, <2>13, <2>14, <2>15
       DEF Next, Scheduler, Worker
<1> QED
  BY <1>1, <1>2, TypeCorrect, ProgressInvariant, FirstInvariant, PTL DEF Spec

(***************************************************************************)
(* For whatever lags, the counts that log_thread prints add up to the      *)
(* pages handled and the torn reads (gnb/caculate.c:125 and 137).          *)
(***************************************************************************)
THEOREM MiscountsOnlyTorn == Spec => []MiscountedOnlyIfTorn
<1>1. Init => MiscountedOnlyIfTorn /\ IsFiniteSet(handled)
  BY FS_EmptySet DEF Init, MiscountedOnlyIfTorn
<1>2. /\ TypeOK /\ OnePlace /\ HandledOnce
      /\ MiscountedOnlyIfTorn /\ IsFiniteSet(handled) /\ [Next]_vars
      => MiscountedOnlyIfTorn' /\ IsFiniteSet(handled)'
  <2> SUFFICES ASSUME TypeOK, OnePlace, HandledOnce,
                      MiscountedOnlyIfTorn, IsFiniteSet(handled), [Next]_vars
               PROVE  MiscountedOnlyIfTorn' /\ IsFiniteSet(handled)'
    OBVIOUS
  <2>1. /\ rrc_sent \in Nat /\ logged \in Nat /\ torn \in Nat
        /\ Cardinality(handled) \in Nat
    BY FS_CardinalityType DEF TypeOK
  <2>2. CASE WorkerSend
    <3> DEFINE id == map[WorkerKey][worker.i + 1].id
    <3>1. id \notin handled /\ handled' = handled \cup {id}
      BY <2>2, NextRound
    <3> HIDE DEF id
    <3>2. /\ IsFiniteSet(handled')
          /\ Cardinality(handled') = Cardinality(handled) + 1
      BY <3>1, FS_AddElement
    <3>3. rrc_sent' = rrc_sent + 1 /\ logged' = logged /\ torn' = torn
      BY <2>2 DEF WorkerSend
    <3>4. rrc_sent' + logged' = Cardinality(handled') + torn'
      <4>1. rrc_sent + logged = Cardinality(handled) + torn
        BY DEF MiscountedOnlyIfTorn
      <4>2. Cardinality(handled') = Cardinality(handled) + 1
        BY <3>2
      <4> DEFINE c == Cardinality(handled)
                 d == Cardinality(handled')
      <4>3. c \in Nat /\ rrc_sent + logged = c + torn /\ d = c + 1
        BY <2>1, <4>1, <4>2
      <4> HIDE DEF c, d
      <4>4. rrc_sent' + logged' = d + torn'
        BY <2>1, <3>3, <4>3
      <4> QED
        BY <4>4 DEF d
    <3> QED
      BY <3>2, <3>4 DEF MiscountedOnlyIfTorn
  <2>3. CASE Log
    BY <2>1, <2>3 DEF Log, after_exchange, MiscountedOnlyIfTorn
  <2>4. CASE WorkerReadsTorn
    <3>1. rrc_sent' = rrc_sent + 1 /\ torn' = torn + 1 /\ UNCHANGED <<logged, handled>>
      BY <2>4 DEF WorkerReadsTorn
    <3> QED
      BY <2>1, <3>1 DEF MiscountedOnlyIfTorn
  <2>5. CASE UNCHANGED <<rrc_sent, logged, handled, torn>>
    BY <2>5 DEF MiscountedOnlyIfTorn
  <2> QED
    BY <2>2, <2>3, <2>4, <2>5 DEF Next, Scheduler, Worker, vars, AmfSend, MainStart,
       Listen, Tick, SchedulerSnapshot, SchedulerDequeue, SchedulerInsert,
       WorkerSnapshot, WorkerGet, WorkerLoopEnd, WorkerRemove
<1> QED
  BY <1>1, <1>2, TypeCorrect, OnePlaceInvariant, HandledInvariant, PTL DEF Spec

-----------------------------------------------------------------------------
(* What follows for threads in time                                        *)

\* A scheduler that files within the subframe whose clock it read never pushes to the
\* vector of a worker that is less than a period, less two cycles, late.
COROLLARY ThreadsApart ==
  ASSUME Timely
  PROVE  Spec => []~Shared
<1>1. TypeOK /\ LagBounded /\ SharedOnlyIfLate => ~Shared
  <2> SUFFICES ASSUME TypeOK, LagBounded, SharedOnlyIfLate, Shared PROVE FALSE
    OBVIOUS
  <2>1. /\ clk \in Clock /\ sched.at \in Clock /\ worker.at \in Clock
        /\ WorkerLag \in Nat /\ 2 * DRX * SubFrames \in Nat /\ Hyper \in Nat
    BY PagingAssumption, Constants, HyperType DEF TypeOK, SchedulerState, WorkerState
  <2>2. Lag(clk, sched.at) <= 0 /\ Lag(clk, worker.at) <= WorkerLag
    BY DEF LagBounded, Shared, Timely
  <2>3. Lag(clk, sched.at) \in Nat /\ Lag(clk, worker.at) \in Nat
    BY <2>1, LagType
  <2>4. sched.at = clk
    <3>1. Slot(clk) \in 0 .. Hyper - 1 /\ Slot(sched.at) \in 0 .. Hyper - 1
      BY <2>1, SlotType
    <3>2. Slot(sched.at) = Slot(clk)
      BY <2>1, <2>2, <2>3, <3>1 DEF Lag
    <3> QED
      BY <2>1, <3>2, SlotInjective
  <2>5. Lag(clk, worker.at) + 2 * DRX * SubFrames > Hyper
    BY <2>4 DEF SharedOnlyIfLate
  <2>6. WorkerLag + 2 * DRX * SubFrames <= Hyper
    BY DEF Timely
  <2> DEFINE c == 2 * DRX * SubFrames
  <2> HIDE DEF c
  <2> QED
    BY <2>1, <2>2, <2>3, <2>5, <2>6 DEF c
<1> QED
  BY <1>1, TypeCorrect, LagInvariant, MeetOnlyIfLate, PTL

LEMMA NeverRaced ==
  ASSUME Timely
  PROVE  Spec => [](raced = {})
<1>1. Init => raced = {}
  BY DEF Init
<1>2. ~Shared /\ raced = {} /\ [Next]_vars => (raced = {})'
  BY DEF Next, Scheduler, Worker, vars, AmfSend, MainStart, Listen, Tick,
         SchedulerSnapshot, SchedulerDequeue, SchedulerInsert, WorkerSnapshot, WorkerGet,
         WorkerSend, WorkerReadsTorn, WorkerLoopEnd, WorkerRemove, Log
<1> QED
  BY <1>1, <1>2, ThreadsApart, PTL DEF Spec

\* For threads in time, no page goes out twice, and none is lost.
COROLLARY InTimeNothingRaced ==
  ASSUME Timely
  PROVE  Spec => [](SentAtMostOnce /\ NothingVanishes)
<1>1. raced = {} /\ SentTwiceOnlyIfRaced => SentAtMostOnce
  BY DEF SentTwiceOnlyIfRaced, SentAtMostOnce
<1>2. raced = {} /\ LostOnlyIfRaced => NothingVanishes
  BY DEF LostOnlyIfRaced, NothingVanishes
<1> QED
  BY <1>1, <1>2, NeverRaced, SendsTwiceOnlyRaced, LosesOnlyRaced, PTL
=============================================================================
