------------------------------ MODULE GnbPaging ------------------------------
(***************************************************************************)
(* The paging pipeline of the exercise 5 gNB (gnb/gnb.c, gnb/caculate.c):  *)
(*                                                                         *)
(*   AMF --tcp--> listening_amf --queue--> scheduler --map--> worker --> UE *)
(*                                                                         *)
(* Each thread is a process that runs its loop for ever; what it does      *)
(* between two accesses to shared state is one action, and so is a whole   *)
(* critical section.  Two gaps matter.  The scheduler and the worker read  *)
(* the clock under sfn_lock and use the value after the lock is released;  *)
(* the worker walks the vector that map_get returned without map_cs, while *)
(* the scheduler may push to it, and erases the entry afterwards.  What a  *)
(* worker reads from a vector that is being pushed to is a data race: here *)
(* WorkerReadsTorn, in detail in module PagingMap.  The pages that such a  *)
(* race touches are in the history `raced`, so that what holds of the      *)
(* others can be said whatever the threads' delays.                        *)
(*                                                                         *)
(* Every NgAP message carries a serial number, a history value the code    *)
(* does not have, so that pages can be told apart.                         *)
(***************************************************************************)
EXTENDS PagingOccasion, Sequences, FiniteSets

CONSTANTS
  UE_ID,         \* the UE that is connected, the only one an RRC is sent to
  OtherUE,       \* the ids the AMF draws at random
  MAX_QUEUE,     \* cells of the NgAP ring
  AmfPeriod,     \* the AMF pages UE_ID once in so many messages: 40000
  FirstCapacity, \* items a vector has room for at first: 4
  NoPage,        \* the scheduler holds no message
  MaxNgap,       \* bound: messages the AMF sends
  SchedulerLag,  \* bound: subframes that may pass while the scheduler is
  WorkerLag      \*   between its clock reading and the end of its loop body;
                 \*   the same for the worker

UE == {UE_ID} \cup OtherUE
Page == [id : 1 .. MaxNgap, ue : UE]
Keys == 0 .. (SfnPeriod + DRX) * SubFrames - 1

\* The quotient by N is converted from double to uint8_t: it must fit.
ASSUME PagingAssumption ==
  /\ UE \subseteq Nat
  /\ \A ue \in UE : ue \div N0 <= 255
  /\ NoPage \notin Page
  /\ MAX_QUEUE \in Nat \ {0}
  /\ FirstCapacity \in Nat \ {0}
  /\ AmfPeriod \in Nat \ {0}
  /\ MaxNgap \in Nat
  /\ SchedulerLag \in Nat
  /\ WorkerLag \in Nat

VARIABLES
  sent,      \* how many messages the AMF has sent
  tcp,       \* messages in the connection to the gNB
  started,   \* has main taken its first message and started the threads
  clk,       \* the gNB clock
  queue,     \* messages waiting in the ring, oldest first: the bounded FIFO
             \*   that module NgapQueue implements
  sched,     \* the scheduler: its next step, clock reading and message
  map,       \* key -> vector of pages; << >> stands for no entry
  worker,    \* the worker: its next step, clock reading and loop index
  radio,     \* serial numbers of the RRC messages sent, in order
  rrc_sent,  \* items handled by the worker since log_thread reset it
  logged,    \* history: the sum of the counts log_thread has printed
  handled,   \* history: pages the worker's loop has handled
  dropped,   \* history: pages that found the ring full
  raced,     \* history: pages filed in a vector that the worker was walking,
             \*   passed over in it while it grew, or sent from freed memory
  torn       \* history: how often the worker handled what was no page

histories == <<handled, dropped, raced, torn>>

vars == <<sent, tcp, started, clk, queue, sched, map, worker,
          radio, rrc_sent, logged, handled, dropped, raced, torn>>

\* Locals are dead between two runs of a loop body: they get a fixed value.
IdleScheduler == [pc |-> "snapshot", at |-> InitClock, page |-> NoPage]
IdleWorker    == [pc |-> "snapshot", at |-> InitClock, i |-> 0]

Init ==
  /\ sent = 0
  /\ tcp = << >>
  /\ started = FALSE
  /\ clk = InitClock
  /\ queue = << >>
  /\ sched = IdleScheduler
  /\ map = [k \in Keys |-> << >>]
  /\ worker = IdleWorker
  /\ radio = << >>
  /\ rrc_sent = 0
  /\ logged = 0
  /\ handled = {}
  /\ dropped = {}
  /\ raced = {}
  /\ torn = 0

-----------------------------------------------------------------------------
(* The AMF: message 0 of every AmfPeriod pages UE_ID, the others a UE      *)
(* drawn at random.                                                        *)
AmfSend ==
  /\ sent < MaxNgap
  /\ \E ue \in IF sent % AmfPeriod = 0 THEN {UE_ID} ELSE OtherUE :
       tcp' = Append(tcp, [id |-> sent + 1, ue |-> ue])
  /\ sent' = sent + 1
  /\ UNCHANGED <<started, clk, queue, sched, map, worker,
                 radio, rrc_sent, logged, histories>>

(* main: receives one message itself, copies it into a local it never      *)
(* uses again, and starts the threads.                                     *)
MainStart ==
  /\ ~started
  /\ tcp # << >>
  /\ tcp' = Tail(tcp)
  /\ started' = TRUE
  /\ UNCHANGED <<sent, clk, queue, sched, map, worker,
                 radio, rrc_sent, logged, histories>>

(* listening_amf: one receive_ngap and the enqueue of what it received.    *)
Listen ==
  /\ started
  /\ tcp # << >>
  /\ tcp' = Tail(tcp)
  /\ \/ /\ Len(queue) < MAX_QUEUE - 1
        /\ queue' = Append(queue, Head(tcp))
        /\ UNCHANGED dropped
     \/ /\ Len(queue) >= MAX_QUEUE - 1
        /\ dropped' = dropped \cup {Head(tcp).id}
        /\ UNCHANGED queue
  /\ UNCHANGED <<sent, started, clk, sched, map, worker,
                 radio, rrc_sent, logged, handled, raced, torn>>

(* clock_thread.  The guards are the model's bounds on how far a thread    *)
(* that has read the clock may fall behind it.                             *)
Tick ==
  /\ started
  /\ sched.pc # "snapshot" => Lag(clk, sched.at) < SchedulerLag
  /\ worker.pc # "snapshot" => Lag(clk, worker.at) < WorkerLag
  /\ clk' = tick(clk)
  /\ UNCHANGED <<sent, tcp, started, queue, sched, map, worker,
                 radio, rrc_sent, logged, histories>>

-----------------------------------------------------------------------------
(* scheduler *)

SchedulerSnapshot ==
  /\ started
  /\ sched.pc = "snapshot"
  /\ sched' = [sched EXCEPT !.pc = "dequeue", !.at = clk]
  /\ UNCHANGED <<sent, tcp, started, clk, queue, map, worker,
                 radio, rrc_sent, logged, histories>>

SchedulerDequeue ==
  /\ sched.pc = "dequeue"
  /\ \/ /\ queue = << >>
        /\ sched' = IdleScheduler
        /\ UNCHANGED queue
     \/ /\ queue # << >>
        /\ queue' = Tail(queue)
        /\ sched' = [sched EXCEPT !.pc = "insert", !.page = Head(queue)]
  /\ UNCHANGED <<sent, tcp, started, clk, map, worker,
                 radio, rrc_sent, logged, histories>>

\* The key the scheduler files its page under, from the clock it read before.
FiledKey ==
  LET p == calculate_rrc_parameter(sched.page.ue, sched.at.sfn, sched.at.sf)
  IN  Key(p.PF, p.PO)

\* Mutant: the worker looks at the frame alone.
WorkerKey_of_frame == Key(worker.at.sfn, 0)

\* The key the worker looks under, from the clock it read before.
WorkerKey == Key(worker.at.sfn, worker.at.sf)

\* The scheduler is pushing to the vector that the worker walks, or is about to
\* free: map_get gave out a pointer that map_cs does not protect.
Shared ==
  /\ sched.pc = "insert"
  /\ worker.pc \in {"loop", "remove"}
  /\ FiledKey = WorkerKey

\* map_insert: makes the entry if there is none and pushes at the vector's end.
SchedulerInsert ==
  /\ sched.pc = "insert"
  /\ map' = [map EXCEPT ![FiledKey] = Append(@, sched.page)]
  /\ sched' = IdleScheduler
  /\ raced' = raced \cup IF Shared THEN {sched.page.id} ELSE {}
  /\ UNCHANGED <<sent, tcp, started, clk, queue, worker,
                 radio, rrc_sent, logged, handled, dropped, torn>>

-----------------------------------------------------------------------------
(* worker *)

WorkerSnapshot ==
  /\ started
  /\ worker.pc = "snapshot"
  /\ worker' = [worker EXCEPT !.pc = "get", !.at = clk]
  /\ UNCHANGED <<sent, tcp, started, clk, queue, sched, map,
                 radio, rrc_sent, logged, histories>>

\* map_get: NULL when there is no entry, else a pointer to its vector.
WorkerGet ==
  /\ worker.pc = "get"
  /\ worker' = IF map[WorkerKey] = << >>
               THEN IdleWorker ELSE [worker EXCEPT !.pc = "loop"]
  /\ UNCHANGED <<sent, tcp, started, clk, queue, sched, map,
                 radio, rrc_sent, logged, histories>>

\* One round of the loop: `i < vec->size` is read without map_cs.
WorkerSend ==
  /\ worker.pc = "loop"
  /\ worker.i < Len(map[WorkerKey])
  /\ LET page == map[WorkerKey][worker.i + 1] IN
       /\ radio' = IF page.ue = UE_ID THEN Append(radio, page.id) ELSE radio
       /\ handled' = handled \cup {page.id}
  /\ rrc_sent' = rrc_sent + 1
  /\ worker' = [worker EXCEPT !.i = @ + 1]
  /\ UNCHANGED <<sent, tcp, started, clk, queue, sched, map, logged,
                 dropped, raced, torn>>

\* Is a vector of n items at its capacity?  It doubles whenever it is.
Full(n) == \E e \in 0 .. 12 : n = FirstCapacity * 2 ^ e

\* While the scheduler pushes to the vector, the worker may find the size already
\* incremented and the cell still zero, which names no UE; and if the vector has
\* to grow, the cells it has been reading are freed, and it may read whatever is
\* put there next, any message perhaps.
WorkerReadsTorn ==
  /\ worker.pc = "loop"
  /\ Shared
  /\ \/ /\ worker.i = Len(map[WorkerKey])
        /\ UNCHANGED <<radio, raced>>
     \/ /\ worker.i < Len(map[WorkerKey])
        /\ Full(Len(map[WorkerKey]))
        /\ LET passed == map[WorkerKey][worker.i + 1].id IN
           \/ UNCHANGED radio /\ raced' = raced \cup {passed}
           \/ \E id \in 1 .. sent :
                radio' = Append(radio, id) /\ raced' = raced \cup {passed, id}
  /\ rrc_sent' = rrc_sent + 1
  /\ torn' = torn + 1
  /\ worker' = [worker EXCEPT !.i = @ + 1]
  /\ UNCHANGED <<sent, tcp, started, clk, queue, sched, map,
                 logged, handled, dropped>>

\* Mutant: the last page of the vector is left out.
loop_ends_early == worker.i + 1 >= Len(map[WorkerKey])

loop_ends == worker.i >= Len(map[WorkerKey])

WorkerLoopEnd ==
  /\ worker.pc = "loop"
  /\ loop_ends
  /\ worker' = [worker EXCEPT !.pc = "remove"]
  /\ UNCHANGED <<sent, tcp, started, clk, queue, sched, map,
                 radio, rrc_sent, logged, histories>>

\* Mutant: the worker keeps the entry it has sent.
without_entry_kept(m, k) == m

without_entry(m, k) == [m EXCEPT ![k] = << >>]

\* map_remove: the entry goes with whatever its vector holds by now.
WorkerRemove ==
  /\ worker.pc = "remove"
  /\ map' = without_entry(map, WorkerKey)
  /\ worker' = IdleWorker
  /\ UNCHANGED <<sent, tcp, started, clk, queue, sched,
                 radio, rrc_sent, logged, histories>>

\* Mutant: the count is read, not exchanged.
after_exchange_kept(count) == count

after_exchange(count) == 0

(* log_thread: reads and resets the counter in one interlocked exchange.   *)
Log ==
  /\ started
  /\ rrc_sent > 0
  /\ logged' = logged + rrc_sent
  /\ rrc_sent' = after_exchange(rrc_sent)
  /\ UNCHANGED <<sent, tcp, started, clk, queue, sched, map, worker,
                 radio, histories>>

-----------------------------------------------------------------------------
Scheduler == SchedulerSnapshot \/ SchedulerDequeue \/ SchedulerInsert
Worker == \/ WorkerSnapshot \/ WorkerGet \/ WorkerSend \/ WorkerReadsTorn
          \/ WorkerLoopEnd \/ WorkerRemove

Next ==
  \/ AmfSend \/ MainStart \/ Listen \/ Tick
  \/ Scheduler \/ Worker \/ Log

Spec == Init /\ [][Next]_vars

(***************************************************************************)
(* Every thread spins (only listening_amf blocks, in recv), so each is     *)
(* weakly fair.  A subframe lasts a millisecond and a round of the worker  *)
(* microseconds: it may be off the processor in one subframe, but not in   *)
(* the same one of every period: strong fairness for each paging occasion. *)
(* Time passes however often a thread is in the middle of its loop: the    *)
(* clock is strongly fair, since its guards are only bounds of the model.  *)
(***************************************************************************)
Occasions == {c \in Clock : \E ue \in UE : check_correct_rrc_time(ue, c.sfn, c.sf)}

Fairness ==
  /\ WF_vars(MainStart) /\ WF_vars(Listen) /\ SF_vars(Tick)
  /\ WF_vars(Scheduler) /\ WF_vars(Worker)
  /\ \A c \in Occasions : SF_vars(WorkerSnapshot /\ clk = c)

FairSpec == Spec /\ Fairness

-----------------------------------------------------------------------------
(* The scheduler files a page within the subframe whose clock it read, and *)
(* the worker ends a loop body before the occasion can come round again.   *)
Timely ==
  /\ SchedulerLag = 0
  /\ WorkerLag + 2 * DRX * SubFrames <= Hyper

SchedulerState == [pc : {"snapshot", "dequeue", "insert"}, at : Clock,
                   page : Page \cup {NoPage}]
WorkerState == [pc : {"snapshot", "get", "loop", "remove"}, at : Clock, i : Nat]

TypeOK ==
  /\ sent \in 0 .. MaxNgap
  /\ tcp \in Seq(Page)
  /\ started \in BOOLEAN
  /\ clk \in Clock
  /\ queue \in Seq(Page)
  /\ sched \in SchedulerState
  /\ sched.pc = "insert" => sched.page \in Page
  /\ map \in [Keys -> Seq(Page)]
  /\ worker \in WorkerState
  /\ radio \in Seq(1 .. MaxNgap)
  /\ rrc_sent \in Nat
  /\ logged \in Nat
  /\ handled \subseteq 1 .. MaxNgap
  /\ dropped \subseteq 1 .. MaxNgap
  /\ raced \subseteq 1 .. MaxNgap
  /\ torn \in Nat

Ids(pages) == {pages[j].id : j \in DOMAIN pages}

InHand == IF sched.pc = "insert" THEN {sched.page.id} ELSE {}
InMap  == UNION {Ids(map[k]) : k \in Keys}

\* Every page in the map is filed under a slot at which the UE it is for would
\* take it as on time, whatever the clock said when the scheduler read it.  The
\* gNB and the UE compute the occasion apart, one in bytes, one in macros.
FiledAtOccasion ==
  \A k \in Keys : \A j \in DOMAIN map[k] :
    check_correct_rrc_time(map[k][j].ue, k \div SubFrames, k % SubFrames)

\* The slot a page is filed under is still to come at the clock reading it was
\* computed from, and is the UE's next occasion or the one a cycle later: the later
\* one exactly when the paging frame is still ahead in the current cycle
\* (gnb/caculate.c:188-198 looks for the frame itself, not for those before it).
NextOrOneCycleLate ==
  sched.pc = "insert" =>
    LET ue == sched.page.ue IN
    FiledKey = NextAwake(ue, sched.at)
                 + IF sched.at.sfn % DRX < UePF(ue) THEN DRX * SubFrames ELSE 0

\* In time, no page goes out twice, though the worker finds the same key again and
\* again within a subframe and new pages join the vector it is walking.
SentAtMostOnce == \A i, j \in DOMAIN radio : radio[i] = radio[j] => i = j

\* However late the threads are, a page goes out twice only if a race between them
\* touched that very page: the worker read it from memory the scheduler had freed.
SentTwiceOnlyIfRaced ==
  \A i, j \in DOMAIN radio : radio[i] = radio[j] => i = j \/ radio[i] \in raced

Known ==
  Ids(tcp) \cup Ids(queue) \cup InHand \cup InMap \cup handled \cup dropped
    \cup (IF started THEN {1} ELSE {})

\* In time, every message of the AMF is somewhere: on its way, filed, sent, refused
\* by a full ring, or the one that main keeps.  The worker erases an entry only
\* after all that is in it was sent ("delete the entry after all was sent",
\* gnb/caculate.c:127).
NothingVanishes == 1 .. sent \subseteq Known

\* However late the threads are, a page is lost only if a race between them touched
\* that very page: it was filed in the vector the worker was walking or about to
\* free, or the worker passed over it while that vector grew.
LostOnlyIfRaced == 1 .. sent \subseteq Known \cup raced

\* Every page is filed under a slot that the clock will show
\* ("scheduled in the following PF", gnb/caculate.c:197).
FiledSlotExists == \A k \in Keys : map[k] # << >> => k < Hyper

\* However late the threads are, the two meet in one vector, which no lock protects
\* from either once map_get gave out a pointer to it, only if the clock has
\* gone on since the scheduler read it, or the worker has been walking for so long
\* that the occasion is about to come round again: within a subframe the scheduler
\* files for a later slot than any the worker can be at.
SharedOnlyIfLate ==
  Shared => \/ sched.at # clk
            \/ Lag(clk, worker.at) + 2 * DRX * SubFrames > Hyper

\* What log_thread prints and resets adds up to the pages the worker handled and the
\* times it took for a page what was none, however late the threads are and however
\* the exchange interleaves with the worker's increments.
MiscountedOnlyIfTorn == rrc_sent + logged = Cardinality(handled) + torn

\* Every message that reaches the gNB is settled in the end: its page is handled,
\* unless a full ring refused it, main kept it, or it was filed under a slot that
\* the clock never shows.  Nothing is left waiting in a queue, and no page whose
\* slot exists is passed over for ever.
EachPageSettles ==
  \A id \in 1 .. MaxNgap :
    id \in Ids(tcp) ~> \/ id \in handled \cup dropped \cup {1}
                      \/ \E k \in Keys : k >= Hyper /\ id \in Ids(map[k])
=============================================================================
