# Formal models of the paging exercises

The repository holds three generations of one exercise: a small radio access
network in C (Windows threads and sockets) in which an AMF asks a gNB to page
mobile phones (UEs), and the gNB keeps the phones' frame numbers in step.  This
directory models the programs in TLA+, checks the models with TLC and proves with
TLAPS, for all values of the constants, every safety property that the passing runs check.

Short names: **E3**, **E4**, **E5** are the directories `MP1 (Layer3 RRC) - Exc_3
(gnb ue - udp)`, `... -Exc_4 (amf - gnb - ue)`, `... -Exc_5 (amf - gnb - ue)`.

## 1. The system

| Part | State | Operations | Talks to |
|---|---|---|---|
| E5 AMF (`amf/amf.c`) | loop index | sends NgAP messages without pause: one in 40000 for UE 300, the others for a random UE 1..120 | gNB, TCP |
| E5 gNB `main` (`gnb/gnb.c`) | locals | takes the first message, starts six threads | AMF |
| E5 gNB `clock_thread` | `clk` under `sfn_lock` | one subframe per ms | all threads, by `clk` |
| E5 gNB `listening_amf` | - | receives, enqueues | queue |
| E5 NgAP queue (`gnb/queue.c`) | ring, `front`, `rear` under `queue_lock` | `enqueue` (drops when full), `dequeue` | listener, scheduler |
| E5 gNB `scheduler` | clock reading, message | reads clock, dequeues, computes the occasion, `map_insert` | queue, map |
| E5 paging map (`gnb/hashmap.c`, `gnb/vector.c`) | hash table of growing vectors under `map_cs` | `map_insert`, `map_get`, `map_remove` | scheduler, worker |
| E5 gNB `worker` | clock reading, loop index | looks up the present slot, sends its vector, removes the entry | map, UE |
| E5 gNB `log_thread` | - | prints and resets `rrc_sent` every second | worker |
| E5 gNB `broadcast_mib_thread` | clock reading | sends a MIB when the frame is a multiple of 8 and the subframe is 0 | UE, UDP |
| E5 UE `receive_mib_thread`, `clock_thread` | `clk`, `state`, `just_update_param`, `increased_at_update_param` | take the clock from a MIB; tick, with one extra tick after an update | each other |
| E5 UE `receive_rrc_thread` | - | decides whether an RRC came at the UE's occasion | - |
| E4 gNB (`gnb.c`) | `sp`, `ngap`, `ready`, `cs` | loop: frame, MIB every 80 ms, RRC in each paging frame; thread `listening_amf` | AMF, UE |
| E4 UE (`ue.c`) | `sp`, `state` | loop: frame, blocks for a MIB every 80 ms and for an RRC in each paging frame, on one socket | gNB |
| E4 AMF (`amf.c`) | - | six equal messages, then closes its socket | gNB |
| E3 gNB, UE | `sp` | as E4, without paging | each other |
| NgAP connection (`send_ngap`, `receive_ngap`) | a TCP stream | messages without bounds; neither a short read nor the end of the stream is looked for | AMF, gNB |
| Set-up of all programs (`initConnection`, `udp_tcp_init`, `udp_init`, `tcp_init`) | sockets, peer addresses | bind, listen, accept, connect, hello and reply | each other |

What is hard in it:

* **A lock that covers too little.**  E5's worker and scheduler read the clock
  under `sfn_lock` and use the value after; `map_get` hands out a pointer that
  `map_cs` no longer protects; E4's listener writes the shared message before it
  takes `cs`.
* **Arithmetic done twice.**  The gNB computes a paging occasion in 8 and 16 bit
  integers, the UE in preprocessor macros; frame numbers wrap at 1024, `sp.time`
  at 2^32.
* **Two clocks** without a common time base, corrected by messages that are
  delayed, queued or lost.
* **Messages without a type**: E4's UE takes whatever arrives for what it expects,
  also when a datagram was lost.
* **Messages without bounds**: `recv` returns what has arrived, and 0 when there will
  be no more; only `SOCKET_ERROR` is looked for.
* **Start-up by hand**: three programs find each other with one hello per socket,
  fixed sleeps and receives without a timeout.
* **Windows of one millisecond**: a page is looked for in one subframe of 10240, a
  MIB is sent in one of 80.

What makes the parts correct: a page is filed where its UE wakes up; it is sent
once, and not lost; the queue is a FIFO; the map is memory safe and keeps its
pages in order; the UE's clock stays near the gNB's and is corrected for ever; a
loop of 10 ms shows the same frame on both sides; a UE that has its reply is one that
the gNB can reach.  The list of hazards, each at its
line and with the properties that watch it, is `hazards` in `PROJECT.json`.

## 2. The modules

| Module | Models | Uses |
|---|---|---|
| `FrameClock` | the clock of E5 and its tick | |
| `PagingOccasion` | PF and PO, by the gNB and by the UE, in the widths of C | `FrameClock` |
| `NgapQueue` | the ring of `queue.c` | refines `BoundedFifo` |
| `GnbPaging` | E5's pipeline: AMF, main, listener, clock, scheduler, worker, log | `PagingOccasion`; the queue is the bounded FIFO |
| `PagingMap` | the map and its vectors down to allocations | refines `PageStore` |
| `MibSync` | E5's clocks, MIB broadcaster, socket, the two UE threads | `FrameClock` |
| `PageOnTime` | E5 from the worker's send to the UE's verdict CORRECT or WRONG | composes `MibSync` and `PagingOccasion` |
| `MibLockstep` | E3 | |
| `PagingLockstep` | E4 | refines `MibLockstep` |
| `Handshake` | the set-up of E3, E4 and E5 | |
| `NgapLink` | the AMF's connection, from the set-up to its end, as a stream of bytes | composes `Handshake` with `send_ngap` and `receive_ngap` |
| `*Proofs` | the theorems of a module; `PagingOccasionProofs` has those of `FrameClock` too, `PageOnTimeProofs` those of `MibSync`, `NgapLinkProofs` those of `Handshake` | that module, `TLAPS` |
| `MC*` | constants for TLC | |

### GnbPaging

A thread is a record with a program counter; what it does between two accesses to
shared state is one action.

* `sched.at`, `worker.at` are the clock readings taken under `sfn_lock`
  (`SchedulerSnapshot`, `WorkerSnapshot`); everything after uses them, not `clk`.
* `map[k]` is the vector of key `k`; `<< >>` is "no entry".  `SchedulerInsert` is
  `map_insert` as a whole; `WorkerGet`, `WorkerSend`, `WorkerLoopEnd`,
  `WorkerRemove` are `map_get`, one round of the loop, its end, and `map_remove`.
* The worker walks its vector without a lock.  When the scheduler is inserting into
  that very vector, `WorkerReadsTorn` lets it see a size without its item, or
  memory that was freed: a read that yields nothing or any message.
* Pages carry serial numbers so that they can be told apart; `handled`, `dropped`
  and `logged` are history, and so are `raced`, the pages that a meeting of the two
  threads in one vector (`Shared`) touches, and `torn`, the reads it spoils.  The code
  has none of these.
* `caculate_pf_mod_t` and `increase_sfn` have the names of functions that nobody calls;
  they stand for the live lines that say the same, `caculate.c:175` and `:60`.
* `SchedulerLag` and `WorkerLag` bound how many subframes may pass while a
  thread holds an old clock reading: they are guards of `Tick` and the only
  assumption about speed.  No theorem of section 4 restricts them.  `Timely`, which
  holds in the run `MCGnbPaging_timely` only, says: the scheduler files a page in the subframe
  in which it read the clock, and a round of the worker ends before the paging
  occasion it serves can be filed again, a period less two cycles later.

### PagingMap

`InsertEnter`, `PushGrow`, `PushInstall`, `PushSize`, `PushStore` are the accesses
of `map_insert` and `vector_push_back`; C leaves open which half of
`v->items[v->size++] = item` comes first, so both orders exist.  `live` is the set of
allocated addresses, and addresses are given out again.  As in the code, nothing keeps
the scheduler from pushing to the vector that the worker walks, from whatever step of
either; `CellValues` says what a read may then find: anything in a buffer that was freed
or behind the end of one, zeros in a cell not yet stored.  Three histories say what such a
meeting spoils: `met` (the scheduler has entered the worker's entry since the worker got
it), `had` (how many pages the worker found), and `moved` (the vector grew between the
worker's loading of the buffer's address and its read, or the growth was not yet
installed).  Keys are model values, and pages are numbers in the order of insertion.

`PageStore` is the map as the worker's loop needs it: a slot is opened, read from its
first page to its last, and emptied when all was read.  Its action `Meet` lets a writer
into the open slot; from then on a read may return anything, and pages put there after
the opening may go with the entry, but those that were there are passed first.

### NgapQueue

Each operation is one critical section.  The history `did` is how the last call ended, so
that the refinement of `BoundedFifo` says of a refusal and of an empty ring when they
happen, which they do without a trace in the ring.

### MibSync

`lead` is how far one millisecond timer is ahead of the other since the last
correction; `Jitter` bounds it.  `MibDelay` bounds the age of a MIB when it is
applied.  A MIB that does not fit in the socket is lost.  The condition
`state = ASYNC` of `ue/connect.c:193` is an assignment and is modelled as one; `count`,
which only the branch never taken would look at, is left out.

After its tick the UE's `clock_thread` looks at `just_update_param`, clears it, looks at its
own flag, clears `just_update_param` once more (`ClearAgain`, `ue/connect.c:244`) and only
then waits for `sfn_lock` to tick again (`ExtraTick`, lines 245-251).  Each is a step, with
MIBs applied in between: up to three extra ticks follow a correction.

### PageOnTime

`WorkerGet` and `send_rrc` are the worker's way from its clock reading to `sendto`, for
the slots under which the scheduler files the UE's pages (`FiledSlots`); what is in the
map in between is `GnbPaging`'s subject.  The socket holds the slot of each page
instead of its contents.  `RrcArrives` is the return of `recvfrom`, `receive_rrc` the
clock reading and verdict that follow, and all threads of `MibSync` may run between
the two.  `RrcDelay` bounds the age of a page when it is judged, as `MibDelay` bounds
that of a MIB; both are guards of the gNB's tick.

### MibLockstep, PagingLockstep

One round of a loop is one action up to the point where it needs something from
outside: `recvfrom`, or the critical section `cs`.  `ahead` counts the rounds of the
gNB minus those of the UE; its bound `MaxAhead` is how late the UE may be, and
nothing bounds the UE but its own blocking receive.  In `PagingLockstep` the
`memcpy` in and out of the shared buffer take two steps each, so that they can
overlap.  `pages` is history: for each RRC the message it was made from and how many had
been announced by then.  The refinement drops the RRCs from the socket: `MibsOf` takes the k-th MIB of
it by counting, without recursion, so that it can be proved about.

A datagram may be lost (`send_mib` of `MibLockstep`, `sendto` of `PagingLockstep`).
In E3 each loss makes the UE wait one MIB period longer, which `ahead` allows for.
In E4 the UE then takes MIBs for RRCs and the reverse, so that rounds say little; after
the first loss the gNB is held back by the number of messages that wait, and `ahead`
is no longer counted.

`sp.time` wraps at 2^32, which is 6 modulo 10: after the first wrap the times end in
6, then in 2, 8, 4, and after the fifth in 0 again.  In between `sp.time % 10 == 0`
is never true, the frames stand still and no MIB is sent.  `InStep` and `NotAhead`
therefore count frames and not rounds (`FramesIn`).

E4's AMF closes its socket after its last message (`AmfClose`).  Then `recv` returns
0 for ever, and `ReceiveNothing` takes the stack buffer, which nothing has written, for a
message: it holds what an earlier call left there, or anything.

### Handshake

Each set-up function is a straight line of socket calls, so it is a sequence of
steps (`GnbInit5`, `UeInit5`, ...) and `gnb`, `ue` are positions in it; `exercise`
says whose sequences are run.  One action stands for one kind of call.  A call that
fails ends the function early: `GnbGivesUp`, `GnbHearFails`, `AmfGivesUp`,
`UeGivesUp`, which differ in what they close.  The addresses are 127.0.0.1, so a
datagram to an open port arrives and one to a closed port makes the sender's next
`recvfrom` fail, as Winsock reports it.  `Sleep` guarantees nothing and is left out.

### NgapLink

`NgapLink` goes on where `Handshake` ends, and beside it: the AMF sends as soon as it
is connected, which may be before the UE is there.  A message is two halves,
`arrived` and `read` count halves, and `receive_ngap` takes what has arrived, two at
most.  `taken` is what it returned as messages.  `AmfCloses` is E4's orderly end,
`LinkBreaks` a killed AMF; `ReceiveNothing` and `ReceiveFails` are what `recv` does
then, or with the sockets that a failed set-up leaves.

## 3. What the runs check

Every property is stated in words above its definition.

| Run | Checks | Shows |
|---|---|---|
| `MCGnbPaging_free` | `TypeOK`, `FiledAtOccasion`, `NextOrOneCycleLate`, `SharedOnlyIfLate`, `SentTwiceOnlyIfRaced`, `LostOnlyIfRaced`, `MiscountedOnlyIfTorn` | with threads that may lag by any amount (23 of 24 subframes), pages are filed where the UE is awake, and exactly when a page is put off for a cycle; scheduler and worker meet in a vector only if one of them is late, and what the missing lock can then spoil is bounded page by page: a page that no meeting touched is neither lost nor sent twice, and the count is off by the torn reads exactly |
| `MCGnbPaging_timely` | `SentAtMostOnce`, `NothingVanishes`, `EachPageSettles` | with timely threads the missing lock does no harm, and every page is handled in the end, or dropped, kept by main, or filed in a slot that does not exist |
| `MCNgapQueue` | `TypeOK`, `ImplementsFifo` | the ring is the FIFO, and refuses just when full |
| `MCPageOnTime` | `PageTypeOK`, `SkewBounded`, `JudgedNearItsSlot`, `CorrectMeansItsSlot`, `Corrected` | the UE's clock is behind by at most the age of a MIB plus the drift, ahead by at most the drift plus three; a page is judged within these bounds and its own delay of the slot it was filed under, and called CORRECT exactly in that slot; corrections never cease |
| `MCPagingMap` | `TypeOK`, `NoUseAfterFree`, `NoLeak`, `ImplementsStore` | with nothing between the threads but the locks of the code: which accesses can touch freed memory, and in which window; nothing leaks; the map is the page store, exactly where the threads do not meet, and with the named losses where they do |
| `MCMibLockstep` | `TypeOK`, `InStep`, `NotAhead`, `Recovers` | E3 without loss: same round, same frame; with loss: the 800 ms update repairs it |
| `MCPagingLockstep` | `TypeOK`, `NeverMistaken`, `TwiceOnlyIfEarly`, `NewestIsPaged`, `InStep`, `ImplementsLockstep`, `AnnouncedIsPaged` | E4 without loss: paging does not disturb E3's protocol, also across the wraps of `sp.time`; no announced message waits for ever; an RRC is made from the newest announced message or from the one about to be announced, as the buffer is written outside `cs`; in the second case alone, and once, the message is paged again |
| `MCPagingLockstep_lossy` | `Resumes` | E4 with two lost datagrams: the UE confuses MIBs and RRCs for a while and ends in step for good |
| `MCNgapLink` | `LinkTypeOK`, `ReplyMeansReady`, `AllOrNone`, `SetUpEnds`, `IntactInOrder`, `PagedUeIsKnown`, `AllTaken` | started in any order, the programs end in agreement or with a failed call; the one exception is a UE whose hellos fall between E5's two binds: it and the gNB then wait for each other for ever.  From then on the AMF's stream is taken in order and all of it, in whole messages until a read comes short; empty messages come only after the end of all that was sent |

Three further runs each show a sentence of the code's comments that the code does
not keep (`findings` in `PROJECT.json` quotes the lines):

| Run | Sentence | What happens |
|---|---|---|
| `MCGnbPaging_unreachable` | `FiledSlotExists` | pages of the clock's last cycle go to frame 1024 or more and stay for ever |
| `MCGnbPaging_erased` | `NothingVanishes` | a scheduler one subframe late has its page erased unsent |
| `MCPagingLockstep_phantom` | `NoPhantomPage` | once the AMF has closed, the gNB pages the UE in every cycle, without a request, and may overwrite the last one that was |

Other places where a comment and the code part are written into the models and
excepted by name in the properties: main keeps the first message, the one for the
connected UE (`MainStart`; the exceptions in `NothingVanishes` and
`EachPageSettles`), against `gnb/gnb.c:14` of E5; a paging frame that is still ahead
in the cycle is skipped (`NextOrOneCycleLate`), against `gnb/caculate.c:197`; MIBs are
sent over and over for a whole subframe (`mib_due`), against `gnb/caculate.c:204`;
every MIB sets the clock of E5's UE (`UpdateClk`), not every tenth, against
`ue/connect.c:193` and `ue/connect.c:201`; a frame is not always 10 ms of `sp.time`,
once that has wrapped (`after_sleep`), against `gnb.c:14` of E3; E4's listener writes the
shared message before it enters `cs`, against `gnb.c:206` of E4 (`WriteNgap`, `EndCopy`);
E4 merges requests of one cycle and pages some twice (`TwiceOnlyIfEarly`), and sends an empty RRC
without a request (`SendEmpty`), against `gnb.c:241` and `gnb.c:245`.

### Bounds

* `GnbPaging`: 12 (or 8) frames of 2 subframes, paging cycles of 4 frames with 2
  occasions each, hence 3 (or 2) cycles in a clock period: pages of the last cycle,
  wrap-around and "same frame, later subframe" all occur.  `Timely` needs three
  cycles in the period, hence 12; `MCGnbPaging_unreachable` does with 8.  Three UEs: the connected one and two others, of
  which one shares its frame; three messages, AMF period 2; a ring of 2 cells, so it
  fills with one message; vectors that hold one page at first, so they grow.
  `WorkerLag` is 1 in the timely run: with a greater one the strong fairness of the
  worker says less than the code does.  The free run has lags of 23 in a period of 24,
  so that a meeting happens both with a late scheduler and with a worker that is late by
  nearly a period; vectors grow under the worker, pages are erased and sent from freed
  memory in it.  The theorems hold for every lag.
* The code's own constants (1024 frames of 10 subframes, cycles of 128) meet
  `OccasionAssumption`, so the theorems on paging occasions speak of them too.
* `Handshake` has no constants: all of the set-up is checked.  `NgapLink` adds three
  messages, of which the first goes to main, and two receives after the end.
* `PagingMap`: two keys, two entries, three buffers, four insertions: a vector grows
  twice, also under the worker, freed addresses are used again, and a key is removed and inserted anew.
* `MibSync` and `PageOnTime`: MIBs every 2 frames of 4; a MIB is applied, and a page
  judged, at most 2 subframes after the gNB's clock was read for it; sockets for two MIBs and
  one RRC.  Frames of 5 subframes, so that `MibDelay + Jitter` and
  `RrcDelay + Jitter + 3` are well inside half a period; the UE's paging frame carries a
  MIB and its occasion comes later in the same frame, as for UE 300.  Each end of
  `JudgedNearItsSlot` is reached.
* The lockstep modules: periods scaled down so that 80 ms, 800 ms, the paging
  cycle and the frame wrap keep their order and their divisibility.  As in the code,
  the frame period is a multiple of the MIB period and, in E4, no MIB falls into the
  paging frame.  In `MCPagingLockstep` `sp.time` wraps at 136, which like 2^32 is 6
  modulo 10 and 16 modulo the MIB period (modulo 80 in the code), so that the fifth
  wrap puts all in order again.  The other two runs are about loss and let it wrap at a
  multiple of the periods: a loss just before a real wrap would keep the UE waiting for four
  wraps (hundreds of days) while the gNB, whose rounds are bounded here, sends nothing.
* `MCPagingLockstep_lossy` keeps the proportions of the code: ten MIBs to an update, 16
  to a paging cycle, 128 to the frame period, the paging frame between the last two
  MIBs of its cycle; only the 8 frames from one MIB to the next are 2.  They matter,
  because a page that coincided with every update would keep the UE confused for ever.

### Fairness

Every thread is an endless loop, so its steps are weakly fair; receives are fair once
there is something to receive.  Strong fairness is used in four places: the clock of
`GnbPaging` (its guards are bounds of the model, not of the code), the worker's
reading of the clock in each paging occasion and the broadcaster's in a due
subframe (both spin without pause, so they may miss a millisecond, but not the same one
for ever), and E4's listener at `cs` (held for one send in a round of 100 ms).
Nothing is assumed of the AMF
once it sends, which may stop; what TCP has taken arrives, unless the connection breaks.  In `Handshake` every program is started in the end,
and goes on when the call it waits for can succeed (`GnbProceeds`, `UeProceeds`, `Amf`).
No call is made to fail by fairness: a gNB in `accept` or `recvfrom`, and a UE in `recvfrom`,
may block for ever, as they do in the code, and `SetUpEnds` has to name that case.

## 4. What is proved

For every value of the constants that meets the named assumptions of the module
(`FrameClockAssumption`, `OccasionAssumption`, `PagingAssumption`, `QueueAssumption`,
`MapAssumption`, `SyncAssumption` and `ShortDelays`, `PageOnTimeAssumption` and
`ShortPage`, `LockstepAssumption`, `PagingLockstepAssumption`, `NgapLinkAssumption`):

| Theorem | Statement |
|---|---|
| `FiledAhead` | a page is filed strictly after the clock reading and less than two cycles after it |
| `FiledNextOrLate` | the slot is the UE's next occasion, or the one a cycle later just when the UE's frame is still ahead in the cycle |
| `TypeCorrect` | `GnbPaging` => `[]TypeOK` |
| `FiledCorrect` | `GnbPaging` => `[]FiledAtOccasion` |
| `FiledNextOrLater` | `GnbPaging` => `[]NextOrOneCycleLate` |
| `MeetOnlyIfLate` | `GnbPaging` => `[]SharedOnlyIfLate` |
| `SendsTwiceOnlyRaced` | `GnbPaging` => `[]SentTwiceOnlyIfRaced` |
| `LosesOnlyRaced` | `GnbPaging` => `[]LostOnlyIfRaced` |
| `MiscountsOnlyTorn` | `GnbPaging` => `[]MiscountedOnlyIfTorn` |
| `RingTypeCorrect`, `RingImplementsFifo` | the ring's indices stay in range; the ring implements `BoundedFifo`, with its refusals |
| `MapTypeCorrect`, `NeverUsesFreed`, `NeverLeaks` | `PagingMap` => `[]TypeOK`, `[]NoUseAfterFree`, `[]NoLeak` |
| `MapImplementsStore` | `PagingMap` implements `PageStore` |
| `PageTypeCorrect` | `PageOnTime` => `[]PageTypeOK` |
| `StaysNear`, `StaysNearPaging` | `MibSync`, `PageOnTime` => `[]SkewBounded` |
| `JudgedNear`, `CorrectIsItsSlot` | `PageOnTime` => `[]JudgedNearItsSlot`, `CorrectMeansItsSlot` |
| `LoopTypeCorrect`, `CountsInStep`, `NeverAhead` | `MibLockstep` => `[]TypeOK`, `[]InStep`, `[]NotAhead` |
| `PagingTypeCorrect` | `PagingLockstep` => `[]TypeOK` |
| `PagedAgainOnlyIfEarly` | `PagingLockstep` => `[]TwiceOnlyIfEarly` |
| `PagesTheNewest` | `PagingLockstep` => `[]NewestIsPaged` |
| `NeverTakesOneForTheOther` | `PagingLockstep` => `[]NeverMistaken` |
| `PagingCountsInStep` | `PagingLockstep` => `[]InStep` |
| `PagingImplementsLockstep` | `MaxLost = 0` and `PagingLockstep` implement `MibLockstep` |
| `LinkTypeCorrect` | `NgapLink` => `[]LinkTypeOK` |
| `ReplyComesLast`, `NeverHalfConnected` | `NgapLink` => `[]ReplyMeansReady`, `[]AllOrNone` |
| `TakenIntact`, `PagedUeKnown` | `NgapLink` => `[]IntactInOrder`, `[]PagedUeIsKnown` |

The argument for the pipeline:

1. `PagingOccasionProofs`: the gNB's byte arithmetic equals the UE's (the
   quotients fit in a byte), so a filed key is an occasion of its UE: `FiledCorrect`
   needs nothing about time.  `FiledNextOrLate` compares the slot with the least
   element of the UE's occasions: a frame of the UE that is not before the clock's is
   its frame in that cycle or at least a cycle later (`FrameInCycle`).
2. `MeetOnlyIfLate` is arithmetic on slots.  With `FiledAhead` a key being filed lies 1 to
   two cycles after the scheduler's reading; if that is the clock, the worker's reading,
   which is never ahead of the clock, can only be equal to it from nearly a period ago,
   also around the wrap.
3. `OnePlaceInvariant`: a serial number is in one of connection, queue, scheduler
   and map, and there once.  `HandledInvariant`: no handled page is anywhere else
   than in the part of its vector that the worker has passed.  These two are the
   strengthening that makes `SentTwiceOnlyIfRaced` inductive: without them a second send
   of the same page is not excluded by the radio's history alone.
4. `ProgressInvariant` (what lies behind the worker in its vector has been handled, but for
   what a meeting touched) and `FirstInvariant` (main takes message 1) give
   `LostOnlyIfRaced`.
5. `MiscountedOnlyIfTorn` follows since every round handles a page not handled before or
   is a torn read.

None of these assumes anything about the lags.  With `SchedulerLag = 0`, which is not a
fact about the code (nothing in it makes the scheduler finish within a subframe), the
threads do not meet at all, and the safety properties of `MCGnbPaging_timely` follow: the
corollaries at the end of `GnbPagingProofs`.  `MCGnbPaging_erased` shows that one subframe
is enough to lose a page.

**The map.**  `MapInvariant` says of each vector that it has a buffer of its own as soon
as it has room, and that the buffer is as long as the vector believes (`Vectors`); of the
table that no two keys share an entry and that only an entry under insertion may be empty
(`Entries`); of the allocator that exactly what is reachable, or held by an insertion that
has not installed it yet, is allocated (`Allocated`); and what each thread knows of its
vector at each of its steps (`Insertion`, `Growing`, `Walk`, and `Meeting`, which says that
the scheduler is in the worker's entry only when `met`).  `Allocated` is `NoLeak`
address by address; `NoUseAfterFree` follows from it, as what a thread is about to read is
reachable: for the worker's buffer, unless the vector has `moved`.  In the refinement a page
enters the store at the later of the two writes of `push`, and `Walk` shows that the worker's
read finds what the store has, or that the threads have met and it may find anything.

**Set-up and connection.**  Each program is a position in its sequence of calls.
`ChannelFacts` relates the two positions on a channel: an address is known after `hear`, a
hello lies in the socket only after it was sent, a reply comes after the gNB's `reply`
step, and a channel that was refused keeps the gNB at or before its `hear`.  Since every
`reply` follows every `hear` and the `accept`, one reply tells of all (`ReplyComesLast`).
And a refused hello is never heard, so the gNB never gets to a reply: hence
`NeverHalfConnected`.  `StreamPosition` says that the pieces taken end where the stream was
read to, so that each receive goes on where the one before it ended: `TakenIntact`.

**Clocks and pages.**  `Followed` gives the exact distance of the UE's clock from the
gNB's: the drift of the timers since the last correction, plus the extra ticks made, less
the age that the MIB had.  The extra ticks, which could add up when a MIB comes while one is
still owed, are bounded by counting those made and those owed together: never more than
three.  This is the strengthening that `SkewBounded` needs.  `Punctual` adds that a page
under way was sent in an occasion of the UE and not longer ago than `RrcDelay`; with the
arithmetic of `PagingOccasionProofs`, a verdict CORRECT means the UE's clock is in an
occasion less than a cycle away from the page's, which is the page's own.
`ShortDelays` and `ShortPage` say that a MIB's age plus the drift stay below half of the
clock's period (5.12 s in the code), and a page's delay below a paging cycle (1.28 s).
On one machine both are some milliseconds and MIBs are 80 ms apart.  Beyond these
bounds "near" means nothing on a clock that wraps.

**E3's loops.**  The state numbers no rounds.  The proof names a round by its age,
the number of rounds the gNB has done since; the UE's round has the age `ahead`, negative
where the UE leads.  `Queued` gives each MIB in the socket the age of its round: all of
them rounds the UE has still to pass, in order, and as long as nothing was lost none is
missing.  So the UE that waits in a round takes the MIB of that round, which is
`CountsInStep`; the age is what survives the wraps of `sp.time`, where neither the time nor
the frame determines the round.  `NotPassed` and `Leads` bound how far the UE can count
before it blocks: `NeverAhead`, with losses as without.

**E4's loops.**  A round has two positions for what is sent in it, one for a MIB and one
for an RRC, numbered by twice the round's age.  `InSocket` says, as long as nothing is
lost, that the socket has exactly what is due at the positions which the gNB has passed
and the UE has not, in order.  What the UE waits for is due at the first of these, so the
head of the socket is that: `NeverTakesOneForTheOther`.  Nothing more is needed for the
refinement than that taking an RRC leaves the MIBs alone and taking a MIB takes the first
of them (`MibsTail`), for which a section of its own counts the MIBs in a sequence.
`PagingImplementsLockstep` assumes `MaxLost = 0`: after a loss the UE may take frame 0
from an RRC, and E3 has no such step.

For E4's gNB, `PagingInvariant` accounts for every message (on its way, in hand or
announced), and says what the shared buffer has at each step of the listener: the
message announced last, or the next one.  `ready` is up from the moment main has seen it
until main lowers it (`ReadyHeld`), for only main lowers it, and the listener cannot
announce another while main is in `cs`.  So a copy that overlaps with the writing has the
message announced last or the next one (`PagesTheNewest`).  In the second case the
announcement that follows raises `ready` once more, and the same message is paged again;
the invariant keeps for the last RRC how much had been announced, which shows that it is
then the very next one and the last of that message (`PagedAgainOnlyIfEarly`).  The
invariant needs nothing of the frames, so these two hold with losses and wraps as well.

Model-checked only are the liveness properties: `EachPageSettles`, `Corrected`,
`Recovers`, `AnnouncedIsPaged`, `Resumes`, `SetUpEnds` and `AllTaken`.  They rest on
fairness, hence on ENABLED, which the prover does not reason about.  So no theorem says
what happens to E4 after a loss beyond the types and the making of RRCs: that the
confusion ends is `Resumes`, and TLC's.

## 5. What is not modelled

* What the UE does after a set-up that failed (it sets its clock from memory that
  was never written); console output, the vendored `uthash.h` (its three macros are
  modelled by what they do to the map), `malloc` failing (the programs exit).
* Functions that are never called: `update_sfn` (E3), `vector_free`, `map_print`,
  E5's `updateSFN`, and the commented-out worker.
* `time_ms`, which is written and never read; the fields of a message that nobody
  tests (`tac`, `cn_domain`, `msg_type`); `message_id`.
* Errors of `sendto` and `recvfrom` after the set-up, and of `send` in the AMF.
* Short reads in `GnbPaging` and `PagingLockstep`, which take whole messages;
  `NgapLink` shows when that is so.
* E5's queue inside `GnbPaging` is the FIFO, by `RingImplementsFifo`.

## 6. Plan

Done: all components of section 1, and theorems for every safety property of the runs and
for every refinement.  What could still be added:

1. What holds of E4 after a loss, as an invariant: how far the UE's frame may be from the
   gNB's while it is confused, the safety part of `Resumes`.
2. `MibLockstep` after a loss: the UE's offset is always a multiple of a MIB period, which
   would say of `Recovers` what one update repairs.
3. `PagingLockstep` with both loss and wrap of `sp.time`.
