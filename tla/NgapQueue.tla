------------------------------ MODULE NgapQueue ------------------------------
(***************************************************************************)
(* The queue between the thread that listens to the AMF and the scheduler  *)
(* (gnb/queue.c): a ring of MAX_QUEUE cells, of which one always stays     *)
(* free so that `front = rear` means empty.  Each operation runs under     *)
(* queue_lock from its first to its last access, hence as one action.      *)
(***************************************************************************)
EXTENDS Integers, Sequences

CONSTANTS NgAP, MAX_QUEUE, None

ASSUME QueueAssumption ==
  /\ MAX_QUEUE \in Nat \ {0}
  /\ None \notin NgAP

VARIABLES
  queue,   \* the ring
  front,   \* where the next message is taken
  rear,    \* where the next message is put
  ngap,    \* the caller's buffer that dequeue fills
  did      \* what the last call did: dequeue returns it, enqueue does not (history)

vars == <<queue, front, rear, ngap, did>>

Cells == 0 .. MAX_QUEUE - 1

is_empty == front = rear

\* Mutant: two cells are kept free.
is_full_early == (rear + 2) % MAX_QUEUE = front

is_full == (rear + 1) % MAX_QUEUE = front

Init ==
  /\ queue = [i \in Cells |-> None]
  /\ front = 0
  /\ rear = 0
  /\ ngap = None
  /\ did = "nothing"

\* A message that finds the ring full is dropped, and nobody is told.
enqueue(m) ==
  /\ \/ /\ ~is_full
        /\ queue' = [queue EXCEPT ![rear] = m]
        /\ rear' = (rear + 1) % MAX_QUEUE
        /\ did' = "put"
     \/ /\ is_full
        /\ did' = "refused"
        /\ UNCHANGED <<queue, rear>>
  /\ UNCHANGED <<front, ngap>>

\* Mutant: front runs off the end of the ring.
dequeue_unwrapped ==
  /\ ~is_empty
  /\ ngap' = queue[front]
  /\ front' = front + 1
  /\ did' = "got"
  /\ UNCHANGED <<queue, rear>>

\* On an empty ring dequeue returns false and leaves the caller's buffer alone.
dequeue ==
  /\ \/ /\ ~is_empty
        /\ ngap' = queue[front]
        /\ front' = (front + 1) % MAX_QUEUE
        /\ did' = "got"
     \/ /\ is_empty
        /\ did' = "found none"
        /\ UNCHANGED <<front, ngap>>
  /\ UNCHANGED <<queue, rear>>

Next == dequeue \/ \E m \in NgAP : enqueue(m)

Spec == Init /\ [][Next]_vars

-----------------------------------------------------------------------------
TypeOK ==
  /\ queue \in [Cells -> NgAP \cup {None}]
  /\ front \in Cells
  /\ rear \in Cells
  /\ ngap \in NgAP \cup {None}
  /\ did \in {"nothing", "put", "refused", "got", "found none"}

\* The messages waiting in the ring, oldest first.
Waiting == IF rear >= front THEN rear - front ELSE rear - front + MAX_QUEUE
Content == [i \in 1 .. Waiting |-> queue[(front + i - 1) % MAX_QUEUE]]

Fifo == INSTANCE BoundedFifo
          WITH Item <- NgAP, Capacity <- MAX_QUEUE - 1, items <- Content, out <- ngap

\* The ring is the bounded FIFO, in what it holds and in how each call ends: nothing
\* is lost, repeated or reordered in it, a message is refused just when MAX_QUEUE - 1
\* are waiting, and dequeue finds none just when none is.
ImplementsFifo == Fifo!Spec
=============================================================================
