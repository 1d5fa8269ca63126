--------------------------- MODULE NgapQueueProofs ---------------------------
(***************************************************************************)
(* The ring of gnb/queue.c is a bounded FIFO, for any number of cells and  *)
(* any messages.                                                           *)
(***************************************************************************)
EXTENDS NgapQueue, TLAPS

\* A number below 2n is reduced modulo n by one subtraction.
LEMMA Wrap ==
  ASSUME NEW n \in Nat \ {0}, NEW x \in Nat, x < 2 * n
  PROVE  x % n = IF x < n THEN x ELSE x - n
  BY SMT

(***************************************************************************)
(* The ring's variables have their types in every reachable state.         *)
(***************************************************************************)
THEOREM RingTypeCorrect == Spec => []TypeOK
<1>1. Init => TypeOK
  BY QueueAssumption DEF Init, TypeOK, Cells
<1>2. TypeOK /\ [Next]_vars => TypeOK'
  <2> SUFFICES ASSUME TypeOK, [Next]_vars PROVE TypeOK'
    OBVIOUS
  <2>1. \A x \in Cells : (x + 1) % MAX_QUEUE \in Cells
    <3> SUFFICES ASSUME NEW x \in Cells PROVE (x + 1) % MAX_QUEUE \in Cells
      OBVIOUS
    <3>1. MAX_QUEUE \in Nat \ {0} /\ x + 1 \in Nat /\ x + 1 < 2 * MAX_QUEUE
      BY QueueAssumption DEF Cells
    <3> QED
      BY <3>1, Wrap DEF Cells
  <2>2. CASE dequeue
    BY <2>1, <2>2 DEF dequeue, TypeOK
  <2>3. ASSUME NEW m \in NgAP, enqueue(m) PROVE TypeOK'
    BY <2>1, <2>3 DEF enqueue, TypeOK
  <2>4. CASE UNCHANGED vars
    BY <2>4 DEF vars, TypeOK
  <2> QED
    BY <2>2, <2>3, <2>4 DEF Next
<1> QED
  BY <1>1, <1>2, PTL DEF Spec

-----------------------------------------------------------------------------
\* The cell of the i-th waiting message.
Cell(i) == IF front + i - 1 < MAX_QUEUE THEN front + i - 1
                                        ELSE (front + i - 1) - MAX_QUEUE

\* The content as a sequence read off the cells.
ContentView ==
  /\ Waiting \in 0 .. MAX_QUEUE - 1
  /\ DOMAIN Content = 1 .. Waiting
  /\ \A i \in 1 .. Waiting : Cell(i) \in Cells /\ Content[i] = queue[Cell(i)]
  /\ Content \in Seq(NgAP \cup {None})
  /\ Len(Content) = Waiting

LEMMA ContentCells == TypeOK => ContentView
<1> SUFFICES ASSUME TypeOK PROVE ContentView
  OBVIOUS
<1>1. MAX_QUEUE \in Nat \ {0} /\ front \in 0 .. MAX_QUEUE - 1 /\ rear \in 0 .. MAX_QUEUE - 1
  BY QueueAssumption DEF TypeOK, Cells
<1>2. Waiting \in 0 .. MAX_QUEUE - 1
  BY <1>1 DEF Waiting
<1>3. ASSUME NEW i \in 1 .. Waiting
      PROVE  Cell(i) \in Cells /\ (front + i - 1) % MAX_QUEUE = Cell(i)
  <2>1. front + i - 1 \in Nat /\ front + i - 1 < 2 * MAX_QUEUE
    BY <1>1, <1>2
  <2>2. (front + i - 1) % MAX_QUEUE = IF front + i - 1 < MAX_QUEUE THEN front + i - 1
                                      ELSE (front + i - 1) - MAX_QUEUE
    BY <1>1, <2>1, Wrap
  <2> QED
    BY <1>1, <2>1, <2>2 DEF Cell, Cells
<1>4. Content = [i \in 1 .. Waiting |-> queue[Cell(i)]]
  BY <1>3 DEF Content
<1>5. \A i \in 1 .. Waiting : queue[Cell(i)] \in NgAP \cup {None}
  BY <1>3 DEF TypeOK
<1> HIDE DEF Waiting
<1>6. Content \in Seq(NgAP \cup {None}) /\ Len(Content) = Waiting
  BY <1>2, <1>4, <1>5
<1> QED
  BY <1>2, <1>3, <1>4, <1>6 DEF ContentView

(***************************************************************************)
(* The ring implements the bounded FIFO of MAX_QUEUE - 1 messages: nothing *)
(* is lost, repeated or reordered in it, and it refuses a message only     *)
(* when that many are waiting (gnb/queue.c:7-30).                          *)
(***************************************************************************)
THEOREM RingImplementsFifo == Spec => ImplementsFifo
<1>1. Init => Fifo!Init
  <2> SUFFICES ASSUME Init PROVE Fifo!Init
    OBVIOUS
  <2>1. Waiting = 0
    BY DEF Init, Waiting
  <2>2. Content = << >>
    BY <2>1 DEF Content
  <2> QED
    BY <2>2 DEF Init, Fifo!Init
<1>2. TypeOK /\ TypeOK' /\ [Next]_vars => [Fifo!Next]_<<Content, ngap, did>>
  <2> SUFFICES ASSUME TypeOK, TypeOK', [Next]_vars
               PROVE  [Fifo!Next]_<<Content, ngap, did>>
    OBVIOUS
  <2>1. /\ MAX_QUEUE \in Nat \ {0}
        /\ front \in 0 .. MAX_QUEUE - 1 /\ rear \in 0 .. MAX_QUEUE - 1
        /\ front' \in 0 .. MAX_QUEUE - 1 /\ rear' \in 0 .. MAX_QUEUE - 1
    BY QueueAssumption DEF TypeOK, Cells
  <2>2. /\ (rear + 1) % MAX_QUEUE = IF rear + 1 < MAX_QUEUE THEN rear + 1 ELSE 0
        /\ (front + 1) % MAX_QUEUE = IF front + 1 < MAX_QUEUE THEN front + 1 ELSE 0
    <3>1. rear + 1 \in Nat /\ rear + 1 < 2 * MAX_QUEUE /\ front + 1 \in Nat /\ front + 1 < 2 * MAX_QUEUE
      BY <2>1
    <3>2. (rear + 1) % MAX_QUEUE = IF rear + 1 < MAX_QUEUE THEN rear + 1
                                   ELSE (rear + 1) - MAX_QUEUE
      BY <2>1, <3>1, Wrap
    <3>3. (front + 1) % MAX_QUEUE = IF front + 1 < MAX_QUEUE THEN front + 1
                                    ELSE (front + 1) - MAX_QUEUE
      BY <2>1, <3>1, Wrap
    <3> QED
      BY <2>1, <3>2, <3>3
  <2>3. /\ Waiting \in Nat /\ DOMAIN Content = 1 .. Waiting /\ Len(Content) = Waiting
        /\ \A i \in 1 .. Waiting : Cell(i) \in Cells /\ Content[i] = queue[Cell(i)]
        /\ Content \in Seq(NgAP \cup {None})
    BY <2>1, ContentCells DEF ContentView
  <2>4. /\ Waiting' \in Nat /\ DOMAIN Content' = 1 .. Waiting' /\ Len(Content') = Waiting'
        /\ \A i \in 1 .. Waiting' : Content'[i] = queue'[Cell(i)']
        /\ Content' \in Seq(NgAP \cup {None})
    <3>1. ContentView'
      BY ContentCells, PTL
    <3> QED
      BY <2>1, <3>1 DEF ContentView
  <2>5. ASSUME NEW m \in NgAP, enqueue(m), ~is_full PROVE Fifo!Put(m)
    <3>1. Waiting < MAX_QUEUE - 1 /\ Waiting' = Waiting + 1
      <4>1. rear' = (rear + 1) % MAX_QUEUE /\ front' = front /\ (rear + 1) % MAX_QUEUE # front
        BY <2>5 DEF enqueue, is_full
      <4> QED
        BY <2>1, <2>2, <4>1 DEF Waiting
    <3>2. Cell(Waiting + 1) = rear
      BY <2>1 DEF Cell, Waiting
    <3>3. \A i \in 1 .. Waiting : Cell(i) # rear
      BY <2>1 DEF Cell, Waiting
    <3>4. /\ queue' = [queue EXCEPT ![rear] = m] /\ front' = front /\ ngap' = ngap
          /\ queue \in [Cells -> NgAP \cup {None}] /\ rear \in Cells
      BY <2>5 DEF enqueue, TypeOK
    <3>5. \A i \in 1 .. Waiting : queue'[Cell(i)] = queue[Cell(i)]
      BY <2>3, <3>3, <3>4
    <3>6. queue'[rear] = m
      BY <3>4
    <3>7. \A i \in Nat : Cell(i)' = Cell(i)
      BY <3>4 DEF Cell
    <3> HIDE DEF Waiting, Cell
    <3>8. \A i \in 1 .. Waiting + 1 :
            Content'[i] = IF i = Waiting + 1 THEN m ELSE Content[i]
      BY <2>3, <2>4, <3>1, <3>2, <3>5, <3>6, <3>7
    <3>9. Content' = Append(Content, m)
      BY <2>3, <2>4, <3>1, <3>8
    <3> QED
      BY <2>3, <2>5, <3>1, <3>4, <3>9 DEF Fifo!Put, enqueue
  <2>6. ASSUME NEW m \in NgAP, enqueue(m), is_full PROVE Fifo!Refuse
    <3>1. Waiting = MAX_QUEUE - 1
      BY <2>1, <2>2, <2>6 DEF is_full, Waiting
    <3>2. did' = "refused" /\ UNCHANGED <<queue, front, rear, ngap>>
      BY <2>6 DEF enqueue
    <3>3. Content' = Content
      BY <3>2 DEF Content, Waiting
    <3> QED
      BY <2>3, <3>1, <3>2, <3>3 DEF Fifo!Refuse
  <2>7. CASE dequeue /\ ~is_empty
    <3>0. rear' = rear /\ front' = (front + 1) % MAX_QUEUE /\ front # rear
      BY <2>7 DEF dequeue, is_empty
    <3>1. Waiting > 0 /\ Waiting' = Waiting - 1
      BY <2>1, <2>2, <3>0 DEF Waiting
    <3>2. Cell(1) = front
      BY <2>1 DEF Cell
    <3>3. \A i \in 1 .. Waiting - 1 : Cell(i)' = Cell(i + 1)
      BY <2>1, <2>2, <3>0 DEF Cell, Waiting
    <3>4. queue' = queue /\ ngap' = queue[front]
      BY <2>7 DEF dequeue
    <3> HIDE DEF Waiting, Cell
    <3>5. \A i \in 1 .. Waiting - 1 : Content'[i] = Content[i + 1]
      BY <2>3, <2>4, <3>1, <3>3, <3>4
    <3>6. Content # << >> /\ Head(Content) = ngap'
      BY <2>3, <3>1, <3>2, <3>4
    <3>7. Content' = Tail(Content)
      BY <2>3, <2>4, <3>1, <3>5, <3>6
    <3>8. Fifo!Get
      BY <2>7, <3>6, <3>7 DEF Fifo!Get, dequeue
    <3> QED
      BY <3>8 DEF Fifo!Next
  <2>8. CASE dequeue /\ is_empty
    <3>1. front = rear /\ did' = "found none" /\ UNCHANGED <<queue, front, rear, ngap>>
      BY <2>8 DEF dequeue, is_empty
    <3>2. Content' = Content
      BY <3>1 DEF Content, Waiting
    <3>3. Content = << >>
      <4>1. Waiting = 0
        <5>1. front = rear
          BY <3>1
        <5> QED
          BY <2>1, <5>1 DEF Waiting
      <4> QED
        BY <4>1 DEF Content
    <3> QED
      BY <3>1, <3>2, <3>3 DEF Fifo!FindNone, Fifo!Next
  <2>9. CASE UNCHANGED vars
    <3>1. Content' = Content /\ ngap' = ngap /\ did' = did
      BY <2>9 DEF vars, Content, Waiting
    <3> QED
      BY <3>1
  <2> QED
    BY <2>5, <2>6, <2>7, <2>8, <2>9 DEF Next, Fifo!Next
<1> QED
  BY <1>1, <1>2, RingTypeCorrect, PTL DEF Spec, ImplementsFifo, Fifo!Spec
=============================================================================
