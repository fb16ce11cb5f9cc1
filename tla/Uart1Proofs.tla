---------------------------- MODULE Uart1Proofs ----------------------------
(***************************************************************************)
(* Proofs about Uart1 for every queue size, request length and set of       *)
(* bytes: both rings implement BoundedFifo, a completed transmission has    *)
(* left the line, and no byte of a request finds the queue full.            *)
(***************************************************************************)
EXTENDS Uart1, SequenceTheorems, TLAPS

-----------------------------------------------------------------------------
(* The ring of UartRing is a queue of at most N bytes, for every N: putting *)
(* a byte in appends to its contents, taking one out removes the first.     *)

\* A ring whose flag is set has met itself.
Consistent(N, Val, q) == q \in Ring(N, Val) /\ (q.full => q.read = q.write)

\* The index arithmetic wraps at N.
LEMMA SuccessorWraps ==
    ASSUME NEW N \in Nat \ {0}, NEW i \in Slots(N)
    PROVE  Successor(N, i) = IF i + 1 = N THEN 0 ELSE i + 1
<1>1. CASE i + 1 = N
  <2>1. N % N = 0
    BY SMT
  <2> QED
    BY <1>1, <2>1 DEF Successor
<1>2. CASE i + 1 # N
  <2>1. \A x \in 0 .. N - 1 : x % N = x
    BY SMT
  <2> QED
    BY <1>2, <2>1 DEF Successor, Slots
<1> QED
  BY <1>1, <1>2

\* Between empty and full.
LEMMA HeldBounds ==
    ASSUME NEW N \in Nat \ {0}, NEW Val, NEW q, Consistent(N, Val, q)
    PROVE  /\ Held(N, q) \in 0 .. N
           /\ q.full <=> Held(N, q) = N
           /\ NonEmpty(q) <=> Held(N, q) > 0
<1>1. q.read \in 0 .. N - 1 /\ q.write \in 0 .. N - 1 /\ q.full \in BOOLEAN
  BY DEF Consistent, Ring, Slots
<1> QED
  BY <1>1 DEF Held, NonEmpty, Consistent

\* The empty ring.
LEMMA EmptyRingFacts ==
    ASSUME NEW N \in Nat \ {0}, NEW Val, 0 \in Val
    PROVE  Consistent(N, Val, EmptyRing(N)) /\ Contents(N, EmptyRing(N)) = <<>>
<1>1. EmptyRing(N) \in Ring(N, Val)
  BY DEF EmptyRing, Ring, Slots
<1>2. Held(N, EmptyRing(N)) = 0
  BY DEF Held, EmptyRing
<1>3. Contents(N, EmptyRing(N)) = <<>>
  BY <1>2 DEF Contents
<1> QED
  BY <1>1, <1>3 DEF Consistent, EmptyRing

\* What Enqueued does to the four variables.
LEMMA EnqueuedFields ==
    ASSUME NEW N \in Nat \ {0}, NEW Val, NEW q, Consistent(N, Val, q), ~q.full,
           NEW b \in Val
    PROVE  LET e == Enqueued(N, q, b)
               s == Successor(N, q.write)
           IN  /\ e.queue = [q.queue EXCEPT ![q.write] = b]
               /\ e.read = q.read /\ e.write = s /\ e.full = (s = q.read)
               /\ s \in Slots(N)
               /\ Consistent(N, Val, e)
<1> DEFINE e == Enqueued(N, q, b)
           s == Successor(N, q.write)
<1>1. /\ q = [queue |-> q.queue, read |-> q.read, write |-> q.write, full |-> q.full]
      /\ q.queue \in [Slots(N) -> Val]
      /\ q.read \in Slots(N) /\ q.write \in Slots(N)
  BY DEF Consistent, Ring
<1>2. e = [queue |-> [q.queue EXCEPT ![q.write] = b], read |-> q.read, write |-> s,
           full |-> (s = q.read)]
  BY <1>1 DEF Enqueued
<1>3. s \in Slots(N)
  BY <1>1, SuccessorWraps DEF Slots
<1> HIDE DEF s, e
<1>4. [q.queue EXCEPT ![q.write] = b] \in [Slots(N) -> Val]
  BY <1>1
<1>5. e \in Ring(N, Val)
  BY <1>1, <1>2, <1>3, <1>4 DEF Ring
<1>6. e.full => e.read = e.write
  BY <1>2
<1> QED
  BY <1>2, <1>3, <1>5, <1>6 DEF Consistent, e, s

\* What Dequeued does to them.
LEMMA DequeuedFields ==
    ASSUME NEW N \in Nat \ {0}, NEW Val, NEW q, Consistent(N, Val, q)
    PROVE  LET d == Dequeued(N, q)
               s == Successor(N, q.read)
           IN  /\ d.queue = q.queue /\ d.write = q.write /\ d.read = s /\ d.full = FALSE
               /\ s \in Slots(N)
               /\ Consistent(N, Val, d)
<1> DEFINE d == Dequeued(N, q)
           s == Successor(N, q.read)
<1>1. q \in Ring(N, Val) /\ q.read \in Slots(N)
  BY DEF Consistent, Ring
<1>2. s \in Slots(N)
  BY <1>1, SuccessorWraps DEF Slots
<1> HIDE DEF s
<1>3. d = [q EXCEPT !.read = s, !.full = FALSE]
  BY DEF Dequeued, s
<1>4. d \in Ring(N, Val)
  BY <1>1, <1>2, <1>3 DEF Ring
<1>5. d.full = FALSE
  BY <1>1, <1>3 DEF Ring
<1>6. d.queue = q.queue /\ d.write = q.write /\ d.read = s
  BY <1>1, <1>3 DEF Ring
<1> HIDE DEF d
<1> QED
  BY <1>2, <1>4, <1>5, <1>6 DEF Consistent, d, s

-----------------------------------------------------------------------------
\* Where the i-th oldest byte of a ring stands.
Place(N, q, i) == IF q.read + i - 1 < N THEN q.read + i - 1 ELSE q.read + i - 1 - N

\* Contents is a sequence of Held(N, q) bytes, read off the array at Place.
LEMMA ContentsFacts ==
    ASSUME NEW N \in Nat \ {0}, NEW Val, NEW q, Consistent(N, Val, q)
    PROVE  /\ Contents(N, q) \in Seq(Val)
           /\ Len(Contents(N, q)) = Held(N, q)
           /\ \A i \in 1 .. Held(N, q) : /\ Place(N, q, i) \in Slots(N)
                                        /\ Contents(N, q)[i] = q.queue[Place(N, q, i)]
<1> DEFINE h == Held(N, q)
<1>1. h \in 0 .. N
  BY HeldBounds
<1>2. q.read \in Slots(N) /\ q.queue \in [Slots(N) -> Val]
  BY DEF Consistent, Ring
<1> HIDE DEF h
<1>3. \A i \in 1 .. h : Place(N, q, i) \in Slots(N)
  BY <1>1, <1>2 DEF Place, Slots
<1>4. Contents(N, q) = [i \in 1 .. h |-> q.queue[Place(N, q, i)]]
  BY DEF Contents, Place, h
<1>5. \A i \in 1 .. h : q.queue[Place(N, q, i)] \in Val
  BY <1>2, <1>3
<1>6. Contents(N, q) \in [1 .. h -> Val]
  BY <1>4, <1>5
<1>7. Contents(N, q) \in Seq(Val)
  BY <1>1, <1>6, SeqDef
<1>8. Len(Contents(N, q)) = h
  BY <1>1, <1>4
<1> QED
  BY <1>3, <1>4, <1>7, <1>8 DEF h

\* RxEnqueue and TxEnqueue append.
LEMMA EnqueuedAppends ==
    ASSUME NEW N \in Nat \ {0}, NEW Val, NEW q, Consistent(N, Val, q), ~q.full,
           NEW b \in Val
    PROVE  /\ Consistent(N, Val, Enqueued(N, q, b))
           /\ Held(N, Enqueued(N, q, b)) = Held(N, q) + 1
           /\ Contents(N, Enqueued(N, q, b)) = Append(Contents(N, q), b)
<1> DEFINE e == Enqueued(N, q, b)
           h == Held(N, q)
<1>1. /\ e.queue = [q.queue EXCEPT ![q.write] = b]
      /\ e.read = q.read /\ e.write = Successor(N, q.write)
      /\ e.full = (Successor(N, q.write) = q.read)
      /\ Consistent(N, Val, e)
  BY EnqueuedFields
<1>2. q.read \in Slots(N) /\ q.write \in Slots(N) /\ q.queue \in [Slots(N) -> Val]
  BY DEF Consistent, Ring
<1>3. Successor(N, q.write) = IF q.write + 1 = N THEN 0 ELSE q.write + 1
  BY <1>2, SuccessorWraps
<1>4. h = IF q.read <= q.write THEN q.write - q.read ELSE q.write + N - q.read
  BY DEF Held
<1> HIDE DEF e
<1>5. Held(N, e) = h + 1 /\ h \in 0 .. N - 1
  <2>1. CASE Successor(N, q.write) = q.read
    <3>1. Held(N, e) = N
      BY <1>1, <2>1 DEF Held
    <3> QED
      BY <1>2, <1>3, <1>4, <2>1, <3>1 DEF Slots
  <2>2. CASE Successor(N, q.write) # q.read
    <3>1. Held(N, e) = IF e.read <= e.write THEN e.write - e.read
                                            ELSE e.write + N - e.read
      BY <1>1, <2>2, Zenon DEF Held
    <3>2. e.read = q.read /\ e.write = Successor(N, q.write)
      BY <1>1
    <3> QED
      BY <1>2, <1>3, <1>4, <2>2, <3>1, <3>2 DEF Slots
  <2> QED
    BY <2>1, <2>2
<1>6. Place(N, e, h + 1) = q.write /\ \A i \in 1 .. h : Place(N, e, i) = Place(N, q, i)
  BY <1>1, <1>2, <1>4 DEF Place, Slots
<1>7. \A i \in 1 .. h : Place(N, q, i) # q.write
  BY <1>2, <1>4 DEF Place, Slots
<1> HIDE DEF h
<1>8. /\ Contents(N, q) \in Seq(Val) /\ Len(Contents(N, q)) = h
      /\ \A i \in 1 .. h : /\ Place(N, q, i) \in Slots(N)
                            /\ Contents(N, q)[i] = q.queue[Place(N, q, i)]
  BY ContentsFacts DEF h
<1>9. /\ Contents(N, e) \in Seq(Val) /\ Len(Contents(N, e)) = h + 1
      /\ \A i \in 1 .. h + 1 : Contents(N, e)[i] = e.queue[Place(N, e, i)]
  <2>1. /\ Contents(N, e) \in Seq(Val) /\ Len(Contents(N, e)) = Held(N, e)
        /\ \A i \in 1 .. Held(N, e) : Contents(N, e)[i] = e.queue[Place(N, e, i)]
    <3>1. Consistent(N, Val, e)
      BY <1>1
    <3> QED
      BY <3>1, ContentsFacts
  <2> QED
    BY <1>5, <2>1
<1>10. /\ Contents(N, e)[h + 1] = b
       /\ \A i \in 1 .. h : Contents(N, e)[i] = Contents(N, q)[i]
  BY <1>1, <1>2, <1>5, <1>6, <1>7, <1>8, <1>9
<1>11. /\ Append(Contents(N, q), b) \in Seq(Val)
       /\ Len(Append(Contents(N, q), b)) = h + 1
       /\ Append(Contents(N, q), b)[h + 1] = b
       /\ \A i \in 1 .. h : Append(Contents(N, q), b)[i] = Contents(N, q)[i]
  BY <1>8, AppendProperties
<1>12. \A i \in 1 .. h + 1 : Contents(N, e)[i] = Append(Contents(N, q), b)[i]
  BY <1>5, <1>10, <1>11
<1>13. Contents(N, e) = Append(Contents(N, q), b)
  BY <1>9, <1>11, <1>12, SeqEqual
<1> QED
  BY <1>1, <1>5, <1>13 DEF e, h

\* RxDequeue and TxDequeue take the oldest byte.
LEMMA DequeuedTakesHead ==
    ASSUME NEW N \in Nat \ {0}, NEW Val, NEW q, Consistent(N, Val, q), NonEmpty(q)
    PROVE  /\ Consistent(N, Val, Dequeued(N, q))
           /\ Held(N, Dequeued(N, q)) = Held(N, q) - 1
           /\ Contents(N, q) # <<>>
           /\ Front(q) = Head(Contents(N, q)) /\ Front(q) \in Val
           /\ Contents(N, Dequeued(N, q)) = Tail(Contents(N, q))
<1> DEFINE d == Dequeued(N, q)
           h == Held(N, q)
           c == Contents(N, q)
<1>1. /\ d.queue = q.queue /\ d.write = q.write /\ d.read = Successor(N, q.read)
      /\ d.full = FALSE /\ Consistent(N, Val, d)
  BY DequeuedFields
<1>2. q.read \in Slots(N) /\ q.write \in Slots(N) /\ q.queue \in [Slots(N) -> Val]
  BY DEF Consistent, Ring
<1>3. Successor(N, q.read) = IF q.read + 1 = N THEN 0 ELSE q.read + 1
  BY <1>2, SuccessorWraps
<1> HIDE DEF d
<1>4. Held(N, d) = h - 1
  BY <1>1, <1>2, <1>3 DEF Held, Slots, NonEmpty, Consistent
<1>5. h \in 1 .. N
  BY HeldBounds
<1> HIDE DEF h
<1>6. Place(N, q, 1) = q.read /\ \A i \in 1 .. h - 1 : Place(N, d, i) = Place(N, q, i + 1)
  BY <1>1, <1>2, <1>3, <1>5 DEF Place, Slots
<1>7. /\ c \in Seq(Val) /\ Len(c) = h
      /\ \A i \in 1 .. h : c[i] = q.queue[Place(N, q, i)]
  BY ContentsFacts DEF h
<1>8. /\ Contents(N, d) \in Seq(Val) /\ Len(Contents(N, d)) = h - 1
      /\ \A i \in 1 .. h - 1 : Contents(N, d)[i] = d.queue[Place(N, d, i)]
  BY <1>1, <1>4, ContentsFacts
<1> HIDE DEF c
<1>9. c # <<>> /\ Head(c) = c[1]
  BY <1>5, <1>7
<1>10. Front(q) = Head(c) /\ Front(q) \in Val
  BY <1>2, <1>5, <1>6, <1>7, <1>9 DEF Front
<1>11. /\ Tail(c) \in Seq(Val) /\ Len(Tail(c)) = h - 1
       /\ \A i \in 1 .. h - 1 : Tail(c)[i] = c[i + 1]
  BY <1>7, <1>9, HeadTailProperties
<1>12. \A i \in 1 .. h - 1 : Contents(N, d)[i] = Tail(c)[i]
  BY <1>1, <1>5, <1>6, <1>7, <1>8, <1>11
<1>13. Contents(N, d) = Tail(c)
  BY <1>8, <1>11, <1>12, SeqEqual
<1> QED
  BY <1>1, <1>4, <1>9, <1>10, <1>13 DEF c, d, h

-----------------------------------------------------------------------------
(* The driver and its client                                                *)

\* Both rings are well formed.
Rings == Consistent(RxSize, Byte, rxq) /\ Consistent(TxSize, Byte, txq)

\* The flags tell the truth about the transmitter, and whoever queues a byte has
\* the handler called for it.
Transmission ==
    /\ CompleteMeansSent
    /\ tc => txe /\ ~shifting
    /\ NonEmpty(txq) => txeie

\* Outside ModbusSend the queue is empty; inside it holds at most the part of the
\* request already given to UART1_SendByte.
RequestQueued ==
    /\ left > 0 <=> taskPc = "send"
    /\ taskPc = "send" => Held(TxSize, txq) + left <= FrameMax
    /\ taskPc \notin {"send", "wait"} => ~NonEmpty(txq)

IInv == TypeOK /\ Rings /\ Transmission /\ RequestQueued

-----------------------------------------------------------------------------
\* Both rings start empty.
LEMMA InitInv == Init => IInv
<1> SUFFICES ASSUME Init PROVE IInv
  OBVIOUS
<1> USE UartAssumption
<1>1. Rings
  BY EmptyRingFacts DEF Init, Rings
<1>2. ~NonEmpty(txq)
  BY DEF Init, NonEmpty, EmptyRing
<1>3. TypeOK
  <2>1. /\ complete \in BOOLEAN /\ txeie \in BOOLEAN /\ txe \in BOOLEAN /\ tc \in BOOLEAN
        /\ shifting \in BOOLEAN /\ rxne \in BOOLEAN /\ rxErr \in BOOLEAN
        /\ isrClears \in BOOLEAN
    BY Zenon DEF Init
  <2>2. /\ taskPc \in TaskPc /\ left \in 0 .. FrameMax /\ byte_cnt \in 0 .. BufferSize
        /\ byte \in Byte /\ tdr \in Byte /\ rdr \in Byte
    BY DEF Init, TaskPc
  <2> QED
    BY <1>1, <2>1, <2>2 DEF TypeOK, Rings, Consistent
<1>4. Transmission
  BY <1>2 DEF Init, Transmission, CompleteMeansSent
<1>5. RequestQueued
  BY <1>2 DEF Init, RequestQueued
<1> QED
  BY <1>1, <1>3, <1>4, <1>5 DEF IInv

-----------------------------------------------------------------------------
\* The ways a step treats the received bytes: one goes out, one comes in, or none.
LEMMA RxWays ==
    ASSUME Next
    PROVE  \/ NonEmpty(rxq) /\ byte' = Front(rxq) /\ rxq' = Dequeued(RxSize, rxq)
           \/ rxq' = Enqueued(RxSize, rxq, rdr) /\ byte' = byte
           \/ rxq' = rxq /\ byte' = byte
<1>1. CASE TaskStep
  BY <1>1, Zenon DEF TaskStep, Request, SendNext, SendDone, Flush, FlushDataRegister, RecvFirst,
             RecvMore, TimeLeft, TimedOut, RecvByte, RecvNothing, UART1_SendByte, rxVars
<1>2. CASE Isr
  BY <1>2, Zenon DEF Isr, IsrReceive, IsrReceived, IsrTransmit, IsrComplete, rxVars, taskVars
<1>3. CASE Transmitter
  BY <1>3, Zenon DEF Transmitter, LineStart, LineSent, rxVars, taskVars
<1>4. CASE \E b \in Byte, noise \in BOOLEAN : LineReceive(b, noise)
  BY <1>4, Zenon DEF LineReceive, taskVars
<1> QED
  BY <1>1, <1>2, <1>3, <1>4 DEF Next

\* The ways a step treats the bytes to transmit.
LEMMA TxWays ==
    ASSUME Next
    PROVE  \/ \E b \in Byte : SendNext(b)
           \/ NonEmpty(txq) /\ IsrTransmit /\ tdr' = Front(txq) /\ txq' = Dequeued(TxSize, txq)
           \/ txq' = txq /\ tdr' = tdr
<1>1. CASE TaskStep
  BY <1>1, Zenon DEF TaskStep, Request, SendDone, Flush, FlushDataRegister, RecvFirst,
             RecvMore, TimeLeft, TimedOut, txVars
<1>2. CASE Isr
  BY <1>2, Zenon DEF Isr, IsrReceive, IsrReceived, IsrTransmit, IsrComplete, txVars
<1>3. CASE Transmitter
  BY <1>3, Zenon DEF Transmitter, LineStart, LineSent
<1>4. CASE \E b \in Byte, noise \in BOOLEAN : LineReceive(b, noise)
  BY <1>4, Zenon DEF LineReceive, txVars
<1> QED
  BY <1>1, <1>2, <1>3, <1>4 DEF Next

\* Enqueued keeps a ring well formed, full or not.
LEMMA EnqueuedConsistent ==
    ASSUME NEW N \in Nat \ {0}, NEW B, NEW q, Consistent(N, B, q), NEW b \in B
    PROVE  Consistent(N, B, Enqueued(N, q, b))
<1>1. CASE q.full
  BY <1>1 DEF Enqueued
<1>2. CASE ~q.full
  BY <1>2, EnqueuedAppends
<1> QED
  BY <1>1, <1>2

\* Both rings stay well formed.
LEMMA RingsStep ==
    ASSUME IInv, Next
    PROVE  Rings' /\ byte' \in Byte /\ tdr' \in Byte
<1> USE UartAssumption
<1>1. rdr \in Byte /\ byte \in Byte /\ tdr \in Byte
  BY DEF IInv, TypeOK
<1>2. Consistent(RxSize, Byte, rxq) /\ Consistent(TxSize, Byte, txq)
  BY DEF IInv, Rings
<1>3. Consistent(RxSize, Byte, rxq') /\ byte' \in Byte
  <2>1. CASE NonEmpty(rxq) /\ byte' = Front(rxq) /\ rxq' = Dequeued(RxSize, rxq)
    BY <1>2, <2>1, DequeuedTakesHead
  <2>2. CASE rxq' = Enqueued(RxSize, rxq, rdr) /\ byte' = byte
    BY <1>1, <1>2, <2>2, EnqueuedConsistent
  <2> QED
    BY <1>1, <1>2, <2>1, <2>2, RxWays
<1>4. Consistent(TxSize, Byte, txq') /\ tdr' \in Byte
  <2>1. CASE \E b \in Byte : SendNext(b)
    BY <1>1, <1>2, <2>1, EnqueuedConsistent DEF SendNext, UART1_SendByte
  <2>2. CASE NonEmpty(txq) /\ tdr' = Front(txq) /\ txq' = Dequeued(TxSize, txq)
    BY <1>2, <2>2, DequeuedTakesHead
  <2> QED
    BY <1>1, <1>2, <2>1, <2>2, TxWays
<1> QED
  BY <1>3, <1>4 DEF Rings

\* The flags keep their type.
LEMMA FlagsStep ==
    ASSUME IInv, Next
    PROVE  /\ complete' \in BOOLEAN /\ txeie' \in BOOLEAN /\ txe' \in BOOLEAN
           /\ tc' \in BOOLEAN /\ shifting' \in BOOLEAN /\ rxne' \in BOOLEAN
           /\ rxErr' \in BOOLEAN /\ isrClears' \in BOOLEAN
<1>1. /\ complete \in BOOLEAN /\ txeie \in BOOLEAN /\ txe \in BOOLEAN
      /\ tc \in BOOLEAN /\ shifting \in BOOLEAN /\ rxne \in BOOLEAN
      /\ rxErr \in BOOLEAN /\ isrClears \in BOOLEAN
  BY DEF IInv, TypeOK
<1>2. CASE TaskStep
  <2>1. CASE \E b \in Byte : SendNext(b)
    BY <1>1, <2>1, Zenon DEF SendNext, UART1_SendByte, rxVars
  <2> QED
    BY <1>1, <1>2, <2>1, Zenon
       DEF TaskStep, Request, SendDone, Flush, FlushDataRegister, RecvFirst, RecvMore,
           TimeLeft, TimedOut, RecvByte, RecvNothing, txVars, rxVars
<1>3. CASE Isr
  BY <1>1, <1>3, Zenon DEF Isr, IsrReceive, IsrReceived, IsrTransmit, IsrComplete,
                           rxVars, txVars
<1>4. CASE Transmitter
  BY <1>1, <1>4, Zenon DEF Transmitter, LineStart, LineSent, rxVars
<1>5. CASE \E b \in Byte, noise \in BOOLEAN : LineReceive(b, noise)
  BY <1>1, <1>5, Zenon DEF LineReceive, txVars
<1> QED
  BY <1>2, <1>3, <1>4, <1>5 DEF Next

\* So do the variables of the polling task and the data register.
LEMMA TaskTypeStep ==
    ASSUME IInv, Next
    PROVE  /\ taskPc' \in TaskPc /\ left' \in 0 .. FrameMax
           /\ byte_cnt' \in 0 .. BufferSize /\ rdr' \in Byte
<1> USE UartAssumption
<1>1. /\ taskPc \in TaskPc /\ left \in 0 .. FrameMax /\ byte_cnt \in 0 .. BufferSize
      /\ rdr \in Byte
  BY DEF IInv, TypeOK
<1>2. CASE TaskStep
  <2>1. rdr' = rdr
    BY <1>2, Zenon DEF TaskStep, Request, SendNext, SendDone, Flush, FlushDataRegister,
                       RecvFirst, RecvMore, TimeLeft, TimedOut, RecvByte, RecvNothing, rxVars
  <2>2. taskPc' \in TaskPc
    BY <1>2 DEF TaskStep, Request, SendNext, SendDone, Flush, FlushDataRegister,
                RecvFirst, RecvMore, TimeLeft, TimedOut, TaskAt, TaskPc
  <2>3. left' \in 0 .. FrameMax
    BY <1>1, <1>2 DEF TaskStep, Request, SendNext, SendDone, Flush, FlushDataRegister,
                      RecvFirst, RecvMore, TimeLeft, TimedOut
  <2>4. byte_cnt' \in 0 .. BufferSize
    BY <1>1, <1>2 DEF TaskStep, Request, SendNext, SendDone, Flush, FlushDataRegister,
                      RecvFirst, RecvMore, TimeLeft, TimedOut
  <2> QED
    BY <1>1, <2>1, <2>2, <2>3, <2>4
<1>3. CASE Isr
  BY <1>1, <1>3, Zenon DEF Isr, IsrReceive, IsrReceived, IsrTransmit, IsrComplete,
                           rxVars, taskVars
<1>4. CASE Transmitter
  BY <1>1, <1>4, Zenon DEF Transmitter, LineStart, LineSent, rxVars, taskVars
<1>5. CASE \E b \in Byte, noise \in BOOLEAN : LineReceive(b, noise)
  BY <1>1, <1>5, Zenon DEF LineReceive, taskVars
<1> QED
  BY <1>2, <1>3, <1>4, <1>5 DEF Next

\* Only these steps touch the transmitter; the others leave it alone.
LEMMA TransmissionStep ==
    ASSUME IInv, Next
    PROVE  Transmission'
<1> USE UartAssumption
<1>1. /\ complete \in BOOLEAN /\ txeie \in BOOLEAN /\ txe \in BOOLEAN
      /\ tc \in BOOLEAN /\ shifting \in BOOLEAN
      /\ Consistent(TxSize, Byte, txq)
  BY DEF IInv, TypeOK, Rings
<1>2. /\ complete => ~NonEmpty(txq) /\ txe /\ ~shifting
      /\ tc => txe /\ ~shifting
      /\ NonEmpty(txq) => txeie
  BY DEF IInv, Transmission, CompleteMeansSent
<1>3. CASE UNCHANGED <<txq, complete, txeie, txe, tc, shifting>>
  BY <1>2, <1>3, Zenon DEF Transmission, CompleteMeansSent, NonEmpty
<1>4. CASE \E b \in Byte : SendNext(b)
  <2>1. PICK b \in Byte : UART1_SendByte(b)
    BY <1>4 DEF SendNext
  <2>2. ~complete'
    <3>1. txq.full => NonEmpty(txq)
      BY Zenon DEF NonEmpty
    <3> QED
      BY <1>2, <2>1, <3>1, Zenon DEF UART1_SendByte
  <2>3. txeie'
    <3>1. txq.full => NonEmpty(txq)
      BY Zenon DEF NonEmpty
    <3> QED
      BY <1>2, <2>1, <3>1, Zenon DEF UART1_SendByte
  <2> QED
    BY <1>2, <2>1, <2>2, <2>3, Zenon DEF Transmission, CompleteMeansSent, UART1_SendByte
<1>5. CASE IsrTransmit
  <2>1. CASE NonEmpty(txq)
    BY <1>2, <1>5, <2>1, Zenon DEF IsrTransmit, Transmission, CompleteMeansSent
  <2>2. CASE ~NonEmpty(txq)
    BY <1>2, <1>5, <2>2, Zenon DEF IsrTransmit, Transmission, CompleteMeansSent
  <2> QED
    BY <2>1, <2>2
<1>6. CASE IsrComplete
  BY <1>2, <1>6, Zenon DEF IsrComplete, Transmission, CompleteMeansSent
<1>7. CASE LineStart
  BY <1>2, <1>7, Zenon DEF LineStart, Transmission, CompleteMeansSent
<1>8. CASE LineSent
  <2>1. CASE txe
    BY <1>2, <1>8, <2>1, Zenon DEF LineSent, Transmission, CompleteMeansSent
  <2>2. CASE ~txe
    BY <1>2, <1>8, <2>2, Zenon DEF LineSent, Transmission, CompleteMeansSent
  <2> QED
    BY <2>1, <2>2
<1>9. \/ UNCHANGED <<txq, complete, txeie, txe, tc, shifting>>
      \/ \E b \in Byte : SendNext(b)
      \/ IsrTransmit \/ IsrComplete \/ LineStart \/ LineSent
  BY Zenon DEF Next, TaskStep, Isr, Transmitter, Request, SendDone, Flush, FlushDataRegister,
               RecvFirst, RecvMore, TimeLeft, TimedOut, IsrReceive, IsrReceived, LineReceive,
               txVars
<1> QED
  BY <1>3, <1>4, <1>5, <1>6, <1>7, <1>8, <1>9

\* A request starts with the queue empty, and the queue only drains meanwhile.
LEMMA RequestStep ==
    ASSUME IInv, Next
    PROVE  RequestQueued'
<1> USE UartAssumption
<1>1. /\ Consistent(TxSize, Byte, txq) /\ left \in 0 .. FrameMax
      /\ Held(TxSize, txq) \in 0 .. TxSize
      /\ txq.full <=> Held(TxSize, txq) = TxSize
      /\ NonEmpty(txq) <=> Held(TxSize, txq) > 0
  <2>1. Consistent(TxSize, Byte, txq) /\ left \in 0 .. FrameMax
    BY DEF IInv, TypeOK, Rings
  <2> QED
    BY <2>1, HeldBounds
<1>2. /\ left > 0 <=> taskPc = "send"
      /\ taskPc = "send" => Held(TxSize, txq) + left <= FrameMax
      /\ taskPc \notin {"send", "wait"} => ~NonEmpty(txq)
  BY DEF IInv, RequestQueued
<1>3. CASE txq' = txq /\ left' = left /\ taskPc' = taskPc
  BY <1>2, <1>3 DEF RequestQueued, NonEmpty
<1>4. ASSUME NEW n \in 1 .. FrameMax, Request(n) PROVE RequestQueued'
  BY <1>1, <1>2, <1>4 DEF Request, TaskAt, txVars, RequestQueued, NonEmpty
<1>5. ASSUME NEW b \in Byte, SendNext(b) PROVE RequestQueued'
  <2>1. /\ left > 0 /\ taskPc = "send" /\ left' = left - 1
        /\ taskPc' = (IF left = 1 THEN "wait" ELSE "send")
    BY <1>5 DEF SendNext, TaskAt
  <2>2. ~txq.full
    BY <1>1, <1>2, <2>1
  <2>3. Held(TxSize, txq') = Held(TxSize, txq) + 1
    BY <1>1, <1>5, <2>2, EnqueuedAppends DEF SendNext, UART1_SendByte
  <2> QED
    BY <1>1, <1>2, <2>1, <2>3 DEF RequestQueued
<1>6. ASSUME NEW broadcast \in BOOLEAN, SendDone(broadcast) PROVE RequestQueued'
  <2>1. ~NonEmpty(txq)
    BY <1>6 DEF SendDone, IInv, Transmission, CompleteMeansSent
  <2>2. taskPc = "wait" /\ taskPc' \in {"idle", "flush"} /\ left' = left /\ txq' = txq
    BY <1>6 DEF SendDone, TaskAt, txVars
  <2> QED
    BY <1>2, <2>1, <2>2 DEF RequestQueued, NonEmpty
<1>7. CASE Flush \/ FlushDataRegister \/ RecvFirst \/ RecvMore \/ TimeLeft \/ TimedOut
  <2>1. /\ taskPc \notin {"send", "wait"} /\ taskPc' \notin {"send", "wait"}
        /\ left' = left /\ txq' = txq
    BY <1>7 DEF Flush, FlushDataRegister, RecvFirst, RecvMore, TimeLeft, TimedOut, TaskAt, txVars
  <2> QED
    BY <1>2, <2>1 DEF RequestQueued, NonEmpty
<1>8. CASE IsrTransmit
  <2>1. left' = left /\ taskPc' = taskPc
    BY <1>8 DEF IsrTransmit, taskVars
  <2>2. CASE NonEmpty(txq)
    <3>1. Held(TxSize, txq') = Held(TxSize, txq) - 1
      BY <1>1, <1>8, <2>2, DequeuedTakesHead DEF IsrTransmit
    <3> QED
      BY <1>1, <1>2, <2>1, <2>2, <3>1 DEF RequestQueued
  <2>3. CASE ~NonEmpty(txq)
    BY <1>3, <1>8, <2>1, <2>3 DEF IsrTransmit
  <2> QED
    BY <2>2, <2>3
<1>9. CASE \/ IsrReceive \/ IsrReceived \/ IsrComplete \/ LineStart \/ LineSent
           \/ \E b \in Byte, noise \in BOOLEAN : LineReceive(b, noise)
  BY <1>3, <1>9, Zenon DEF IsrReceive, IsrReceived, IsrComplete, LineStart, LineSent, LineReceive,
                    taskVars, txVars
<1> QED
  BY <1>4, <1>5, <1>6, <1>7, <1>8, <1>9, Zenon DEF Next, TaskStep, Isr, Transmitter

LEMMA StepInv == IInv /\ [Next]_vars => IInv'
<1>1. ASSUME IInv, Next PROVE IInv'
  <2>1. TypeOK'
    BY <1>1, RingsStep, FlagsStep, TaskTypeStep DEF TypeOK, Rings, Consistent
  <2> QED
    BY <1>1, <2>1, RingsStep, TransmissionStep, RequestStep DEF IInv
<1>2. ASSUME IInv, UNCHANGED vars PROVE IInv'
  BY <1>2 DEF IInv, TypeOK, Rings, Transmission, CompleteMeansSent, RequestQueued, vars,
              taskVars, txVars, rxVars, NonEmpty
<1> QED
  BY <1>1, <1>2

LEMMA Invariance == Spec => []IInv
<1> QED
  BY InitInv, StepInv, PTL DEF Spec

-----------------------------------------------------------------------------
\* Every variable keeps its type.
THEOREM TypeCorrect == Spec => []TypeOK
<1>1. IInv => TypeOK
  BY DEF IInv
<1> QED
  BY <1>1, Invariance, PTL

\* A transmission reported complete has left the line.
THEOREM CompletionCorrect == Spec => []CompleteMeansSent
<1>1. IInv => CompleteMeansSent
  BY DEF IInv, Transmission
<1> QED
  BY <1>1, Invariance, PTL

\* No byte of a request is dropped.
THEOREM RequestsFit == Spec => []RequestFits
<1>1. ASSUME IInv PROVE RequestFits
  <2>1. Consistent(TxSize, Byte, txq)
    BY <1>1 DEF IInv, Rings
  <2>2. txq.full <=> Held(TxSize, txq) = TxSize
    BY <2>1, UartAssumption, HeldBounds
  <2> QED
    BY <1>1, <2>2, UartAssumption DEF IInv, TypeOK, RequestQueued, RequestFits
<1> QED
  BY <1>1, Invariance, PTL

\* The ring of received bytes implements a queue of RxSize bytes.
THEOREM RxRefinesFifo == Spec => RxIsFifo
<1> USE UartAssumption
<1>1. Init => RxFifo!FifoInit
  BY EmptyRingFacts DEF Init, RxFifo!FifoInit
<1>2. ASSUME IInv, [Next]_vars
      PROVE  [RxFifo!FifoNext]_<<Contents(RxSize, rxq), byte>>
  <2>1. Consistent(RxSize, Byte, rxq) /\ rdr \in Byte
    BY <1>2 DEF IInv, Rings, TypeOK
  <2>2. CASE NonEmpty(rxq) /\ byte' = Front(rxq) /\ rxq' = Dequeued(RxSize, rxq)
    BY <2>1, <2>2, DequeuedTakesHead DEF RxFifo!FifoNext, RxFifo!GetByte
  <2>3. CASE rxq' = Enqueued(RxSize, rxq, rdr) /\ byte' = byte
    <3>1. CASE rxq.full
      <4>1. rxq' = rxq
        BY <2>3, <3>1 DEF Enqueued
      <4> QED
        BY <2>3, <4>1
    <3>2. CASE ~rxq.full
      <4>1. Len(Contents(RxSize, rxq)) < RxSize
        BY <2>1, <3>2, HeldBounds, ContentsFacts
      <4>2. Contents(RxSize, rxq') = Append(Contents(RxSize, rxq), rdr)
        BY <2>1, <2>3, <3>2, EnqueuedAppends
      <4>3. RxFifo!PutByte(rdr)
        BY <2>3, <4>1, <4>2 DEF RxFifo!PutByte
      <4> QED
        BY <2>1, <4>3 DEF RxFifo!FifoNext
    <3> QED
      BY <3>1, <3>2
  <2>4. CASE rxq' = rxq /\ byte' = byte
    BY <2>4
  <2>5. CASE UNCHANGED vars
    BY <2>5 DEF vars, taskVars, rxVars
  <2> QED
    BY <1>2, <2>2, <2>3, <2>4, <2>5, RxWays
<1> QED
  BY <1>1, <1>2, Invariance, PTL DEF Spec, RxIsFifo, RxFifo!Fifo

\* The ring of bytes to transmit implements a queue of TxSize bytes.
THEOREM TxRefinesFifo == Spec => TxIsFifo
<1> USE UartAssumption
<1>1. Init => TxFifo!FifoInit
  BY EmptyRingFacts DEF Init, TxFifo!FifoInit
<1>2. ASSUME IInv, [Next]_vars
      PROVE  [TxFifo!FifoNext]_<<Contents(TxSize, txq), tdr>>
  <2>1. Consistent(TxSize, Byte, txq)
    BY <1>2 DEF IInv, Rings
  <2>2. ASSUME NEW b \in Byte, SendNext(b)
        PROVE  [TxFifo!FifoNext]_<<Contents(TxSize, txq), tdr>>
    <3>1. txq' = Enqueued(TxSize, txq, b) /\ tdr' = tdr
      BY <2>2 DEF SendNext, UART1_SendByte
    <3>2. CASE txq.full
      <4>1. txq' = txq
        BY <3>1, <3>2 DEF Enqueued
      <4> QED
        BY <3>1, <4>1
    <3>3. CASE ~txq.full
      <4>1. Len(Contents(TxSize, txq)) < TxSize
        BY <2>1, <3>3, HeldBounds, ContentsFacts
      <4>2. Contents(TxSize, txq') = Append(Contents(TxSize, txq), b)
        BY <2>1, <3>1, <3>3, EnqueuedAppends
      <4>3. TxFifo!PutByte(b)
        BY <3>1, <4>1, <4>2 DEF TxFifo!PutByte
      <4> QED
        BY <4>3 DEF TxFifo!FifoNext
    <3> QED
      BY <3>2, <3>3
  <2>3. CASE NonEmpty(txq) /\ tdr' = Front(txq) /\ txq' = Dequeued(TxSize, txq)
    BY <2>1, <2>3, DequeuedTakesHead DEF TxFifo!FifoNext, TxFifo!GetByte
  <2>4. CASE txq' = txq /\ tdr' = tdr
    BY <2>4
  <2>5. CASE UNCHANGED vars
    BY <2>5 DEF vars, txVars
  <2> QED
    BY <1>2, <2>2, <2>3, <2>4, <2>5, TxWays
<1> QED
  BY <1>1, <1>2, Invariance, PTL DEF Spec, TxIsFifo, TxFifo!Fifo

-----------------------------------------------------------------------------
(* A transmission ends                                                      *)

\* The steps the handler and the transmitter still have to take: four for each byte in
\* the queue, three for one in the data register, two for one in the shift register.
TxWork ==
    4 * Held(TxSize, txq) + (IF txe THEN 0 ELSE 3) + (IF shifting THEN 2 ELSE 0)
        + (IF tc THEN 1 ELSE 0) + (IF txeie THEN 1 ELSE 0)

\* The end of a transmission is never lost: if it has not been reported there is a byte,
\* or the flag TC, that still leads to it.
EndPending == complete \/ NonEmpty(txq) \/ ~txe \/ shifting \/ tc

TransmissionEnds ==
    [][/\ IsrTransmit \/ IsrComplete \/ Transmitter => TxWork' < TxWork
       /\ TxWork' > TxWork => \E b \in Byte : SendNext(b)]_vars

LEMMA EndStep == IInv /\ EndPending /\ [Next]_vars => EndPending'
<1> SUFFICES ASSUME IInv, EndPending, [Next]_vars PROVE EndPending'
  OBVIOUS
<1>1. ASSUME NEW b \in Byte, SendNext(b) PROVE EndPending'
  <2>1. Consistent(TxSize, Byte, txq)
    BY DEF IInv, Rings
  <2>2. CASE txq.full
    BY <1>1, <2>2 DEF SendNext, UART1_SendByte, Enqueued, EndPending, NonEmpty
  <2>3. CASE ~txq.full
    <3>1. Held(TxSize, txq') = Held(TxSize, txq) + 1 /\ Consistent(TxSize, Byte, txq')
      BY <1>1, <2>1, <2>3, UartAssumption, EnqueuedAppends, EnqueuedConsistent
         DEF SendNext, UART1_SendByte
    <3>2. NonEmpty(txq')
      BY <2>1, <3>1, UartAssumption, HeldBounds
    <3> QED
      BY <3>2 DEF EndPending, NonEmpty
  <2> QED
    BY <2>2, <2>3
<1>2. CASE IsrTransmit
  BY <1>2 DEF IsrTransmit, EndPending, NonEmpty
<1>3. CASE IsrComplete \/ LineStart \/ LineSent
  BY <1>3, Zenon DEF IsrComplete, LineStart, LineSent, EndPending
<1>4. CASE UNCHANGED <<txq, complete, txe, tc, shifting>>
  BY <1>4, Zenon DEF EndPending, NonEmpty
<1>5. \/ UNCHANGED <<txq, complete, txe, tc, shifting>>
      \/ \E b \in Byte : SendNext(b)
      \/ IsrTransmit \/ IsrComplete \/ LineStart \/ LineSent
  BY Zenon DEF Next, TaskStep, Isr, Transmitter, Request, SendDone, Flush, FlushDataRegister,
               RecvFirst, RecvMore, TimeLeft, TimedOut, IsrReceive, IsrReceived, LineReceive,
               txVars, vars
<1> QED
  BY <1>1, <1>2, <1>3, <1>4, <1>5

LEMMA WorkStep ==
    ASSUME IInv, Next
    PROVE  /\ IsrTransmit \/ IsrComplete \/ Transmitter => TxWork' < TxWork
           /\ TxWork' > TxWork => \E b \in Byte : SendNext(b)
<1> DEFINE held == Held(TxSize, txq)
<1>1. Consistent(TxSize, Byte, txq) /\ held \in Nat
  BY UartAssumption, HeldBounds DEF IInv, Rings
<1>2. /\ txeie \in BOOLEAN /\ txe \in BOOLEAN /\ tc \in BOOLEAN /\ shifting \in BOOLEAN
      /\ tc => txe /\ ~shifting
  BY DEF IInv, TypeOK, Transmission
<1>3. ASSUME IsrTransmit PROVE TxWork' < TxWork
  <2>1. CASE NonEmpty(txq)
    <3>1. Held(TxSize, txq') = held - 1
      BY <1>1, <1>3, <2>1, UartAssumption, DequeuedTakesHead DEF IsrTransmit
    <3> HIDE DEF held
    <3>2. TxWork = 4 * held + 1 + (IF shifting THEN 2 ELSE 0) + (IF tc THEN 1 ELSE 0)
      BY <1>1, <1>3 DEF TxWork, IsrTransmit, held
    <3>3. TxWork' = 4 * (held - 1) + 3 + 1 + (IF shifting THEN 2 ELSE 0)
      BY <1>1, <1>3, <2>1, <3>1 DEF TxWork, IsrTransmit
    <3> QED
      BY <1>1, <3>2, <3>3
  <2>2. CASE ~NonEmpty(txq)
    BY <1>1, <1>2, <1>3, <2>2 DEF IsrTransmit, TxWork
  <2> QED
    BY <2>1, <2>2
<1>4. ASSUME IsrComplete \/ LineStart \/ LineSent PROVE TxWork' < TxWork
  BY <1>1, <1>2, <1>4 DEF IsrComplete, LineStart, LineSent, TxWork
<1>5. ASSUME UNCHANGED <<txq, txe, tc, shifting, txeie>> PROVE TxWork' = TxWork
  BY <1>5 DEF TxWork
<1>6. \/ UNCHANGED <<txq, txe, tc, shifting, txeie>>
      \/ \E b \in Byte : SendNext(b)
      \/ IsrTransmit \/ IsrComplete \/ LineStart \/ LineSent
  BY Zenon DEF Next, TaskStep, Isr, Transmitter, Request, SendDone, Flush, FlushDataRegister,
               RecvFirst, RecvMore, TimeLeft, TimedOut, IsrReceive, IsrReceived, LineReceive,
               txVars
<1>7. TxWork \in Int /\ TxWork' \in Int
  <2>1. Held(TxSize, txq') \in Nat
    BY StepInv, UartAssumption, HeldBounds DEF IInv, Rings
  <2> QED
    BY <1>1, <2>1 DEF TxWork
<1> HIDE DEF held
<1>8. TxWork' < TxWork \/ TxWork' = TxWork => ~(TxWork' > TxWork)
  BY <1>7
<1> QED
  BY <1>3, <1>4, <1>5, <1>6, <1>8, Zenon DEF Transmitter

\* The wait of ModbusSend has something to wait for: the end of a transmission is never
\* lost, every step of handler and transmitter brings it nearer, and nothing but the next
\* byte of a request puts it off.
THEOREM TransmissionsEnd ==
    Spec => /\ [](TxWork \in Nat)
            /\ [](taskPc = "wait" /\ ~complete => TxWork > 0)
            /\ TransmissionEnds
<1>1. Init => EndPending
  BY DEF Init, EndPending
<1>2. IInv /\ EndPending => TxWork \in Nat /\ (taskPc = "wait" /\ ~complete => TxWork > 0)
  <2> SUFFICES ASSUME IInv, EndPending
               PROVE  TxWork \in Nat /\ (~complete => TxWork > 0)
    OBVIOUS
  <2>1. Held(TxSize, txq) \in Nat /\ (NonEmpty(txq) <=> Held(TxSize, txq) > 0)
    BY UartAssumption, HeldBounds DEF IInv, Rings
  <2> HIDE DEF Held
  <2> QED
    BY <2>1 DEF TxWork, EndPending
<1>3. IInv /\ [Next]_vars =>
         [/\ IsrTransmit \/ IsrComplete \/ Transmitter => TxWork' < TxWork
          /\ TxWork' > TxWork => \E b \in Byte : SendNext(b)]_vars
  BY WorkStep
<1> QED
  BY <1>1, <1>2, <1>3, EndStep, Invariance, PTL DEF Spec, TransmissionEnds
=============================================================================
