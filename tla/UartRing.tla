------------------------------ MODULE UartRing ------------------------------
(* The queues of drivers/uart1.c: RxEnqueue, RxDequeue, TxEnqueue, TxDequeue  *)
(* are the same code on arrays of different sizes N.  A ring is the record of *)
(* its four variables; equal indices mean empty or full, as the flag says.    *)
EXTENDS Integers

Slots(N) == 0 .. N - 1

Ring(N, Byte) == [queue : [Slots(N) -> Byte], read : Slots(N), write : Slots(N),
                  full : BOOLEAN]

\* Zero-initialised static data.
EmptyRing(N) == [queue |-> [i \in Slots(N) |-> 0], read |-> 0, write |-> 0, full |-> FALSE]

Successor(N, i) == (i + 1) % N

\* Variant: the flag is never set.
EnqueuedNeverFull(N, q, b) ==
    [q EXCEPT !.queue[q.write] = b, !.write = Successor(N, q.write)]

\* The ring after RxEnqueue or TxEnqueue, which drop the byte if it is full.
Enqueued(N, q, b) ==
    IF q.full THEN q
    ELSE [q EXCEPT !.queue[q.write] = b,
                   !.write = Successor(N, q.write),
                   !.full = (Successor(N, q.write) = q.read)]

NonEmpty(q) == q.read # q.write \/ q.full

Front(q) == q.queue[q.read]

\* Variant: the flag is not reset.
DequeuedStaysFull(N, q) == [q EXCEPT !.read = Successor(N, q.read)]

\* The ring after a successful RxDequeue or TxDequeue.
Dequeued(N, q) == [q EXCEPT !.read = Successor(N, q.read), !.full = FALSE]

-----------------------------------------------------------------------------
\* The bytes a ring holds, oldest first.
Held(N, q) == IF q.full THEN N
              ELSE IF q.read <= q.write THEN q.write - q.read ELSE q.write + N - q.read

Contents(N, q) ==
    [i \in 1 .. Held(N, q) |->
        q.queue[IF q.read + i - 1 < N THEN q.read + i - 1 ELSE q.read + i - 1 - N]]
=============================================================================
