---------------------------- MODULE BoundedFifo ----------------------------
(* What each of the two byte queues of drivers/uart1.c promises: bytes come   *)
(* out in the order they went in, and what does not fit is dropped.           *)
EXTENDS Sequences, Naturals

CONSTANTS Capacity, Byte

VARIABLES queue, last   \* last: the byte most recently taken out

FifoInit == queue = <<>> /\ last \in Byte

PutByte(b) ==
    /\ Len(queue) < Capacity
    /\ queue' = Append(queue, b)
    /\ last' = last

GetByte ==
    /\ queue # <<>>
    /\ last' = Head(queue)
    /\ queue' = Tail(queue)

FifoNext == GetByte \/ \E b \in Byte : PutByte(b)

Fifo == FifoInit /\ [][FifoNext]_<<queue, last>>
=============================================================================
