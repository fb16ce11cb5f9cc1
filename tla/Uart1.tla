------------------------------- MODULE Uart1 -------------------------------
(***************************************************************************)
(* drivers/uart1.c and its one client, ModbusSend and ModbusRecv of         *)
(* drivers/modbus_master.c, over the registers of USART1.                   *)
(*                                                                          *)
(* USART1_IRQHandler moves bytes between the data register and the rings    *)
(* and says when a transmission is complete.  UART1_SendByte and            *)
(* UART1_RecvByte keep it out, so each is one step; between two of them the *)
(* interrupt, the line and the tick counter take any number of steps.  The  *)
(* handler is one step too, except that it clears RXNE a second time after  *)
(* it has read the data register.                                           *)
(*                                                                          *)
(* A definition commented as a variant is the next one with a plausible     *)
(* slip; no action uses it, it shows which property would notice the slip.  *)
(***************************************************************************)
EXTENDS Integers, UartRing

CONSTANTS
    RxSize,      \* RX_QUEUE_SIZE (16)
    TxSize,      \* TX_QUEUE_SIZE (256)
    BufferSize,  \* BUFFER_SIZE of modbus_master.c (512)
    FrameMax,    \* bytes of the longest request: 9 + 2 * 8 registers
    Byte

ASSUME UartAssumption ==
    /\ RxSize \in Nat \ {0} /\ TxSize \in Nat \ {0} /\ BufferSize \in Nat \ {0}
    /\ FrameMax \in 1 .. TxSize
    /\ 0 \in Byte

TaskPc == {"idle", "send", "wait", "flush", "flush_dr",
           "first", "first_time", "more", "more_time"}

VARIABLES
    rxq, txq,    \* the two rings
    complete,    \* ucTransmittionComplete
    taskPc,      \* where the polling task stands
    left,        \* bytes of the request not yet given to UART1_SendByte
    byte_cnt,    \* bytes ModbusRecv has stored
    byte,        \* what the last successful UART1_RecvByte returned
    txeie,       \* USART_IT_TXE enabled (RXNE and TC always are)
    txe, tc,     \* flags of the status register
    tdr,         \* transmit data register
    shifting,    \* the transmitter's shift register holds a byte
    rxne,        \* a received byte waits in rdr
    rxErr,       \* NE, FE, PE or ORE
    rdr,
    isrClears    \* the handler is about to clear RXNE

taskVars == <<taskPc, left, byte_cnt, byte>>
txVars   == <<txq, complete, txeie, txe, tc, tdr, shifting>>
rxVars   == <<rxq, rxne, rxErr, rdr, isrClears>>
vars == <<taskVars, txVars, rxVars>>

\* After UART1_Init: TXE and TC are set in the reset value of the status register.
Init ==
    /\ rxq = EmptyRing(RxSize) /\ txq = EmptyRing(TxSize)
    /\ complete = FALSE
    /\ taskPc = "idle" /\ left = 0 /\ byte_cnt = 0 /\ byte = 0
    /\ txeie = FALSE /\ txe = TRUE /\ tc = TRUE /\ tdr = 0 /\ shifting = FALSE
    /\ rxne = FALSE /\ rxErr = FALSE /\ rdr = 0 /\ isrClears = FALSE

-----------------------------------------------------------------------------
(* The polling task, when the handler is not running.                       *)

TaskAt(from, to) == ~isrClears /\ taskPc = from /\ taskPc' = to

\* ModbusMasterReadInputRegs or -WriteMultipleRegs builds a request of n bytes.
Request(n) ==
    /\ TaskAt("idle", "send")
    /\ left' = n
    /\ UNCHANGED <<byte_cnt, byte, txVars, rxVars>>

\* Variant: ucTransmittionComplete is not reset.
SendByteKeepsComplete(b) ==
    /\ txq' = Enqueued(TxSize, txq, b)
    /\ txeie' = TRUE
    /\ UNCHANGED <<complete, txe, tc, tdr, shifting>>

UART1_SendByte(b) ==
    /\ txq' = Enqueued(TxSize, txq, b)
    /\ complete' = (complete /\ txq.full)
    /\ txeie' = (txeie \/ ~txq.full)
    /\ UNCHANGED <<txe, tc, tdr, shifting>>

\* A byte that does not fit is dropped: ModbusSend yields, then takes the next.
SendNext(b) ==
    /\ left > 0
    /\ TaskAt("send", IF left = 1 THEN "wait" ELSE "send")
    /\ left' = left - 1
    /\ UART1_SendByte(b)
    /\ UNCHANGED <<byte_cnt, byte, rxVars>>

\* Slave 0 is a broadcast, which no one answers.
SendDone(broadcast) ==
    /\ TaskAt("wait", IF broadcast THEN "idle" ELSE "flush")
    /\ complete
    /\ UNCHANGED <<left, byte_cnt, byte, txVars, rxVars>>

RecvByte ==
    /\ NonEmpty(rxq)
    /\ byte' = Front(rxq)
    /\ rxq' = Dequeued(RxSize, rxq)
    /\ UNCHANGED <<rxne, rxErr, rdr, isrClears>>

RecvNothing ==
    /\ ~NonEmpty(rxq)
    /\ UNCHANGED <<byte, rxVars>>

Flush ==
    /\ \/ TaskAt("flush", "flush") /\ RecvByte
       \/ TaskAt("flush", "flush_dr") /\ RecvNothing
    /\ UNCHANGED <<left, byte_cnt, txVars>>

\* The dummy USART_ReceiveData that ends UART1_Flush.
FlushDataRegister ==
    /\ TaskAt("flush_dr", "first")
    /\ rxne' = FALSE
    /\ byte_cnt' = 0
    /\ UNCHANGED <<left, byte, txVars, rxq, rxErr, rdr, isrClears>>

RecvFirst ==
    /\ \/ TaskAt("first", "more") /\ RecvByte /\ byte_cnt' = 1
       \/ TaskAt("first", "first_time") /\ RecvNothing /\ byte_cnt' = byte_cnt
    /\ UNCHANGED <<left, txVars>>

\* Variant: the test against BUFFER_SIZE is missing.
RecvMoreUnbounded ==
    /\ \/ TaskAt("more", "more") /\ RecvByte /\ byte_cnt' = byte_cnt + 1
       \/ TaskAt("more", "more_time") /\ RecvNothing /\ byte_cnt' = byte_cnt
    /\ UNCHANGED <<left, txVars>>

RecvMore ==
    /\ \/ /\ TaskAt("more", "more") /\ RecvByte
          /\ byte_cnt' = IF byte_cnt < BufferSize THEN byte_cnt + 1 ELSE byte_cnt
       \/ TaskAt("more", "more_time") /\ RecvNothing /\ byte_cnt' = byte_cnt
    /\ UNCHANGED <<left, txVars>>

\* The tick counter is read after the ring was found empty: bytes may have come in.
TimeLeft ==
    /\ TaskAt("first_time", "first") \/ TaskAt("more_time", "more")
    /\ UNCHANGED <<left, byte_cnt, byte, txVars, rxVars>>

TimedOut ==
    /\ TaskAt("first_time", "idle") \/ TaskAt("more_time", "idle")
    /\ UNCHANGED <<left, byte_cnt, byte, txVars, rxVars>>

-----------------------------------------------------------------------------
(* USART1_IRQHandler                                                        *)

IsrReceive ==
    /\ ~isrClears /\ rxne
    /\ rxq' = IF rxErr THEN rxq ELSE Enqueued(RxSize, rxq, rdr)
    /\ rxne' = FALSE /\ rxErr' = FALSE
    /\ isrClears' = TRUE
    /\ UNCHANGED <<rdr, taskVars, txVars>>

\* USART_ClearITPendingBit: also forgets a byte that came in after the last step.
IsrReceived ==
    /\ isrClears /\ isrClears' = FALSE
    /\ rxne' = FALSE
    /\ UNCHANGED <<rxq, rxErr, rdr, taskVars, txVars>>

\* Variant: TC is cleared on both branches.
IsrTransmitClearsTC ==
    /\ ~isrClears /\ ~rxne /\ txeie /\ txe
    /\ tc' = FALSE
    /\ IF NonEmpty(txq)
         THEN /\ tdr' = Front(txq) /\ txq' = Dequeued(TxSize, txq)
              /\ txe' = FALSE
              /\ txeie' = txeie
         ELSE /\ txeie' = FALSE
              /\ UNCHANGED <<tdr, txq, txe>>
    /\ UNCHANGED <<complete, shifting, taskVars, rxVars>>

\* Writing the data register after the status was read also clears TC.
IsrTransmit ==
    /\ ~isrClears /\ ~rxne /\ txeie /\ txe
    /\ IF NonEmpty(txq)
         THEN /\ tdr' = Front(txq) /\ txq' = Dequeued(TxSize, txq)
              /\ txe' = FALSE /\ tc' = FALSE
              /\ txeie' = txeie
         ELSE /\ txeie' = FALSE
              /\ UNCHANGED <<tdr, txq, txe, tc>>
    /\ UNCHANGED <<complete, shifting, taskVars, rxVars>>

\* Variant: tested before TXE.
IsrCompleteFirst ==
    /\ ~isrClears /\ ~rxne /\ tc
    /\ complete' = TRUE
    /\ tc' = FALSE
    /\ UNCHANGED <<txq, txeie, txe, tdr, shifting, taskVars, rxVars>>

IsrComplete ==
    /\ ~isrClears /\ ~rxne /\ ~(txeie /\ txe) /\ tc
    /\ complete' = TRUE
    /\ tc' = FALSE
    /\ UNCHANGED <<txq, txeie, txe, tdr, shifting, taskVars, rxVars>>

-----------------------------------------------------------------------------
(* The USART and the line.                                                  *)

LineStart ==
    /\ ~txe /\ ~shifting
    /\ txe' = TRUE /\ shifting' = TRUE
    /\ UNCHANGED <<txq, complete, txeie, tc, tdr, taskVars, rxVars>>

\* A byte has left: the next one waits in tdr, or the line falls idle.
LineSent ==
    /\ shifting
    /\ IF txe THEN shifting' = FALSE /\ tc' = TRUE /\ txe' = txe
              ELSE txe' = TRUE /\ UNCHANGED <<shifting, tc>>
    /\ UNCHANGED <<txq, complete, txeie, tdr, taskVars, rxVars>>

\* A byte comes in, with or without noise; one that is not read in time is kept
\* and the new one is lost to an overrun.
LineReceive(b, noise) ==
    /\ IF rxne THEN rxErr' = TRUE /\ UNCHANGED <<rxne, rdr>>
               ELSE rxne' = TRUE /\ rdr' = b /\ rxErr' = (rxErr \/ noise)
    /\ UNCHANGED <<rxq, isrClears, taskVars, txVars>>

-----------------------------------------------------------------------------
TaskStep ==
    \/ \E n \in 1 .. FrameMax : Request(n)
    \/ \E b \in Byte : SendNext(b)
    \/ \E broadcast \in BOOLEAN : SendDone(broadcast)
    \/ Flush \/ FlushDataRegister \/ RecvFirst \/ RecvMore
    \/ TimeLeft \/ TimedOut

Isr == IsrReceive \/ IsrReceived \/ IsrTransmit \/ IsrComplete

Transmitter == LineStart \/ LineSent

Next ==
    \/ TaskStep \/ Isr \/ Transmitter
    \/ \E b \in Byte, noise \in BOOLEAN : LineReceive(b, noise)

Spec == Init /\ [][Next]_vars

\* The task runs in every render cycle, the hardware does not stop, and a pending
\* interrupt is served however many bytes come in meanwhile.
Fairness ==
    /\ SF_vars(TaskStep)
    /\ WF_vars(Transmitter)
    /\ WF_vars(IsrReceive \/ IsrReceived)
    /\ SF_vars(IsrTransmit) /\ SF_vars(IsrComplete)

FairSpec == Spec /\ Fairness

-----------------------------------------------------------------------------
(* Properties                                                               *)

\* Every variable has its type; ModbusRecv never stores past its buffer.
TypeOK ==
    /\ rxq \in Ring(RxSize, Byte) /\ txq \in Ring(TxSize, Byte)
    /\ complete \in BOOLEAN
    /\ taskPc \in TaskPc /\ left \in 0 .. FrameMax
    /\ byte_cnt \in 0 .. BufferSize /\ byte \in Byte
    /\ txeie \in BOOLEAN /\ txe \in BOOLEAN /\ tc \in BOOLEAN
    /\ tdr \in Byte /\ shifting \in BOOLEAN
    /\ rxne \in BOOLEAN /\ rxErr \in BOOLEAN /\ rdr \in Byte /\ isrClears \in BOOLEAN

\* When the driver says so, everything given to UART1_SendByte has left the line.
CompleteMeansSent == complete => ~NonEmpty(txq) /\ txe /\ ~shifting

\* No byte of a request is dropped by ModbusSend, which takes the next byte whether
\* or not UART1_SendByte had room: a request finds the queue empty, and fits it.
RequestFits == left > 0 => ~txq.full

\* The interrupt and the polling task see one queue of received bytes ...
RxFifo == INSTANCE BoundedFifo
            WITH Capacity <- RxSize, queue <- Contents(RxSize, rxq), last <- byte
RxIsFifo == RxFifo!Fifo

\* ... and one queue of bytes to transmit.
TxFifo == INSTANCE BoundedFifo
            WITH Capacity <- TxSize, queue <- Contents(TxSize, txq), last <- tdr
TxIsFifo == TxFifo!Fifo

\* ModbusSend's wait for the end of the transmission ends.
SendReturns == taskPc = "wait" ~> taskPc # "wait"
=============================================================================
