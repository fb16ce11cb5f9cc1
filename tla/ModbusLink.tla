---------------------------- MODULE ModbusLink ----------------------------
(***************************************************************************)
(* drivers/modbus_master.c and drivers/modbus_slave.c: a request, the       *)
(* slave's answer and what the master makes of it.  The slave at the other  *)
(* end is taken to be modbus_slave.c, the one in the repository.            *)
(*                                                                          *)
(* Uart1 models the bytes; here a frame is a record, and what a ring or a   *)
(* buffer holds is nothing, a whole frame, the part of one before a pause,  *)
(* or bytes that are not a frame.  The checksum is taken to be perfect:     *)
(* only a whole frame, with nothing before or after it, has the right one.  *)
(*                                                                          *)
(* A request may be lost or broken, an answer lost, broken, interrupted or  *)
(* late by any time.  The timeouts may elapse whenever the code looks at    *)
(* the clock, which it does after it has found the ring empty: bytes that   *)
(* come in between are left there.                                          *)
(*                                                                          *)
(* A variant is the next definition with a plausible slip; no action uses   *)
(* it.                                                                      *)
(***************************************************************************)
EXTENDS Integers

CONSTANTS
    Regs,         \* the slave's registers are 0 .. Regs - 1 (sModbusRegMap)
    FrameRegs,    \* INTER_COMM_RECEIVE_FRAME, the size of the caller's array (32)
    Value,        \* values of a register
    Garbage,      \* what an uninitialised word of the caller's array holds
    AddrHigh,     \* the high byte of a register address
    Request       \* the requests the polling task may make; slave 0 is a broadcast

\* A request is for at most a frame of registers.  Registers past the slave's last one
\* may be asked for, the settings do not know how many it has.
ASSUME LinkAssumption ==
    /\ Regs \in Nat \ {0} /\ FrameRegs \in Nat \ {0} /\ AddrHigh \in 0 .. 255
    /\ Garbage \notin Value
    /\ \A r \in Request :
         /\ r.slave \in {0, 1} /\ r.fn \in {"read", "write"}
         /\ r.addr \in Nat /\ r.num \in 1 .. FrameRegs
         /\ r.words \in [1 .. r.num -> Value]

VARIABLES
    memory,                 \* the slave's registers
    slavePc,                \* how far ModbusSlaveProc is
    slaveRing, slaveBuffer, \* what the slave has received and not taken, and has taken
    answer,                 \* the answer being sent
    masterPc, request,      \* how far a call of ModbusMaster... is, and the call
    ring, buffer,           \* what the master has received and not taken, and has taken
    lReturn,
    pusOutput, copied,      \* the caller's array, and how many words were copied into it
    late                    \* history: a piece of an answer to an earlier call was taken
                            \* for this one's, that is, it came after the flush

slaveVars  == <<memory, slavePc, slaveRing, slaveBuffer, answer>>
masterVars == <<masterPc, request, buffer, lReturn, pusOutput, copied>>
vars == <<slaveVars, masterVars, ring, late>>

\* Registers of the slave that a request addresses.
InRange(r) == r.addr + r.num <= Regs
Addressed(r) == r.addr .. r.addr + r.num - 1

\* A frame is fresh if it belongs to the call under way.
NoFrame == [fresh |-> FALSE]

Nothing  == [part |-> "nothing", frame |-> NoFrame]
Spoiled  == [part |-> "spoiled", frame |-> NoFrame]
Whole(f) == [part |-> "whole", frame |-> f]
Opening(f) == [part |-> "opening", frame |-> f]
Rest(f) == [part |-> "rest", frame |-> f]

\* Bytes p followed by bytes q.
Joined(p, q) ==
    IF q = Nothing THEN p
    ELSE IF p = Nothing THEN q
    ELSE IF p.part = "opening" /\ q = Rest(p.frame) THEN Whole(p.frame) ELSE Spoiled

\* A frame when another call begins.
Old(f) == IF f.fresh THEN [f EXCEPT !.fresh = FALSE] ELSE f

Aged(p) == [part |-> p.part, frame |-> Old(p.frame)]

Init ==
    /\ memory \in [0 .. Regs - 1 -> Value]
    /\ slavePc = "flush" /\ slaveRing = Nothing /\ slaveBuffer = Nothing
    /\ answer = NoFrame
    /\ masterPc = "idle" /\ request \in Request
    /\ ring = Nothing /\ buffer = Nothing /\ lReturn = "none"
    /\ pusOutput = [i \in 1 .. FrameRegs |-> Garbage] /\ copied = 0
    /\ late = FALSE

-----------------------------------------------------------------------------
(* modbus_master.c                                                          *)

\* The request is built and sent (lines 130-169, 205-234).  It reaches the slave or not, or
\* not as it was.  A broadcast is not answered.
Send(r, arrives) ==
    /\ masterPc = "idle"
    /\ request' = r
    /\ slaveRing' = Joined(Aged(slaveRing), arrives)
    /\ slaveBuffer' = Aged(slaveBuffer)
    /\ answer' = Old(answer)
    /\ ring' = Aged(ring)
    /\ late' = FALSE /\ copied' = 0
    /\ pusOutput' = [i \in 1 .. FrameRegs |-> Garbage]
    /\ IF r.slave = 0 THEN masterPc' = "idle" /\ lReturn' = "MB_OK"
                      ELSE masterPc' = "flush" /\ lReturn' = "none"
    /\ UNCHANGED <<memory, slavePc, buffer>>

\* Variant: what came before the request stays in the ring.
FlushNothing ==
    /\ masterPc = "flush"
    /\ masterPc' = "recv"
    /\ UNCHANGED <<slaveVars, request, ring, buffer, lReturn, pusOutput, copied, late>>

\* UART1_Flush (line 69)
Flush ==
    /\ masterPc = "flush"
    /\ ring' = Nothing
    /\ masterPc' = "recv"
    /\ UNCHANGED <<slaveVars, request, buffer, lReturn, pusOutput, copied, late>>

\* UART1_RecvByte until the ring is empty.
Take ==
    /\ masterPc = "recv" /\ ring # Nothing
    /\ buffer' = Joined(buffer, ring)
    /\ ring' = Nothing
    /\ UNCHANGED <<slaveVars, masterPc, request, lReturn, pusOutput, copied, late>>

Return(result) ==
    /\ lReturn' = result
    /\ masterPc' = "idle"
    /\ buffer' = Nothing
    /\ UNCHANGED <<slaveVars, ring, request, late>>

\* Lines 87-95: not a byte within xModbusFrameTimeout.
FrameTimeout ==
    /\ masterPc = "recv" /\ buffer = Nothing
    /\ Return("MB_ERROR_TIMEOUT")
    /\ UNCHANGED <<pusOutput, copied>>

\* Lines 119-122: silence ends what is received; the checksum or the length is wrong.
ReceivedNothingUseful(result) ==
    /\ masterPc = "recv" /\ buffer.part \in {"opening", "rest", "spoiled"}
    /\ result \in {"MB_ERROR_LENGTH", "MB_ERROR_FORMAT"}
    /\ Return(result)
    /\ UNCHANGED <<pusOutput, copied>>

\* Variant: the function code of the answer is not looked at.
AnswersAny == TRUE

\* Lines 178 and 245.  Neither the slave nor the registers are compared.
AnswersCall == buffer.frame.fn = request.fn

\* Lines 247-250: as many words as the answer says it has.
Copy(frame) ==
    /\ copied' = frame.third \div 2
    /\ pusOutput' = [i \in 1 .. FrameRegs |->
                       IF i <= frame.third \div 2 /\ i \in DOMAIN frame.words
                       THEN frame.words[i] ELSE pusOutput[i]]

Accept ==
    /\ masterPc = "recv" /\ buffer.part = "whole" /\ AnswersCall
    /\ Return("MB_OK")
    /\ IF request.fn = "read" THEN Copy(buffer.frame) ELSE UNCHANGED <<pusOutput, copied>>

RefuseFunction ==
    /\ masterPc = "recv" /\ buffer.part = "whole" /\ ~AnswersCall
    /\ Return("MB_ERROR_FUNCTION")
    /\ UNCHANGED <<pusOutput, copied>>

Master ==
    \/ \E r \in Request :
         \E arrives \in {Nothing, Spoiled, Whole([req |-> r, fresh |-> TRUE])} : Send(r, arrives)
    \/ Flush \/ Take
    \/ FrameTimeout
    \/ \E result \in {"MB_ERROR_LENGTH", "MB_ERROR_FORMAT"} : ReceivedNothingUseful(result)
    \/ Accept \/ RefuseFunction

-----------------------------------------------------------------------------
(* modbus_slave.c                                                           *)

\* UART3_Flush: a request that came while the last one was handled is dropped.
SlaveFlush ==
    /\ slavePc = "flush"
    /\ slaveRing' = Nothing
    /\ slavePc' = "listen"
    /\ UNCHANGED <<memory, slaveBuffer, answer, masterVars, ring, late>>

\* UART3_RecvByte until the ring is empty.
SlaveTake ==
    /\ slavePc = "listen" /\ slaveRing # Nothing
    /\ slaveBuffer' = Joined(slaveBuffer, slaveRing)
    /\ slaveRing' = Nothing
    /\ UNCHANGED <<memory, slavePc, answer, masterVars, ring, late>>

\* The length or the checksum is wrong.
SlaveDrop ==
    /\ slavePc = "listen" /\ slaveBuffer = Spoiled
    /\ slaveBuffer' = Nothing
    /\ slavePc' = "flush"
    /\ UNCHANGED <<memory, slaveRing, answer, masterVars, ring, late>>

Answer(r, fn, third, words) ==
    /\ slaveBuffer' = Nothing
    /\ IF r.req.slave = 0
       THEN slavePc' = "flush" /\ UNCHANGED answer
       ELSE /\ slavePc' = "send"
            /\ answer' = [fn |-> fn, third |-> third, words |-> words, fresh |-> r.fresh]
    /\ UNCHANGED <<slaveRing, masterVars, ring, late>>

\* A whole request has been received.
Parse(r) == slavePc = "listen" /\ slaveBuffer = Whole(r)

SlaveRefuses(r) ==
    /\ Parse(r) /\ ~InRange(r.req)
    /\ Answer(r, "exception", 2, <<>>)
    /\ UNCHANGED memory

\* Variant: the answer's third byte counts the registers, not their bytes.
SlaveReadsShort(r) ==
    /\ Parse(r) /\ InRange(r.req) /\ r.req.fn = "read"
    /\ Answer(r, "read", r.req.num,
              [i \in 1 .. r.req.num |-> memory[r.req.addr + i - 1]])
    /\ UNCHANGED memory

SlaveReads(r) ==
    /\ Parse(r) /\ InRange(r.req) /\ r.req.fn = "read"
    /\ Answer(r, "read", 2 * r.req.num,
              [i \in 1 .. r.req.num |-> memory[r.req.addr + i - 1]])
    /\ UNCHANGED memory

\* The registers whose value RegWrite does not refuse are written, the others are not.
SlaveWrites(r, refused) ==
    /\ Parse(r) /\ InRange(r.req) /\ r.req.fn = "write" /\ refused \subseteq Addressed(r.req)
    /\ memory' = [a \in 0 .. Regs - 1 |->
                    IF a \in Addressed(r.req) \ refused THEN r.req.words[a - r.req.addr + 1]
                    ELSE memory[a]]
    /\ IF refused = {} THEN Answer(r, "write", AddrHigh, <<>>)
                       ELSE Answer(r, "exception", 3, <<>>)

\* A piece of the answer reaches the master's ring.
Deliver(bytes) ==
    /\ ring' = Joined(ring, bytes)
    /\ late' = (late \/ (masterPc = "recv" /\ ~answer.fresh))

SlaveSent == slavePc' = "flush" /\ answer' = NoFrame

\* ModbusSend: the answer arrives whole, with a wrong byte, or not at all ...
SlaveSends ==
    /\ slavePc = "send"
    /\ SlaveSent
    /\ \/ \E bytes \in {Whole(answer), Spoiled} : Deliver(bytes)
       \/ UNCHANGED <<ring, late>>
    /\ UNCHANGED <<memory, slaveRing, slaveBuffer, masterVars>>

\* ... or the sending task is stopped between two bytes.
SlaveSendsOpening ==
    /\ slavePc = "send"
    /\ slavePc' = "pause"
    /\ Deliver(Opening(answer))
    /\ UNCHANGED <<memory, slaveRing, slaveBuffer, answer, masterVars>>

SlaveSendsRest ==
    /\ slavePc = "pause"
    /\ SlaveSent
    /\ Deliver(Rest(answer))
    /\ UNCHANGED <<memory, slaveRing, slaveBuffer, masterVars>>

Slave ==
    \/ SlaveFlush \/ SlaveTake \/ SlaveDrop
    \/ /\ slaveBuffer.part = "whole"
       /\ \E r \in {slaveBuffer.frame} :
            \/ SlaveRefuses(r) \/ SlaveReads(r)
            \/ \E refused \in SUBSET Addressed(r.req) : SlaveWrites(r, refused)
    \/ SlaveSends \/ SlaveSendsOpening \/ SlaveSendsRest

-----------------------------------------------------------------------------

Next == Master \/ Slave

Spec == Init /\ [][Next]_vars

-----------------------------------------------------------------------------
(* Properties                                                               *)

\* A read's answer says how many words it has.
ReadAnswer(n) == [fn : {"read"}, third : {2 * n}, words : [1 .. n -> Value], fresh : BOOLEAN]

OtherAnswer ==
    [fn : {"write", "exception"}, third : 0 .. 255, words : {<<>>}, fresh : BOOLEAN]

AnswerFrame == (UNION {ReadAnswer(n) : n \in 1 .. FrameRegs}) \cup OtherAnswer

RequestFrame == [req : Request, fresh : BOOLEAN]

Received(frames) ==
    [part : {"whole", "opening", "rest"}, frame : frames] \cup {Nothing, Spoiled}

TypeOK ==
    /\ memory \in [0 .. Regs - 1 -> Value]
    /\ slavePc \in {"flush", "listen", "send", "pause"}
    /\ slaveRing \in Received(RequestFrame) /\ slaveBuffer \in Received(RequestFrame)
    /\ answer \in IF slavePc \in {"send", "pause"} THEN AnswerFrame ELSE {NoFrame}
    /\ masterPc \in {"idle", "flush", "recv"}
    /\ request \in Request
    /\ ring \in Received(AnswerFrame) /\ buffer \in Received(AnswerFrame)
    /\ lReturn \in {"none", "MB_OK", "MB_ERROR_TIMEOUT", "MB_ERROR_LENGTH",
                    "MB_ERROR_FORMAT", "MB_ERROR_FUNCTION"}
    /\ pusOutput \in [1 .. FrameRegs -> Value \cup {Garbage}]
    /\ copied \in Nat
    /\ late \in BOOLEAN

\* No answer, to this call or to an earlier one, makes the master copy more words than the
\* caller's array has, although only the answer says how many.
CopyFits == copied <= FrameRegs

\* A call that reports success has been done: the words read are those of the registers
\* asked for, the words written are in the slave.  Losses, broken and interrupted answers
\* and refused values do not change this; an answer to an earlier call that comes after the
\* ring was flushed for this one may.
OkMeansDone ==
    masterPc = "idle" /\ lReturn = "MB_OK" /\ request.slave # 0 /\ ~late =>
        /\ InRange(request)
        /\ \A i \in 1 .. request.num :
            memory[request.addr + i - 1] =
                IF request.fn = "read" THEN pusOutput[i] ELSE request.words[i]

=============================================================================
