------------------------------- MODULE I2cBus -------------------------------
(***************************************************************************)
(* drivers/i2c_sw.cpp and its one client, drivers/at_eeprom.c, over the two *)
(* lines to the EEPROM.                                                     *)
(*                                                                          *)
(* i2c_sw_bus_timeproc runs in the timer interrupt, 50000 times a second;   *)
(* an action stands for the calls of it that finish a state, and the calls  *)
(* that only toggle the clock change nothing here.  i2c_sw_exec is called   *)
(* by app_data_task until it returns 1; the interrupt and, through it, the  *)
(* EEPROM get on between its look at i2c_bus_state and its look at          *)
(* i2c_error.  In Bus_Idle and in Done the interrupt does nothing, so what  *)
(* exec does there is one step.  Stores are taken in program order.         *)
(*                                                                          *)
(* A message is the request it is made from.  A write has four bytes:       *)
(* device, register, high, low; a read has device, register, device again   *)
(* with the read bit, and two places for the bytes to come.                 *)
(*                                                                          *)
(* A definition commented as a variant is the next one with a plausible     *)
(* slip; no action uses it, it shows which property would notice the slip.  *)
(***************************************************************************)
EXTENDS Integers

CONSTANTS
    Addr,         \* words of the EEPROM
    Byte,
    BlankByte,    \* 0xff
    NoRequest     \* an i2c_data_tx never filled

Word == [0 .. 1 -> Byte]     \* high byte first

Blank == [i \in 0 .. 1 |-> BlankByte]
Zero  == [i \in 0 .. 1 |-> 0]

Request == [op : {"read"}, addr : Addr, word : {Zero}] \union
           [op : {"write"}, addr : Addr, word : Word]

ASSUME I2cAssumption ==
    /\ 0 \in Byte /\ BlankByte \in Byte
    /\ NoRequest \notin Request

BusState == {"Bus_Idle", "Msg_Prepare", "Start_Repeat", "Start", "Cmd_Send",
             "Data_Send", "Data_Read", "Sequence_handle", "Stop", "Done"}

VARIABLES
    i2c_bus_state,
    i2c_error,     \* # I2C_ERR_NONE
    i2c_data_tx, i2c_data_rx,   \* shared by exec and the interrupt
    data_tx, data_rx, data_ptr_tx, data_ptr_rx, bus_data_seq,   \* of the interrupt
    pc,            \* where at_eeprom_rand_read_16 or _byte_write_16 stands
    request,       \* its arguments, while it runs
    wasDone,       \* exec has found the bus in Done
    data,          \* its data[2], zero when it does not run
    answer,        \* history: how the last access ended
    memory,        \* of the EEPROM
    devListens,    \* it follows the message; if not, it waits for a start
    devGot,        \* bytes of the message it has taken
    devAddr        \* its address counter

busVars    == <<data_tx, data_rx, data_ptr_tx, data_ptr_rx, bus_data_seq>>
clientVars == <<pc, request, wasDone, data, answer>>
devVars    == <<memory, devListens, devGot, devAddr>>
vars == <<i2c_bus_state, i2c_error, i2c_data_tx, i2c_data_rx, busVars, clientVars, devVars>>

Init ==
    /\ i2c_bus_state = "Bus_Idle" /\ i2c_error = FALSE
    /\ i2c_data_tx = NoRequest /\ i2c_data_rx = Zero
    /\ data_tx = NoRequest /\ data_rx = Zero /\ data_ptr_tx = 0 /\ data_ptr_rx = 0
    /\ bus_data_seq = "Data_Send"
    /\ pc = "idle" /\ request = NoRequest /\ wasDone = FALSE /\ data = Zero
    /\ answer = [err |-> FALSE, word |-> Zero]
    /\ memory \in [Addr -> Word]
    /\ devListens = FALSE /\ devGot = 0 /\ devAddr \in Addr

-----------------------------------------------------------------------------
(* app_data_task: an access, and i2c_sw_exec                                *)

Access(r) ==
    /\ pc = "idle" /\ pc' = "exec"
    /\ request' = r
    /\ UNCHANGED <<i2c_bus_state, i2c_error, i2c_data_tx, i2c_data_rx, busVars, wasDone,
                   data, answer, devVars>>

ExecIdle ==
    /\ pc = "exec" /\ i2c_bus_state = "Bus_Idle"
    /\ i2c_error' = FALSE /\ i2c_data_rx' = Zero
    /\ i2c_data_tx' = request
    /\ i2c_bus_state' = "Msg_Prepare"
    /\ pc' = "exec_end"
    /\ UNCHANGED <<busVars, request, wasDone, data, answer, devVars>>

\* Variant: a transfer that ended with an error stays where it is.
ExecDoneUnlessError ==
    /\ pc = "exec" /\ i2c_bus_state = "Done"
    /\ data' = IF request.op = "read" THEN i2c_data_rx ELSE data
    /\ i2c_bus_state' = IF i2c_error THEN "Done" ELSE "Bus_Idle"
    /\ wasDone' = TRUE
    /\ pc' = "exec_end"
    /\ UNCHANGED <<i2c_error, i2c_data_tx, i2c_data_rx, busVars, request, answer, devVars>>

ExecDone ==
    /\ pc = "exec" /\ i2c_bus_state = "Done"
    /\ data' = IF request.op = "read" THEN i2c_data_rx ELSE data
    /\ i2c_bus_state' = "Bus_Idle"
    /\ wasDone' = TRUE
    /\ pc' = "exec_end"
    /\ UNCHANGED <<i2c_error, i2c_data_tx, i2c_data_rx, busVars, request, answer, devVars>>

ExecBusy ==
    /\ pc = "exec" /\ i2c_bus_state \notin {"Bus_Idle", "Done"}
    /\ pc' = "exec_end"
    /\ UNCHANGED <<i2c_bus_state, i2c_error, i2c_data_tx, i2c_data_rx, busVars, request,
                   wasDone, data, answer, devVars>>

AccessEnds(word) ==
    /\ request' = NoRequest
    /\ answer' = [err |-> i2c_error, word |-> word]

\* An error ends the call whatever the bus does, and the bus goes on.
ExecReturn ==
    /\ pc = "exec_end"
    /\ wasDone' = FALSE
    /\ IF ~i2c_error /\ ~wasDone
         THEN pc' = "exec" /\ UNCHANGED <<request, answer>>
         ELSE IF request.op = "read"
                THEN pc' = "error_get" /\ UNCHANGED <<request, answer>>
                ELSE pc' = "idle" /\ AccessEnds(Zero)
    /\ UNCHANGED <<i2c_bus_state, i2c_error, i2c_data_tx, i2c_data_rx, busVars, data,
                   devVars>>

\* The end of at_eeprom_rand_read_16; a write does not ask.
ErrorGet ==
    /\ pc = "error_get" /\ pc' = "idle"
    /\ AccessEnds(IF i2c_error THEN Blank ELSE data)
    /\ data' = Zero
    /\ UNCHANGED <<i2c_bus_state, i2c_error, i2c_data_tx, i2c_data_rx, busVars, wasDone,
                   devVars>>

-----------------------------------------------------------------------------
(* The message in data_tx                                                   *)

Size == IF data_tx.op = "read" THEN 5 ELSE 4

\* seq_msg_final: a repeated start, or the stop, follows the byte.
SeqMsgFinal == data_ptr_tx \in (IF data_tx.op = "read" THEN {1, 4} ELSE {3})

\* i2c_next_act_get of the byte: whether it has the read bit
NextAct == IF data_tx.op = "read" /\ data_ptr_tx = 2 THEN "Data_Read" ELSE "Data_Send"

-----------------------------------------------------------------------------
(* i2c_sw_bus_timeproc, and what the EEPROM makes of it                     *)

BusTo(from, to) == i2c_bus_state = from /\ i2c_bus_state' = to

MsgPrepare ==
    /\ BusTo("Msg_Prepare", "Start")
    /\ data_tx' = i2c_data_tx /\ data_rx' = Zero
    /\ data_ptr_tx' = 0 /\ data_ptr_rx' = 0
    /\ UNCHANGED <<i2c_error, i2c_data_tx, i2c_data_rx, bus_data_seq, clientVars, devVars>>

StartRepeat ==
    /\ BusTo("Start_Repeat", "Start")
    /\ UNCHANGED <<i2c_error, i2c_data_tx, i2c_data_rx, busVars, clientVars, devVars>>

\* The first start of a message makes the EEPROM forget what it got of another.
Start ==
    /\ BusTo("Start", "Cmd_Send")
    /\ devListens' = TRUE /\ devGot' = data_ptr_tx
    /\ UNCHANGED <<i2c_error, i2c_data_tx, i2c_data_rx, busVars, clientVars, memory, devAddr>>

CmdSend ==
    /\ BusTo("Cmd_Send", "Data_Send")
    /\ bus_data_seq' = NextAct
    /\ UNCHANGED <<i2c_error, i2c_data_tx, i2c_data_rx, data_tx, data_rx, data_ptr_tx,
                   data_ptr_rx, clientVars, devVars>>

\* The EEPROM takes the byte or, as during a write cycle, does not; the line may be
\* read high although it was acknowledged, but not low if it was not.
DataSend(taken, ack) ==
    /\ BusTo("Data_Send", "Sequence_handle")
    /\ ack => taken
    /\ taken => devListens
    /\ i2c_error' = ~ack
    /\ devListens' = taken
    /\ devGot' = IF taken THEN devGot + 1 ELSE devGot
    /\ devAddr' = IF taken /\ data_ptr_tx = 1 THEN data_tx.addr ELSE devAddr
    /\ UNCHANGED <<i2c_data_tx, i2c_data_rx, busVars, clientVars, memory>>

DataRead ==
    /\ BusTo("Data_Read", "Sequence_handle")
    /\ data_rx' = [data_rx EXCEPT ![data_ptr_rx] = memory[devAddr][data_ptr_rx]]
    /\ data_ptr_rx' = data_ptr_rx + 1
    /\ UNCHANGED <<i2c_error, i2c_data_tx, i2c_data_rx, data_tx, data_ptr_tx, bus_data_seq,
                   clientVars, devVars>>

SequenceGoesOn == i2c_bus_state' = IF SeqMsgFinal THEN "Start_Repeat" ELSE bus_data_seq

\* Variant: <= for <.
SequenceHandleOneMore ==
    /\ i2c_bus_state = "Sequence_handle"
    /\ IF i2c_error
         THEN i2c_bus_state' = "Stop" /\ data_ptr_tx' = data_ptr_tx
         ELSE /\ data_ptr_tx' = data_ptr_tx + 1
              /\ IF data_ptr_tx' <= Size THEN SequenceGoesOn ELSE i2c_bus_state' = "Stop"
    /\ UNCHANGED <<i2c_error, i2c_data_tx, i2c_data_rx, data_tx, data_rx, data_ptr_rx,
                   bus_data_seq, clientVars, devVars>>

\* Variant: goes on after a byte that was not acknowledged.
SequenceHandleIgnoresError ==
    /\ i2c_bus_state = "Sequence_handle"
    /\ data_ptr_tx' = data_ptr_tx + 1
    /\ IF data_ptr_tx' < Size THEN SequenceGoesOn ELSE i2c_bus_state' = "Stop"
    /\ UNCHANGED <<i2c_error, i2c_data_tx, i2c_data_rx, data_tx, data_rx, data_ptr_rx,
                   bus_data_seq, clientVars, devVars>>

SequenceHandle ==
    /\ i2c_bus_state = "Sequence_handle"
    /\ IF i2c_error
         THEN i2c_bus_state' = "Stop" /\ data_ptr_tx' = data_ptr_tx
         ELSE /\ data_ptr_tx' = data_ptr_tx + 1
              /\ IF data_ptr_tx' < Size THEN SequenceGoesOn ELSE i2c_bus_state' = "Stop"
    /\ UNCHANGED <<i2c_error, i2c_data_tx, i2c_data_rx, data_tx, data_rx, data_ptr_rx,
                   bus_data_seq, clientVars, devVars>>

\* A stop makes the EEPROM write the data bytes it got, one or two.
DevWrites ==
    memory' = IF data_tx.op = "read" \/ devGot < 3 THEN memory
              ELSE IF devGot = 3 THEN [memory EXCEPT ![devAddr][0] = data_tx.word[0]]
              ELSE [memory EXCEPT ![devAddr] = data_tx.word]

\* Variant: the bus is idle after a stop.
StopToIdle ==
    /\ BusTo("Stop", "Bus_Idle")
    /\ i2c_data_rx' = data_rx
    /\ DevWrites /\ devListens' = FALSE /\ devGot' = 0
    /\ UNCHANGED <<i2c_error, i2c_data_tx, busVars, clientVars, devAddr>>

Stop ==
    /\ BusTo("Stop", "Done")
    /\ i2c_data_rx' = data_rx
    /\ DevWrites /\ devListens' = FALSE /\ devGot' = 0
    /\ UNCHANGED <<i2c_error, i2c_data_tx, busVars, clientVars, devAddr>>

-----------------------------------------------------------------------------
ExecStep == ExecIdle \/ ExecDone \/ ExecBusy \/ ExecReturn \/ ErrorGet

BusStep ==
    \/ MsgPrepare \/ StartRepeat \/ Start \/ CmdSend
    \/ \E taken, ack \in BOOLEAN : DataSend(taken, ack)
    \/ DataRead \/ SequenceHandle \/ Stop

Next == (\E r \in Request : Access(r)) \/ ExecStep \/ BusStep

Spec == Init /\ [][Next]_vars

\* The timer interrupt is never masked, and the scheduler comes back to app_data_task.
Fairness == WF_vars(BusStep) /\ WF_vars(ExecStep)

FairSpec == Spec /\ Fairness

-----------------------------------------------------------------------------
(* Properties                                                               *)

\* Every variable has its type: the interrupt's two pointers stay in the message.
TypeOK ==
    /\ i2c_bus_state \in BusState /\ i2c_error \in BOOLEAN
    /\ i2c_data_tx \in Request \union {NoRequest} /\ i2c_data_rx \in Word
    /\ data_tx \in Request \union {NoRequest} /\ data_rx \in Word
    /\ data_ptr_tx \in 0 .. 5 /\ data_ptr_rx \in 0 .. 2
    /\ bus_data_seq \in {"Data_Send", "Data_Read"}
    /\ pc \in {"idle", "exec", "exec_end", "error_get"}
    /\ request \in Request \union {NoRequest} /\ wasDone \in BOOLEAN /\ data \in Word
    /\ answer \in [err : BOOLEAN, word : Word]
    /\ memory \in [Addr -> Word] /\ devListens \in BOOLEAN
    /\ devGot \in 0 .. 4 /\ devAddr \in Addr

\* However the task and the interrupt interleave and wherever the EEPROM stops
\* answering, an access without error has reached the memory: it is never answered by
\* what is left of an earlier transfer, whose error outlives it.
Device == INSTANCE Eeprom WITH asked <- request, taken <- i2c_data_tx
IsEeprom == Device!EepromSpec

\* at_eeprom's loops without a timeout end.
AccessReturns == pc # "idle" ~> pc = "idle"

\* A failed transfer does not block the bus: accesses that go on are sent again.
BusRecovers == []<>(pc = "exec") => []<>(i2c_bus_state = "Msg_Prepare")
=============================================================================
