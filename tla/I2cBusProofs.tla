--------------------------- MODULE I2cBusProofs ---------------------------
(***************************************************************************)
(* Proofs about I2cBus for every set of addresses and bytes.                *)
(*                                                                          *)
(* IInv follows a message through the states of the bus: how much of it the *)
(* EEPROM has taken, and that an error ends it.  A transfer without error   *)
(* is the one of the access in progress (Owned), because the only way from  *)
(* Done without error leads through the access that waits for it.           *)
(***************************************************************************)
EXTENDS I2cBus, TLAPS

Reading == data_tx.op = "read"

\* Which of its two kinds of message the interrupt works on.
Copied ==
    /\ i2c_bus_state # "Bus_Idle" => i2c_data_tx \in Request
    /\ i2c_bus_state \notin {"Bus_Idle", "Msg_Prepare"} => data_tx = i2c_data_tx

\* A transfer without error belongs to the access in progress.
Owned ==
    i2c_bus_state # "Bus_Idle" /\ ~i2c_error =>
        pc \in {"exec", "exec_end"} /\ request = i2c_data_tx

Client ==
    /\ request = NoRequest <=> pc = "idle"
    /\ pc = "error_get" => request.op = "read"
    /\ wasDone => pc = "exec_end" /\ i2c_bus_state = "Bus_Idle"
    /\ pc = "error_get" /\ ~i2c_error => i2c_bus_state = "Bus_Idle"

\* word is what an access r without error brings; for a write, r is in the memory.
Fulfilled(r, word) == IF r.op = "read" THEN word = memory[r.addr]
                                       ELSE memory[r.addr] = r.word

Served ==
    /\ i2c_bus_state = "Done" /\ ~i2c_error => Fulfilled(i2c_data_tx, i2c_data_rx)
    /\ (wasDone \/ pc = "error_get") /\ ~i2c_error =>
          i2c_data_tx = request /\ Fulfilled(request, data)

\* The EEPROM has the address of the message.
Addressed == devAddr = data_tx.addr

AtStart ==
    /\ ~i2c_error /\ data_ptr_rx = 0
    /\ \/ data_ptr_tx = 0
       \/ Reading /\ data_ptr_tx = 2 /\ Addressed

AtSend ==
    /\ data_ptr_rx = 0 /\ data_ptr_tx \in 0 .. (IF Reading THEN 2 ELSE 3)
    /\ data_ptr_tx >= 2 => Addressed

\* Where the message stands in each state of the bus.
Progress ==
    /\ i2c_bus_state = "Msg_Prepare" => ~i2c_error
    /\ i2c_bus_state = "Start_Repeat" => AtStart /\ data_ptr_tx = 2
    /\ i2c_bus_state = "Start" => AtStart
    /\ i2c_bus_state = "Cmd_Send" => AtStart /\ devListens /\ devGot = data_ptr_tx
    /\ i2c_bus_state = "Data_Send" =>
          /\ ~i2c_error /\ AtSend /\ devListens /\ devGot = data_ptr_tx
          /\ bus_data_seq = NextAct
    /\ i2c_bus_state = "Data_Read" =>
          /\ ~i2c_error /\ Reading /\ Addressed /\ bus_data_seq = "Data_Read"
          /\ data_ptr_tx \in 3 .. 4 /\ data_ptr_rx = data_ptr_tx - 3
          /\ data_ptr_rx = 1 => data_rx[0] = memory[data_tx.addr][0]
    /\ i2c_bus_state = "Sequence_handle" =>
          \/ /\ AtSend /\ devGot \in data_ptr_tx .. data_ptr_tx + 1
             /\ ~i2c_error => devListens /\ devGot = data_ptr_tx + 1
             /\ devGot >= 2 => Addressed
             /\ bus_data_seq = NextAct
          \/ /\ ~i2c_error /\ Reading /\ Addressed /\ bus_data_seq = "Data_Read"
             /\ data_ptr_tx \in 3 .. 4 /\ data_ptr_rx = data_ptr_tx - 2
             /\ \A i \in 0 .. data_ptr_rx - 1 : data_rx[i] = memory[data_tx.addr][i]
    /\ i2c_bus_state = "Stop" =>
          /\ devGot >= 2 => Addressed
          /\ ~i2c_error => IF Reading THEN data_rx = memory[data_tx.addr] ELSE devGot = 4

IInv == TypeOK /\ Copied /\ Owned /\ Client /\ Served /\ Progress

-----------------------------------------------------------------------------
\* A request is a record of its kind, and NoRequest is none.
LEMMA Requests ==
    ASSUME NEW r \in Request
    PROVE  /\ r # NoRequest /\ r.op \in {"read", "write"} /\ r.addr \in Addr
           /\ r.word \in Word
           /\ r.op = "read" => r.word = Zero
  BY I2cAssumption DEF Request, Word, Zero

LEMMA Words == Zero \in Word /\ Blank \in Word
  BY I2cAssumption DEF Zero, Blank, Word

LEMMA InitIInv == Init => IInv
<1> SUFFICES ASSUME Init PROVE IInv
  OBVIOUS
<1>1. TypeOK
  <2>1. [err |-> FALSE, word |-> Zero] \in [err : BOOLEAN, word : Word]
    BY Words
  <2>2. i2c_error \in BOOLEAN /\ wasDone \in BOOLEAN /\ devListens \in BOOLEAN
    BY DEF Init
  <2>3. /\ pc \in {"idle", "exec", "exec_end", "error_get"} /\ i2c_bus_state \in BusState
        /\ bus_data_seq \in {"Data_Send", "Data_Read"}
    BY DEF Init, BusState
  <2>4. /\ data_ptr_tx \in 0 .. 5 /\ data_ptr_rx \in 0 .. 2 /\ devGot \in 0 .. 4
        /\ i2c_data_rx \in Word /\ data_rx \in Word /\ data \in Word
    BY Words DEF Init
  <2> QED
    BY <2>1, <2>2, <2>3, <2>4 DEF Init, TypeOK
<1>2. Copied /\ Owned /\ Client /\ Served /\ Progress
  BY DEF Init, Copied, Owned, Client, Served, Progress
<1> QED
  BY <1>1, <1>2 DEF IInv

-----------------------------------------------------------------------------
(* Type correctness                                                         *)

LEMMA TypeStep == IInv /\ [Next]_vars => TypeOK'
<1> SUFFICES ASSUME IInv, [Next]_vars PROVE TypeOK'
  OBVIOUS
<1> USE DEF IInv, TypeOK, BusState
<1>1. ASSUME NEW r \in Request, Access(r) PROVE TypeOK'
  BY <1>1 DEF Access, busVars, devVars
<1>2. CASE ExecIdle
  BY <1>2, Words DEF ExecIdle, busVars, devVars
<1>3. CASE ExecDone
  BY <1>3 DEF ExecDone, busVars, devVars
<1>4. CASE ExecBusy
  BY <1>4 DEF ExecBusy, busVars, devVars
<1>5. CASE ExecReturn
  <2>1. request' \in Request \union {NoRequest} /\ pc' \in {"idle", "exec", "exec_end", "error_get"}
    BY <1>5 DEF ExecReturn, AccessEnds
  <2>2. answer' \in [err : BOOLEAN, word : Word]
    BY <1>5, Words DEF ExecReturn, AccessEnds
  <2> QED
    BY <1>5, <2>1, <2>2 DEF ExecReturn, busVars, devVars
<1>6. CASE ErrorGet
  BY <1>6, Words DEF ErrorGet, AccessEnds, busVars, devVars
<1>7. CASE MsgPrepare
  BY <1>7, Words DEF MsgPrepare, BusTo, clientVars, devVars
<1>8. CASE StartRepeat
  BY <1>8 DEF StartRepeat, BusTo, busVars, clientVars, devVars
<1>9. CASE Start
  BY <1>9 DEF Start, BusTo, busVars, clientVars, Progress, AtStart
<1>10. CASE CmdSend
  BY <1>10 DEF CmdSend, BusTo, clientVars, devVars, NextAct
<1>11. ASSUME NEW taken \in BOOLEAN, NEW ack \in BOOLEAN, DataSend(taken, ack) PROVE TypeOK'
  <2>1. data_tx \in Request /\ data_ptr_tx \in 0 .. 3 /\ devGot = data_ptr_tx
    BY <1>11 DEF DataSend, BusTo, Copied, Progress, AtSend
  <2> QED
    BY <1>11, <2>1, Requests DEF DataSend, BusTo, busVars, clientVars
<1>12. CASE DataRead
  <2>1. data_ptr_rx \in 0 .. 1
    BY <1>12 DEF DataRead, BusTo, Progress
  <2>2. memory[devAddr][data_ptr_rx] \in Byte
    BY <2>1 DEF Word
  <2>3. data_rx' \in Word
    BY <1>12, <2>1, <2>2 DEF DataRead, Word
  <2> QED
    BY <1>12, <2>1, <2>3 DEF DataRead, BusTo, clientVars, devVars
<1>13. CASE SequenceHandle
  <2>1. i2c_error \/ data_ptr_tx \in 0 .. 4
    BY <1>13 DEF SequenceHandle, Progress, AtSend
  <2> QED
    BY <1>13, <2>1 DEF SequenceHandle, SequenceGoesOn, clientVars, devVars
<1>14. CASE Stop
  <2>1. data_tx \in Request
    BY <1>14 DEF Stop, BusTo, Copied
  <2>2. memory' \in [Addr -> Word]
    BY <1>14, <2>1, Requests DEF Stop, DevWrites, Word
  <2>3. devListens' \in BOOLEAN
    BY <1>14 DEF Stop
  <2>4. devGot' \in 0 .. 4
    <3>1. devGot' = 0
      BY <1>14 DEF Stop
    <3> QED
      BY <3>1
  <2> QED
    BY <1>14, <2>2, <2>3, <2>4 DEF Stop, BusTo, busVars, clientVars
<1>15. CASE UNCHANGED vars
  BY <1>15 DEF vars, busVars, clientVars, devVars
<1> QED
  BY <1>1, <1>2, <1>3, <1>4, <1>5, <1>6, <1>7, <1>8, <1>9, <1>10, <1>11, <1>12, <1>13,
     <1>14, <1>15 DEF Next, ExecStep, BusStep

-----------------------------------------------------------------------------
(* Whose transfer it is                                                     *)

\* The interrupt goes from state to state of a message, and never out of Bus_Idle or
\* Done nor into Bus_Idle; an error can only come up where a byte is sent.
LEMMA BusMoves ==
    ASSUME IInv, BusStep
    PROVE  /\ i2c_bus_state \notin {"Bus_Idle", "Done"} /\ i2c_bus_state' # "Bus_Idle"
           /\ i2c_bus_state' # "Msg_Prepare"
           /\ i2c_error => i2c_error'
           /\ UNCHANGED <<i2c_data_tx, clientVars>>
           /\ data_tx' = IF i2c_bus_state = "Msg_Prepare" THEN i2c_data_tx ELSE data_tx
<1> USE DEF IInv, BusTo, busVars, clientVars
<1>1. CASE MsgPrepare
  BY <1>1 DEF MsgPrepare
<1>2. CASE StartRepeat
  BY <1>2 DEF StartRepeat
<1>3. CASE Start
  BY <1>3 DEF Start
<1>4. CASE CmdSend
  BY <1>4 DEF CmdSend
<1>5. ASSUME NEW taken \in BOOLEAN, NEW ack \in BOOLEAN, DataSend(taken, ack)
      PROVE  ~i2c_error /\ i2c_bus_state = "Data_Send"
  BY <1>5 DEF DataSend, Progress
<1>6. CASE DataRead
  BY <1>6 DEF DataRead
<1>7. CASE SequenceHandle
  BY <1>7 DEF SequenceHandle, SequenceGoesOn, TypeOK
<1>8. CASE Stop
  BY <1>8 DEF Stop
<1> QED
  BY <1>1, <1>2, <1>3, <1>4, <1>5, <1>6, <1>7, <1>8 DEF BusStep, DataSend

LEMMA OwnedStep == IInv /\ [Next]_vars => Copied' /\ Owned' /\ Client'
<1> SUFFICES ASSUME IInv, [Next]_vars PROVE Copied' /\ Owned' /\ Client'
  OBVIOUS
<1> USE DEF IInv, TypeOK, Copied, Owned, Client
<1>1. ASSUME NEW r \in Request, Access(r) PROVE Copied' /\ Owned' /\ Client'
  BY <1>1, Requests DEF Access, busVars, devVars
<1>2. CASE ExecIdle
  BY <1>2, Requests DEF ExecIdle, busVars, devVars
<1>3. CASE ExecDone
  BY <1>3 DEF ExecDone, busVars, devVars
<1>4. CASE ExecBusy
  BY <1>4 DEF ExecBusy, busVars, devVars
<1>5. CASE ExecReturn
  BY <1>5 DEF ExecReturn, AccessEnds, busVars, devVars
<1>6. CASE ErrorGet
  BY <1>6 DEF ErrorGet, AccessEnds, busVars, devVars
<1>7. CASE BusStep
  BY <1>7, BusMoves DEF clientVars
<1>8. CASE UNCHANGED vars
  BY <1>8 DEF vars, busVars, clientVars, devVars
<1> QED
  BY <1>1, <1>2, <1>3, <1>4, <1>5, <1>6, <1>7, <1>8 DEF Next, ExecStep

-----------------------------------------------------------------------------
(* What has been transferred                                                *)

\* A stop that no error has caused leaves the access fulfilled.
LEMMA StopFulfils ==
    ASSUME IInv, Stop, ~i2c_error
    PROVE  Fulfilled(i2c_data_tx, i2c_data_rx)'
<1>1. /\ data_tx \in Request /\ data_tx = i2c_data_tx
      /\ devGot >= 2 => Addressed
      /\ IF Reading THEN data_rx = memory[data_tx.addr] ELSE devGot = 4
  BY DEF IInv, Stop, BusTo, Copied, Progress
<1>2. i2c_data_tx' = i2c_data_tx /\ i2c_data_rx' = data_rx
  BY DEF Stop
<1>3. DevWrites
  BY DEF Stop
<1>4. memory \in [Addr -> Word]
  BY DEF IInv, TypeOK
<1>5. CASE Reading
  BY <1>1, <1>2, <1>3, <1>5 DEF DevWrites, Fulfilled, Reading
<1>6. CASE ~Reading
  BY <1>1, <1>2, <1>3, <1>4, <1>6, Requests DEF DevWrites, Fulfilled, Reading, Addressed
<1> QED
  BY <1>5, <1>6

LEMMA ServedStep == IInv /\ [Next]_vars => Served'
<1> SUFFICES ASSUME IInv, [Next]_vars PROVE Served'
  OBVIOUS
<1> USE DEF IInv, Owned, Client, Served, Fulfilled
<1>1. ASSUME NEW r \in Request, Access(r) PROVE Served'
  BY <1>1 DEF Access, busVars, devVars
<1>2. CASE ExecIdle
  BY <1>2 DEF ExecIdle, busVars, devVars
<1>3. CASE ExecDone
  BY <1>3 DEF ExecDone, busVars, devVars
<1>4. CASE ExecBusy
  BY <1>4 DEF ExecBusy, busVars, devVars
<1>5. CASE ExecReturn
  BY <1>5 DEF ExecReturn, AccessEnds, busVars, devVars
<1>6. CASE ErrorGet
  BY <1>6 DEF ErrorGet, AccessEnds, busVars, devVars
<1>7. CASE BusStep
  <2>1. ~((wasDone \/ pc = "error_get") /\ ~i2c_error)'
    BY <1>7, BusMoves DEF clientVars
  <2>2. CASE i2c_bus_state' = "Done" /\ ~i2c_error'
    <3>1. Stop
      BY <1>7, <2>2 DEF BusStep, MsgPrepare, StartRepeat, Start, CmdSend, DataSend, DataRead,
                        SequenceHandle, SequenceGoesOn, BusTo, TypeOK
    <3>2. Fulfilled(i2c_data_tx, i2c_data_rx)'
      BY <3>1, <2>2, <1>7, BusMoves, StopFulfils
    <3> QED
      BY <2>1, <3>2
  <2> QED
    BY <2>1, <2>2
<1>8. CASE UNCHANGED vars
  BY <1>8 DEF vars, busVars, clientVars, devVars
<1> QED
  BY <1>1, <1>2, <1>3, <1>4, <1>5, <1>6, <1>7, <1>8 DEF Next, ExecStep

LEMMA ProgressStep == IInv /\ [Next]_vars => Progress'
<1> SUFFICES ASSUME IInv, [Next]_vars PROVE Progress'
  OBVIOUS
<1> USE DEF IInv, Progress, AtStart, AtSend, Addressed, Reading, NextAct
<1>1. CASE (\E r \in Request : Access(r)) \/ ExecBusy \/ ExecReturn \/ ErrorGet \/ UNCHANGED vars
  BY <1>1 DEF Access, ExecBusy, ExecReturn, ErrorGet, vars, busVars, devVars
<1>2. CASE ExecIdle
  BY <1>2 DEF ExecIdle
<1>3. CASE ExecDone
  BY <1>3 DEF ExecDone
<1>4. CASE MsgPrepare
  BY <1>4 DEF MsgPrepare, BusTo
<1>5. CASE StartRepeat
  BY <1>5 DEF StartRepeat, BusTo, busVars, devVars
<1>6. CASE Start
  BY <1>6 DEF Start, BusTo, busVars
<1>7. CASE CmdSend
  BY <1>7 DEF CmdSend, BusTo, devVars, TypeOK
<1>8. ASSUME NEW taken \in BOOLEAN, NEW ack \in BOOLEAN, DataSend(taken, ack) PROVE Progress'
  <2>1. /\ AtSend /\ devListens /\ devGot = data_ptr_tx /\ bus_data_seq = NextAct
        /\ data_ptr_tx \in Nat
    BY <1>8 DEF DataSend, BusTo
  <2>2. /\ i2c_bus_state' = "Sequence_handle" /\ UNCHANGED <<i2c_data_tx, data_tx, data_ptr_tx,
                                                           data_ptr_rx, bus_data_seq>>
        /\ devGot' = IF taken THEN devGot + 1 ELSE devGot
        /\ devAddr' = IF taken /\ data_ptr_tx = 1 THEN data_tx.addr ELSE devAddr
    BY <1>8 DEF DataSend, BusTo, busVars
  <2>3. ~i2c_error' => taken /\ devListens'
    BY <1>8 DEF DataSend
  <2>4. AtSend' /\ (bus_data_seq = NextAct)'
    BY <2>1, <2>2
  <2>5. devGot' \in data_ptr_tx .. data_ptr_tx + 1 /\ (taken => devGot' = data_ptr_tx + 1)
    BY <2>1, <2>2
  <2>6. devGot' >= 2 => Addressed'
    BY <2>1, <2>2
  <2> QED
    BY <2>2, <2>3, <2>4, <2>5, <2>6
<1>9. CASE DataRead
  BY <1>9 DEF DataRead, BusTo, devVars, TypeOK, Word
<1>10. CASE SequenceHandle
  BY <1>10 DEF SequenceHandle, SequenceGoesOn, SeqMsgFinal, Size, devVars, TypeOK, Word
<1>11. CASE Stop
  BY <1>11 DEF Stop, BusTo
<1> QED
  BY <1>1, <1>2, <1>3, <1>4, <1>5, <1>6, <1>7, <1>8, <1>9, <1>10, <1>11
     DEF Next, ExecStep, BusStep

-----------------------------------------------------------------------------
LEMMA Invariance == Spec => []IInv
<1>1. IInv /\ [Next]_vars => IInv'
  BY TypeStep, OwnedStep, ServedStep, ProgressStep DEF IInv
<1> QED
  BY InitIInv, <1>1, PTL DEF Spec

\* Every variable has its type; in particular the interrupt's pointers never leave the
\* message it sends nor the two bytes it receives.
THEOREM TypeCorrect == Spec => []TypeOK
<1>1. IInv => TypeOK
  BY DEF IInv
<1> QED
  BY Invariance, <1>1, PTL

-----------------------------------------------------------------------------
(* The refinement of Eeprom                                                 *)

LEMMA SameRequests == Device!Request = Request /\ Device!Word = Word
  BY DEF Device!Request, Request, Device!Word, Word, Zero

LEMMA InitDevice == Init => Device!EepromInit
<1> SUFFICES ASSUME Init PROVE Device!EepromInit
  OBVIOUS
<1>1. answer \in [err : BOOLEAN, word : Word]
  <2>1. [err |-> FALSE, word |-> Zero] \in [err : BOOLEAN, word : Word]
    BY Words
  <2> QED
    BY <2>1 DEF Init
<1>2. memory \in [Addr -> Word] /\ request = NoRequest /\ i2c_data_tx = NoRequest
  BY DEF Init
<1> QED
  BY <1>1, <1>2, SameRequests DEF Device!EepromInit

deviceVars == <<memory, request, i2c_data_tx, answer>>

\* The end of an access, with or without error.
LEMMA ReturnStep ==
    ASSUME IInv, IInv', wasDone \/ pc = "error_get" \/ i2c_error, pc # "idle",
           request' = NoRequest, UNCHANGED <<memory, i2c_data_tx>>,
           NEW word, answer' = [err |-> i2c_error, word |-> word],
           request.op = "read" /\ ~i2c_error => word = data
    PROVE  Device!Return
<1>1. answer' \in [err : BOOLEAN, word : Word] /\ answer'.err = i2c_error /\ answer'.word = word
  BY DEF IInv, TypeOK
<1>2. request # NoRequest
  BY DEF IInv, Client
<1>3. ASSUME ~i2c_error PROVE i2c_data_tx = request /\ Device!Holds(request)
  <2>1. i2c_data_tx = request /\ Fulfilled(request, data)
    BY <1>3 DEF IInv, Served
  <2> QED
    BY <1>1, <1>3, <2>1 DEF Fulfilled, Device!Holds
<1> QED
  BY <1>1, <1>2, <1>3, SameRequests DEF Device!Return

LEMMA StepDevice == IInv /\ IInv' /\ [Next]_vars => [Device!EepromNext]_deviceVars
<1> SUFFICES ASSUME IInv, IInv', [Next]_vars
             PROVE  Device!EepromNext \/ UNCHANGED deviceVars
  BY DEF deviceVars
<1> USE DEF deviceVars
<1>1. ASSUME NEW r \in Request, Access(r) PROVE Device!Ask(r)
  BY <1>1 DEF Access, devVars, IInv, Client, Device!Ask
<1>2. CASE ExecIdle
  <2>1. Device!Take
    BY <1>2 DEF ExecIdle, devVars, IInv, Client, Device!Take
  <2> QED
    BY <2>1 DEF Device!EepromNext
<1>3. CASE ExecDone \/ ExecBusy
  BY <1>3 DEF ExecDone, ExecBusy, devVars
<1>4. CASE ExecReturn
  <2>1. CASE AccessEnds(Zero)
    <3>1. wasDone \/ i2c_error
      BY <1>4, <2>1 DEF ExecReturn, AccessEnds, IInv, Client
    <3>2. request.op # "read"
      BY <1>4, <2>1, <3>1 DEF ExecReturn, AccessEnds, IInv, Client
    <3>3. Device!Return
      BY <1>4, <2>1, <3>1, <3>2, ReturnStep DEF ExecReturn, AccessEnds, devVars
    <3> QED
      BY <3>3 DEF Device!EepromNext
  <2>2. CASE UNCHANGED <<request, answer>>
    BY <1>4, <2>2 DEF ExecReturn, devVars
  <2> QED
    BY <1>4, <2>1, <2>2 DEF ExecReturn
<1>5. CASE ErrorGet
  <2>1. Device!Return
    BY <1>5, ReturnStep DEF ErrorGet, AccessEnds, devVars
  <2> QED
    BY <2>1 DEF Device!EepromNext
<1>6. CASE MsgPrepare \/ StartRepeat \/ Start \/ CmdSend \/ DataRead \/ SequenceHandle
  BY <1>6 DEF MsgPrepare, StartRepeat, Start, CmdSend, DataRead, SequenceHandle, clientVars,
              devVars
<1>7. CASE \E taken, ack \in BOOLEAN : DataSend(taken, ack)
  BY <1>7 DEF DataSend, clientVars
<1>8. CASE Stop
  <2>1. data_tx \in Request /\ data_tx = i2c_data_tx /\ (devGot >= 2 => Addressed)
    BY <1>8 DEF Stop, BusTo, IInv, Copied, Progress
  <2>2. UNCHANGED <<request, i2c_data_tx, answer>> /\ DevWrites
    BY <1>8 DEF Stop, clientVars
  <2>3. CASE Reading \/ devGot < 3
    BY <2>2, <2>3 DEF DevWrites, Reading
  <2>4. CASE ~Reading /\ devGot >= 3
    <3>1. devAddr = i2c_data_tx.addr /\ i2c_data_tx.op = "write" /\ i2c_data_tx # NoRequest
      BY <2>1, <2>4, Requests DEF Addressed, Reading, IInv, TypeOK
    <3>2. \/ memory' = [memory EXCEPT ![i2c_data_tx.addr] = i2c_data_tx.word]
          \/ memory' = [memory EXCEPT ![i2c_data_tx.addr][0] = i2c_data_tx.word[0]]
      BY <2>1, <2>2, <2>4, <3>1 DEF DevWrites, Reading, IInv, TypeOK
    <3>3. Device!StoreWord
      BY <2>2, <3>1, <3>2 DEF Device!StoreWord
    <3> QED
      BY <3>3 DEF Device!EepromNext
  <2> QED
    BY <2>3, <2>4 DEF IInv, TypeOK
<1>9. CASE UNCHANGED vars
  BY <1>9 DEF vars, clientVars, devVars
<1> QED
  BY <1>1, <1>2, <1>3, <1>4, <1>5, <1>6, <1>7, <1>8, <1>9, SameRequests
     DEF Next, ExecStep, BusStep, Device!EepromNext

\* Whatever the interrupt, the task and the EEPROM do in between, an access that
\* reports no error has reached the memory, and none touches another word.
THEOREM RefinesEeprom == Spec => IsEeprom
<1>1. IInv /\ IInv' /\ [Next]_vars => [Device!EepromNext]_<<memory, request, i2c_data_tx, answer>>
  BY StepDevice DEF deviceVars
<1> QED
  BY InitDevice, Invariance, <1>1, PTL DEF Spec, IsEeprom, Device!EepromSpec

-----------------------------------------------------------------------------
(* What the refinement gives the settings                                   *)

\* A write that reported no error stands in the memory until the next access is sent.
WriteStays ==
    request = NoRequest /\ i2c_data_tx # NoRequest /\ i2c_data_tx.op = "write" /\ ~answer.err
        => memory[i2c_data_tx.addr] = i2c_data_tx.word

\* The memory changes at the address of the message being sent only, and only if that is
\* a write: neither a read nor a message that broke off touches another setting.
OthersKept ==
    [][\A a \in Addr : memory'[a] # memory[a] =>
          i2c_data_tx.op = "write" /\ a = i2c_data_tx.addr]_vars

\* Both hold of the abstract device, step by step.
LEMMA DeviceWrites ==
    ASSUME TypeOK, WriteStays, Device!EepromNext
    PROVE  /\ WriteStays'
           /\ \A a \in Addr : memory'[a] # memory[a] =>
                 i2c_data_tx.op = "write" /\ a = i2c_data_tx.addr
<1>1. ASSUME NEW r \in Request, Device!Ask(r)
      PROVE  request' # NoRequest /\ memory' = memory
  BY <1>1, Requests DEF Device!Ask
<1>2. CASE Device!Take
  BY <1>2 DEF Device!Take, WriteStays
<1>3. CASE Device!StoreWord
  <2> DEFINE to   == i2c_data_tx.addr
             word == i2c_data_tx.word
  <2>1. i2c_data_tx \in Request /\ i2c_data_tx.op = "write" /\ to \in Addr /\ word \in Word
    BY <1>3, Requests DEF Device!StoreWord, TypeOK
  <2>2. memory \in [Addr -> Word]
    BY DEF TypeOK
  <2>3. \/ memory' = [memory EXCEPT ![to] = word]
        \/ memory' = [memory EXCEPT ![to] = [memory[to] EXCEPT ![0] = word[0]]]
    BY <1>3, <2>1, <2>2 DEF Device!StoreWord
  <2>4. memory[to] = word => memory'[to] = word
    <3>1. [word EXCEPT ![0] = word[0]] = word
      BY <2>1 DEF Word
    <3> QED
      BY <2>1, <2>2, <2>3, <3>1
  <2>5. \A a \in Addr : a # to => memory'[a] = memory[a]
    BY <2>1, <2>2, <2>3
  <2> QED
    BY <1>3, <2>1, <2>4, <2>5 DEF Device!StoreWord, WriteStays
<1>4. CASE Device!Return
  <2>1. memory' = memory /\ i2c_data_tx' = i2c_data_tx
    BY <1>4 DEF Device!Return
  <2>2. ~answer'.err /\ i2c_data_tx.op = "write" =>
            memory[i2c_data_tx.addr] = i2c_data_tx.word
    BY <1>4 DEF Device!Return, Device!Holds
  <2> QED
    BY <2>1, <2>2 DEF WriteStays
<1> QED
  BY <1>1, <1>2, <1>3, <1>4, SameRequests DEF Device!EepromNext, WriteStays

LEMMA WritesKept == Spec => []WriteStays /\ OthersKept
<1> DEFINE Kept == \A a \in Addr : memory'[a] # memory[a] =>
                      i2c_data_tx.op = "write" /\ a = i2c_data_tx.addr
<1>1. Init => WriteStays
  BY DEF Init, WriteStays
<1>2. TypeOK /\ WriteStays /\ [Device!EepromNext]_deviceVars => WriteStays' /\ Kept
  <2>1. UNCHANGED deviceVars /\ WriteStays => WriteStays' /\ Kept
    BY DEF deviceVars, WriteStays
  <2> QED
    BY <2>1, DeviceWrites
<1>3. IInv /\ IInv' /\ [Next]_vars => [Device!EepromNext]_deviceVars
  BY StepDevice
<1>4. IInv => TypeOK
  BY DEF IInv
<1>5. Kept => [Kept]_vars
  OBVIOUS
<1> HIDE DEF Kept
<1>6. Spec => []WriteStays /\ [][Kept]_vars
  BY <1>1, <1>2, <1>3, <1>4, <1>5, Invariance, PTL DEF Spec
<1> QED
  BY <1>6 DEF OthersKept, Kept

\* A setting whose write reported no error is stored, and stays stored while nothing
\* else is sent, although the interrupt may still be at work.
THEOREM AcknowledgedWriteStays == Spec => []WriteStays
  BY WritesKept, PTL

\* No access, whole or broken off, touches the word of another setting.
THEOREM OtherWordsKept == Spec => OthersKept
  BY WritesKept, PTL

-----------------------------------------------------------------------------
(* A message ends                                                           *)

\* Bound on the states the interrupt has still to finish: at most six for each byte.
BusLeft ==
    LET bytes == 6 * (5 - data_ptr_tx)
    IN  IF i2c_bus_state \in {"Bus_Idle", "Done"} THEN 0
        ELSE IF i2c_bus_state = "Msg_Prepare" THEN 36
        ELSE IF i2c_bus_state = "Start_Repeat" THEN bytes + 6
        ELSE IF i2c_bus_state = "Start" THEN bytes + 5
        ELSE IF i2c_bus_state = "Cmd_Send" THEN bytes + 4
        ELSE IF i2c_bus_state \in {"Data_Send", "Data_Read"} THEN bytes + 3
        ELSE IF i2c_bus_state = "Sequence_handle" THEN bytes + 2
        ELSE bytes + 1

MessageEnds ==
    [][/\ BusStep => BusLeft' < BusLeft
       /\ BusLeft' > BusLeft => ExecIdle]_vars

\* Wherever the EEPROM stops answering, the interrupt reaches Done within 36 states: only
\* the next access gives it more to do.  That at_eeprom's loops end rests on it.
THEOREM MessagesEnd == Spec => [](BusLeft \in 0 .. 36) /\ MessageEnds
<1>1. IInv => BusLeft \in 0 .. 36
  BY DEF IInv, TypeOK, BusState, BusLeft, Progress, AtStart, AtSend
<1>2. IInv /\ [Next]_vars => [/\ BusStep => BusLeft' < BusLeft
                              /\ BusLeft' > BusLeft => ExecIdle]_vars
  <2> SUFFICES ASSUME IInv, Next
               PROVE  /\ BusStep => BusLeft' < BusLeft
                      /\ BusLeft' > BusLeft => ExecIdle
    OBVIOUS
  <2>1. data_ptr_tx \in 0 .. 5 /\ BusLeft \in Nat
    BY <1>1 DEF IInv, TypeOK
  <2>2. ASSUME BusStep PROVE BusLeft' < BusLeft
    <3>1. CASE MsgPrepare
      BY <3>1 DEF MsgPrepare, BusTo, BusLeft
    <3>2. CASE StartRepeat \/ Start \/ CmdSend \/ DataRead
              \/ \E taken, ack \in BOOLEAN : DataSend(taken, ack)
      BY <2>1, <3>2 DEF StartRepeat, Start, CmdSend, DataSend, DataRead, BusTo, busVars, BusLeft
    <3>3. CASE SequenceHandle
      <4>1. bus_data_seq \in {"Data_Send", "Data_Read"} /\ data_ptr_tx \in 0 .. 4
        BY <3>3 DEF SequenceHandle, IInv, TypeOK, Progress, AtSend
      <4> QED
        BY <3>3, <4>1 DEF SequenceHandle, SequenceGoesOn, BusLeft
    <3>4. CASE Stop
      BY <2>1, <3>4 DEF Stop, BusTo, BusLeft
    <3> QED
      BY <2>2, <3>1, <3>2, <3>3, <3>4 DEF BusStep
  <2>3. ASSUME \/ \E r \in Request : Access(r)
               \/ ExecDone \/ ExecBusy \/ ExecReturn \/ ErrorGet
        PROVE  BusLeft' = BusLeft
    BY <2>3 DEF Access, ExecDone, ExecBusy, ExecReturn, ErrorGet, busVars, BusLeft
  <2>4. BusStep \/ ExecIdle \/ BusLeft' = BusLeft
    BY <2>3 DEF Next, ExecStep
  <2>5. BusStep => BusLeft' \in Int
    BY <2>1 DEF BusStep, MsgPrepare, StartRepeat, Start, CmdSend, DataSend, DataRead,
                SequenceHandle, Stop, BusTo, busVars, BusLeft
  <2> QED
    BY <2>1, <2>2, <2>4, <2>5
<1> QED
  BY <1>1, <1>2, Invariance, PTL DEF Spec, MessageEnds
=============================================================================
