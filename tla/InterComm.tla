----------------------------- MODULE InterComm -----------------------------
(***************************************************************************)
(* The polling task of comm/inter_comm.cpp and the interface task that      *)
(* shares its register table.                                               *)
(*                                                                          *)
(* inter_comm_task calls inter_comm_proc for ever: copy the settings, run   *)
(* one stage.  The stage Comm_Transceive reads one frame of registers from  *)
(* the slave and then writes every register whose read-lock bit is set.     *)
(* The interface task marks a register for writing with InterCommDataSet,   *)
(* which takes no critical section.                                         *)
(*                                                                          *)
(* The timer service suspends and resumes the interface task at any         *)
(* instruction (vTimerCallback in main.cpp), and the polling task runs      *)
(* while it is suspended: the steps of the two interleave freely, and only  *)
(* what stands between taskENTER_CRITICAL and taskEXIT_CRITICAL is one      *)
(* step.  A register's content is abstracted to what is owed to the user:   *)
(*   "settled"  nothing: polled from the slave, or already in a write        *)
(*   "user"     it holds a value the user set and no write has carried       *)
(*   "lost"     such a value was overwritten before any write carried it     *)
(*                                                                          *)
(* A definition commented as a variant is the next one with a plausible     *)
(* slip; no action uses it, it shows which property would notice the slip.  *)
(***************************************************************************)
EXTENDS Integers

CONSTANTS
    RegCount,       \* INTER_COMM_DATA_COUNT (125)
    RxFrame,        \* INTER_COMM_RECEIVE_FRAME (32)
    TxFrame,        \* INTER_COMM_TRANSMITT_FRAME (8)
    Attempts,       \* INTER_COMM_ATTEMPTS (5)
    Watched,        \* registers whose content is followed
    ByteWidth,      \* bits in a byte of ucInterCommDataReadLockBitMask (8)
    Addrs,          \* start addresses the settings may hold; 0 before restore
    Quans,          \* register quantities the settings may hold; 0 before restore
    Slaves          \* slave ids the settings may hold; 0 before restore

ASSUME FrameAssumption ==
    /\ RxFrame \in Nat \ {0}
    /\ RegCount \in Nat /\ RxFrame <= RegCount
    /\ TxFrame \in Nat \ {0}
    /\ Attempts \in Nat \ {0}
    /\ ByteWidth \in Nat \ {0}
    /\ Watched \subseteq 0 .. RegCount - 1

ASSUME SettingsAssumption ==
    /\ 0 \in Addrs /\ 0 \in Slaves
    /\ Quans \subseteq 0 .. RegCount /\ 0 \in Quans

Reg == 0 .. RegCount - 1

Config == [addr : Addrs, quan : Quans, slave : Slaves]

Stage == {"Notify_Await", "Init", "Configure", "Timeout_Start", "Timeout",
          "Transceive", "Errs_Handle", "Off"}

CommPc == {"proc", "cfg_addr", "cfg_quan", "cfg_slave", "stage",
           "rx_read", "rx_check", "rx_store", "rx_done", "tx_scan", "tx_send"}

Content == {"settled", "user", "lost"}

VARIABLES
    settings,         \* app_data_item[]: the three items this task copies
    cfg,              \* inter_comm_start_addr, _data_quan, _slave_addr
    frame_quan,       \* inter_comm_frame_quan
    comm_stage,       \* comm_stage
    commPc,           \* where inter_comm_proc stands
    curr_frame,       \* the static of inter_comm_data_receive
    read_in_process,  \* inter_comm_read_in_process
    rxPos,            \* i of inter_comm_data_receive's copy loop
    txIndex,          \* usRegIndex of InterCommDataTransmitt
    txCount,          \* usRegCount of InterCommDataTransmitt
    attempts,         \* ulCommAttempts
    errs,             \* errs # 0
    conn,             \* inter_comm_conn
    conn_present,     \* inter_comm_conn_present_val
    readLock,         \* registers with their bit set in the read-lock mask
    val,              \* inter_comm_data[].val, as Content
    setReg,           \* register of the InterCommDataSet in progress
    setTodo,          \* which of its two stores are still to be done
    setByte           \* mask byte it has loaded

cfgVars  == <<settings, cfg, frame_quan>>
rxVars   == <<curr_frame, read_in_process, rxPos>>
txVars   == <<txIndex, txCount, attempts>>
connVars == <<errs, conn, conn_present>>
regVars  == <<readLock, val>>
setVars  == <<setReg, setTodo, setByte>>
vars == <<cfgVars, comm_stage, commPc, rxVars, txVars, connVars, regVars, setVars>>

\* All of this is zero-initialised static data: app_data restores later.
Init ==
    /\ settings = [addr |-> 0, quan |-> 0, slave |-> 0]
    /\ cfg = settings
    /\ frame_quan = 0
    /\ comm_stage = "Notify_Await"
    /\ commPc = "proc"
    /\ curr_frame = 0 /\ read_in_process = FALSE /\ rxPos = 0
    /\ txIndex = 0 /\ txCount = 0 /\ attempts = 0
    /\ errs = FALSE /\ conn = FALSE /\ conn_present = FALSE
    /\ readLock = {} /\ val = [i \in Watched |-> "settled"]
    /\ setReg = 0 /\ setTodo = {} /\ setByte = {}

-----------------------------------------------------------------------------
(* inter_comm_config_update: between two scans only, item by item.          *)

\* ceil(q / INTER_COMM_RECEIVE_FRAME)
FrameQuan(q) == q \div RxFrame + (IF q % RxFrame # 0 THEN 1 ELSE 0)

\* Variant: read_in_process is not looked at.
ConfigEnterUnguarded ==
    /\ commPc = "proc"
    /\ commPc' = "cfg_addr"
    /\ UNCHANGED <<cfgVars, comm_stage, rxVars, txVars, connVars, regVars, setVars>>

ConfigEnter ==
    /\ commPc = "proc"
    /\ commPc' = IF read_in_process THEN "stage" ELSE "cfg_addr"
    /\ UNCHANGED <<cfgVars, comm_stage, rxVars, txVars, connVars, regVars, setVars>>

ConfigAddr ==
    /\ commPc = "cfg_addr" /\ commPc' = "cfg_quan"
    /\ cfg' = [cfg EXCEPT !.addr = settings.addr]
    /\ UNCHANGED <<settings, frame_quan, comm_stage, rxVars, txVars, connVars,
                   regVars, setVars>>

ConfigQuan ==
    /\ commPc = "cfg_quan" /\ commPc' = "cfg_slave"
    /\ cfg' = [cfg EXCEPT !.quan = settings.quan]
    /\ frame_quan' = FrameQuan(settings.quan)
    /\ UNCHANGED <<settings, comm_stage, rxVars, txVars, connVars, regVars, setVars>>

ConfigSlave ==
    /\ commPc = "cfg_slave" /\ commPc' = "stage"
    /\ cfg' = [cfg EXCEPT !.slave = settings.slave]
    /\ UNCHANGED <<settings, frame_quan, comm_stage, rxVars, txVars, connVars,
                   regVars, setVars>>

-----------------------------------------------------------------------------
(* The stages that move no data.                                            *)

StageTo(from, to) ==
    /\ commPc = "stage" /\ commPc' = "proc"
    /\ comm_stage = from /\ comm_stage' = to
    /\ UNCHANGED <<cfgVars, rxVars, txVars, regVars, setVars>>

Startup ==
    /\ \/ StageTo("Notify_Await", "Init")
       \/ StageTo("Init", "Configure")
       \/ StageTo("Configure", "Timeout_Start")
       \/ StageTo("Timeout_Start", "Timeout")
    /\ UNCHANGED connVars

\* xTaskGetTickCount() - comm_timer < 100: another call of inter_comm_proc.
TimeoutWait ==
    /\ StageTo("Timeout", "Timeout")
    /\ UNCHANGED connVars

TimeoutElapsed ==
    /\ StageTo("Timeout", IF conn THEN "Transceive" ELSE "Off")
    /\ UNCHANGED connVars

StageOff ==
    /\ StageTo("Off", IF conn THEN "Timeout_Start" ELSE "Off")
    /\ UNCHANGED connVars

ErrsHandle ==
    /\ StageTo("Errs_Handle", "Timeout_Start")
    /\ conn_present' = ~errs
    /\ UNCHANGED <<errs, conn>>

-----------------------------------------------------------------------------
(* inter_comm_data_receive                                                  *)

RegIndex == curr_frame * RxFrame

RxCount == IF curr_frame = frame_quan - 1 THEN cfg.quan - RegIndex ELSE RxFrame

Transceive ==
    /\ commPc = "stage" /\ comm_stage = "Transceive"
    /\ commPc' = "rx_read"
    /\ errs' = FALSE
    /\ UNCHANGED <<cfgVars, comm_stage, rxVars, txVars, conn, conn_present, regVars,
                   setVars>>

\* ModbusMasterReadInputRegs returns MB_OK with data, or an error.
ReadInputRegs(ok) ==
    /\ commPc = "rx_read"
    /\ IF ok THEN commPc' = "rx_check" /\ errs' = errs
             ELSE commPc' = "rx_done" /\ errs' = TRUE
    /\ rxPos' = 0
    /\ UNCHANGED <<cfgVars, comm_stage, curr_frame, read_in_process, txVars, conn,
                   conn_present, regVars, setVars>>

\* The lock test of the copy loop: not one step with the store it guards.
RxCheck ==
    /\ commPc = "rx_check"
    /\ IF rxPos >= RxCount
         THEN commPc' = "rx_done" /\ rxPos' = rxPos
         ELSE IF RegIndex + rxPos \in readLock
                THEN commPc' = "rx_check" /\ rxPos' = rxPos + 1
                ELSE commPc' = "rx_store" /\ rxPos' = rxPos
    /\ UNCHANGED <<cfgVars, comm_stage, curr_frame, read_in_process, txVars, connVars,
                   regVars, setVars>>

RxStore ==
    /\ commPc = "rx_store" /\ commPc' = "rx_check"
    /\ val' = [i \in Watched |-> IF i = RegIndex + rxPos /\ val[i] # "settled"
                                   THEN "lost" ELSE val[i]]
    /\ rxPos' = rxPos + 1
    /\ UNCHANGED <<cfgVars, comm_stage, curr_frame, read_in_process, txVars, connVars,
                   readLock, setVars>>

RxDoneWith(last, more) ==
    /\ commPc = "rx_done" /\ commPc' = "tx_scan"
    /\ curr_frame' = IF last THEN 0 ELSE curr_frame + 1
    /\ read_in_process' = more
    /\ rxPos' = 0
    /\ txIndex' = 0 /\ txCount' = 0
    /\ UNCHANGED <<cfgVars, comm_stage, attempts, connVars, regVars, setVars>>

\* Variant: == for >=, which misses the end of a scan of no frames.
RxDoneExact == LET last == curr_frame + 1 = frame_quan IN RxDoneWith(last, ~last)

\* Variant: read_in_process is never set ...
RxDoneNeverBusy == LET last == curr_frame + 1 >= frame_quan IN RxDoneWith(last, FALSE)

\* ... or never reset.
RxDoneAlwaysBusy == LET last == curr_frame + 1 >= frame_quan IN RxDoneWith(last, TRUE)

\* ++curr_frame; the last frame of the scan lets the settings in again.
RxDone == LET last == curr_frame + 1 >= frame_quan IN RxDoneWith(last, ~last)

-----------------------------------------------------------------------------
(* InterCommDataTransmitt                                                   *)

TxNext == txIndex + txCount      \* the register the scan looks at

\* Variant: off by one at the end of the table.
CanTakeButLast == TxNext < RegCount - 1 /\ TxNext \in readLock

CanTake == TxNext < RegCount /\ TxNext \in readLock

\* Variant: the run is not cut at TxFrame.
TxTakeUnbounded ==
    /\ commPc = "tx_scan" /\ txIndex < RegCount
    /\ CanTake
    /\ txCount' = txCount + 1
    /\ readLock' = readLock \ {TxNext}
    /\ UNCHANGED <<cfgVars, comm_stage, commPc, rxVars, txIndex, attempts, connVars, val,
                   setVars>>

\* Copy and unlock in one critical section.  Only this task clears a bit, so
\* the test before the section still holds inside it.
TxTake ==
    /\ commPc = "tx_scan" /\ txIndex < RegCount
    /\ CanTake
    /\ txCount' = txCount + 1
    /\ readLock' = readLock \ {TxNext}
    /\ val' = [i \in Watched |-> IF i = TxNext /\ val[i] = "user"
                                   THEN "settled" ELSE val[i]]
    /\ IF txCount + 1 >= TxFrame
         THEN commPc' = "tx_send" /\ attempts' = Attempts
         ELSE commPc' = "tx_scan" /\ attempts' = attempts
    /\ UNCHANGED <<cfgVars, comm_stage, rxVars, txIndex, connVars, setVars>>

\* An unlocked register, or the end of the table, ends the run found so far.
TxRunEnd ==
    /\ commPc = "tx_scan" /\ txIndex < RegCount
    /\ ~CanTake
    /\ IF txCount > 0
         THEN commPc' = "tx_send" /\ attempts' = Attempts /\ txIndex' = txIndex
         ELSE commPc' = "tx_scan" /\ attempts' = attempts /\ txIndex' = txIndex + 1
    /\ UNCHANGED <<cfgVars, comm_stage, rxVars, txCount, connVars, regVars, setVars>>

\* Variant: (*pulCommErrors)++ is missing.
WriteMultipleRegsSilent(ok) ==
    /\ commPc = "tx_send"
    /\ attempts' = IF ok THEN 0 ELSE attempts - 1
    /\ IF ok \/ attempts = 1
         THEN commPc' = "tx_scan" /\ txIndex' = TxNext /\ txCount' = 0
         ELSE UNCHANGED <<commPc, txIndex, txCount>>
    /\ UNCHANGED <<cfgVars, comm_stage, rxVars, connVars, regVars, setVars>>

\* ModbusMasterWriteMultipleRegs: done on MB_OK and after the last attempt.
WriteMultipleRegs(ok) ==
    /\ commPc = "tx_send"
    /\ errs' = (errs \/ ~ok)
    /\ attempts' = IF ok THEN 0 ELSE attempts - 1
    /\ IF ok \/ attempts = 1
         THEN commPc' = "tx_scan" /\ txIndex' = TxNext /\ txCount' = 0
         ELSE UNCHANGED <<commPc, txIndex, txCount>>
    /\ UNCHANGED <<cfgVars, comm_stage, rxVars, conn, conn_present, regVars, setVars>>

TxDone ==
    /\ commPc = "tx_scan" /\ txIndex >= RegCount
    /\ commPc' = "proc" /\ comm_stage' = "Errs_Handle"
    /\ txIndex' = 0
    /\ UNCHANGED <<cfgVars, rxVars, txCount, attempts, connVars, regVars, setVars>>

-----------------------------------------------------------------------------
(* The interface task: InterCommDataSet, the connection button, and the     *)
(* settings it (and app_data's restore) writes one item at a time.          *)

ByteOf(i) == {j \in Reg : j \div ByteWidth = i \div ByteWidth}

\* |= of InterCommDataReadLock: load the byte of the mask ...
SetLoad(i) ==
    /\ setTodo = {} /\ setTodo' = {"lock", "val"}
    /\ setReg' = i
    /\ setByte' = readLock \cap ByteOf(i)
    /\ UNCHANGED <<cfgVars, comm_stage, commPc, rxVars, txVars, connVars, regVars>>

\* The call's locals are gone once both stores are done.
SetReturns == setReg' = IF setTodo' = {} THEN 0 ELSE setReg

\* Variant: = for |=.
SetLockStoreNoOr ==
    /\ "lock" \in setTodo /\ setTodo' = setTodo \ {"lock"}
    /\ readLock' = (readLock \ ByteOf(setReg)) \cup {setReg}
    /\ setByte' = {}
    /\ SetReturns
    /\ UNCHANGED <<cfgVars, comm_stage, commPc, rxVars, txVars, connVars, val>>

\* ... and store it back with the bit set.  Neither this store nor the next is
\* volatile or in a critical section: the compiler may emit them in either order.
SetLockStore ==
    /\ "lock" \in setTodo /\ setTodo' = setTodo \ {"lock"}
    /\ readLock' = (readLock \ ByteOf(setReg)) \cup setByte \cup {setReg}
    /\ setByte' = {}
    /\ SetReturns
    /\ UNCHANGED <<cfgVars, comm_stage, commPc, rxVars, txVars, connVars, val>>

SetValStore ==
    /\ "val" \in setTodo /\ setTodo' = setTodo \ {"val"}
    /\ val' = [i \in Watched |-> IF i = setReg THEN "user" ELSE val[i]]
    /\ SetReturns
    /\ UNCHANGED <<cfgVars, comm_stage, commPc, rxVars, txVars, connVars, readLock,
                   setByte>>

\* The connection button of the main window.
ConnToggle ==
    /\ setTodo = {}
    /\ conn' = ~conn
    /\ UNCHANGED <<cfgVars, comm_stage, commPc, rxVars, txVars, errs, conn_present,
                   regVars, setVars>>

\* app_data_item_set of one of the three items.
SettingChange ==
    /\ \/ \E a \in Addrs \ {0} : settings' = [settings EXCEPT !.addr = a]
       \/ \E q \in Quans \ {0} : settings' = [settings EXCEPT !.quan = q]
       \/ \E s \in Slaves \ {0} : settings' = [settings EXCEPT !.slave = s]
    /\ UNCHANGED <<cfg, frame_quan, comm_stage, commPc, rxVars, txVars, connVars,
                   regVars, setVars>>

-----------------------------------------------------------------------------
CommStep ==
    \/ ConfigEnter \/ ConfigAddr \/ ConfigQuan \/ ConfigSlave
    \/ Startup \/ TimeoutWait \/ TimeoutElapsed \/ StageOff \/ ErrsHandle
    \/ Transceive
    \/ \E ok \in BOOLEAN : ReadInputRegs(ok)
    \/ RxCheck \/ RxStore \/ RxDone
    \/ TxTake \/ TxRunEnd
    \/ \E ok \in BOOLEAN : WriteMultipleRegs(ok)
    \/ TxDone

InterfaceStep ==
    \/ \E i \in Reg : SetLoad(i)
    \/ SetLockStore \/ SetValStore
    \/ ConnToggle
    \/ SettingChange

Next == CommStep \/ InterfaceStep

Spec == Init /\ [][Next]_vars

\* The polling task gets the processor in every render cycle, while the
\* interface task is suspended; the tick counter does not stand still, so
\* Timeout is not found short of 100 ticks for ever.
Fairness ==
    /\ WF_vars(CommStep)
    /\ SF_vars(TimeoutElapsed)

FairSpec == Spec /\ Fairness

-----------------------------------------------------------------------------
(* Properties                                                               *)

\* Every variable has its type; curr_frame never leaves the table's frames.
TypeOK ==
    /\ settings \in Config /\ cfg \in Config
    /\ frame_quan \in 0 .. RegCount
    /\ comm_stage \in Stage /\ commPc \in CommPc
    /\ curr_frame \in 0 .. RegCount /\ read_in_process \in BOOLEAN
    /\ rxPos \in 0 .. RxFrame
    /\ txIndex \in 0 .. RegCount /\ txCount \in 0 .. TxFrame
    /\ attempts \in 0 .. Attempts
    /\ errs \in BOOLEAN /\ conn \in BOOLEAN /\ conn_present \in BOOLEAN
    /\ readLock \in SUBSET Reg /\ val \in [Watched -> Content]
    /\ setReg \in Reg /\ setTodo \in SUBSET {"lock", "val"} /\ setByte \in SUBSET Reg

\* The frame asked for fits usRegData[RxFrame] and the register table, and holds
\* no register beyond the configured quantity.  Nothing in inter_comm_data_receive
\* checks this: it rests on settings being copied between two scans only.
FrameInRange ==
    commPc \in {"rx_read", "rx_check", "rx_store", "rx_done"} =>
        /\ RxCount \in 1 .. RxFrame
        /\ RegIndex + RxCount <= RegCount
        /\ frame_quan # 0 => RegIndex + RxCount <= cfg.quan

\* The run being written fits usRegData[TxFrame] and ends inside the table.
BatchInRange ==
    /\ TxNext <= RegCount
    /\ commPc = "tx_send" => txCount \in 1 .. TxFrame /\ attempts \in 1 .. Attempts

\* All frames of one scan are read with the same start address, quantity and slave.
ConfigStableInScan == [][curr_frame # 0 => cfg' = cfg]_vars

\* A read-lock bit, once set, is cleared only by the step that copies that register
\* into a write: a bit of the same byte that the interface task stores back
\* concurrently never wipes out another register's mark.
LockHeldUntilTaken ==
    [][\A i \in readLock \ readLock' :
          commPc = "tx_scan" /\ i = TxNext /\ txCount' = txCount + 1]_vars

\* A marked register is taken into a write as long as the connection is on, however
\* often the bus fails and the interface task marks other registers.
LockedEventuallyTaken ==
    \A i \in Reg : (i \in readLock /\ conn) ~> (i \notin readLock \/ ~conn)

\* New settings reach the polling task as long as the connection is on and they are
\* not changed again: every scan ends.
SettingsEventuallyApplied ==
    \A c \in Config : (settings = c /\ conn) ~> (cfg = c \/ settings # c \/ ~conn)

\* A write that needed a second attempt turns the connection indicator off, even if
\* the retry succeeds.
RetryReported == (commPc = "tx_send" /\ attempts < Attempts) ~> ~conn_present

\* inter_comm.cpp says of the locked registers "(to be written)": a value the user
\* set stays in the table, marked for writing, until a write carries it.
UserValueStaysMarked ==
    \A i \in Watched :
        /\ val[i] # "lost"
        /\ val[i] = "user" => i \in readLock \/ (setTodo # {} /\ i = setReg)
=============================================================================
