-------------------------- MODULE InterCommProofs --------------------------
(***************************************************************************)
(* What InterComm guarantees for every table size, frame size and set of    *)
(* settings.  The invariant ScanInv says why the unchecked index arithmetic *)
(* of inter_comm_data_receive is in range: the frame count belongs to the   *)
(* quantity, and neither changes while a scan is between two frames.        *)
(***************************************************************************)
EXTENDS InterComm, TLAPS

RxPc == {"rx_read", "rx_check", "rx_store", "rx_done"}
CfgPc == {"cfg_addr", "cfg_quan", "cfg_slave"}

\* curr_frame is a frame of the quantity in force, and the settings in force change
\* between two scans only.
ScanInv ==
    /\ frame_quan = FrameQuan(cfg.quan)
    /\ curr_frame = 0 \/ (read_in_process /\ curr_frame < frame_quan)
    /\ commPc \in CfgPc => ~read_in_process
    /\ commPc = "rx_store" => rxPos < RxCount

\* The run of locked registers found so far lies inside the table and the batch.
BatchInv ==
    /\ TxNext <= RegCount
    /\ commPc = "tx_scan" => txCount < TxFrame
    /\ commPc = "tx_send" => txCount \in 1 .. TxFrame /\ attempts \in 1 .. Attempts
    /\ commPc \notin {"tx_scan", "tx_send"} => txCount = 0 /\ txIndex = 0

IInv == TypeOK /\ ScanInv /\ BatchInv

-----------------------------------------------------------------------------
\* FrameQuan rounds up: the last frame it counts is neither empty nor too long.
LEMMA FrameQuanBounds ==
    ASSUME NEW q \in Nat
    PROVE  /\ FrameQuan(q) \in 0 .. q
           /\ q > 0 => /\ (FrameQuan(q) - 1) * RxFrame < q
                       /\ q <= FrameQuan(q) * RxFrame
<1> DEFINE d == q \div RxFrame
           m == q % RxFrame
<1>1. d \in Nat /\ m \in 0 .. RxFrame - 1 /\ q = (RxFrame * d) + m
  BY FrameAssumption
<1>2. d <= q
  BY <1>1, FrameAssumption
<1>3. FrameQuan(q) = IF m # 0 THEN d + 1 ELSE d
  BY <1>1 DEF FrameQuan
<1> HIDE DEF d, m
<1>4. CASE m = 0
  <2>1. q = RxFrame * d
    BY <1>1, <1>4, FrameAssumption
  <2>2. (d - 1) * RxFrame = (RxFrame * d) - RxFrame /\ d * RxFrame = RxFrame * d
    BY <1>1, FrameAssumption
  <2>3. QED
    BY <1>1, <1>2, <1>3, <1>4, <2>1, <2>2, FrameAssumption
<1>5. CASE m # 0
  <2>1. (d + 1) * RxFrame = (RxFrame * d) + RxFrame /\ (d + 1 - 1) * RxFrame = RxFrame * d
    BY <1>1, FrameAssumption
  <2>2. RxFrame * d >= d
    BY <1>1, FrameAssumption
  <2>3. QED
    BY <1>1, <1>2, <1>3, <1>5, <2>1, <2>2, FrameAssumption
<1>6. QED
  BY <1>4, <1>5

\* Frame f of a quantity q starts and ends inside the table.
LEMMA FrameFits ==
    ASSUME NEW q \in 0 .. RegCount, NEW f \in Nat, NEW n,
           f = 0 \/ f < FrameQuan(q),
           n = IF f = FrameQuan(q) - 1 THEN q - (f * RxFrame) ELSE RxFrame
    PROVE  /\ n \in 1 .. RxFrame
           /\ f * RxFrame \in Nat
           /\ (f * RxFrame) + n <= RegCount
           /\ FrameQuan(q) # 0 => (f * RxFrame) + n <= q
<1> DEFINE k == FrameQuan(q)
           s == f * RxFrame
<1>1. k \in 0 .. q /\ (q > 0 => (k - 1) * RxFrame < q /\ q <= k * RxFrame)
  BY FrameQuanBounds, FrameAssumption
<1>2. s \in Nat /\ q \in Nat /\ RxFrame \in Nat \ {0}
  BY FrameAssumption
<1>3. CASE k = 0
  <2>1. f = 0 /\ n = RxFrame /\ s = 0
    BY <1>3, FrameAssumption
  <2>2. QED
    BY <2>1, <1>3, FrameAssumption
<1>4. CASE k # 0 /\ f = k - 1
  <2>1. k * RxFrame = ((k - 1) * RxFrame) + RxFrame
    BY <1>1, <1>2
  <2>2. q > 0 /\ s < q /\ q <= s + RxFrame
    BY <1>1, <1>4, <2>1
  <2>3. n = q - s
    BY <1>4
  <2>4. QED
    BY <2>2, <2>3, <1>2, FrameAssumption
<1>5. CASE k # 0 /\ f # k - 1
  <2>1. f + 1 <= k - 1 /\ n = RxFrame
    BY <1>1, <1>5
  <2>2. (f + 1) * RxFrame <= (k - 1) * RxFrame
    BY <2>1, <1>1, <1>2
  <2>3. (f + 1) * RxFrame = s + RxFrame
    BY <1>2
  <2>4. q > 0 /\ s + RxFrame < q
    BY <1>1, <1>5, <2>2, <2>3, <1>2
  <2>5. QED
    BY <2>1, <2>4, <1>2, FrameAssumption
<1>6. QED
  BY <1>3, <1>4, <1>5

\* The same, said of the state.
LEMMA CurrentFrameFits ==
    ASSUME TypeOK, ScanInv
    PROVE  /\ RxCount \in 1 .. RxFrame
           /\ RegIndex \in Nat
           /\ RegIndex + RxCount <= RegCount
           /\ frame_quan # 0 => RegIndex + RxCount <= cfg.quan
<1>1. curr_frame \in Nat
  BY FrameAssumption DEF TypeOK
<1>2. cfg \in Config
  BY DEF TypeOK
<1>3. cfg.quan \in 0 .. RegCount
  BY <1>2, SettingsAssumption DEF Config
<1>4. QED
  BY <1>1, <1>3, FrameFits DEF ScanInv, RxCount, RegIndex

-----------------------------------------------------------------------------
LEMMA InitInv == Init => IInv
<1> SUFFICES ASSUME Init PROVE IInv
  OBVIOUS
<1>1. 0 \in Reg /\ 0 \in Quans /\ 0 \in Addrs /\ 0 \in Slaves
  BY FrameAssumption, SettingsAssumption DEF Reg
<1>2. TypeOK
  <2>1. settings \in Config /\ cfg \in Config /\ val \in [Watched -> Content]
    BY <1>1 DEF Init, Config, Content
  <2>2. comm_stage \in Stage /\ commPc \in CommPc
    BY DEF Init, Stage, CommPc
  <2>3. /\ read_in_process \in BOOLEAN
        /\ errs \in BOOLEAN /\ conn \in BOOLEAN /\ conn_present \in BOOLEAN
    BY DEF Init
  <2>4. /\ frame_quan \in 0 .. RegCount /\ curr_frame \in 0 .. RegCount
        /\ rxPos \in 0 .. RxFrame /\ txIndex \in 0 .. RegCount
        /\ txCount \in 0 .. TxFrame /\ attempts \in 0 .. Attempts
    BY FrameAssumption DEF Init
  <2>5. readLock \in SUBSET Reg /\ setReg \in Reg /\ setByte \in SUBSET Reg
        /\ setTodo \in SUBSET {"lock", "val"}
    BY <1>1 DEF Init
  <2>6. QED
    BY <2>1, <2>2, <2>3, <2>4, <2>5 DEF TypeOK
<1>3. FrameQuan(0) = 0
  BY FrameQuanBounds
<1>4. ScanInv
  BY <1>3 DEF Init, ScanInv, CfgPc
<1>5. BatchInv
  BY FrameAssumption DEF Init, BatchInv, TxNext
<1>6. QED
  BY <1>2, <1>4, <1>5 DEF IInv

\* Type correctness, one step per group of actions.
LEMMA TypeStep == ASSUME IInv, [Next]_vars PROVE TypeOK'
<1> USE FrameAssumption DEF IInv, TypeOK, BatchInv, cfgVars, rxVars, txVars, connVars, regVars, setVars
<1>1. 0 \in Reg
  BY DEF Reg
<1>2. CASE ConfigEnter \/ ConfigAddr \/ ConfigSlave
  BY <1>2 DEF ConfigEnter, ConfigAddr, ConfigSlave, Config, CommPc
<1>3. CASE ConfigQuan
  <2>1. settings.quan \in 0 .. RegCount
    BY SettingsAssumption DEF Config
  <2>2. FrameQuan(settings.quan) \in 0 .. RegCount
    BY <2>1, FrameQuanBounds
  <2>3. QED
    BY <1>3, <2>2 DEF ConfigQuan, Config, CommPc
<1>4. CASE Startup \/ TimeoutWait \/ TimeoutElapsed \/ StageOff
  BY <1>4 DEF Startup, TimeoutWait, TimeoutElapsed, StageOff, StageTo, Stage, CommPc
<1>5. CASE ErrsHandle
  BY <1>5 DEF ErrsHandle, StageTo, Stage, CommPc
<1>6. CASE Transceive
  BY <1>6 DEF Transceive, CommPc
<1>7. ASSUME NEW ok \in BOOLEAN, ReadInputRegs(ok)
      PROVE  TypeOK'
  <2>1. errs' \in BOOLEAN /\ commPc' \in CommPc
    <3>1. CASE ok
      BY <1>7, <3>1 DEF ReadInputRegs, CommPc
    <3>2. CASE ~ok
      BY <1>7, <3>2 DEF ReadInputRegs, CommPc
    <3>3. QED
      BY <3>1, <3>2
  <2>2. QED
    BY <1>7, <2>1 DEF ReadInputRegs
<1>8. CASE RxCheck \/ RxStore
  <2>1. RxCount \in 1 .. RxFrame
    BY CurrentFrameFits
  <2>2. CASE RxCheck
    BY <2>1, <2>2 DEF RxCheck, CommPc
  <2>3. CASE RxStore
    <3>1. rxPos' \in 0 .. RxFrame
      BY <2>1, <2>3 DEF RxStore, ScanInv
    <3>2. val' \in [Watched -> Content]
      BY <2>3 DEF RxStore, Content
    <3>3. QED
      BY <2>3, <3>1, <3>2 DEF RxStore, CommPc
  <2>4. QED
    BY <1>8, <2>2, <2>3
<1>9. CASE RxDone
  <2>1. curr_frame' \in 0 .. RegCount
    BY <1>9 DEF RxDone, RxDoneWith
  <2>2. QED
    BY <1>9, <2>1 DEF RxDone, RxDoneWith, CommPc
<1>10. CASE TxTake
  <2>1. val' \in [Watched -> Content]
    BY <1>10 DEF TxTake, Content
  <2>2. txCount' \in 0 .. TxFrame
    BY <1>10 DEF TxTake
  <2>3. QED
    BY <1>10, <2>1, <2>2 DEF TxTake, CommPc
<1>11. CASE TxRunEnd
  BY <1>11 DEF TxRunEnd, CommPc
<1>12. ASSUME NEW ok \in BOOLEAN, WriteMultipleRegs(ok)
       PROVE  TypeOK'
  <2>1. attempts' \in 0 .. Attempts /\ txIndex' \in 0 .. RegCount /\ txCount' \in 0 .. TxFrame
    BY <1>12 DEF WriteMultipleRegs, TxNext
  <2>2. QED
    BY <1>12, <2>1 DEF WriteMultipleRegs, CommPc
<1>13. CASE TxDone
  BY <1>13 DEF TxDone, Stage, CommPc
<1>14. ASSUME NEW i \in Reg, SetLoad(i)
       PROVE  TypeOK'
  BY <1>14 DEF SetLoad
<1>15. CASE SetLockStore
  BY <1>1, <1>15 DEF SetLockStore, SetReturns
<1>16. CASE SetValStore
  <2>1. val' \in [Watched -> Content]
    BY <1>16 DEF SetValStore, Content
  <2>2. QED
    BY <1>1, <1>16, <2>1 DEF SetValStore, SetReturns
<1>17. CASE ConnToggle
  BY <1>17 DEF ConnToggle
<1>18. CASE SettingChange
  BY <1>18 DEF SettingChange, Config
<1>19. CASE UNCHANGED vars
  BY <1>19 DEF vars
<1>20. QED
  BY <1>2, <1>3, <1>4, <1>5, <1>6, <1>7, <1>8, <1>9, <1>10, <1>11, <1>12, <1>13,
     <1>14, <1>15, <1>16, <1>17, <1>18, <1>19 DEF Next, CommStep, InterfaceStep

\* ScanInv is preserved: between two frames of a scan no action but RxDone's
\* touches the frame, and the settings are copied only when curr_frame is 0.
LEMMA ScanStep == ASSUME IInv, [Next]_vars PROVE ScanInv'
<1> USE DEF IInv, CfgPc
<1>f. /\ frame_quan \in Nat /\ curr_frame \in Nat
      /\ rxPos \in Nat /\ RxCount \in Nat
  BY CurrentFrameFits, FrameAssumption DEF TypeOK
<1>1. CASE ConfigEnter \/ ConfigAddr \/ ConfigSlave
  <2>1. cfg'.quan = cfg.quan
    BY <1>1 DEF ConfigEnter, ConfigAddr, ConfigSlave, TypeOK, Config, cfgVars
  <2>2. QED
    BY <1>1, <2>1 DEF ConfigEnter, ConfigAddr, ConfigSlave, ScanInv, cfgVars, rxVars
<1>2. CASE ConfigQuan
  <2>1. cfg'.quan = settings.quan
    BY <1>2 DEF ConfigQuan, TypeOK, Config
  <2>2. frame_quan' = FrameQuan(cfg'.quan)
    BY <1>2, <2>1 DEF ConfigQuan
  <2>3. curr_frame' = 0 /\ ~read_in_process'
    BY <1>2 DEF ConfigQuan, ScanInv, rxVars
  <2>4. QED
    BY <1>2, <2>2, <2>3 DEF ConfigQuan, ScanInv
<1>3. CASE \/ Startup \/ TimeoutWait \/ TimeoutElapsed \/ StageOff \/ ErrsHandle
           \/ Transceive \/ TxTake \/ TxRunEnd \/ TxDone
           \/ \E ok \in BOOLEAN : WriteMultipleRegs(ok)
  <2>1. /\ UNCHANGED <<cfg, frame_quan, curr_frame, read_in_process, rxPos>>
        /\ commPc' \in {"proc", "rx_read", "tx_scan", "tx_send"}
    BY <1>3 DEF Startup, TimeoutWait, TimeoutElapsed, StageOff, ErrsHandle, StageTo,
                Transceive, TxTake, TxRunEnd, TxDone, WriteMultipleRegs, cfgVars, rxVars
  <2>2. QED
    BY <2>1 DEF ScanInv
<1>4. ASSUME NEW ok \in BOOLEAN, ReadInputRegs(ok)
      PROVE  ScanInv'
  BY <1>4 DEF ReadInputRegs, ScanInv, cfgVars
<1>5. CASE RxCheck
  <2>1. UNCHANGED <<cfg, frame_quan, curr_frame, read_in_process>> /\ RxCount' = RxCount
    BY <1>5 DEF RxCheck, cfgVars, RxCount, RegIndex
  <2>2. commPc' = "rx_store" => rxPos' < RxCount
    BY <1>5, <1>f DEF RxCheck
  <2>3. commPc' \notin CfgPc
    BY <1>5 DEF RxCheck
  <2>4. QED
    BY <2>1, <2>2, <2>3 DEF ScanInv
<1>6. CASE RxStore
  BY <1>6 DEF RxStore, ScanInv, cfgVars
<1>7. CASE RxDone
  <2>1. curr_frame' = 0 \/ (read_in_process' /\ curr_frame' < frame_quan)
    <3>1. CASE curr_frame + 1 >= frame_quan
      BY <1>7, <3>1 DEF RxDone, RxDoneWith
    <3>2. CASE ~(curr_frame + 1 >= frame_quan)
      <4>1. curr_frame' = curr_frame + 1 /\ curr_frame + 1 < frame_quan
        BY <1>7, <1>f, <3>2 DEF RxDone, RxDoneWith
      <4>2. read_in_process'
        BY <1>7, <3>2, Zenon DEF RxDone, RxDoneWith
      <4>3. QED
        BY <4>1, <4>2
    <3>3. QED
      BY <3>1, <3>2
  <2>2. QED
    BY <1>7, <2>1 DEF RxDone, RxDoneWith, ScanInv, cfgVars
<1>8. CASE InterfaceStep
  <2>1. UNCHANGED <<cfg, frame_quan, curr_frame, read_in_process, rxPos, commPc>>
    BY <1>8 DEF InterfaceStep, SetLoad, SetLockStore, SetValStore, ConnToggle,
                SettingChange, cfgVars, rxVars
  <2>2. RxCount' = RxCount
    BY <2>1 DEF RxCount, RegIndex
  <2>3. QED
    BY <2>1, <2>2 DEF ScanInv
<1>9. CASE UNCHANGED vars
  <2>1. UNCHANGED <<cfg, frame_quan, curr_frame, read_in_process, rxPos, commPc>>
    BY <1>9 DEF vars, cfgVars, rxVars
  <2>2. RxCount' = RxCount
    BY <2>1 DEF RxCount, RegIndex
  <2>3. QED
    BY <2>1, <2>2 DEF ScanInv
<1>10. QED
  BY <1>1, <1>2, <1>3, <1>4, <1>5, <1>6, <1>7, <1>8, <1>9 DEF Next, CommStep

\* BatchInv is preserved.
LEMMA BatchStep == ASSUME IInv, [Next]_vars PROVE BatchInv'
<1> USE DEF IInv, BatchInv, TxNext
<1>t. /\ txIndex \in Nat /\ txCount \in Nat /\ attempts \in Nat
      /\ RegCount \in Nat /\ TxFrame \in Nat \ {0} /\ Attempts \in Nat \ {0}
  BY FrameAssumption DEF TypeOK
<1>1. CASE \/ ConfigEnter \/ ConfigAddr \/ ConfigQuan \/ ConfigSlave
           \/ Startup \/ TimeoutWait \/ TimeoutElapsed \/ StageOff \/ ErrsHandle
           \/ Transceive \/ RxCheck \/ RxStore
           \/ \E ok \in BOOLEAN : ReadInputRegs(ok)
  <2>1. /\ UNCHANGED txVars
        /\ commPc \notin {"tx_scan", "tx_send"} /\ commPc' \notin {"tx_scan", "tx_send"}
    BY <1>1 DEF ConfigEnter, ConfigAddr, ConfigQuan, ConfigSlave, Startup, TimeoutWait,
                TimeoutElapsed, StageOff, ErrsHandle, StageTo, Transceive, RxCheck,
                RxStore, ReadInputRegs
  <2>2. QED
    BY <2>1, <1>t DEF txVars
<1>2. CASE RxDone
  BY <1>2, <1>t DEF RxDone, RxDoneWith
<1>3. CASE TxTake
  BY <1>3, <1>t DEF TxTake, CanTake
<1>4. CASE TxRunEnd
  BY <1>4, <1>t DEF TxRunEnd
<1>5. ASSUME NEW ok \in BOOLEAN, WriteMultipleRegs(ok)
      PROVE  BatchInv'
  BY <1>5, <1>t DEF WriteMultipleRegs
<1>6. CASE TxDone
  BY <1>6, <1>t DEF TxDone
<1>7. CASE InterfaceStep \/ UNCHANGED vars
  <2>1. UNCHANGED <<txIndex, txCount, attempts, commPc>>
    BY <1>7 DEF InterfaceStep, SetLoad, SetLockStore, SetValStore, ConnToggle,
                SettingChange, vars, txVars
  <2>2. QED
    BY <2>1
<1>8. QED
  BY <1>1, <1>2, <1>3, <1>4, <1>5, <1>6, <1>7 DEF Next, CommStep

-----------------------------------------------------------------------------
\* The inductive invariant of the polling task.
LEMMA Invariance == Spec => []IInv
<1>1. IInv /\ [Next]_vars => IInv'
  BY TypeStep, ScanStep, BatchStep DEF IInv
<1>2. QED
  BY InitInv, <1>1, PTL DEF Spec

\* Every variable keeps its type, whatever the table and frame sizes.
THEOREM TypeCorrect == Spec => []TypeOK
<1>1. IInv => TypeOK
  BY DEF IInv
<1>2. QED
  BY <1>1, Invariance, PTL

\* No frame read reaches past usRegData or the register table.
THEOREM FramesInRange == Spec => []FrameInRange
<1>1. IInv => FrameInRange
  BY CurrentFrameFits DEF IInv, FrameInRange
<1>2. QED
  BY <1>1, Invariance, PTL

\* No write reaches past usRegData or the register table.
THEOREM BatchesInRange == Spec => []BatchInRange
<1>1. IInv => BatchInRange
  BY DEF IInv, BatchInv, BatchInRange
<1>2. QED
  BY <1>1, Invariance, PTL

\* All frames of a scan use the same settings.
THEOREM ScanSettingsStable == Spec => ConfigStableInScan
<1>1. IInv /\ [Next]_vars => [curr_frame # 0 => cfg' = cfg]_vars
  <2> SUFFICES ASSUME IInv, Next, curr_frame # 0
               PROVE  cfg' = cfg
    BY DEF vars, cfgVars
  <2>1. commPc \notin CfgPc
    BY DEF IInv, ScanInv
  <2>2. ~ConfigAddr /\ ~ConfigQuan /\ ~ConfigSlave
    BY <2>1 DEF CfgPc, ConfigAddr, ConfigQuan, ConfigSlave
  <2>3. ASSUME CommStep PROVE cfg' = cfg
    BY <2>2, <2>3 DEF CommStep, ConfigEnter, Startup, TimeoutWait, TimeoutElapsed,
       StageOff, ErrsHandle, StageTo, Transceive, ReadInputRegs, RxCheck, RxStore,
       RxDone, RxDoneWith, TxTake, TxRunEnd, WriteMultipleRegs, TxDone, cfgVars
  <2>4. ASSUME InterfaceStep PROVE cfg' = cfg
    BY <2>4 DEF InterfaceStep, SetLoad, SetLockStore, SetValStore, ConnToggle,
       SettingChange, cfgVars
  <2>5. QED
    BY <2>3, <2>4 DEF Next
<1>2. QED
  BY <1>1, Invariance, PTL DEF Spec, ConfigStableInScan

\* While InterCommDataSet stands between its load and its store, every bit still set in
\* that byte is among those it loaded: the polling task only clears bits meanwhile.
LoadedByteInv == "lock" \in setTodo => readLock \cap ByteOf(setReg) \subseteq setByte

LEMMA LoadedByteCovers == Spec => []LoadedByteInv
<1>1. Init => LoadedByteInv
  BY DEF Init, LoadedByteInv
<1>2. LoadedByteInv /\ [Next]_vars => LoadedByteInv'
  <2> SUFFICES ASSUME LoadedByteInv, [Next]_vars PROVE LoadedByteInv'
    OBVIOUS
  <2> USE DEF LoadedByteInv, ByteOf
  <2>1. CASE CommStep
    <3>1. UNCHANGED <<setReg, setTodo, setByte>> /\ readLock' \subseteq readLock
      BY <2>1 DEF CommStep, ConfigEnter, ConfigAddr, ConfigQuan, ConfigSlave, Startup,
         TimeoutWait, TimeoutElapsed, StageOff, ErrsHandle, StageTo, Transceive,
         ReadInputRegs, RxCheck, RxStore, RxDone, RxDoneWith, TxTake, TxRunEnd,
         WriteMultipleRegs, TxDone, setVars, regVars
    <3>2. QED
      BY <3>1
  <2>2. ASSUME NEW i \in Reg, SetLoad(i)
        PROVE  LoadedByteInv'
    BY <2>2 DEF SetLoad, regVars
  <2>3. CASE SetLockStore
    BY <2>3 DEF SetLockStore
  <2>4. CASE SetValStore
    BY <2>4 DEF SetValStore, SetReturns
  <2>5. CASE ConnToggle \/ SettingChange \/ UNCHANGED vars
    BY <2>5 DEF ConnToggle, SettingChange, vars, regVars, setVars
  <2>6. QED
    BY <2>1, <2>2, <2>3, <2>4, <2>5 DEF Next, InterfaceStep
<1>3. QED
  BY <1>1, <1>2, PTL DEF Spec

\* Only the step that copies a register into a write clears its read-lock bit: the
\* unprotected |= of InterCommDataReadLock may bring a stale bit back, but wipes none.
THEOREM LocksHeldUntilTaken == Spec => LockHeldUntilTaken
<1> DEFINE Takes(i) == commPc = "tx_scan" /\ i = TxNext /\ txCount' = txCount + 1
<1>1. TypeOK /\ LoadedByteInv /\ [Next]_vars
        => [\A i \in readLock \ readLock' : Takes(i)]_vars
  <2> SUFFICES ASSUME TypeOK, LoadedByteInv, Next,
                      NEW i \in readLock, i \notin readLock'
               PROVE  Takes(i)
    BY DEF vars, regVars
  <2>1. CASE TxTake
    BY <2>1 DEF TxTake
  <2>2. CASE SetLockStore
    <3>1. i \in Reg
      BY DEF TypeOK
    <3>2. i \in readLock'
      BY <2>2, <3>1 DEF SetLockStore, LoadedByteInv, ByteOf
    <3>3. QED
      BY <3>2
  <2>3. CASE Next /\ ~TxTake /\ ~SetLockStore
    <3>1. readLock' = readLock
      <4>1. CASE CommStep
        BY <4>1, <2>3 DEF CommStep, ConfigEnter, ConfigAddr, ConfigQuan, ConfigSlave,
           Startup, TimeoutWait, TimeoutElapsed, StageOff, ErrsHandle, StageTo,
           Transceive, ReadInputRegs, RxCheck, RxStore, RxDone, RxDoneWith, TxRunEnd,
           WriteMultipleRegs, TxDone, regVars
      <4>2. CASE InterfaceStep
        BY <4>2, <2>3 DEF InterfaceStep, SetLoad, SetValStore, ConnToggle, SettingChange,
           regVars
      <4>3. QED
        BY <4>1, <4>2, <2>3 DEF Next
    <3>2. QED
      BY <3>1
  <2>4. QED
    BY <2>1, <2>2, <2>3
<1>2. QED
  BY <1>1, TypeCorrect, LoadedByteCovers, PTL DEF Spec, LockHeldUntilTaken

-----------------------------------------------------------------------------
(* What would repair the lost values.                                       *)

\* Two critical sections that the code does not have: one around the two stores of
\* InterCommDataSet, one from the lock test of the copy loop to the store it guards.
Sections ==
    /\ setTodo # {} => ~CommStep
    /\ commPc = "rx_store" => UNCHANGED setVars

SectionSpec == Init /\ [][Next /\ Sections]_vars

\* The copy loop stands before a store only to a register without a mark, and no
\* InterCommDataSet has begun since the test.
SectionInv ==
    /\ UserValueStaysMarked
    /\ "lock" \in setTodo => setByte = readLock \cap ByteOf(setReg)
    /\ setTodo = {"val"} => setReg \in readLock
    /\ commPc = "rx_store" => setTodo = {} /\ RegIndex + rxPos \notin readLock

LEMMA SectionStep ==
    ASSUME TypeOK, SectionInv, Next, Sections
    PROVE  SectionInv'
<1> USE DEF SectionInv, UserValueStaysMarked
<1>1. CASE CommStep
  <2>1. setTodo = {} /\ UNCHANGED setVars
    BY <1>1 DEF Sections, CommStep, ConfigEnter, ConfigAddr, ConfigQuan, ConfigSlave,
       Startup, TimeoutWait, TimeoutElapsed, StageOff, ErrsHandle, StageTo, Transceive,
       ReadInputRegs, RxCheck, RxStore, RxDone, RxDoneWith, TxTake, TxRunEnd,
       WriteMultipleRegs, TxDone
  <2>2. CASE RxCheck
    <3>1. UNCHANGED <<readLock, val>> /\ RegIndex' = RegIndex
      BY <2>2 DEF RxCheck, regVars, RegIndex
    <3>2. commPc' = "rx_store" => RegIndex' + rxPos' \notin readLock'
      BY <2>2, <3>1 DEF RxCheck
    <3> QED
      BY <2>1, <3>1, <3>2 DEF setVars
  <2>3. CASE RxStore
    <3>1. \A i \in Watched : val[i] # "settled" => i \in readLock
      BY <2>1 DEF TypeOK, Content
    <3>2. val' = val
      BY <2>3, <3>1 DEF RxStore, TypeOK
    <3> QED
      BY <2>1, <2>3, <3>2 DEF RxStore, setVars
  <2>4. CASE TxTake
    BY <2>1, <2>4 DEF TxTake, setVars
  <2>5. CASE ~RxCheck /\ ~RxStore /\ ~TxTake
    <3>1. UNCHANGED <<readLock, val>> /\ commPc' # "rx_store"
      BY <1>1, <2>5 DEF CommStep, ConfigEnter, ConfigAddr, ConfigQuan, ConfigSlave,
         Startup, TimeoutWait, TimeoutElapsed, StageOff, ErrsHandle, StageTo, Transceive,
         ReadInputRegs, RxDone, RxDoneWith, TxRunEnd, WriteMultipleRegs, TxDone, regVars
    <3> QED
      BY <2>1, <3>1 DEF setVars
  <2> QED
    BY <2>2, <2>3, <2>4, <2>5
<1>2. ASSUME NEW i \in Reg, SetLoad(i) PROVE SectionInv'
  <2>1. commPc # "rx_store"
    BY <1>2 DEF SetLoad, Sections, setVars
  <2> QED
    BY <1>2, <2>1 DEF SetLoad, regVars
<1>3. CASE SetLockStore
  <2>1. readLock \subseteq readLock' /\ setReg \in readLock'
    BY <1>3 DEF SetLockStore, ByteOf
  <2>2. setTodo # {} /\ commPc' # "rx_store" /\ val' = val /\ "lock" \notin setTodo'
    BY <1>3 DEF SetLockStore
  <2>3. setTodo' # {} => setReg' = setReg
    BY <1>3 DEF SetLockStore, SetReturns
  <2> QED
    BY <2>1, <2>2, <2>3
<1>4. CASE SetValStore
  <2>1. UNCHANGED <<readLock, commPc, setByte>> /\ setTodo # {} /\ commPc # "rx_store"
    BY <1>4 DEF SetValStore
  <2>2. \A i \in Watched :
           i # setReg => /\ val'[i] # "lost"
                         /\ val'[i] = "user" => i \in readLock'
    BY <1>4, <2>1 DEF SetValStore
  <2>3. \A i \in Watched : i = setReg => val'[i] = "user"
    BY <1>4 DEF SetValStore
  <2>4. CASE "lock" \in setTodo
    <3>1. setTodo' = {"lock"} /\ setReg' = setReg
      BY <1>4, <2>4 DEF SetValStore, SetReturns, TypeOK
    <3> QED
      BY <2>1, <2>2, <2>3, <2>4, <3>1 DEF ByteOf
  <2>5. CASE "lock" \notin setTodo
    <3>1. setTodo' = {} /\ setReg \in readLock
      BY <1>4, <2>5 DEF SetValStore, TypeOK
    <3> QED
      BY <2>1, <2>2, <2>3, <3>1
  <2> QED
    BY <2>4, <2>5
<1>5. CASE ConnToggle \/ SettingChange
  <2>1. UNCHANGED <<readLock, val, setReg, setTodo, setByte, commPc, rxPos, curr_frame>>
    BY <1>5 DEF ConnToggle, SettingChange, regVars, setVars, rxVars
  <2> QED
    BY <2>1 DEF ByteOf, RegIndex
<1> QED
  BY <1>1, <1>2, <1>3, <1>4, <1>5 DEF Next, InterfaceStep

\* With the two sections no value the user set is lost, whatever else the two tasks
\* interleave: what UserValueStaysMarked fails on is the lack of them and nothing more.
THEOREM SectionsSuffice == SectionSpec => []UserValueStaysMarked
<1>1. Init => SectionInv
  BY DEF Init, SectionInv, UserValueStaysMarked
<1>2. TypeOK /\ SectionInv /\ [Next /\ Sections]_vars => SectionInv'
  <2>1. TypeOK /\ SectionInv /\ Next /\ Sections => SectionInv'
    BY SectionStep
  <2>2. SectionInv /\ UNCHANGED vars => SectionInv'
    BY DEF SectionInv, UserValueStaysMarked, vars, regVars, setVars, rxVars, RegIndex, ByteOf
  <2> QED
    BY <2>1, <2>2
<1>3. SectionSpec => Spec
  <2>1. [Next /\ Sections]_vars => [Next]_vars
    OBVIOUS
  <2> QED
    BY <2>1, PTL DEF SectionSpec, Spec
<1>4. SectionInv => UserValueStaysMarked
  BY DEF SectionInv
<1> QED
  BY <1>1, <1>2, <1>3, <1>4, TypeCorrect, PTL DEF SectionSpec

-----------------------------------------------------------------------------
(* A call of inter_comm_proc ends.                                          *)

PerRegister == Attempts + 2      \* the most steps a register of the table costs a scan

ToScan(n) == (RegCount - n) * PerRegister

\* Bound on the steps left to the scan for marked registers: a run found is sent, each
\* attempt uses one up, and no register is looked at again after it.
TxLeft ==
    1 + ToScan(TxNext) + (IF commPc = "tx_send" THEN attempts
                          ELSE IF txCount > 0 THEN Attempts + 1 ELSE 0)

\* The same of the steps before that scan.
RxLeft ==
    IF commPc = "rx_done" THEN 1
    ELSE IF commPc = "rx_store" THEN 1 + 2 * (RxFrame - rxPos)
    ELSE IF commPc = "rx_check" THEN 2 + 2 * (RxFrame - rxPos)
    ELSE IF commPc = "rx_read" THEN 3 + 2 * RxFrame
    ELSE IF commPc = "stage" THEN 4 + 2 * RxFrame
    ELSE IF commPc = "cfg_slave" THEN 5 + 2 * RxFrame
    ELSE IF commPc = "cfg_quan" THEN 6 + 2 * RxFrame
    ELSE 7 + 2 * RxFrame

\* Bound on the steps of the polling task left to a call.
Left ==
    IF commPc = "proc" THEN 0
    ELSE IF commPc \in {"tx_scan", "tx_send"} THEN TxLeft
    ELSE 1 + ToScan(0) + RxLeft

CallBound == 8 + 2 * RxFrame + RegCount * PerRegister

LEMMA ScanBounds ==
    /\ PerRegister \in Nat
    /\ ToScan(0) = RegCount * PerRegister
    /\ \A n \in 0 .. RegCount : ToScan(n) \in 0 .. ToScan(0)
    /\ \A n \in 0 .. RegCount - 1 : ToScan(n + 1) = ToScan(n) - PerRegister
<1>1. PerRegister \in Nat /\ RegCount \in Nat
  BY FrameAssumption DEF PerRegister
<1> HIDE DEF PerRegister
<1>2. ToScan(0) = RegCount * PerRegister
  BY <1>1 DEF ToScan
<1>3. ASSUME NEW n \in 0 .. RegCount PROVE ToScan(n) \in 0 .. ToScan(0)
  <2> DEFINE m == RegCount - n
  <2>1. m \in Nat /\ n \in Nat
    BY <1>1
  <2> HIDE DEF m
  <2>2. m * PerRegister \in Nat /\ n * PerRegister \in Nat
    BY <1>1, <2>1
  <2>3. RegCount = m + n
    BY <1>1 DEF m
  <2>4. (m + n) * PerRegister = m * PerRegister + n * PerRegister
    BY <1>1, <2>1
  <2>5. ToScan(n) = m * PerRegister
    BY DEF ToScan, m
  <2>6. ToScan(0) = m * PerRegister + n * PerRegister
    BY <1>2, <2>3, <2>4
  <2> HIDE DEF ToScan
  <2> QED
    BY <2>2, <2>5, <2>6
<1>4. ASSUME NEW n \in 0 .. RegCount - 1 PROVE ToScan(n + 1) = ToScan(n) - PerRegister
  <2> DEFINE m == RegCount - (n + 1)
  <2>1. m \in Nat
    BY <1>1
  <2> HIDE DEF m
  <2>2. (m + 1) * PerRegister = m * PerRegister + PerRegister /\ m * PerRegister \in Nat
    BY <1>1, <2>1
  <2>3. RegCount - n = m + 1
    BY <1>1 DEF m
  <2>4. ToScan(n + 1) = m * PerRegister /\ ToScan(n) = (m + 1) * PerRegister
    BY <2>3 DEF ToScan, m
  <2> QED
    BY <1>1, <2>2, <2>4
<1> QED
  BY <1>1, <1>2, <1>3, <1>4

LEMMA LeftBounds == IInv => Left \in 0 .. CallBound /\ (commPc # "proc" => Left > 0)
<1> SUFFICES ASSUME IInv PROVE Left \in 0 .. CallBound /\ (commPc # "proc" => Left > 0)
  OBVIOUS
<1>1. /\ RxFrame \in Nat /\ rxPos \in 0 .. RxFrame /\ Attempts \in Nat
      /\ RegCount \in Nat \ {0}
  BY FrameAssumption DEF IInv, TypeOK
<1>2. ToScan(0) \in Nat /\ CallBound = 8 + 2 * RxFrame + ToScan(0)
  BY ScanBounds, FrameAssumption DEF CallBound
<1>3. CASE commPc \in {"tx_scan", "tx_send"}
  <2>1. ToScan(TxNext) \in 0 .. ToScan(0)
    BY ScanBounds, FrameAssumption DEF IInv, BatchInv, TypeOK, TxNext
  <2>2. CASE txCount = 0
    <3>1. commPc = "tx_scan"
      BY <1>3, <2>2 DEF IInv, BatchInv
    <3>2. TxLeft = 1 + ToScan(TxNext)
      BY <2>1, <2>2, <3>1 DEF TxLeft
    <3>3. Left = 1 + ToScan(TxNext)
      BY <3>1, <3>2 DEF Left
    <3> QED
      BY <1>1, <1>2, <2>1, <3>3
  <2>3. CASE txCount > 0
    <3>1. TxNext \in 1 .. RegCount /\ TxNext - 1 \in 0 .. RegCount - 1
      BY <1>1, <2>3, FrameAssumption DEF IInv, BatchInv, TypeOK, TxNext
    <3>2. ToScan((TxNext - 1) + 1) = ToScan(TxNext - 1) - PerRegister
      BY <3>1, ScanBounds
    <3>3. ToScan(TxNext - 1) \in 0 .. ToScan(0)
      <4>1. TxNext - 1 \in 0 .. RegCount
        BY <1>1, <3>1
      <4> QED
        BY <4>1, ScanBounds
    <3>4. (TxNext - 1) + 1 = TxNext
      BY <3>1
    <3>5. ToScan(TxNext) + PerRegister <= ToScan(0)
      BY <3>2, <3>3, <3>4, <2>1, ScanBounds
    <3>6. attempts \in 0 .. Attempts
      BY DEF IInv, TypeOK
    <3>7. /\ Left >= 1 + ToScan(TxNext)
          /\ Left <= 1 + ToScan(TxNext) + Attempts + 1
          /\ Left \in Int
      BY <1>1, <1>3, <2>1, <2>3, <3>6 DEF Left, TxLeft
    <3> QED
      BY <1>1, <1>2, <2>1, <3>5, <3>7 DEF PerRegister
  <2> QED
    BY <2>2, <2>3, FrameAssumption DEF IInv, TypeOK
<1>4. CASE commPc \notin {"tx_scan", "tx_send"}
  <2>1. RxLeft \in 1 .. 7 + 2 * RxFrame
    BY <1>1 DEF RxLeft
  <2> QED
    BY <1>1, <1>2, <1>4, <2>1 DEF Left
<1> QED
  BY <1>3, <1>4

\* A register the scan has looked at pays for the run, and the write, it may begin.
LEMMA TxLeftDecreases ==
    ASSUME IInv, TxTake \/ TxRunEnd \/ \E ok \in BOOLEAN : WriteMultipleRegs(ok)
    PROVE  commPc' \in {"tx_scan", "tx_send"} /\ TxLeft' < TxLeft
<1>1. /\ Attempts \in Nat \ {0} /\ txCount \in Nat /\ txIndex \in Nat
      /\ attempts \in Nat /\ RegCount \in Nat /\ TxNext \in Nat
  BY FrameAssumption DEF IInv, TypeOK, TxNext
<1>2. \A n \in 0 .. RegCount : ToScan(n) \in Int
  BY ScanBounds, FrameAssumption
<1>3. ASSUME TxNext < RegCount, TxNext' = TxNext + 1,
             commPc' = "tx_send" => attempts' = Attempts
      PROVE  TxLeft' <= 1 + ToScan(TxNext) - 1
  <2>1. ToScan(TxNext + 1) = ToScan(TxNext) - (Attempts + 2)
    BY <1>1, <1>3, ScanBounds DEF PerRegister
  <2>2. ToScan(TxNext) \in Int
    BY <1>1, <1>2, <1>3
  <2>3. ToScan(TxNext)' = ToScan(TxNext + 1)
    BY <1>3 DEF ToScan
  <2>4. TxLeft' <= 1 + ToScan(TxNext + 1) + Attempts + 1
    BY <1>1, <1>3, <2>1, <2>2, <2>3 DEF TxLeft
  <2>5. TxLeft' \in Int
    BY <1>1, <1>3, <2>1, <2>2, <2>3 DEF TxLeft
  <2> QED
    BY <1>1, <2>1, <2>2, <2>4, <2>5
<1>4. TxNext \in 0 .. RegCount /\ ToScan(TxNext) \in Int
  BY <1>1, <1>2 DEF IInv, BatchInv
<1>5. CASE TxTake
  <2>1. commPc = "tx_scan" /\ commPc' \in {"tx_scan", "tx_send"}
    BY <1>5 DEF TxTake
  <2>2. TxNext < RegCount /\ TxNext' = TxNext + 1
    BY <1>1, <1>5 DEF TxTake, CanTake, TxNext
  <2>3. commPc' = "tx_send" => attempts' = Attempts
    BY <1>5 DEF TxTake
  <2>4. TxLeft >= 1 + ToScan(TxNext) /\ TxLeft \in Int
    BY <1>1, <1>4, <2>1 DEF TxLeft
  <2>5. TxLeft' \in Int
    <3>1. ToScan(TxNext)' \in Int
      BY <1>1, <1>2, <2>2 DEF ToScan
    <3> QED
      BY <1>1, <1>5, <2>3, <3>1 DEF TxLeft, TxTake
  <2> QED
    BY <1>3, <1>4, <2>1, <2>2, <2>3, <2>4, <2>5
<1>6. CASE TxRunEnd
  <2>1. commPc = "tx_scan"
    BY <1>6 DEF TxRunEnd
  <2>2. CASE txCount > 0
    <3>1. commPc' = "tx_send" /\ attempts' = Attempts /\ ToScan(TxNext)' = ToScan(TxNext)
      BY <1>6, <2>2 DEF TxRunEnd, TxNext, ToScan
    <3> QED
      BY <1>1, <1>4, <2>1, <2>2, <3>1 DEF TxLeft
  <2>3. CASE ~(txCount > 0)
    <3>1. txCount = 0 /\ txCount' = 0 /\ txIndex' = txIndex + 1 /\ commPc' = "tx_scan"
      BY <1>1, <1>6, <2>3 DEF TxRunEnd
    <3>2. TxNext < RegCount /\ TxNext' = TxNext + 1
      BY <1>1, <1>6, <3>1 DEF TxRunEnd, TxNext
    <3>3. TxLeft = 1 + ToScan(TxNext)
      BY <1>4, <2>1, <3>1 DEF TxLeft
    <3>4. ToScan(TxNext)' \in Int
      BY <1>1, <1>2, <3>2 DEF ToScan
    <3>5. TxLeft' \in Int
      BY <3>1, <3>4 DEF TxLeft
    <3> QED
      BY <1>3, <1>4, <3>1, <3>2, <3>3, <3>5
  <2> QED
    BY <2>2, <2>3
<1>7. ASSUME NEW ok \in BOOLEAN, WriteMultipleRegs(ok)
      PROVE  commPc' \in {"tx_scan", "tx_send"} /\ TxLeft' < TxLeft
  <2>1. commPc = "tx_send" /\ attempts \in 1 .. Attempts
    BY <1>7 DEF WriteMultipleRegs, IInv, BatchInv
  <2>2. TxLeft = 1 + ToScan(TxNext) + attempts
    BY <2>1 DEF TxLeft
  <2>3. CASE ok \/ attempts = 1
    <3>1. commPc' = "tx_scan" /\ txCount' = 0 /\ txIndex' = TxNext
      BY <1>7, <2>3 DEF WriteMultipleRegs
    <3>2. ToScan(TxNext)' = ToScan(TxNext)
      BY <1>1, <3>1 DEF TxNext, ToScan
    <3>3. TxLeft' = 1 + ToScan(TxNext)
      BY <1>4, <3>1, <3>2 DEF TxLeft
    <3> QED
      BY <1>1, <1>4, <2>1, <2>2, <3>1, <3>3
  <2>4. CASE ~(ok \/ attempts = 1)
    <3>1. commPc' = "tx_send" /\ attempts' = attempts - 1 /\ UNCHANGED <<txCount, txIndex>>
      BY <1>7, <2>1, <2>4 DEF WriteMultipleRegs
    <3>2. ToScan(TxNext)' = ToScan(TxNext)
      BY <3>1 DEF TxNext, ToScan
    <3> QED
      BY <1>1, <1>4, <2>2, <3>1, <3>2 DEF TxLeft
  <2> QED
    BY <2>3, <2>4
<1> QED
  BY <1>5, <1>6, <1>7

LEMMA RxLeftDecreases ==
    ASSUME IInv, commPc' \notin {"proc", "tx_scan", "tx_send"},
           \/ ConfigAddr \/ ConfigQuan \/ ConfigSlave \/ Transceive
           \/ RxCheck \/ RxStore \/ \E ok \in BOOLEAN : ReadInputRegs(ok)
    PROVE  RxLeft' < RxLeft
<1>1. rxPos \in 0 .. RxFrame /\ RxFrame \in Nat /\ RxCount \in 1 .. RxFrame
  BY CurrentFrameFits, FrameAssumption DEF IInv, TypeOK
<1>2. CASE ConfigAddr \/ ConfigQuan \/ ConfigSlave \/ Transceive
  BY <1>1, <1>2 DEF ConfigAddr, ConfigQuan, ConfigSlave, Transceive, RxLeft
<1>3. CASE RxCheck
  BY <1>1, <1>3 DEF RxCheck, RxLeft
<1>4. CASE RxStore
  BY <1>1, <1>4 DEF RxStore, RxLeft
<1>5. ASSUME NEW ok \in BOOLEAN, ReadInputRegs(ok) PROVE RxLeft' < RxLeft
  BY <1>1, <1>5 DEF ReadInputRegs, RxLeft
<1> QED
  BY <1>2, <1>3, <1>4, <1>5

\* No step of the polling task but the next call's first one leaves a call without less
\* to do, and the interface task, marking what it likes, adds nothing.
CallEnds ==
    [][/\ CommStep /\ commPc # "proc" => Left' < Left
       /\ InterfaceStep => Left' = Left]_vars

\* inter_comm_proc returns within a number of the polling task's steps that the frame and
\* table sizes give, however often the bus fails and whatever is marked meanwhile.  The
\* eventual delivery of settings and of marked registers rests on it.
THEOREM CallsEnd == Spec => [](Left \in 0 .. CallBound) /\ CallEnds
<1> DEFINE Bounded == Left \in 0 .. CallBound
<1>1. IInv => Bounded
  BY LeftBounds
<1>2. IInv /\ IInv' /\ Bounded' /\ [Next]_vars =>
         [/\ CommStep /\ commPc # "proc" => Left' < Left
          /\ InterfaceStep => Left' = Left]_vars
  <2> SUFFICES ASSUME IInv, TypeOK', Bounded', Next
               PROVE  /\ CommStep /\ commPc # "proc" => Left' < Left
                      /\ InterfaceStep => Left' = Left
    BY DEF IInv
  <2>1. Left \in Int /\ (commPc # "proc" => Left > 0)
    BY LeftBounds
  <2>3. ASSUME CommStep, commPc # "proc" PROVE Left' < Left
    <3>1. CASE commPc' = "proc"
      BY <2>1, <2>3, <3>1 DEF Left
    <3>2. CASE TxTake \/ TxRunEnd \/ \E ok \in BOOLEAN : WriteMultipleRegs(ok)
      <4>1. commPc' \in {"tx_scan", "tx_send"} /\ TxLeft' < TxLeft
        BY <3>2, TxLeftDecreases
      <4>2. commPc \in {"tx_scan", "tx_send"}
        BY <3>2 DEF TxTake, TxRunEnd, WriteMultipleRegs
      <4> QED
        BY <4>1, <4>2 DEF Left
    <3>3. CASE RxDone
      <4>1. commPc = "rx_done" /\ commPc' = "tx_scan" /\ txIndex' = 0 /\ txCount' = 0
        BY <3>3 DEF RxDone, RxDoneWith
      <4>2. ToScan(TxNext)' = ToScan(0) /\ ToScan(0) \in Int
        BY <4>1, ScanBounds, FrameAssumption DEF TxNext, ToScan
      <4>3. Left = 1 + ToScan(0) + 1
        BY <4>1 DEF Left, RxLeft
      <4>4. Left' = 1 + ToScan(0)
        BY <4>1, <4>2 DEF Left, TxLeft
      <4> QED
        BY <4>2, <4>3, <4>4
    <3>4. CASE /\ \/ ConfigAddr \/ ConfigQuan \/ ConfigSlave \/ Transceive
                  \/ RxCheck \/ RxStore \/ \E ok \in BOOLEAN : ReadInputRegs(ok)
               /\ commPc' # "proc"
      <4>1. {commPc, commPc'} \cap {"proc", "tx_scan", "tx_send"} = {}
        BY <3>4 DEF ConfigAddr, ConfigQuan, ConfigSlave, Transceive, RxCheck, RxStore,
                    ReadInputRegs
      <4>2. RxLeft' < RxLeft
        BY <3>4, <4>1, RxLeftDecreases
      <4>3. Left = 1 + ToScan(0) + RxLeft /\ Left' = 1 + ToScan(0) + RxLeft'
        BY <4>1 DEF Left, ToScan
      <4>4. ToScan(0) \in Int /\ RxLeft \in Int /\ RxLeft' \in Int
        BY ScanBounds, FrameAssumption DEF RxLeft, IInv, TypeOK
      <4> QED
        BY <4>2, <4>3, <4>4
    <3> QED
      BY <2>3, <3>1, <3>2, <3>3, <3>4 DEF CommStep, ConfigEnter, Startup, TimeoutWait,
         TimeoutElapsed, StageOff, ErrsHandle, StageTo, TxDone
  <2>4. ASSUME InterfaceStep PROVE Left' = Left
    <3>1. UNCHANGED <<commPc, rxPos, txIndex, txCount, attempts>>
      BY <2>4 DEF InterfaceStep, SetLoad, SetLockStore, SetValStore, ConnToggle,
         SettingChange, rxVars, txVars
    <3> QED
      BY <3>1 DEF Left, TxLeft, RxLeft, ToScan, TxNext
  <2> QED
    BY <2>3, <2>4
<1> QED
  BY <1>1, <1>2, Invariance, PTL DEF Spec, CallEnds
=============================================================================
