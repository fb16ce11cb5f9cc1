--------------------------- MODULE AppDataProofs ---------------------------
(***************************************************************************)
(* Proofs about AppData for every table of settings that satisfies          *)
(* AppDataAssumption and whatever the EEPROM holds at the first start.      *)
(*                                                                          *)
(* IInv adds to the properties of the runs what app_data_task has in hand   *)
(* between two of its steps: the value it restores is the one the EEPROM    *)
(* gives, the value it saves is the latest or is marked anew, and a scan of *)
(* the marks starts at the first setting.                                   *)
(***************************************************************************)
EXTENDS AppData, TLAPS

InRange(k, v) == v \in MinValue[k] .. MaxValue[k]

\* The value on its way from EEPROM to RAM.
RestoringInRange ==
    stage = "restore_store" => \A k \in Index : ItemId[k] = index => InRange(k, value)

RestoringLoaded ==
    stage = "restore_store" =>
        \A k \in Stored : ItemId[k] = index => value = Loaded(k, eeprom[k]) \/ k \in failed

\* The value on its way from RAM to EEPROM.
SavingLatest ==
    stage = "save_write" /\ value # ram[index] => save_flag[index] \/ BeingSet(index)

ScanStartsAtFirst ==
    stage \in {"notify", "monitor", "monitor_clear", "cooldown"} => index = 0

RangeInv == SettingsInRange /\ RestoringInRange
QueueInv == ChangesAreQueued /\ RestoringLoaded /\ SavingLatest
MarkInv  == MarksAreAnnounced /\ ScanStartsAtFirst

-----------------------------------------------------------------------------
\* A setting's limits are words, and none of them is the blank word.
LEMMA Limits ==
    ASSUME NEW k \in Index
    PROVE  /\ Quan \in Nat \ {0} /\ Blank \in Nat /\ ItemId[k] \in Nat
           /\ MinValue[k] \in Nat /\ MaxValue[k] \in Nat /\ Default[k] \in Nat
           /\ MinValue[k] <= Default[k] /\ Default[k] <= MaxValue[k] /\ MaxValue[k] < Blank
  BY AppDataAssumption DEF Word

\* app_data_item_load gives a value within the limits whatever word it reads ...
LEMMA LoadedInRange ==
    ASSUME NEW k \in Index, NEW v \in Word
    PROVE  InRange(k, Loaded(k, v)) /\ Loaded(k, v) \in Word
  BY Limits DEF InRange, Loaded, Validated, Word

\* ... and the very value that was saved.
LEMMA LoadedIsSaved ==
    ASSUME NEW k \in Stored, NEW v, InRange(k, v)
    PROVE  Loaded(k, v) = v
<1>1. k \in Index
  BY AppDataAssumption
<1> QED
  BY <1>1, Limits DEF InRange, Loaded, Validated, Word

-----------------------------------------------------------------------------
LEMMA InitType == Init => TypeOK
<1> SUFFICES ASSUME Init PROVE TypeOK
  OBVIOUS
<1>1. 0 \in Index /\ 0 \in Word
  BY AppDataAssumption DEF Index, Word
<1>2. ram \in [Index -> Word] /\ save_flag \in [Index -> BOOLEAN]
  BY <1>1 DEF Init
<1>3. param_changed \in BOOLEAN
  BY Zenon DEF Init
<1> QED
  BY <1>1, <1>2, <1>3 DEF Init, TypeOK, Stage

LEMMA NextType == TypeOK /\ [Next]_vars => TypeOK'
<1> SUFFICES ASSUME TypeOK, [Next]_vars PROVE TypeOK'
  OBVIOUS
<1> USE AppDataAssumption
<1>0. /\ ram \in [Index -> Word] /\ eeprom \in [Index -> Word]
      /\ save_flag \in [Index -> BOOLEAN] /\ param_changed \in BOOLEAN
      /\ stage \in Stage /\ index \in Index /\ value \in Word
      /\ setPc \in {"idle", "flag", "changed"} /\ setting \in Index
      /\ failed \subseteq Index
  BY DEF TypeOK
<1>1. 0 \in Index /\ 0 \in Word /\ Blank \in Word
  BY DEF Index, Word
<1>2. index + 1 < Quan => index + 1 \in Index
  BY <1>0 DEF Index
<1>3. CASE RestoreSkip \/ Notify \/ Monitor \/ MonitorClear \/ CooldownRestart
           \/ CooldownElapsed \/ SaveSkip
  <2>1. param_changed' \in BOOLEAN
    BY <1>3, <1>0, Zenon DEF RestoreSkip, Notify, Monitor, MonitorClear, CooldownRestart,
       CooldownElapsed, SaveSkip
  <2>2. stage' \in Stage /\ index' \in Index
    BY <1>3, <1>0, <1>1, <1>2 DEF RestoreSkip, Notify, Monitor, MonitorClear,
       CooldownRestart, CooldownElapsed, SaveSkip, NextToSave, At, Stage
  <2>3. /\ ram' = ram /\ eeprom' = eeprom /\ save_flag' = save_flag /\ value' = value
        /\ setPc' = setPc /\ setting' = setting /\ failed' = failed
    BY <1>3 DEF RestoreSkip, Notify, Monitor, MonitorClear, CooldownRestart,
       CooldownElapsed, SaveSkip, setVars
  <2> QED
    BY <1>0, <2>1, <2>2, <2>3, Zenon DEF TypeOK
<1>4. CASE SaveTest \/ SaveRead
  <2>1. save_flag' \in [Index -> BOOLEAN]
    BY <1>4, <1>0 DEF SaveTest, SaveRead
  <2>2. value' \in Word
    BY <1>4, <1>0 DEF SaveTest, SaveRead
  <2>3. /\ ram' = ram /\ eeprom' = eeprom /\ param_changed' = param_changed
        /\ index' = index /\ setPc' = setPc /\ setting' = setting /\ failed' = failed
    BY <1>4 DEF SaveTest, SaveRead, setVars
  <2>4. stage' \in Stage
    BY <1>4 DEF SaveTest, SaveRead, At, Stage
  <2> QED
    BY <1>0, <2>1, <2>2, <2>3, <2>4, Zenon DEF TypeOK
<1>5. ASSUME NEW k \in Index, NEW f \in BOOLEAN, RestoreLoad(k, f) PROVE TypeOK'
  <2>1. value' \in Word
    BY <1>5, <1>0, <1>1, LoadedInRange DEF RestoreLoad
  <2> QED
    BY <1>5, <1>0, <2>1 DEF TypeOK, RestoreLoad, At, Stage, setVars
<1>6. ASSUME NEW k \in Index, RestoreStore(k) PROVE TypeOK'
  BY <1>6, <1>0, <1>1, <1>2 DEF TypeOK, RestoreStore, At, Stage, setVars
<1>7. ASSUME NEW f \in BOOLEAN, NEW left \in Word, SaveWrite(f, left) PROVE TypeOK'
  <2>1. eeprom' \in [Index -> Word] /\ failed' \subseteq Index
    BY <1>7, <1>0 DEF SaveWrite
  <2> QED
    BY <1>7, <1>0, <1>1, <1>2, <2>1 DEF TypeOK, SaveWrite, NextToSave, At, Stage, setVars
<1>8. ASSUME NEW k \in Index, NEW v \in MinValue[k] .. MaxValue[k], SetStore(k, v)
      PROVE  TypeOK'
  <2>1. v \in Word
    BY <1>8, Limits DEF Word
  <2> QED
    BY <1>8, <1>0, <2>1 DEF TypeOK, SetStore, taskVars
<1>9. CASE SetFlag \/ SetChanged
  BY <1>9, <1>0 DEF TypeOK, SetFlag, SetChanged, taskVars
<1>10. ASSUME NEW left \in Word, Reset(left) PROVE TypeOK'
  <2>1. eeprom' \in [Index -> Word]
    BY <1>10, <1>0 DEF Reset
  <2> QED
    BY <1>10, <1>0, <1>1, <2>1 DEF TypeOK, Reset, Stage
<1>11. CASE UNCHANGED vars
  BY <1>11, <1>0 DEF TypeOK, vars, taskVars, setVars
<1> QED
  BY <1>3, <1>4, <1>5, <1>6, <1>7, <1>8, <1>9, <1>10, <1>11
  DEF Next, TaskStep, SetStep

\* Every variable has its type whatever the table holds.
THEOREM TypeCorrect == Spec => []TypeOK
  BY InitType, NextType, PTL DEF Spec

-----------------------------------------------------------------------------
\* A step that neither restores nor resets leaves the restored settings restored,
\* and restores no other.
LEMMA RestoredSame ==
    ASSUME NEW k \in Index,
           \/ stage' = stage /\ index' = index
           \/ /\ stage \notin {"restore", "restore_store"}
              /\ stage' \notin {"restore", "restore_store"}
    PROVE  IsRestored(k)' <=> IsRestored(k)
  BY DEF IsRestored

\* A step of the restore loop adds at most the setting whose id it has reached.
LEMMA RestoredNext ==
    ASSUME NEW k \in Index, TypeOK, RestoreSkip \/ (\E j \in Index : RestoreStore(j)),
           IsRestored(k)'
    PROVE  IsRestored(k) \/ ItemId[k] = index
<1>1. index \in Nat /\ Quan \in Nat /\ ItemId[k] \in Nat /\ index < Quan
  BY Limits DEF TypeOK, Index
<1>2. index + 1 < Quan => stage' = "restore" /\ index' = index + 1
  BY DEF RestoreSkip, RestoreStore, At
<1>3. stage \in {"restore", "restore_store"}
  BY DEF RestoreSkip, RestoreStore, At
<1> QED
  BY <1>1, <1>2, <1>3 DEF IsRestored

LEMMA InitRange == Init => RangeInv
  BY Limits DEF Init, RangeInv, SettingsInRange, RestoringInRange, IsRestored

LEMMA NextRange == TypeOK /\ RangeInv /\ [Next]_vars => RangeInv'
<1> SUFFICES ASSUME TypeOK, RangeInv, [Next]_vars PROVE RangeInv'
  OBVIOUS
<1>0. /\ ram \in [Index -> Word] /\ eeprom \in [Index -> Word] /\ index \in Index
      /\ \A k \in Index : IsRestored(k) => ram[k] \in MinValue[k] .. MaxValue[k]
      /\ stage = "restore_store" => \A k \in Index : ItemId[k] = index => InRange(k, value)
  BY DEF TypeOK, RangeInv, SettingsInRange, RestoringInRange
<1>1. CASE Notify \/ Monitor \/ MonitorClear \/ CooldownRestart \/ CooldownElapsed
           \/ SaveSkip \/ SaveTest \/ SaveRead
           \/ (\E f \in BOOLEAN, left \in Word : SaveWrite(f, left))
  <2>1. /\ stage \notin {"restore", "restore_store"}
        /\ stage' \notin {"restore", "restore_store"} /\ ram' = ram
    BY <1>1 DEF Notify, Monitor, MonitorClear, CooldownRestart, CooldownElapsed,
       SaveSkip, SaveTest, SaveRead, SaveWrite, NextToSave, At
  <2> QED
    BY <2>1, <1>0, RestoredSame DEF RangeInv, SettingsInRange, RestoringInRange
<1>2. CASE RestoreSkip
  <2>1. \A k \in Index : ItemId[k] # index
    BY <1>2 DEF RestoreSkip
  <2>2. ram' = ram /\ stage' # "restore_store"
    BY <1>2 DEF RestoreSkip, At
  <2> QED
    BY <1>2, <2>1, <2>2, <1>0, RestoredNext DEF RangeInv, SettingsInRange, RestoringInRange
<1>3. ASSUME NEW k \in Index, NEW f \in BOOLEAN, RestoreLoad(k, f) PROVE RangeInv'
  <2>1. InRange(k, value')
    <3>1. Blank \in Word
      BY AppDataAssumption DEF Word
    <3> QED
      BY <1>3, <3>1, <1>0, LoadedInRange DEF RestoreLoad
  <2>2. \A j \in Index : ItemId[j] = index => j = k
    BY <1>3, AppDataAssumption DEF RestoreLoad
  <2>3. ram' = ram /\ index' = index /\ stage = "restore" /\ stage' = "restore_store"
    BY <1>3 DEF RestoreLoad, At
  <2>4. \A j \in Index : IsRestored(j)' <=> IsRestored(j)
    BY <2>3 DEF IsRestored
  <2> QED
    BY <2>1, <2>2, <2>3, <2>4, <1>0 DEF RangeInv, SettingsInRange, RestoringInRange, InRange
<1>4. ASSUME NEW k \in Index, RestoreStore(k) PROVE RangeInv'
  <2>1. /\ ItemId[k] = index /\ stage = "restore_store" /\ stage' # "restore_store"
        /\ ram' = [ram EXCEPT ![k] = value]
    BY <1>4 DEF RestoreStore, At
  <2>2. \A j \in Index : ItemId[j] = index => j = k
    BY <2>1, AppDataAssumption
  <2>3. ram'[k] \in MinValue[k] .. MaxValue[k]
    BY <2>1, <1>0 DEF InRange
  <2>4. ASSUME NEW j \in Index, IsRestored(j)', j # k
        PROVE  ram'[j] \in MinValue[j] .. MaxValue[j]
    <3>1. IsRestored(j)
      BY <1>4, <2>4, <2>2, RestoredNext
    <3> QED
      BY <3>1, <2>1, <2>4, <1>0
  <2> QED
    BY <2>1, <2>3, <2>4 DEF RangeInv, SettingsInRange, RestoringInRange
<1>5. ASSUME NEW k \in Index, NEW v \in MinValue[k] .. MaxValue[k], SetStore(k, v)
      PROVE  RangeInv'
  <2>1. /\ stage' = stage /\ index' = index /\ value' = value
        /\ ram' = [ram EXCEPT ![k] = v]
    BY <1>5 DEF SetStore, taskVars
  <2>2. \A j \in Index : IsRestored(j)' <=> IsRestored(j)
    BY <2>1 DEF IsRestored
  <2> QED
    BY <2>1, <2>2, <1>0 DEF RangeInv, SettingsInRange, RestoringInRange, InRange
<1>6. CASE SetFlag \/ SetChanged \/ UNCHANGED vars
  <2>1. stage' = stage /\ index' = index /\ value' = value /\ ram' = ram
    BY <1>6 DEF SetFlag, SetChanged, vars, taskVars
  <2>2. \A j \in Index : IsRestored(j)' <=> IsRestored(j)
    BY <2>1 DEF IsRestored
  <2> QED
    BY <2>1, <2>2, <1>0 DEF RangeInv, SettingsInRange, RestoringInRange, InRange
<1>7. ASSUME NEW left \in Word, Reset(left) PROVE RangeInv'
  BY <1>7, Limits DEF Reset, RangeInv, SettingsInRange, RestoringInRange, IsRestored
<1> QED
  BY <1>1, <1>2, <1>3, <1>4, <1>5, <1>6, <1>7 DEF Next, TaskStep, SetStep

\* Once restored, a setting is within its limits whatever the EEPROM held and whoever
\* changed it: sys_param_validate stands between the EEPROM and every user of it.
THEOREM RestoredInRange == Spec => []SettingsInRange
<1>1. RangeInv => SettingsInRange
  BY DEF RangeInv
<1> QED
  BY <1>1, InitRange, NextRange, TypeCorrect, PTL DEF Spec

-----------------------------------------------------------------------------
LEMMA InitQueue == Init => QueueInv
<1> SUFFICES ASSUME Init PROVE QueueInv
  OBVIOUS
<1>1. \A k \in Index : ~IsRestored(k)
  BY Limits DEF Init, IsRestored
<1> QED
  BY <1>1, AppDataAssumption DEF Init, QueueInv, ChangesAreQueued, RestoringLoaded, SavingLatest

LEMMA NextQueue == TypeOK /\ RangeInv /\ QueueInv /\ [Next]_vars => QueueInv'
<1> SUFFICES ASSUME TypeOK, RangeInv, QueueInv, [Next]_vars PROVE QueueInv'
  OBVIOUS
<1>0. /\ ram \in [Index -> Word] /\ eeprom \in [Index -> Word]
      /\ save_flag \in [Index -> BOOLEAN] /\ index \in Index /\ setting \in Index
      /\ Stored \subseteq Index
  BY AppDataAssumption DEF TypeOK
<1>a. \A k \in Stored : IsRestored(k) /\ ~Settled(k) =>
        save_flag[k] \/ BeingSet(k) \/ BeingSaved(k) \/ k \in failed
  BY DEF QueueInv, ChangesAreQueued
<1>b. stage = "restore_store" =>
        \A k \in Stored : ItemId[k] = index => value = Loaded(k, eeprom[k]) \/ k \in failed
  BY DEF QueueInv, RestoringLoaded
<1>c. stage = "save_write" /\ value # ram[index] => save_flag[index] \/ BeingSet(index)
  BY DEF QueueInv, SavingLatest
<1>1. CASE Notify \/ Monitor \/ MonitorClear \/ CooldownRestart \/ CooldownElapsed
           \/ SaveSkip
  <2>1. /\ stage \notin {"restore", "restore_store", "save_read", "save_write"}
        /\ stage' \notin {"restore", "restore_store", "save_read", "save_write"}
    BY <1>1 DEF Notify, Monitor, MonitorClear, CooldownRestart, CooldownElapsed,
       SaveSkip, NextToSave, At
  <2>2. /\ ram' = ram /\ eeprom' = eeprom /\ save_flag' = save_flag
        /\ setPc' = setPc /\ setting' = setting /\ failed' = failed
    BY <1>1 DEF Notify, Monitor, MonitorClear, CooldownRestart, CooldownElapsed,
       SaveSkip, setVars
  <2>3. ASSUME NEW k \in Stored, IsRestored(k)', ~Settled(k)'
        PROVE  save_flag'[k] \/ BeingSet(k)' \/ k \in failed'
    <3>1. IsRestored(k) /\ ~Settled(k) /\ ~BeingSaved(k)
      BY <2>1, <2>2, <2>3, <1>0, RestoredSame DEF Settled, BeingSaved, Loaded, Validated
    <3> QED
      BY <3>1, <2>2, <1>a DEF BeingSet
  <2> QED
    BY <2>1, <2>3 DEF QueueInv, ChangesAreQueued, RestoringLoaded, SavingLatest
<1>2. CASE RestoreSkip
  <2>1. /\ \A k \in Index : ItemId[k] # index
        /\ stage' \notin {"restore_store", "save_read", "save_write"} /\ stage = "restore"
    BY <1>2 DEF RestoreSkip, At
  <2>2. /\ ram' = ram /\ eeprom' = eeprom /\ save_flag' = save_flag
        /\ setPc' = setPc /\ setting' = setting /\ failed' = failed
    BY <1>2 DEF RestoreSkip, setVars
  <2>3. ASSUME NEW k \in Stored, IsRestored(k)', ~Settled(k)'
        PROVE  save_flag'[k] \/ BeingSet(k)' \/ k \in failed'
    <3>1. IsRestored(k)
      BY <1>2, <2>1, <2>3, <1>0, RestoredNext
    <3>2. ~Settled(k) /\ ~BeingSaved(k)
      BY <2>1, <2>2, <2>3 DEF Settled, BeingSaved, Loaded, Validated
    <3> QED
      BY <3>1, <3>2, <2>2, <1>a DEF BeingSet
  <2> QED
    BY <2>1, <2>3 DEF QueueInv, ChangesAreQueued, RestoringLoaded, SavingLatest
<1>3. ASSUME NEW k \in Index, NEW f \in BOOLEAN, RestoreLoad(k, f) PROVE QueueInv'
  <2>1. /\ stage = "restore" /\ stage' = "restore_store" /\ index' = index
        /\ ItemId[k] = index
        /\ ram' = ram /\ eeprom' = eeprom /\ save_flag' = save_flag
        /\ setPc' = setPc /\ setting' = setting
    BY <1>3 DEF RestoreLoad, At, setVars
  <2>2. failed' = (IF f THEN failed \union {k} ELSE failed)
    BY <1>3 DEF RestoreLoad
  <2>3. ASSUME NEW j \in Stored, ItemId[j] = index
        PROVE  value' = Loaded(j, eeprom[j]) \/ j \in failed'
    <3>1. j = k
      BY <2>1, <2>3, AppDataAssumption
    <3> QED
      BY <1>3, <2>2, <3>1 DEF RestoreLoad
  <2>4. ASSUME NEW j \in Stored, IsRestored(j)', ~Settled(j)'
        PROVE  save_flag'[j] \/ BeingSet(j)' \/ j \in failed'
    <3>1. IsRestored(j) /\ ~Settled(j) /\ ~BeingSaved(j)
      BY <2>1, <2>4 DEF IsRestored, Settled, BeingSaved, Loaded, Validated
    <3> QED
      BY <3>1, <2>1, <2>2, <1>a DEF BeingSet
  <2>5. RestoringLoaded'
    BY <2>1, <2>3 DEF RestoringLoaded, Loaded, Validated
  <2> QED
    BY <2>1, <2>4, <2>5 DEF QueueInv, ChangesAreQueued, SavingLatest
<1>4. ASSUME NEW k \in Index, RestoreStore(k) PROVE QueueInv'
  <2>1. /\ ItemId[k] = index /\ stage = "restore_store"
        /\ stage' \notin {"restore_store", "save_read", "save_write"}
        /\ ram' = [ram EXCEPT ![k] = value] /\ eeprom' = eeprom /\ save_flag' = save_flag
        /\ setPc' = setPc /\ setting' = setting /\ failed' = failed
    BY <1>4 DEF RestoreStore, At, setVars
  <2>2. ASSUME NEW j \in Stored, IsRestored(j)', ~Settled(j)'
        PROVE  save_flag'[j] \/ BeingSet(j)' \/ j \in failed'
    <3>1. CASE j = k
      <4>1. ram'[j] = value
        BY <2>1, <3>1, <1>0
      <4>2. value # Loaded(j, eeprom[j])
        BY <4>1, <2>1, <2>2 DEF Settled, Loaded, Validated
      <4> QED
        BY <4>2, <3>1, <2>1, <1>b
    <3>2. CASE j # k
      <4>1. IsRestored(j)
        <5>1. ItemId[j] # index
          BY <2>1, <3>2, <1>0, AppDataAssumption
        <5> QED
          BY <1>4, <5>1, <2>2, <1>0, RestoredNext
      <4>2. ~Settled(j) /\ ~BeingSaved(j)
        BY <2>1, <2>2, <3>2, <1>0 DEF Settled, BeingSaved, Loaded, Validated
      <4> QED
        BY <4>1, <4>2, <2>1, <1>a DEF BeingSet
    <3> QED
      BY <3>1, <3>2
  <2> QED
    BY <2>1, <2>2 DEF QueueInv, ChangesAreQueued, RestoringLoaded, SavingLatest
<1>5. CASE SaveTest
  <2>1. /\ stage = "save" /\ stage' = "save_read" /\ index' = index
        /\ ram' = ram /\ eeprom' = eeprom /\ setPc' = setPc /\ setting' = setting
        /\ failed' = failed /\ save_flag' = [save_flag EXCEPT ![index] = FALSE]
    BY <1>5 DEF SaveTest, At, setVars
  <2>2. ASSUME NEW k \in Stored, IsRestored(k)', ~Settled(k)', ~BeingSaved(k)'
        PROVE  save_flag'[k] \/ BeingSet(k)' \/ k \in failed'
    <3>1. IsRestored(k) /\ ~Settled(k) /\ ~BeingSaved(k) /\ k # index
      BY <2>1, <2>2 DEF IsRestored, Settled, BeingSaved, Loaded, Validated
    <3> QED
      BY <3>1, <2>1, <1>0, <1>a DEF BeingSet
  <2> QED
    BY <2>1, <2>2 DEF QueueInv, ChangesAreQueued, RestoringLoaded, SavingLatest
<1>6. CASE SaveRead
  <2>1. /\ stage = "save_read" /\ stage' = "save_write" /\ index' = index
        /\ ram' = ram /\ eeprom' = eeprom /\ setPc' = setPc /\ setting' = setting
        /\ failed' = failed /\ save_flag' = save_flag /\ value' = ram[index]
    BY <1>6 DEF SaveRead, At, setVars
  <2>2. ASSUME NEW k \in Stored, IsRestored(k)', ~Settled(k)', ~BeingSaved(k)'
        PROVE  save_flag'[k] \/ BeingSet(k)' \/ k \in failed'
    <3>1. IsRestored(k) /\ ~Settled(k) /\ ~BeingSaved(k)
      BY <2>1, <2>2 DEF IsRestored, Settled, BeingSaved, Loaded, Validated
    <3> QED
      BY <3>1, <2>1, <1>a DEF BeingSet
  <2> QED
    BY <2>1, <2>2 DEF QueueInv, ChangesAreQueued, RestoringLoaded, SavingLatest
<1>7. ASSUME NEW f \in BOOLEAN, NEW left \in Word, SaveWrite(f, left) PROVE QueueInv'
  <2>1. /\ stage = "save_write" /\ stage' \in {"save", "monitor"}
        /\ ram' = ram /\ setPc' = setPc /\ setting' = setting /\ save_flag' = save_flag
    BY <1>7 DEF SaveWrite, NextToSave, At, setVars
  <2>2. /\ eeprom' = [eeprom EXCEPT ![index] = IF f THEN left ELSE value]
        /\ failed' = IF f THEN failed \union {index} ELSE failed \ {index}
    BY <1>7 DEF SaveWrite
  <2>3. ASSUME NEW k \in Stored, IsRestored(k)', ~Settled(k)'
        PROVE  save_flag'[k] \/ BeingSet(k)' \/ k \in failed'
    <3>1. IsRestored(k)
      BY <2>1, <2>3, <1>0, RestoredSame
    <3>2. CASE k # index
      <4>1. ~Settled(k) /\ ~BeingSaved(k)
        BY <2>1, <2>2, <2>3, <3>2, <1>0 DEF Settled, BeingSaved, Loaded, Validated
      <4> QED
        BY <4>1, <3>1, <3>2, <2>1, <2>2, <1>a DEF BeingSet
    <3>3. CASE k = index /\ f
      BY <3>3, <2>2
    <3>4. CASE k = index /\ ~f
      <4>1. ram[k] # Loaded(k, value)
        <5>1. eeprom'[k] = value
          BY <3>4, <2>2, <1>0
        <5> QED
          BY <5>1, <2>1, <2>3 DEF Settled, Loaded, Validated
      <4>2. Loaded(k, ram[k]) = ram[k]
        <5>1. InRange(k, ram[k])
          BY <3>1, <1>0 DEF RangeInv, SettingsInRange, InRange
        <5> QED
          BY <5>1, LoadedIsSaved
      <4>3. value # ram[index]
        BY <4>1, <4>2, <3>4
      <4> QED
        BY <4>3, <3>4, <2>1, <1>c DEF BeingSet
    <3> QED
      BY <3>2, <3>3, <3>4
  <2> QED
    BY <2>1, <2>3 DEF QueueInv, ChangesAreQueued, RestoringLoaded, SavingLatest
<1>8. ASSUME NEW k \in Index, NEW v \in MinValue[k] .. MaxValue[k], SetStore(k, v)
      PROVE  QueueInv'
  <2>1. /\ stage' = stage /\ index' = index /\ value' = value /\ failed' = failed
        /\ eeprom' = eeprom /\ save_flag' = save_flag
        /\ setPc = "idle" /\ setPc' = "flag" /\ setting' = k
        /\ ram' = [ram EXCEPT ![k] = v]
    BY <1>8 DEF SetStore, taskVars
  <2>2. ASSUME NEW j \in Stored, IsRestored(j)', ~Settled(j)', j # k
        PROVE  save_flag'[j] \/ BeingSaved(j)' \/ j \in failed'
    <3>1. IsRestored(j) /\ ~Settled(j) /\ ~BeingSet(j)
      BY <2>1, <2>2, <1>0 DEF IsRestored, Settled, BeingSet, Loaded, Validated
    <3> QED
      BY <3>1, <2>1, <1>a DEF BeingSaved
  <2>3. BeingSet(k)'
    BY <2>1 DEF BeingSet
  <2>4. ChangesAreQueued'
    BY <2>2, <2>3 DEF ChangesAreQueued
  <2>5. RestoringLoaded'
    BY <2>1, <1>b DEF RestoringLoaded, Loaded, Validated
  <2>6. SavingLatest'
    <3>1. index # k => ram'[index] = ram[index]
      BY <2>1, <1>0
    <3> QED
      BY <3>1, <2>1, <2>3, <1>c DEF SavingLatest, BeingSet
  <2> QED
    BY <2>4, <2>5, <2>6 DEF QueueInv
<1>9. CASE SetFlag
  <2>1. /\ stage' = stage /\ index' = index /\ value' = value /\ failed' = failed
        /\ eeprom' = eeprom /\ ram' = ram /\ setPc = "flag" /\ setPc' = "changed"
        /\ setting' = setting /\ save_flag' = [save_flag EXCEPT ![setting] = TRUE]
    BY <1>9 DEF SetFlag, taskVars
  <2>2. \A k \in Index : save_flag[k] \/ BeingSet(k) => save_flag'[k]
    BY <2>1, <1>0 DEF BeingSet
  <2>3. \A k \in Stored : /\ IsRestored(k)' <=> IsRestored(k)
                          /\ Settled(k)' <=> Settled(k)
                          /\ BeingSaved(k)' <=> BeingSaved(k)
    BY <2>1 DEF IsRestored, Settled, BeingSaved, Loaded, Validated
  <2>4. ChangesAreQueued'
    BY <2>1, <2>2, <2>3, <1>0, <1>a DEF ChangesAreQueued
  <2>5. RestoringLoaded'
    BY <2>1, <1>b DEF RestoringLoaded, Loaded, Validated
  <2>6. SavingLatest'
    BY <2>1, <2>2, <1>0, <1>c DEF SavingLatest
  <2> QED
    BY <2>4, <2>5, <2>6 DEF QueueInv
<1>10. CASE SetChanged \/ UNCHANGED vars
  <2>1. /\ stage' = stage /\ index' = index /\ value' = value /\ failed' = failed
        /\ eeprom' = eeprom /\ ram' = ram /\ save_flag' = save_flag /\ setting' = setting
        /\ setPc' = "flag" <=> setPc = "flag"
    BY <1>10 DEF SetChanged, vars, taskVars, setVars
  <2>2. \A k \in Stored : /\ IsRestored(k)' <=> IsRestored(k)
                          /\ Settled(k)' <=> Settled(k)
                          /\ BeingSaved(k)' <=> BeingSaved(k)
                          /\ BeingSet(k)' <=> BeingSet(k)
    BY <2>1 DEF IsRestored, Settled, BeingSaved, BeingSet, Loaded, Validated
  <2>3. ChangesAreQueued'
    BY <2>1, <2>2, <1>a DEF ChangesAreQueued
  <2>4. RestoringLoaded'
    BY <2>1, <1>b DEF RestoringLoaded, Loaded, Validated
  <2>5. SavingLatest'
    BY <2>1, <1>c DEF SavingLatest, BeingSet
  <2> QED
    BY <2>3, <2>4, <2>5 DEF QueueInv
<1>11. ASSUME NEW left \in Word, Reset(left) PROVE QueueInv'
  <2>1. \A k \in Stored : ~IsRestored(k)'
    BY <1>11, <1>0, Limits DEF Reset, IsRestored
  <2> QED
    BY <1>11, <2>1 DEF Reset, QueueInv, ChangesAreQueued, RestoringLoaded, SavingLatest
<1> QED
  BY <1>1, <1>2, <1>3, <1>4, <1>5, <1>6, <1>7, <1>8, <1>9, <1>10, <1>11
  DEF Next, TaskStep, SetStep

\* No change of a stored setting is forgotten, whatever the interleaving of the
\* interface with the task that saves and however long the EEPROM takes.
THEOREM ChangesQueued == Spec => []ChangesAreQueued
<1>1. Init => RangeInv /\ QueueInv
  BY InitRange, InitQueue
<1>2. TypeOK /\ RangeInv /\ QueueInv /\ [Next]_vars => (RangeInv /\ QueueInv)'
  BY NextRange, NextQueue
<1>3. QueueInv => ChangesAreQueued
  BY DEF QueueInv
<1> QED
  BY <1>1, <1>2, <1>3, TypeCorrect, PTL DEF Spec

-----------------------------------------------------------------------------
LEMMA InitMarks == Init => MarkInv
<1> SUFFICES ASSUME Init PROVE MarkInv
  OBVIOUS
<1>1. \A k \in Index : ~save_flag[k]
  BY DEF Init
<1> QED
  BY <1>1 DEF Init, MarkInv, MarksAreAnnounced, ScanStartsAtFirst

\* The ways the task, or the interface, can be on its way to the mark of k.
OnItsWay(k) ==
    \/ param_changed \/ setPc = "changed"
    \/ stage = "cooldown"
    \/ stage = "save" /\ index <= k
    \/ stage \in {"save_read", "save_write"} /\ index < k

LEMMA NextMarks == TypeOK /\ MarkInv /\ [Next]_vars => MarkInv'
<1> SUFFICES ASSUME TypeOK, MarkInv, [Next]_vars PROVE MarkInv'
  OBVIOUS
<1>0. /\ index \in Nat /\ index < Quan /\ Quan \in Nat /\ setting \in Index
      /\ save_flag \in [Index -> BOOLEAN] /\ index \in Index
      /\ \A k \in Index : k \in Nat /\ k < Quan
  BY AppDataAssumption DEF TypeOK, Index
<1>a. \A k \in Index : save_flag[k] => OnItsWay(k)
  BY DEF MarkInv, MarksAreAnnounced, OnItsWay
<1>b. stage \in {"notify", "monitor", "monitor_clear", "cooldown"} => index = 0
  BY DEF MarkInv, ScanStartsAtFirst
<1>c. SUFFICES (\A k \in Index : save_flag'[k] => OnItsWay(k)') /\ ScanStartsAtFirst'
  BY DEF MarkInv, MarksAreAnnounced, OnItsWay
<1>1. CASE Notify \/ Monitor \/ MonitorClear \/ CooldownRestart \/ CooldownElapsed
  BY <1>1, <1>0, <1>a, <1>b DEF Notify, Monitor, MonitorClear, CooldownRestart,
     CooldownElapsed, At, setVars, OnItsWay, ScanStartsAtFirst
<1>2. CASE RestoreSkip \/ (\E k \in Index : RestoreStore(k))
           \/ (\E k \in Index : \E f \in BOOLEAN : RestoreLoad(k, f))
  <2>1. /\ stage \in {"restore", "restore_store"} /\ save_flag' = save_flag
        /\ param_changed' = param_changed /\ setPc' = setPc
        /\ stage' = "notify" => index' = 0
        /\ stage' \in {"restore", "restore_store", "notify"}
    BY <1>2, <1>0 DEF RestoreSkip, RestoreStore, RestoreLoad, At, setVars
  <2> QED
    BY <2>1, <1>a DEF OnItsWay, ScanStartsAtFirst
<1>3. CASE SaveSkip
  <2>1. /\ ~save_flag[index] /\ save_flag' = save_flag /\ stage = "save"
        /\ param_changed' = param_changed /\ setPc' = setPc
        /\ \/ index + 1 < Quan /\ stage' = "save" /\ index' = index + 1
           \/ index + 1 >= Quan /\ stage' = "monitor" /\ index' = 0
    BY <1>3, <1>0 DEF SaveSkip, NextToSave, At, setVars
  <2> QED
    BY <2>1, <1>0, <1>a DEF OnItsWay, ScanStartsAtFirst
<1>4. CASE SaveTest
  BY <1>4, <1>0, <1>a DEF SaveTest, At, setVars, OnItsWay, ScanStartsAtFirst
<1>5. CASE SaveRead
  BY <1>5, <1>0, <1>a DEF SaveRead, At, setVars, OnItsWay, ScanStartsAtFirst
<1>6. ASSUME NEW f \in BOOLEAN, NEW left \in Word, SaveWrite(f, left)
      PROVE  (\A k \in Index : save_flag'[k] => OnItsWay(k)') /\ ScanStartsAtFirst'
  <2>1. /\ save_flag' = save_flag /\ stage = "save_write"
        /\ param_changed' = param_changed /\ setPc' = setPc
        /\ \/ index + 1 < Quan /\ stage' = "save" /\ index' = index + 1
           \/ index + 1 >= Quan /\ stage' = "monitor" /\ index' = 0
    BY <1>6, <1>0 DEF SaveWrite, NextToSave, At, setVars
  <2> QED
    BY <2>1, <1>0, <1>a DEF OnItsWay, ScanStartsAtFirst
<1>7. ASSUME NEW k \in Index, NEW v \in MinValue[k] .. MaxValue[k], SetStore(k, v)
      PROVE  (\A j \in Index : save_flag'[j] => OnItsWay(j)') /\ ScanStartsAtFirst'
  BY <1>7, <1>a, <1>b DEF SetStore, taskVars, OnItsWay, ScanStartsAtFirst
<1>8. CASE SetFlag \/ SetChanged
  <2>1. stage' = stage /\ index' = index
    BY <1>8 DEF SetFlag, SetChanged, taskVars
  <2>2. CASE SetFlag
    BY <2>1, <2>2, <1>b DEF SetFlag, OnItsWay, ScanStartsAtFirst
  <2>3. CASE SetChanged
    BY <2>1, <2>3, <1>b DEF SetChanged, OnItsWay, ScanStartsAtFirst
  <2> QED
    BY <1>8, <2>2, <2>3
<1>9. CASE UNCHANGED vars
  BY <1>9, <1>a, <1>b DEF vars, taskVars, setVars, OnItsWay, ScanStartsAtFirst
<1>10. ASSUME NEW left \in Word, Reset(left)
      PROVE  (\A k \in Index : save_flag'[k] => OnItsWay(k)') /\ ScanStartsAtFirst'
  BY <1>10 DEF Reset, ScanStartsAtFirst
<1> QED
  BY <1>1, <1>2, <1>3, <1>4, <1>5, <1>6, <1>7, <1>8, <1>9, <1>10
  DEF Next, TaskStep, SetStep

\* Where a setting is marked, the task that saves has been told, is being told, or has
\* yet to come to that setting: clearing param_changed never strands a mark.
THEOREM MarksAnnounced == Spec => []MarksAreAnnounced
<1>1. MarkInv => MarksAreAnnounced
  BY DEF MarkInv
<1> QED
  BY <1>1, InitMarks, NextMarks, TypeCorrect, PTL DEF Spec

-----------------------------------------------------------------------------
(* A pass of the task ends                                                  *)

\* The steps the task takes at most before it rests in the monitor, if the interface sets
\* nothing more: three for a setting it saves, two for one it restores.
Pass == 3 * Quan

TaskLeft ==
    CASE stage = "monitor"       -> IF param_changed THEN 3 + Pass ELSE 0
      [] stage = "monitor_clear" -> 2 + Pass
      [] stage = "cooldown"      -> IF param_changed THEN 4 + Pass ELSE 1 + Pass
      [] stage = "notify"        -> 4 + Pass
      [] stage = "restore"       -> 4 + Pass + 2 * (Quan - index)
      [] stage = "restore_store" -> 4 + Pass + 2 * (Quan - index) - 1
      [] stage = "save"          -> 3 * (Quan - index) + (IF param_changed THEN 3 + Pass ELSE 0)
      [] stage = "save_read"     -> 3 * (Quan - index) - 1 + (IF param_changed THEN 3 + Pass ELSE 0)
      [] stage = "save_write"    -> 3 * (Quan - index) - 2 + (IF param_changed THEN 3 + Pass ELSE 0)

PassEnds ==
    [][/\ TaskStep => TaskLeft' < TaskLeft
       /\ TaskLeft' > TaskLeft => SetChanged \/ \E left \in Word : Reset(left)]_vars

AtRest == stage = "monitor" /\ ~param_changed

\* The task rests nowhere but in the monitor with nothing announced.
LEMMA LeftBounds ==
    ASSUME TypeOK PROVE TaskLeft \in 0 .. 6 * Quan + 4 /\ (TaskLeft = 0 => AtRest)
<1>1. index \in Nat /\ Quan \in Nat /\ index < Quan /\ stage \in Stage
  BY AppDataAssumption DEF TypeOK, Index
<1> DEFINE again == IF param_changed THEN 3 + Pass ELSE 0
<1>2. CASE stage = "monitor"
  BY <1>1, <1>2 DEF TaskLeft, Pass, AtRest
<1>3. CASE stage = "cooldown"
  BY <1>1, <1>3 DEF TaskLeft, Pass
<1>4. CASE stage = "monitor_clear"
  BY <1>1, <1>4 DEF TaskLeft, Pass
<1>5. CASE stage = "notify"
  BY <1>1, <1>5 DEF TaskLeft, Pass
<1>6. CASE stage = "restore"
  BY <1>1, <1>6 DEF TaskLeft, Pass
<1>7. CASE stage = "restore_store"
  BY <1>1, <1>7 DEF TaskLeft, Pass
<1>8. again \in 0 .. 3 * Quan + 3
  BY <1>1 DEF Pass
<1>9. CASE stage = "save"
  <2>1. TaskLeft = 3 * (Quan - index) + again
    BY <1>9 DEF TaskLeft
  <2> HIDE DEF again
  <2> QED
    BY <1>1, <1>8, <2>1
<1>10. CASE stage = "save_read"
  <2>1. TaskLeft = 3 * (Quan - index) - 1 + again
    BY <1>10 DEF TaskLeft
  <2> HIDE DEF again
  <2> QED
    BY <1>1, <1>8, <2>1
<1>11. CASE stage = "save_write"
  <2>1. TaskLeft = 3 * (Quan - index) - 2 + again
    BY <1>11 DEF TaskLeft
  <2> HIDE DEF again
  <2> QED
    BY <1>1, <1>8, <2>1
<1> QED
  BY <1>1, <1>2, <1>3, <1>4, <1>5, <1>6, <1>7, <1>9, <1>10, <1>11 DEF Stage

LEMMA LeftDecreases ==
    ASSUME TypeOK, MarkInv, TaskStep PROVE TaskLeft' < TaskLeft
<1>0. /\ index \in Nat /\ Quan \in Nat /\ index < Quan
      /\ stage \in {"notify", "monitor", "monitor_clear", "cooldown"} => index = 0
  BY AppDataAssumption DEF TypeOK, Index, MarkInv, ScanStartsAtFirst
<1>1. CASE RestoreSkip \/ \E k \in Index : RestoreStore(k)
  <2>1. /\ stage \in {"restore", "restore_store"}
        /\ \/ index + 1 < Quan /\ stage' = "restore" /\ index' = index + 1
           \/ stage' = "notify"
    BY <1>1 DEF RestoreSkip, RestoreStore, At
  <2> QED
    BY <1>0, <2>1 DEF TaskLeft, Pass
<1>2. CASE \E k \in Index : \E f \in BOOLEAN : RestoreLoad(k, f)
  BY <1>0, <1>2 DEF RestoreLoad, At, TaskLeft, Pass
<1>3. CASE Notify \/ Monitor \/ MonitorClear \/ CooldownRestart \/ CooldownElapsed
  BY <1>0, <1>3 DEF Notify, Monitor, MonitorClear, CooldownRestart, CooldownElapsed, At,
                    TaskLeft, Pass
<1>4. CASE SaveSkip \/ \E f \in BOOLEAN, left \in Word : SaveWrite(f, left)
  <2>1. /\ stage \in {"save", "save_write"} /\ param_changed' = param_changed
        /\ \/ index + 1 < Quan /\ stage' = "save" /\ index' = index + 1
           \/ stage' = "monitor"
    BY <1>4 DEF SaveSkip, SaveWrite, NextToSave, At
  <2> QED
    BY <1>0, <2>1 DEF TaskLeft, Pass
<1>5. CASE SaveTest \/ SaveRead
  BY <1>0, <1>5 DEF SaveTest, SaveRead, At, TaskLeft, Pass
<1> QED
  BY <1>1, <1>2, <1>3, <1>4, <1>5 DEF TaskStep

\* The task comes to rest within a number of its steps that the table gives, and puts it off
\* only for what the interface has set since; and where it rests and no setting is under
\* way, a restart would give every stored setting the value it has now, but for those the
\* bus has failed.  That every setting is eventually saved rests on the two.
THEOREM SavingEnds ==
    Spec => /\ [](TaskLeft \in 0 .. 6 * Quan + 4)
            /\ [](TaskLeft = 0 /\ setPc = "idle" =>
                    \A k \in Stored : Settled(k) \/ k \in failed)
            /\ PassEnds
<1>1. TypeOK => TaskLeft \in 0 .. 6 * Quan + 4
  BY LeftBounds
<1>2. TypeOK /\ ChangesAreQueued /\ MarksAreAnnounced =>
        (TaskLeft = 0 /\ setPc = "idle" => \A k \in Stored : Settled(k) \/ k \in failed)
  <2> SUFFICES ASSUME TypeOK, ChangesAreQueued, MarksAreAnnounced, AtRest, setPc = "idle",
                      NEW k \in Stored
               PROVE  Settled(k) \/ k \in failed
    BY LeftBounds
  <2>1. k \in Index /\ IsRestored(k)
    BY AppDataAssumption DEF AtRest, IsRestored
  <2>2. ~save_flag[k] /\ ~BeingSet(k) /\ ~BeingSaved(k)
    BY <2>1 DEF MarksAreAnnounced, AtRest, BeingSet, BeingSaved
  <2> QED
    BY <2>1, <2>2 DEF ChangesAreQueued
<1>3. TypeOK /\ TypeOK' /\ MarkInv /\ [Next]_vars =>
        [/\ TaskStep => TaskLeft' < TaskLeft
         /\ TaskLeft' > TaskLeft => SetChanged \/ \E left \in Word : Reset(left)]_vars
  <2> SUFFICES ASSUME TypeOK, TypeOK', MarkInv, Next
               PROVE  /\ TaskStep => TaskLeft' < TaskLeft
                      /\ TaskLeft' > TaskLeft => SetChanged \/ \E left \in Word : Reset(left)
    OBVIOUS
  <2>1. TaskLeft \in Int /\ TaskLeft' \in Int
    <3>1. Quan' = Quan /\ Quan \in Nat
      BY AppDataAssumption
    <3>2. TaskLeft \in 0 .. 6 * Quan + 4 /\ (TaskLeft \in 0 .. 6 * Quan + 4)'
      BY LeftBounds, <1>1, PTL
    <3> QED
      BY <3>1, <3>2
  <2>2. TaskStep => TaskLeft' < TaskLeft
    BY LeftDecreases
  <2>3. SetFlag \/ (\E k \in Index : \E v \in MinValue[k] .. MaxValue[k] : SetStore(k, v))
          => TaskLeft' = TaskLeft
    <3>1. UNCHANGED <<stage, index, param_changed>> => TaskLeft' = TaskLeft
      BY DEF TaskLeft
    <3> QED
      BY <3>1 DEF SetFlag, SetStore, taskVars
  <2> QED
    BY <2>1, <2>2, <2>3 DEF Next, SetStep
<1> QED
  BY <1>1, <1>2, <1>3, InitMarks, NextMarks, TypeCorrect, ChangesQueued, MarksAnnounced, PTL
  DEF Spec, PassEnds
=============================================================================
