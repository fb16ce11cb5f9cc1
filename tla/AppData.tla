------------------------------ MODULE AppData ------------------------------
(***************************************************************************)
(* system/app_data.cpp: the settings, their copies in RAM and EEPROM, and   *)
(* the task that restores them after a start and saves what has changed.    *)
(*                                                                          *)
(* The interface task changes settings with app_data_item_set and may be    *)
(* stopped after any of its three stores; app_data_task yields while the    *)
(* I2C bus is busy.  Stores are taken in program order.  A step of          *)
(* app_data_task reads or writes at most one of the variables it shares,    *)
(* but for the save flag: the interface only ever sets it, so testing and   *)
(* resetting it can be one step.                                            *)
(*                                                                          *)
(* Settings are numbered as in app_data_item_preset; their limits are       *)
(* multiples of inc_value, which is 1 throughout.                           *)
(*                                                                          *)
(* A definition commented as a variant is the next one with a plausible     *)
(* slip; no action uses it, it shows which property would notice the slip.  *)
(***************************************************************************)
EXTENDS Integers

CONSTANTS
    Quan,         \* APPDATA_SETTINGS_QUAN (10)
    ItemId,       \* item_id of each preset: its place in app_data_item and in the EEPROM
    Stored,       \* the presets whose to_store is set
    MinValue, MaxValue, Default,
    Blank         \* an erased EEPROM word, and what a failed read returns (0xffff)

Index == 0 .. Quan - 1
Word  == 0 .. Blank

\* The last conjunct is true of the table in the code, and of nothing but the table:
\* app_data_settings_restore uses its loop index as an item id.
ASSUME AppDataAssumption ==
    /\ Quan \in Nat \ {0} /\ Blank \in Nat
    /\ ItemId \in [Index -> Nat]
    /\ \A j, k \in Index : ItemId[j] = ItemId[k] => j = k
    /\ Stored \subseteq Index
    /\ MinValue \in [Index -> Word] /\ MaxValue \in [Index -> Word]
    /\ Default \in [Index -> Word]
    /\ \A k \in Index : MinValue[k] <= Default[k] /\ Default[k] <= MaxValue[k]
                        /\ MaxValue[k] < Blank
    /\ \A k \in Stored : ItemId[k] < Quan

Stage == {"restore", "restore_store", "notify", "monitor", "monitor_clear",
          "cooldown", "save", "save_read", "save_write"}

VARIABLES
    ram,            \* app_data_item of each setting
    eeprom,
    save_flag,
    param_changed,
    stage, index,   \* of app_data_task_proc; index is also the loop counter of the restore
    value,          \* local of app_data_item_load and app_data_item_save
    setPc, setting, \* how far the interface is in app_data_item_set, for which setting
    failed          \* history: settings whose last EEPROM access failed

setVars  == <<setPc, setting>>
taskVars == <<stage, index, value>>
vars == <<ram, eeprom, save_flag, param_changed, taskVars, setVars, failed>>

\* Statics are zero; the EEPROM holds anything.
Init ==
    /\ eeprom \in [Index -> Word]
    /\ ram = [k \in Index |-> 0]
    /\ save_flag = [k \in Index |-> FALSE] /\ param_changed = FALSE
    /\ stage = "restore" /\ index = 0 /\ value = 0
    /\ setPc = "idle" /\ setting = 0
    /\ failed = {}

-----------------------------------------------------------------------------
(* Restore                                                                  *)

\* Variant: the upper limit is not looked at.
ValidatedFromBelow(k, v) == IF v < MinValue[k] THEN MinValue[k] ELSE v

\* sys_param_validate
Validated(k, v) ==
    IF v < MinValue[k] THEN MinValue[k]
    ELSE IF v > MaxValue[k] THEN MaxValue[k] ELSE v

\* app_data_item_load, when the word read is v
Loaded(k, v) == IF v = Blank \/ k \notin Stored THEN Default[k] ELSE Validated(k, v)

At(from, to) == stage = from /\ stage' = to

\* An id that is no setting: its place in app_data_item is never used.
RestoreSkip ==
    /\ \A k \in Index : ItemId[k] # index
    /\ At("restore", IF index + 1 < Quan THEN "restore" ELSE "notify")
    /\ index' = IF index + 1 < Quan THEN index + 1 ELSE 0
    /\ UNCHANGED <<ram, eeprom, save_flag, param_changed, value, setVars, failed>>

RestoreLoad(k, readFails) ==
    /\ ItemId[k] = index
    /\ At("restore", "restore_store")
    /\ value' = Loaded(k, IF readFails THEN Blank ELSE eeprom[k])
    /\ failed' = IF readFails THEN failed \union {k} ELSE failed
    /\ UNCHANGED <<ram, eeprom, save_flag, param_changed, index, setVars>>

RestoreStore(k) ==
    /\ ItemId[k] = index
    /\ At("restore_store", IF index + 1 < Quan THEN "restore" ELSE "notify")
    /\ ram' = [ram EXCEPT ![k] = value]
    /\ index' = IF index + 1 < Quan THEN index + 1 ELSE 0
    /\ UNCHANGED <<eeprom, save_flag, param_changed, value, setVars, failed>>

\* The tasks notified do not wait for it.
Notify ==
    /\ At("notify", "monitor")
    /\ UNCHANGED <<ram, eeprom, save_flag, param_changed, index, value, setVars, failed>>

-----------------------------------------------------------------------------
(* Saving                                                                   *)

Monitor ==
    /\ At("monitor", "monitor_clear")
    /\ param_changed
    /\ UNCHANGED <<ram, eeprom, save_flag, param_changed, index, value, setVars, failed>>

MonitorClear ==
    /\ At("monitor_clear", "cooldown")
    /\ param_changed' = FALSE
    /\ UNCHANGED <<ram, eeprom, save_flag, index, value, setVars, failed>>

\* Variant: takes note of the change, which the monitor is to do.
CooldownRestartClears ==
    /\ At("cooldown", "monitor")
    /\ param_changed
    /\ param_changed' = FALSE
    /\ UNCHANGED <<ram, eeprom, save_flag, index, value, setVars, failed>>

CooldownRestart ==
    /\ At("cooldown", "monitor")
    /\ param_changed
    /\ UNCHANGED <<ram, eeprom, save_flag, param_changed, index, value, setVars, failed>>

\* 2500 ticks without a change
CooldownElapsed ==
    /\ At("cooldown", "save")
    /\ ~param_changed
    /\ UNCHANGED <<ram, eeprom, save_flag, param_changed, index, value, setVars, failed>>

\* Variant: the index is not set back.
NextToSaveUnwrapped(from) ==
    /\ At(from, IF index + 1 < Quan THEN "save" ELSE "monitor")
    /\ index' = index + 1

\* ++index; after the last setting, back to the monitor.
NextToSave(from) ==
    /\ At(from, IF index + 1 < Quan THEN "save" ELSE "monitor")
    /\ index' = IF index + 1 < Quan THEN index + 1 ELSE 0

SaveSkip ==
    /\ ~save_flag[index]
    /\ NextToSave("save")
    /\ UNCHANGED <<ram, eeprom, save_flag, param_changed, value, setVars, failed>>

SaveTest ==
    /\ At("save", "save_read")
    /\ save_flag[index]
    /\ save_flag' = [save_flag EXCEPT ![index] = FALSE]
    /\ UNCHANGED <<ram, eeprom, param_changed, index, value, setVars, failed>>

SaveRead ==
    /\ At("save_read", "save_write")
    /\ value' = ram[index]
    /\ UNCHANGED <<ram, eeprom, save_flag, param_changed, index, setVars, failed>>

\* Variant: the flag is reset when the word has been written.
SaveWriteThenClear(writeFails, left) ==
    /\ NextToSave("save_write")
    /\ save_flag' = [save_flag EXCEPT ![index] = FALSE]
    /\ eeprom' = [eeprom EXCEPT ![index] = IF writeFails THEN left ELSE value]
    /\ failed' = IF writeFails THEN failed \union {index} ELSE failed \ {index}
    /\ UNCHANGED <<ram, param_changed, value, setVars>>

\* at_eeprom_byte_write_16 returns when the word is written or the bus reports an
\* error, and does not say which.  An error leaves the old word, the new one, or half
\* of each (Eeprom!StoreWord), which may be any word.
SaveWrite(writeFails, left) ==
    /\ NextToSave("save_write")
    /\ eeprom' = [eeprom EXCEPT ![index] = IF writeFails THEN left ELSE value]
    /\ failed' = IF writeFails THEN failed \union {index} ELSE failed \ {index}
    /\ UNCHANGED <<ram, save_flag, param_changed, value, setVars>>

-----------------------------------------------------------------------------
(* The interface task: Apply and Defaults of the setup window, the scroll    *)
(* buttons and the slave id buttons all come down to app_data_item_set with  *)
(* a value that is within the limits.                                        *)

SetStore(k, v) ==
    /\ setPc = "idle"
    /\ ram[k] # v
    /\ ram' = [ram EXCEPT ![k] = v]
    /\ setPc' = "flag" /\ setting' = k
    /\ UNCHANGED <<eeprom, save_flag, param_changed, taskVars, failed>>

\* app_data_param_add_to_save_queue, which does not look at to_store
SetFlag ==
    /\ setPc = "flag" /\ setPc' = "changed"
    /\ save_flag' = [save_flag EXCEPT ![setting] = TRUE]
    /\ UNCHANGED <<ram, eeprom, param_changed, taskVars, setting, failed>>

SetChanged ==
    /\ setPc = "changed" /\ setPc' = "idle"
    /\ param_changed' = TRUE
    /\ UNCHANGED <<ram, eeprom, save_flag, taskVars, setting, failed>>

\* Power loss, or the watchdog: everything but the EEPROM starts anew, and the word
\* that is being written may be anything.
Reset(left) ==
    /\ ram' = [k \in Index |-> 0]
    /\ save_flag' = [k \in Index |-> FALSE] /\ param_changed' = FALSE
    /\ stage' = "restore" /\ index' = 0 /\ value' = 0
    /\ setPc' = "idle" /\ setting' = 0
    /\ failed' = {}
    /\ eeprom' = IF stage = "save_write" THEN [eeprom EXCEPT ![index] = left] ELSE eeprom

-----------------------------------------------------------------------------
TaskStep ==
    \/ RestoreSkip
    \/ \E k \in Index : (\E readFails \in BOOLEAN : RestoreLoad(k, readFails)) \/ RestoreStore(k)
    \/ Notify
    \/ Monitor \/ MonitorClear \/ CooldownRestart \/ CooldownElapsed
    \/ SaveSkip \/ SaveTest \/ SaveRead
    \/ \E writeFails \in BOOLEAN, left \in Word : SaveWrite(writeFails, left)

SetStep ==
    \/ \E k \in Index : \E v \in MinValue[k] .. MaxValue[k] : SetStore(k, v)
    \/ SetFlag \/ SetChanged

Next == TaskStep \/ SetStep \/ \E left \in Word : Reset(left)

Spec == Init /\ [][Next]_vars

\* The scheduler comes back to app_data_task; app_data_item_set returns.
Fairness == WF_vars(TaskStep) /\ WF_vars(SetFlag \/ SetChanged)

FairSpec == Spec /\ Fairness

-----------------------------------------------------------------------------
(* Properties                                                               *)

TypeOK ==
    /\ ram \in [Index -> Word] /\ eeprom \in [Index -> Word]
    /\ save_flag \in [Index -> BOOLEAN] /\ param_changed \in BOOLEAN
    /\ stage \in Stage /\ index \in Index /\ value \in Word
    /\ setPc \in {"idle", "flag", "changed"} /\ setting \in Index
    /\ failed \subseteq Index

\* app_data_settings_restore has come past setting k.
IsRestored(k) ==
    ItemId[k] < Quan /\ (stage \in {"restore", "restore_store"} => ItemId[k] < index)

\* Whatever the EEPROM held, a restored setting is within its limits: the comm task
\* divides the registers into frames by these values.
SettingsInRange ==
    \A k \in Index : IsRestored(k) => ram[k] \in MinValue[k] .. MaxValue[k]

\* The next start would give setting k the value it has now.
Settled(k) == ram[k] = Loaded(k, eeprom[k])

BeingSet(k) == setPc = "flag" /\ setting = k
BeingSaved(k) == stage \in {"save_read", "save_write"} /\ index = k

\* A change is never forgotten: while a stored setting would be lost by a restart it
\* is marked, about to be marked, or being saved, unless the bus has failed.
ChangesAreQueued ==
    \A k \in Stored :
        IsRestored(k) /\ ~Settled(k) =>
            save_flag[k] \/ BeingSet(k) \/ BeingSaved(k) \/ k \in failed

\* A mark is never left behind: the task has been told, or is on its way to it.
MarksAreAnnounced ==
    \A k \in Index :
        save_flag[k] =>
            \/ param_changed \/ setPc = "changed"
            \/ stage = "cooldown"
            \/ stage = "save" /\ index <= k
            \/ stage \in {"save_read", "save_write"} /\ index < k

\* Once the device is left alone, every stored setting gets saved.
LeftAlone == <>[][TaskStep]_vars
EventuallySaved ==
    LeftAlone => <>[](\A k \in Stored : Settled(k) \/ k \in failed)
=============================================================================
