# A verification of the register viewer's firmware

The repository is the firmware of a device with a touch screen (an STM32F2 under
FreeRTOS) that polls the registers of a Modbus slave, shows them in a table, lets the user
change them, and keeps its own settings in an EEPROM. Its code has no tests and no
documentation beyond comments; these modules state what it is relied on to do, TLC checks
them on small instances, and TLAPS proves the safety part for every size.

Line numbers refer to the files under `src/` at the commit modelled. `PROJECT.json` maps
every definition to its lines.

## 1. The system

### Tasks, interrupts and what they share

| Runs | Where | Priority | What it does |
|---|---|---|---|
| `inter_comm_task` | `comm/inter_comm.cpp` | task, 1 | polls the slave's registers, writes the marked ones |
| `app_data_task` | `system/app_data.cpp` | task, 1 | restores the settings after a start, saves what changes |
| `GrnLedTask` | `main.cpp:60` | task, 1 | feeds the watchdog |
| `InterfaceTask` | `interface/interface.cpp:104` | task, 2, never blocks | windows, widgets, drawing |
| `vTimerCallback` | `main.cpp:97` | timer service | suspends and resumes `InterfaceTask`, starts the transfer of a frame |
| `USART1_IRQHandler` | `drivers/uart1.c` | interrupt | bytes to and from the slave |
| `TIM5` handler | `system/sys_timer.c` | interrupt, 50 kHz | one step of the I2C bus per call |
| `ADC_IRQHandler` | `drivers/touch.c` | interrupt | touch panel |
| DMA2 / LCD handlers | `drivers/lcd_driver.c` | interrupts | moves a finished frame to the LCD |

The tasks of priority 1 run while the interface is suspended by the timer service, which
may stop the interface between any two instructions. So every pair of steps of the
interface and of another task may meet in any order unless a critical section forbids it,
and few do: the polling task's "copy a register into the write and clear its mark", and
uart1.c's two calls.

`ExtCommTask` is never created (`main.cpp:174` is commented out), `INCLUDE_NET` is 0, and
`InterfaceTask` opens the tester window (`interface.cpp:148`), so the handlers of
`WindowMain` and of its set-up window run only if line 149 takes its place. The polling
task's connection flag and three of the settings can then be changed by the user. The
models include those calls: they are the code's only callers and the reason the polling
task re-reads its settings.

### Components

| Component | State | Operations | What makes it correct | Status |
|---|---|---|---|---|
| Polling task | settings copied, stage, frame of the scan, run being written, read-lock mask, register table | one stage per call; `InterCommDataSet` | a scan uses one set of settings; every frame and run stays inside the buffers and the table; a marked register is written; a value the user set is not overwritten by a poll | `InterComm`, partly |
| Settings | RAM copies, EEPROM words, save flags, `param_changed`, stage | restore, monitor, cool-down, save; `app_data_item_set` | restored values are in range; no change is forgotten; every change is saved | `AppData`, partly |
| Modbus master's UART | two rings, `ucTransmittionComplete`, USART registers | send, receive, flush; interrupt | bytes keep their order; "complete" means sent; a request fits | `UartRing`, `Uart1`, partly |
| Modbus master | the 512-byte buffer, the caller's array | build a request, send, await, check the answer, copy | never stores past its buffer or the caller's array; waits end; success means done | `Uart1` (bytes), `ModbusLink` (frames), modelled |
| Touch panel | conversion state, debounce counter, ring of positions | conversion, debouncer | presses, moves and releases pair up and positions come in order | `TouchDebouncer`, modelled but for calibration |
| EEPROM over software I2C | bus state, error, message and its pointers; the EEPROM's own state | a polled read or write of a word; one state of a transfer | an access without error has reached the memory; a failed one touches no other word; every access returns | `Eeprom`, `I2cBus`, partly |
| Frame rendering | two frame buffers, flag, line and row counters, DMA chain | swap, transfer line by line, draw | the display changes by whole finished pictures, in order; nothing is drawn on it; drawing never stops | `Screen`, `FrameSwap`, partly |
| Task start-up, render timer | render stage | start a chain, suspend, resume | the interface is always resumed | `FrameSwap`, partly |
| Window manager | stack of windows, message queue | show, close, post, dispatch | stack bounds, every window destroyed once | not modelled: one window is ever shown |
| Register table, value editor | scroll value, cells that react, editor's register, arrows' limit state | touch, paint, scroll, open and close | the editor is for the register its cell shows; nothing scrolls under it | `RegisterTable`, partly |
| Set-up windows | edited copies of the settings | Apply, Defaults, close | only values in range reach app_data; the table survives what they change | `RegisterTable`, callers in `AppData`, partly |
| Flash storage | two sectors with epochs | find the valid sector | the newest valid sector wins across epoch wrap | not modelled: its callers are compiled out |
| Modbus slave, ext_comm, uart3 | register map, the 256-byte buffer | receive, parse, answer | an answer is the answer to the request, or none | the slave in `ModbusLink`, partly; `ext_comm` not: its task is never created |
| Network, HTTP server | | | | not modelled: `INCLUDE_NET` is 0; lwIP is vendored |
| Widgets, dialogs, debug windows | | | | not modelled: drawing, no shared state |

`PROJECT.json` lists under "hazards" what can go wrong in each and at which line.

### How they interact

```
 InterfaceTask --app_data_item_set--> AppData <--item_get-- inter_comm_proc
      |                                  | at_eeprom_*
      |InterCommDataSet                  v
      v                               I2C bus (TIM5) <--> EEPROM
 register table <--poll/write-- inter_comm_proc --> ModbusSend/Recv --> uart1 <--> slave
 ADC --> TouchScreenDebouncer --> pointer messages --> InterfaceTask
```

What one module assumes of another is a property there:

* `InterComm` assumes a quantity setting is at most `RegCount` (`SettingsAssumption`);
  `AppData` guarantees that a restored setting is within its limits (`SettingsInRange`;
  the limit of the quantity, 125, is `INTER_COMM_DATA_COUNT`). Before the restore the
  statics are zero, which `InterComm` includes.
* `InterComm` takes a Modbus call for a step that returns an error or not; `Uart1` shows
  that the call under it returns (`SendReturns`) and works on intact queues, and `ModbusLink`
  what a call without an error means (`OkMeansDone`) and that its answer fits the 32 words
  that `InterComm` then copies (`CopyFits`).
* Every module takes the interface task as stopped anywhere. `FrameSwap` has the timer
  service that does it, and shows that it is always let go on (`InterfaceKeepsDrawing`).

## 2. Modules

Each component has its module with state, actions, specification and properties; `MC...`
gives it a small instance, `...Proofs` holds its theorems. A definition whose comment says
"Variant" is the next definition with a plausible slip; no action uses it. Each property
was seen to fail when a variant takes the place of its original.

### `InterComm`: polling and writing

`comm_stage` and `commPc` are the polling task's place in `inter_comm_proc`. Everything it
shares with the interface is read and written in steps of its own: the three settings, the
lock test of the copy loop and the store it guards, the load and the two stores of
`InterCommDataSet`. A register's value is abstracted to what is owed to the user: settled,
set by the user, or lost. A Modbus call is one step that succeeds or fails.

Left out: reconfiguring the UART (471-507), the bits that report which frame is ready
(157-167, 355-376), formats (87-112, 406-447).

### `UartRing`, `BoundedFifo`, `Uart1`: bytes to and from the slave

`UartRing` is the ring of `uart1.c` as operators on a record; `BoundedFifo` is what a byte
queue promises. `Uart1` has the rings, the USART's flags and registers as the reference
manual's interrupt sources need them, and `ModbusSend`, `UART1_Flush` and `ModbusRecv` as
the polling task's program counter. The handler is one step except where it clears RXNE a
second time after reading the data register: a byte that comes in between is forgotten.
The rings refine `BoundedFifo` (`RxIsFifo`, `TxIsFifo`), with queue and last byte mapped
by `Contents` and by what was read. A full `BoundedFifo` may drop what comes, as the receive
ring does without a trace: what it keeps is in order and whole. That nothing of a request is
dropped is a property of its own (`RequestFits`); a frame that lost bytes in the receive ring
is one of `ModbusLink`'s spoiled frames.

### `TouchDebouncer`: the pen

Conversions alternate between the axes; each X/Y pair runs the debouncer, which has one
action for each way through it. A position is the number of the pair it was taken in, so
order and delay can be stated. `HandlerBy` bounds how long the callback is unset:
`TouchScreenCallbackSet` directly follows `TouchScreenInit`.

Left out: calibration (a linear map of a position).

### `AppData`: the settings

Stages of `app_data_task_proc`, with every access to what the interface writes in a step
of its own; `app_data_item_set` is three stores (value, flag, `param_changed`). `Reset`
(power loss or watchdog) is possible in every state and leaves only the EEPROM. Stores are
taken in program order. Testing and resetting a save flag is one step: the interface only
sets it.

### `Eeprom`, `I2cBus`: the bus under the settings

`Eeprom` is what `at_eeprom.c` promises: an access without error has reached the memory; one
with an error may have stored its word or half of it, even later, and nothing else.
`I2cBus` has the states of `i2c_sw_bus_timeproc`, one action for each way out of a state
(the calls that only toggle the clock change nothing in the model), `i2c_sw_exec` with its
look at the state and its look at the error in two steps, and both functions of
`at_eeprom.c`. The EEPROM may stop taking bytes anywhere (a write cycle, for one), and a
taken byte may be read as not acknowledged. `IsEeprom` says that `I2cBus` implements
`Eeprom` with the request in `i2c_data_tx` as the access the bus has taken.

What the model shows a reader of the code: after a byte that is not acknowledged, the
*next* access is not sent either. It finds the old error, or the Done of the failed
transfer, and returns at once. It returns with the error set, so it is not mistaken for a
success (this is what `IsEeprom` is about), but a read that fails at start-up costs two
settings their stored values, and a failed write loses the next one too.

Left out: the levels of the two lines within a byte, `i2c_sw_bus_stop` and `_resume` (never
called), `I2C_ERR_OVERFLOW` (a word always fits), a reset in the middle of a read.
`AppData` takes an access as one step that succeeds or fails, and a failed write or a reset
during one as leaving any word, which covers all that `Eeprom` allows.

### `ModbusLink`: a request and its answer

Where `Uart1` has bytes, `ModbusLink` has frames: a ring or a buffer holds nothing, a whole
frame, the part of one before or after a pause, or bytes that are no frame; `Joined` says
what two of these make one after the other. The master is a call of
`ModbusMasterReadInputRegs` or `ModbusMasterWriteMultipleRegs` from the request to its
return, the slave is `ModbusSlaveProc` of this repository. The line loses, spoils, splits
and delays frames; the slave may refuse a value and may take any time, so that answers to
earlier calls arrive during later ones. Both timeouts may elapse whenever the code looks at
the clock, which it does after it has found the ring empty.

`OkMeansDone` is what the polling task makes of `MB_OK`. The code cannot keep it for an
answer that comes too late: neither slave nor register of an answer is compared with the
request (178-180, 245), only the function. An answer to an earlier call that comes after
this call's flush passes for this one's; the history variable `late` names exactly that
case, and without it TLC finds a call that returned old words. If such an answer is shorter
than the call asked for, the rest of the caller's array keeps what was on the stack
(`Garbage`). What the module shows is that this is the *only* case: the flush, the checksum
and the function code are enough against every loss, break, pause and refusal. A read that
is broadcast returns `MB_OK` with nothing read; the polling task's slave id is at least 1.

Left out: the checksum's arithmetic (it is taken to tell a whole frame from anything else, so
a byte forgotten at `uart1.c:138` or dropped by the ring only spoils its frame), a slave whose
callbacks are not set (`modbus_slave.c:157`, 222: both are taken as set),
writing a single register and unknown functions, which the master never sends, and
`ucResponseSize`, eight bits wide in the slave, which 32 registers do not overflow.

### `Screen`, `FrameSwap`: from the drawing to the display

`Screen` is what a pair of buffers promises: a finished picture replaces the one shown as a
whole, in order, none left out. `FrameSwap` has the three DMA streams with their enable and
complete bits, the three interrupt handlers, `vTimerCallback` and the loop of
`InterfaceTask`, with each primitive's load of `reserv_buffer` and its stores in two steps
so that the interface may be suspended with an old pointer in hand. It may: the interrupt
swaps only while `frame_loading_done` is set, and the interface draws only while it is not.
A buffer has two parts, its top row and the rest, which the primitives of a picture draw in
any order and as often as they like (`StorePixels`), and which are told apart where a line
is read (`LineRead`).

Nothing tests whether the last chain is done before another one is started; the periods of
the timer (2, 10 and 4 ticks) alone see to it, and `DisplayEnable` starts the first one at
a time of its own. The model has no time, so chains may overlap; then frames tear
(`FrameFromOnePicture` excepts `overlapped`), but the interface still never draws into the
buffer shown (`IsScreen` does not).

The rows are counted before the line is moved (164-169): only the porch lines before the
picture read row 0, and the last line of the picture and the porch lines after it read row
240, one past the buffer. `LCD_BUFFER_1` starts where `LCD_BUFFER_0` ends (64-65), so of every
second buffer the last visible line is the top row of the *other* one, which the interface is
drawing: it shows the picture before or the next one, and may change from frame to frame. Past
`LCD_BUFFER_1` it is whatever the memory holds (`Foreign`). `ReadsAtMostOneRowPast` says that
this is all that is read outside, and what; `FrameFromOnePicture` is about the lines above.
`IsScreen` is about the buffer shown and does not speak of that line.

Left out: the widgets, of which `Update` is taken to do all the drawing and to draw the whole
picture (the library is not in the repository), orientation, backlight and the frame-rate
counters.

### `RegisterTable`: the table, its arrows and its editor

Scrolling, touching a cell, the editor and the set-up window as the handlers of
`modbus_table.cpp`, `window_main.cpp` and the two windows; `Paint` is a paint of the whole
window, where the table enables its cells and the window its arrows. Touches and paints
come in any order, and the settings may be restored at any time after the start. The module
takes `Window_Main` as the window shown (`interface.cpp:149` in place of 148).

The history variables are the exceptions that the code needs. `agreed`: in the page mode
the window shows the offset rounded down to a page, but a cell opens the editor with the
offset itself (499, 560), so after Apply changed the mode or the quantity the editor is for
another register than the cell shows until an arrow is used. With the quantity below the
offset `btn_2_disp_quan` wraps (404), and all sixteen cells react though none shows a
register. `seen`: a touch before a paint, or a restore under an open window, finds the cells as they
were before it. Outside these the editor, its cell and the table agree (`EditsWhatIsShown`).
`firstPaint` is about the arrows. The constructor disables each that is at its limit
(`window_main.cpp:143-146`, 168-171, `ArrowsAsBuilt`), a paint then changes only those whose
limit differs from `btn_at_limit_state_prev`, and that is static: a new window starts with
the state of the closed one (391-398, `ArrowsDisabled`). If the first paint comes before any
touch, arrows and state agree from then on, and with them the limits: an arrow that does not
react has nothing to scroll to (`ArrowsAtEnds`), and none reacts under the editor
(`MenuDoesNotScroll`, the "ugly hack" of `modbus_table.cpp:271` and 293). If a touch is
handled first, or the settings are restored, they may stay apart (section 5).

Left out: the editor's digits, format and time limit, and the pending input that a tap on
another cell carries over to it (`new_icomm_addr_set`, 244-257, keeps `setup_value`); the
loops that run one past the sixteen buttons (411, 461); `prop_popup`, which no constructor
sets and which is taken as 0.

## 3. Runs

| Run | Instance | Shows |
|---|---|---|
| `poll_safety` | `MCInterComm`, `MCInterCommSafety.cfg` | The polling task against an interface task preempted at any store: frames and write batches stay in their buffers, a scan sees one configuration, and a mark is cleared only by the write that takes it. |
| `poll_live` | `MCInterComm`, `MCInterCommLive.cfg` | Under the fairness of the render cycle: marked registers get written, new settings reach the bus, and a retried write shows in the connection indicator, however often the bus fails. |
| `poll_lost` | `MCInterComm`, `MCInterCommLost.cfg` | *Violation.* A value the user set can be overwritten by the poll, or sent as its predecessor, because InterCommDataSet marks and stores outside a critical section. |
| `touch` | `MCTouchDebouncer`, `MCTouchDebouncerSafety.cfg` | Every sequence of touched and untouched readings: the sample ring holds consecutive readings, positions reach the handler in order and delayed by the ring, and no move is sent before the press. |
| `touch_up_in_a_row` | `MCTouchDebouncer`, `MCTouchDebouncerUpInARow.cfg` | *Violation.* The release does not need three untouched readings in a row, as the comment says: the counter is moved up and down. |
| `touch_release` | `MCTouchDebouncer`, `MCTouchDebouncerRelease.cfg` | *Violation.* A short press is reported as a release without a press, at a position read from outside the sample buffer. |
| `uart` | `MCUart1`, `MCUart1.cfg` | Interrupt, polling task and line in every interleaving: the rings are bounded FIFOs, nothing of a request is dropped, complete means that the last byte has left the line, and ModbusSend returns although the receiver may interrupt it for ever. |
| `settings` | `MCAppData`, `MCAppData.cfg` | Settings changed while they are being restored or saved, with resets and bus failures at any point: restored values are valid, no change is forgotten between ram, save flag and EEPROM, and once the interface leaves the settings alone every stored one reaches the EEPROM or the bus failed for it. |
| `i2c` | `MCI2cBus`, `MCI2cBus.cfg` | The timer interrupt, the task's polled calls and an EEPROM that may not acknowledge any byte: an access without error has reached the memory, a failed one touches no other word, every access returns and no failure blocks the bus. |
| `frame` | `MCFrameSwap`, `MCFrameSwap.cfg` | The three DMA interrupts, the timer that suspends the interface at any point and starts chains on top of each other, and the drawing: the buffer on the display changes by whole pictures, in order, a frame is of one picture above its last line, and the drawing never stops. |
| `link` | `MCModbusLink`, `MCModbusLink.cfg` | Master and slave over a line that loses, spoils, splits and delays frames, with values the slave refuses: a call that returns MB_OK has been done unless a late answer came into it, and no answer overruns the caller's array. |
| `table` | `MCRegisterTable`, `MCRegisterTable.cfg` | Touches, paints, the set-up window and the restore of the settings in any order: the editor is for the register its cell shows, and in a window painted before it is touched nothing scrolls under the editor and an arrow that does not react has nothing to scroll to. |

**Why the bounds are enough.** `MCInterCommSafety.cfg` has three registers in frames of two: a full
frame, a short one, and a quantity (1) that ends the scan in the first frame; writes of at
most two registers, so that a run is cut by the limit, by a gap and by the table's end; two
attempts, so a write can fail, be retried and fail for good; bytes of two mask bits, so two
registers share a byte and one does not. `MCInterCommLive.cfg` is smaller, because liveness
costs more: two registers in frames of one, so that a scan still has several frames and two
batches, two attempts, quantities 0 to 2, and one address and one slave, since no liveness
property tells these apart. `MCTouchDebouncer` uses the driver's own sizes;
24 pairs (`MaxReadings`, the only bound that stops behaviours, hence
`CHECK_DEADLOCK FALSE`) hold two complete presses with the queue filled and wrapped. In
`MCUart1` the rings have two slots: they fill, wrap and overflow within one request, and the
receive buffer fills. `MCAppData` has a stored setting and one that is not stored and that the restore never
reaches, though a change of it is saved like the other's; their ids are not in the order of
the presets, and one id is no setting; words below, in, and above the limits and the blank
word. `MCI2cBus` has two words of two different byte values, so that torn, misplaced
and stale words differ; a message has its real length. `MCModbusLink` has a slave of two registers and an array of
two words: requests for one and two registers, beyond the last one, and a broadcast, and as
many calls as there are, so that an answer may be late by several. `MCFrameSwap` has two porch lines before
the picture and one after it, three lines in it, of which the last is read past the buffer
and the others from the rows below the top one, and pictures counted modulo 3: the one shown,
the one before and the next one differ. `MCRegisterTable` has pages of two rows and up to
six registers, that is, three pages of four cells on two columns, quantities that end within a page,
and a scroll value as large as the largest quantity. No counter but `MaxReadings` is cut.

**Fairness.** `InterComm`: weak fairness of the polling task, which the timer service lets
run in every render cycle, and strong fairness of `TimeoutElapsed`: the 100 ticks pass
however often the stage is looked at. The interface gets none: the user need not act, and
a call stopped in the middle may stay so. `Uart1`: strong fairness of the task (the
handler can keep it out only while it runs), weak fairness of the transmitter and of the
receive branch, strong fairness of the two branches of the handler that a stream of received bytes
can delay. `AppData`: weak fairness of the task and of the rest of `app_data_item_set`.
`I2cBus`: weak fairness of the timer interrupt, which no critical section masks, and of
`app_data_task`. `FrameSwap`: weak fairness of each transfer, of each handler and of the
timer service; strong fairness of the interface, which runs in six of sixteen ticks of
every cycle with only the timer service above it, of the drawing of each part, and of the end
of an Update: it draws all of its picture in finitely many primitives.

## 4. Proofs

TLAPS proves, for every value of the constants allowed by the modules' assumptions:

| Module | Theorem | States |
|---|---|---|
| `InterCommProofs` | `TypeCorrect` (`TypeOK`) | Every variable of the polling task keeps its type, for any table, frame and batch size. |
| `InterCommProofs` | `FramesInRange` (`FrameInRange`) | The frame asked of the slave fits its buffer, the register table and the configured quantity: nothing in the receive function checks it, it follows from copying the settings between scans only. |
| `InterCommProofs` | `BatchesInRange` (`BatchInRange`) | A write never exceeds its buffer of TxFrame registers nor the end of the table. |
| `InterCommProofs` | `ScanSettingsStable` (`ConfigStableInScan`) | Start address, quantity and slave do not change between the frames of one scan. |
| `InterCommProofs` | `LocksHeldUntilTaken` (`LockHeldUntilTaken`) | The unprotected read-modify-write of the mask never wipes out the mark of another register of the byte: only the polling task clears bits, and the stale byte stored back can only set too many. |
| `InterCommProofs` | `SectionsSuffice` | Two critical sections, around the two stores of InterCommDataSet and from the copy loop's lock test to its store, are enough for no value of the user's to be lost: with them the property that the code violates holds for any table and frame. |
| `InterCommProofs` | `CallsEnd` | inter_comm_proc returns within a number of its steps that the frame and table sizes give, however often the bus fails and whatever the interface marks meanwhile. |
| `TouchDebouncerProofs` | `TypeCorrect` (`TypeOK`) | The pen counter, the ring index and the ring keep their ranges, for any ring and debounce length. |
| `TouchDebouncerProofs` | `QueueOrdered` (`QueueInOrder`) | From the press on the ring holds the readings in the order of its index. |
| `TouchDebouncerProofs` | `PositionsInOrder` (`SentInOrder`) | The handler gets positions in the order they were read. |
| `TouchDebouncerProofs` | `PositionsDelayed` (`DelayedByQueue`) | A move or release is reported at a position as old as the ring is long, so the unreliable last readings before a release are never used. |
| `TouchDebouncerProofs` | `PressesReported` (`MovesFollowPress`) | A move is sent only after the press it belongs to. |
| `TouchDebouncerProofs` | `ReleasesFollowPresses` | A release comes without its press exactly when the pen is lifted while the ring is being filled, and exactly then its position is read from outside the ring: the violation found has no other way to happen. |
| `Uart1Proofs` | `TypeCorrect` (`TypeOK`) | The rings' indices, the registers and the byte count of ModbusRecv keep their ranges: the receive buffer is never overrun. |
| `Uart1Proofs` | `CompletionCorrect` (`CompleteMeansSent`) | The driver reports the end of a transmission only when ring, data register and shift register are empty. |
| `Uart1Proofs` | `RequestsFit` (`RequestFits`) | No byte of a request finds the transmit ring full, although ModbusSend would drop it. |
| `Uart1Proofs` | `RxRefinesFifo` (`RxIsFifo`) | Interrupt and task see the receive ring as a bounded FIFO, for every ring size. |
| `Uart1Proofs` | `TxRefinesFifo` (`TxIsFifo`) | Task and interrupt see the transmit ring as a bounded FIFO, for every ring size. |
| `Uart1Proofs` | `TransmissionsEnd` | While ModbusSend waits, handler and transmitter have work left, every step of theirs lessens it and only the next byte of the request adds to it: the end of a transmission is never lost. |
| `AppDataProofs` | `TypeCorrect` (`TypeOK`) | The settings, flags and stages keep their types, for any table of presets. |
| `AppDataProofs` | `RestoredInRange` (`SettingsInRange`) | A restored setting is within its limits whatever the EEPROM held and whatever fails. |
| `AppDataProofs` | `ChangesQueued` (`ChangesAreQueued`) | A stored setting that a restart would lose is marked, about to be marked or being saved, unless the bus failed for it. |
| `AppDataProofs` | `MarksAnnounced` (`MarksAreAnnounced`) | A save flag is never left set with the task unaware of it, wherever the change interrupts the saving. |
| `AppDataProofs` | `SavingEnds` | The task comes to rest within a number of its steps that the table gives, puts it off only for changes and resets, and where it rests every stored setting would survive a restart or the bus has failed it. |
| `I2cBusProofs` | `TypeCorrect` (`TypeOK`) | The interrupt's pointers never leave the message it sends nor the two bytes it receives. |
| `I2cBusProofs` | `RefinesEeprom` (`IsEeprom`) | The bus, polled by the task and driven by the interrupt, implements Eeprom: an access without error is never answered by what an earlier transfer left behind, for any addresses and bytes. |
| `I2cBusProofs` | `AcknowledgedWriteStays` | The word of a write that returned without error is in the memory and stays there until the next access is sent, although the interrupt may still be at work. |
| `I2cBusProofs` | `OtherWordsKept` | No message, whole or broken off, changes a word it is not addressed to, and none but a write changes any. |
| `I2cBusProofs` | `MessagesEnd` | Wherever the EEPROM stops answering, the interrupt reaches Done within 36 states and only the next access gives it more to do. |
| `FrameSwapProofs` | `TypeCorrect` (`TypeOK`) | Line and row counters and the address of stream 1 keep their ranges although the chain may be started on top of a running one, for any number of lines. |
| `FrameSwapProofs` | `FramesWhole` (`FrameFromOnePicture`) | While chains do not overlap, the lines of a frame above its last one are read from one picture, wherever the timer suspends the drawing; the last line is the row past the buffer. |
| `FrameSwapProofs` | `ReadsBounded` (`ReadsAtMostOneRowPast`) | Stream 1 reads one row past the buffer from the last line of the picture on, and no further; past LCD_BUFFER_0 that row is the top row of the buffer being drawn, with the picture before or after the one shown. |
| `FrameSwapProofs` | `RefinesScreen` (`IsScreen`) | The two buffers and the flag implement the abstract display: the buffer shown holds a whole picture that the interface never draws into, none is skipped and none comes twice. |
| `FrameSwapProofs` | `FramesEnd` | A chain that was not started on top of another reaches the end of its frame within six transfers and interrupts for each line, whatever timer and interface do. |
| `ModbusLinkProofs` | `TypeCorrect` (`TypeOK`) | Rings, buffers and answers hold only frames the two ends can have built. |
| `ModbusLinkProofs` | `SuccessMeansDone` (`OkMeansDone`) | A call that returns MB_OK has been done, for any requests and registers, unless a piece of an earlier call's answer came after the flush. |
| `ModbusLinkProofs` | `CopiesFit` (`CopyFits`) | The byte count of an answer, which nothing compares with the request, never overruns the caller's array. |
| `RegisterTableProofs` | `TypeCorrect` (`TypeOK`) | Scroll value, cells and arrows keep their ranges, the scroll value below the wrap of its 16 bits, for pages and tables of any size. |
| `RegisterTableProofs` | `EditorAgrees` (`EditsWhatIsShown`) | The open editor is for the register its cell shows, for any page and table size, but for the cases agreed and seen name. |
| `RegisterTableProofs` | `ArrowsEnd` (`ArrowsAtEnds`) | An arrow that does not react has nothing to scroll to, in a window whose first paint came before any touch: the arrows are built from the limits and from then on are those of the static limit state. |
| `RegisterTableProofs` | `MenuStays` (`MenuDoesNotScroll`) | With the editor open and painted no touch scrolls the table under it, whatever limit state closed windows have left, in a window whose first paint came before any touch. |

Each rests on an inductive invariant, checked by TLC first. The assumptions are those named in the
modules (`FrameAssumption`, `SettingsAssumption`, `TouchAssumption`, `UartAssumption`,
`AppDataAssumption`, `I2cAssumption`, `FrameAssumption` of `FrameSwap`, `LinkAssumption`,
`TableAssumption`); the values in the code satisfy them. Two say more than that a size is
positive: `AppDataAssumption` that the ids of stored presets are below their number, and
`TableAssumption` that a 16-bit word exceeds the largest quantity, the largest scroll value
and a page together (65536 against 125 + 125 + 16): otherwise the offset that an empty table
wraps to would be one that the arrows reach. What the invariants add to the properties:

* `InterCommProofs`: while a scan is under way the frame number is below the number of
  frames of the quantity copied, and between scans it is zero; `FrameQuan` is the ceiling
  of a quotient, which an arithmetic lemma states; in the writing stage the run found so
  far ends inside the table. `LockHeldUntilTaken` needs that the mask byte loaded by
  `SetLoad` contains every bit of that byte that is still set, because only the polling
  task clears bits and only the interface sets them.
* `TouchDebouncerProofs`: relates the counter, the index and the filled part of the ring.
  It distinguishes the filling (index negative, slots 0 to index + Slots hold this
  press's positions in order) from the turning (the ring is in order going round from the index).
* `Uart1Proofs`: `Contents` of a ring after an enqueue is `Append`, after a
  dequeue `Tail`; "complete" implies that TC cannot be pending with bytes still queued; a
  request in `send` has at most `FrameMax` bytes together with those in the queue.
  `TransmissionsEnd` adds that an end not yet reported leaves a byte or TC behind.
* `AppDataProofs`: per setting, where its newest value is: in the EEPROM, in the task's
  local, or only in RAM with the flag set or about to be. `SavingEnds` joins it with the
  marks: at rest none is left, so every stored setting is settled.
* `I2cBusProofs`: follows the message: in each state of the bus, which byte is next, how many
  the EEPROM has taken and that it has the address of this message; an error leads to Stop
  only; and a transfer without error is the one of the access in progress, because the only way
  out of Done without error leads through the access that waits for it.
* `FrameSwapProofs`: while the interface is drawing the flag is not set, so its pointer is
  still the reserve buffer's; the buffer shown is whole and of the last picture finished, and
  each part of the other one is of the picture before it or of the next (`Ownership`); the row
  counter is a function of the line counter (`Rows`); and without an overlap at most one stream
  is enabled or complete, its address is of the buffer shown, and the lines moved before the
  last one are of the picture shown (`OneChain`, which needs `Rows` to know that the row is in
  the buffer).
* `ModbusLinkProofs`: a fresh frame is the answer to, or the request of, the call under
  way; a slave that has a fresh answer in hand has left the registers as the call wants
  them, and nothing after it can change them before the next call; unless `late` is set,
  what the master has taken is fresh. `CopyFits` needs none of this: every answer has the
  length of some request.
* `RegisterTableProofs`: what a paint leaves behind. After it limit states, cells and offset are
  those of the settings (`Painted`). The arrows are those of the limits from the constructor to
  the first paint, and those of the limit states after it, unless something came before it
  (`Buttons`); together they give `ArrowsAtEnds` and `MenuDoesNotScroll`. An editor keeps to its
  register in later paints because no arrow reacts beside it (`Editor`).

**What the code would need.** `SectionsSuffice` is about `SectionSpec`, the polling task and
the interface with two critical sections the code does not have: around the two stores of
`InterCommDataSet`, and from the lock test of the copy loop to its store (298-302). With both,
`UserValueStaysMarked`, which the code violates (`poll_lost`), is proved for every table;
with one of them alone TLC still finds a lost value. `ReleasesFollowPresses` draws
the line around the other violation: a release has no press exactly when the pen is lifted
while the ring is being filled, and exactly then its position is read from outside the ring.

**What is derived through a refinement.** `AcknowledgedWriteStays` and `OtherWordsKept` are
proved of the steps of `Eeprom` and hold of `I2cBus` because it implements `Eeprom`.

**Under the liveness.** What a loop needs to end is proved as a measure: a number that is
bounded, that every step of the actor lessens, and that only the steps named in the theorem
raise. `CallsEnd` is the one under `LockedEventuallyTaken` and `SettingsEventuallyApplied`,
`TransmissionsEnd` under `SendReturns`, `SavingEnds` under `EventuallySaved`, `MessagesEnd`
under `AccessReturns` and `BusRecovers`, `FramesEnd` under `InterfaceKeepsDrawing`. They hold
for every size; that the steps are taken is the fairness, which stays with TLC.

The refinements (RxIsFifo, TxIsFifo, IsEeprom, IsScreen) are proved too: initial states map to initial
states, each step to a step or a stutter.

Only model-checked: the liveness properties themselves (fairness is out of the prover's
reach) and the violation runs. Every invariant and every action property of the passing runs
is a theorem.

## 5. Where code and comments disagree

* `inter_comm.cpp` calls the locked registers "(to be written)". `InterCommDataSet` makes
  two unprotected stores and the copy loop tests the lock before its own store: a poll can
  overwrite a value the user just set, or a write can take the old value and the poll then
  overwrite the new one (run `poll_lost`). Two critical sections repair it (`SectionsSuffice`).
* `touch.c:355` says "See if the pen has been detected as up three times in a row". The counter
  that counts towards a release goes up again with each touched pair, by one,
  so not-touched readings need not be in a row (run `touch_up_in_a_row`).
* `touch.c:188` promises debounced presses and releases. A press is reported only when the
  ring is filled; if the pen is lifted before, a release without a press is reported, at a
  position outside the array (run `touch_release`), and in no other case
  (`ReleasesFollowPresses`).
* `modbus_table.cpp:463` says "Disable buttons under popup window". `popup_handle` does, but
  `table_content_render`, called right after it (528-529, with the comment not to swap the
  two), enables every cell that has a register (`Paint`): the cells under the editor keep
  reacting, and a touch there moves the editor. This was read in the code; no run is about it.

The models also show, by what they had to assume:

* The last visible line of a frame taken from `LCD_BUFFER_0` is the top row of the picture being
  drawn, of one taken from `LCD_BUFFER_1` whatever lies behind it (`ReadsAtMostOneRowPast`).
* A touch handled before a new window's first paint can leave an arrow wrong until its limit
  changes again. With a quantity of 40 and the page mode, scroll to 16, apply a quantity of 24:
  the new window builds "next" disabled, at its limit. Touch "prev" before the first paint: at
  the paint the limit is gone, which is what the state of the closed window says too, so nothing
  changes. Touch "prev" again: register 0 is shown, "next" is still disabled, and registers 16 to
  23 cannot be reached. Likewise, after a window was closed with its editor open, a cell touched
  before the first paint of the next one opens an editor beside arrows that go on reacting. TLC
  finds both as soon as `firstPaint` is taken out of `ArrowsAtEnds` and `MenuDoesNotScroll`.
* The restore loop uses its index as an item id (480-485), so the items with ids 10 and 11 are
  never restored, and ids without a preset read one element past the table (304-306, the value is
  not used).
* A failed write is not retried, since neither the bus error nor the flag is looked at again.
* `to_store` is not looked at when a change is queued (287).

## 6. Not modelled, and why

* Instruction-level reordering in `app_data_item_set` (its stores are taken in program
  order); in `InterCommDataSet` both orders are modelled.
* The editor's digits and formats, calibration, formats of the table, the CRC's arithmetic.
* The window manager: its queue and stack matter when windows follow one another, and this
  commit shows one. A second WM_MSG_CLOSE would pop below the stack, an eleventh window
  would be stored past it (`window_manager.cpp:165`); nothing sends either.
* Flash storage (its callers are compiled out), `ext_comm.cpp` and `uart3.c` (the task is
  never created), the HTTP server (`INCLUDE_NET` is 0).
* Drawing, widgets and grlib; FreeRTOS; lwIP; the standard peripheral library; the LCD's
  registers.

Most lines of the repository are vendored: lwIP, FreeRTOS and the peripheral library are
more than nine tenths of it and are not the product's logic; what the firmware's own code
uses of them (suspension, ticks, critical sections, a stream's enable bit) is in the actions
that use it. Of the files of the components that are modelled about a third of the lines is
mapped; the rest is tables, layout, drawing and peripheral set-up.

## 7. What could follow

1. The value editor with its digits and formats, composed with `InterCommDataSet` of
   `InterComm`: that the value sent is the one shown, also when the register changes under
   the editor.
2. The composition of `AppData` with `Eeprom`, so that a swallowed access is a step of its
   own there, and of `InterComm` with `ModbusLink`, so that a late answer becomes a poll
   with old words.
3. `storage.cpp` and the window manager, once code that uses them is built.
