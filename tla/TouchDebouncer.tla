--------------------------- MODULE TouchDebouncer ---------------------------
(***************************************************************************)
(* drivers/touch.c: the ADC interrupt reads the panel's two axes in turn    *)
(* and runs TouchScreenDebouncer on every X/Y pair, which delays positions  *)
(* in a ring and tells a handler PTR_DOWN, PTR_MOVE and PTR_UP.             *)
(*                                                                          *)
(* A position is the number of the reading it was taken in.  g_psSamples is *)
(* an array of X/Y pairs, so g_cIndex / 2 indexes it.                       *)
(*                                                                          *)
(* A definition commented as a variant is the next one with a plausible     *)
(* slip; no action uses it, it shows which property would notice the slip.  *)
(***************************************************************************)
EXTENDS Integers

CONSTANTS
    Slots,        \* pairs in g_psSamples (4)
    Debounce,     \* readings that change the pen's state (3)
    HandlerBy,    \* readings possible before TouchScreenCallbackSet
    MaxReadings   \* bound on the readings of one behaviour

\* TouchScreenCallbackSet directly follows TouchScreenInit in InterfaceTask; the
\* task may be suspended in between, but not for as long as a press takes to be
\* recognised.
ASSUME TouchAssumption ==
    /\ Slots \in Nat /\ Slots >= 2
    /\ Debounce \in 1 .. 127
    /\ HandlerBy \in Nat /\ HandlerBy < Debounce
    /\ MaxReadings \in Nat

Slot == 0 .. Slots - 1

DownBit == 128      \* set in g_cState while the pen is down

Outside == -1       \* what g_psSamples[g_cIndex] is for a negative g_cIndex

Message == {"none", "PTR_DOWN", "PTR_MOVE", "PTR_UP"}

VARIABLES
    g_ulTSState,    \* TS_STATE_*: what the finished conversion was for
    adcX,           \* g_sTouchADCX >= g_sTouchADCMin
    reading,        \* number of X/Y pairs debounced
    upRun,          \* length of the run of not-touched pairs they end in
    g_pfnTSHandler, \* a handler is set
    g_cState,
    g_cIndex,
    g_psSamples,
    g_lLastTouch,   \* g_lLastTouchX, g_lLastTouchY
    sent            \* the last message the handler got

adcVars == <<g_ulTSState, adcX>>
vars == <<adcVars, reading, upRun, g_pfnTSHandler, g_cState, g_cIndex, g_psSamples,
          g_lLastTouch, sent>>

Init ==
    /\ g_ulTSState = "INIT" /\ adcX = FALSE
    /\ reading = 0 /\ upRun = 0
    /\ g_pfnTSHandler = FALSE
    /\ g_cState = 0 /\ g_cIndex = 0
    /\ g_psSamples = [k \in Slot |-> 0]
    /\ g_lLastTouch = 0
    /\ sent = [msg |-> "none", pos |-> 0]

-----------------------------------------------------------------------------
(* ADC_IRQHandler: one finished conversion per call.                        *)

AdcTo(from, to) == g_ulTSState = from /\ g_ulTSState' = to

Discard ==
    /\ \/ AdcTo("INIT", "SKIP_X")
       \/ AdcTo("SKIP_X", "READ_X")
       \/ AdcTo("SKIP_Y", "READ_Y")
    /\ UNCHANGED <<adcX, reading, upRun, g_pfnTSHandler, g_cState, g_cIndex,
                   g_psSamples, g_lLastTouch, sent>>

ReadX(touched) ==
    /\ AdcTo("READ_X", "SKIP_Y")
    /\ adcX' = touched
    /\ UNCHANGED <<reading, upRun, g_pfnTSHandler, g_cState, g_cIndex, g_psSamples,
                   g_lLastTouch, sent>>

\* A Y conversion completes the pair, which TouchScreenDebouncer gets at once.
ReadY(touched) ==
    /\ AdcTo("READ_Y", "SKIP_X")
    /\ reading < MaxReadings /\ (g_pfnTSHandler \/ reading < HandlerBy)
    /\ reading' = reading + 1
    /\ upRun' = IF touched THEN 0 ELSE IF upRun < Debounce THEN upRun + 1 ELSE upRun
    /\ UNCHANGED <<adcX, g_pfnTSHandler>>

-----------------------------------------------------------------------------
(* TouchScreenDebouncer, one action for each way through it.                *)

Send(msg, pos) == sent' = IF g_pfnTSHandler THEN [msg |-> msg, pos |-> pos] ELSE sent

Store(k) == g_psSamples' = [g_psSamples EXCEPT ![k] = reading + 1]

\* Variant: the release is reported at the newest position.
SampleNewest == IF g_cIndex \in Slot THEN g_psSamples[(g_cIndex + Slots - 1) % Slots]
                                     ELSE Outside

\* g_psSamples[g_cIndex], wherever that is
SampleAtIndex == IF g_cIndex \in Slot THEN g_psSamples[g_cIndex] ELSE Outside

NotTouched ==
    /\ g_cState # DownBit + 1
    /\ g_cState' = IF g_cState # 0 THEN g_cState - 1 ELSE 0
    /\ UNCHANGED <<g_cIndex, g_psSamples, g_lLastTouch, sent>>

PenUp ==
    /\ g_cState = DownBit + 1
    /\ g_cState' = 0
    /\ Send("PTR_UP", SampleAtIndex)
    /\ UNCHANGED <<g_cIndex, g_psSamples, g_lLastTouch>>

\* Counts up towards either state: below Debounce the pen is up, above DownBit it
\* is down and was being raised.  The position is not kept.
Touched ==
    /\ g_cState \notin {Debounce - 1, DownBit + Debounce}
    /\ g_cState' = g_cState + 1
    /\ UNCHANGED <<g_cIndex, g_psSamples, g_lLastTouch, sent>>

\* Variant: the index is not reset.
PressedKeepIndex ==
    /\ g_cState = Debounce - 1
    /\ g_cState' = DownBit + Debounce
    /\ Store(0)
    /\ UNCHANGED <<g_cIndex, g_lLastTouch, sent>>

Pressed ==
    /\ g_cState = Debounce - 1
    /\ g_cState' = DownBit + Debounce
    /\ g_cIndex' = -Slots
    /\ Store(0)
    /\ UNCHANGED <<g_lLastTouch, sent>>

\* Variant: off by one pair.
PrefillSlotEarly == g_cIndex + Slots

PrefillSlot == g_cIndex + Slots + 1

Prefill ==
    /\ g_cState = DownBit + Debounce
    /\ g_cIndex < -1
    /\ Store(PrefillSlot)
    /\ g_cIndex' = g_cIndex + 1
    /\ UNCHANGED <<g_cState, g_lLastTouch, sent>>

\* Variant: resumes at the slot just filled.
PenDownResumesAtZero ==
    /\ g_cState = DownBit + Debounce
    /\ g_cIndex = -1
    /\ Send("PTR_DOWN", g_psSamples[0])
    /\ g_lLastTouch' = IF g_pfnTSHandler THEN g_psSamples[0] ELSE g_lLastTouch
    /\ Store(0)
    /\ g_cIndex' = 0
    /\ UNCHANGED g_cState

PenDown ==
    /\ g_cState = DownBit + Debounce
    /\ g_cIndex = -1
    /\ Send("PTR_DOWN", g_psSamples[0])
    /\ g_lLastTouch' = IF g_pfnTSHandler THEN g_psSamples[0] ELSE g_lLastTouch
    /\ Store(0)
    /\ g_cIndex' = 1
    /\ UNCHANGED g_cState

\* Variant: the & 7 is missing.
NextIndexUnwrapped == g_cIndex + 1

NextIndex == (g_cIndex + 1) % Slots

PenMove ==
    /\ g_cState = DownBit + Debounce
    /\ g_cIndex >= 0
    /\ Send("PTR_MOVE", g_psSamples[g_cIndex])
    /\ Store(g_cIndex)
    /\ g_cIndex' = NextIndex
    /\ UNCHANGED <<g_cState, g_lLastTouch>>

DebounceUp == NotTouched \/ PenUp

DebounceDown == Touched \/ Pressed \/ Prefill \/ PenDown \/ PenMove

-----------------------------------------------------------------------------
CallbackSet ==
    /\ ~g_pfnTSHandler /\ g_pfnTSHandler' = TRUE
    /\ UNCHANGED <<adcVars, reading, upRun, g_cState, g_cIndex, g_psSamples,
                   g_lLastTouch, sent>>

PairRead(y) ==
    \/ ReadY(TRUE)  /\ adcX /\ y    /\ DebounceDown
    \/ ReadY(FALSE) /\ ~(adcX /\ y) /\ DebounceUp

Next ==
    \/ Discard
    \/ \E touched \in BOOLEAN : ReadX(touched)
    \/ \E y \in BOOLEAN : PairRead(y)
    \/ CallbackSet

Spec == Init /\ [][Next]_vars

-----------------------------------------------------------------------------
(* Properties                                                               *)

UpStates   == 0 .. Debounce - 1
DownStates == DownBit + 1 .. DownBit + Debounce

\* Every variable has its type: in particular a negative g_cIndex stops at the
\* array's first pair, and its increments never carry it past the last.
TypeOK ==
    /\ g_ulTSState \in {"INIT", "SKIP_X", "READ_X", "SKIP_Y", "READ_Y"}
    /\ adcX \in BOOLEAN
    /\ reading \in Nat /\ upRun \in 0 .. Debounce
    /\ g_pfnTSHandler \in BOOLEAN
    /\ g_cState \in UpStates \cup DownStates
    /\ g_cIndex \in -Slots .. Slots - 1
    /\ g_psSamples \in [Slot -> Nat]
    /\ g_lLastTouch \in Nat
    /\ sent \in [msg : Message, pos : Nat \cup {Outside}]

\* While the pen is down and the queue is full, going round from g_cIndex meets the
\* positions in the order they were taken, all of them taken after the one the
\* press was reported at: nothing of an earlier press is left in the queue.
QueueInOrder ==
    g_cState \in DownStates /\ g_cIndex >= 0 =>
        /\ \A j, k \in Slot :
              j < k => IF j < g_cIndex /\ g_cIndex <= k
                         THEN g_psSamples[k] < g_psSamples[j]
                         ELSE g_psSamples[j] < g_psSamples[k]
        /\ \A k \in Slot : g_psSamples[k] \in g_lLastTouch + 1 .. reading

Sends == sent' # sent

\* Positions reach the handler in the order they were taken, from one press to the
\* next: neither a move nor a release repeats or precedes what was sent before.
SentInOrder == [][Sends /\ sent'.pos # Outside => sent'.pos > sent.pos]_vars

\* g_psSamples "is used to slightly delay the returned pen positions": whatever
\* position is sent, every other slot holds a later one, so the Slots - 1 positions
\* taken while the pen was being raised are not sent.
DelayedByQueue ==
    [][Sends /\ sent'.pos # Outside =>
          /\ \A k \in Slot : g_psSamples'[k] >= sent'.pos
          /\ \A j, k \in Slot :
                g_psSamples'[j] = sent'.pos /\ g_psSamples'[k] = sent'.pos => j = k]_vars

\* A press is reported once before its moves, relative to the position of that very
\* press: no move without it, no second press before the release.
MovesFollowPress ==
    [][Sends =>
          /\ sent'.msg = "PTR_MOVE" => sent.msg \in {"PTR_DOWN", "PTR_MOVE"}
          /\ sent'.msg = "PTR_DOWN" => sent.msg \in {"none", "PTR_UP"}]_vars

\* touch.c:355 "See if the pen has been detected as up three times in a row."
UpThreeTimesInARow == [][Sends /\ sent'.msg = "PTR_UP" => upRun' >= Debounce]_vars

\* touch.c:188 "(debounced presses, movement while pressed, and debounced
\* releases)": a release is the release of a press the handler was told of.
ReleaseFollowsPress ==
    [][Sends /\ sent'.msg = "PTR_UP" => sent.msg \in {"PTR_DOWN", "PTR_MOVE"}]_vars
=============================================================================
