------------------------ MODULE TouchDebouncerProofs ------------------------
(***************************************************************************)
(* Proofs about TouchDebouncer, for every ring size, debounce count and     *)
(* number of readings.  The queue's order while it is full follows from its *)
(* order while it is being pre-filled, and what the handler has heard is    *)
(* tied to the state of the queue.                                          *)
(***************************************************************************)
EXTENDS TouchDebouncer, TLAPS

PenIsDown == g_cState \in DownStates

\* A press takes Debounce readings, so the handler is set when one is recognised.
HandlerSet ==
    /\ PenIsDown => g_pfnTSHandler
    /\ ~PenIsDown => g_cState <= reading

\* While the queue is pre-filled its first pairs are in order and newer than all
\* that was sent.
PrefillInOrder ==
    PenIsDown /\ g_cIndex < 0 =>
        /\ \A j, k \in 0 .. g_cIndex + Slots :
              j < k => g_psSamples[j] < g_psSamples[k]
        /\ \A k \in 0 .. g_cIndex + Slots :
              g_psSamples[k] > sent.pos /\ g_psSamples[k] <= reading

\* What was sent is older than what a full queue holds.
SentBefore ==
    /\ sent.pos <= reading
    /\ PenIsDown /\ g_cIndex >= 0 => \A k \in Slot : sent.pos < g_psSamples[k]

\* The handler believes in a press exactly while the queue is full.
HeardOfPress ==
    IF PenIsDown /\ g_cIndex >= 0 THEN sent.msg \in {"PTR_DOWN", "PTR_MOVE"}
                                  ELSE sent.msg \in {"none", "PTR_UP"}

IInv == TypeOK /\ HandlerSet /\ PrefillInOrder /\ QueueInOrder /\ SentBefore /\ HeardOfPress

-----------------------------------------------------------------------------
\* The step of the index wraps at the end of the ring.
LEMMA NextIndexWraps ==
    ASSUME Slots \in Nat, Slots >= 2, g_cIndex \in Slot
    PROVE  NextIndex = IF g_cIndex + 1 = Slots THEN 0 ELSE g_cIndex + 1
<1>1. CASE g_cIndex + 1 = Slots
  <2>1. Slots % Slots = 0
    BY SMT
  <2> QED
    BY <1>1, <2>1 DEF NextIndex
<1>2. CASE g_cIndex + 1 # Slots
  <2>1. \A x \in 0 .. Slots - 1 : x % Slots = x
    BY SMT
  <2> QED
    BY <1>2, <2>1 DEF NextIndex, Slot
<1> QED
  BY <1>1, <1>2

\* Nothing has been read or sent in the initial state.
LEMMA InitInv == Init => IInv
<1> SUFFICES ASSUME Init PROVE IInv
  OBVIOUS
<1> USE TouchAssumption DEF Init
<1>1. g_cState = 0 /\ ~PenIsDown
  BY DEF PenIsDown, DownStates, DownBit
<1>2. TypeOK
  <2>1. sent \in [msg : Message, pos : Nat \cup {Outside}]
    BY DEF Message
  <2>2. g_psSamples \in [Slot -> Nat]
    OBVIOUS
  <2>3. g_cState \in UpStates \cup DownStates /\ g_cIndex \in -Slots .. Slots - 1
    BY DEF UpStates
  <2>4. upRun \in 0 .. Debounce
    OBVIOUS
  <2> QED
    BY <2>1, <2>2, <2>3, <2>4 DEF TypeOK
<1>3. HandlerSet /\ PrefillInOrder /\ QueueInOrder /\ SentBefore /\ HeardOfPress
  BY <1>1 DEF HandlerSet, PrefillInOrder, QueueInOrder, SentBefore, HeardOfPress, PenIsDown
<1> QED
  BY <1>2, <1>3 DEF IInv

-----------------------------------------------------------------------------
\* What every completed pair leaves as it was or counts.
LEMMA PairType ==
    ASSUME TypeOK, NEW y \in BOOLEAN, PairRead(y)
    PROVE  /\ g_ulTSState' = "SKIP_X" /\ adcX' \in BOOLEAN
           /\ reading' = reading + 1 /\ upRun' \in 0 .. Debounce
           /\ g_pfnTSHandler' = g_pfnTSHandler
           /\ g_pfnTSHandler \/ reading < HandlerBy
  BY TouchAssumption, SMT DEF TypeOK, PairRead, ReadY, AdcTo

\* Storing a position keeps the queue a queue of positions.
LEMMA StoreType ==
    ASSUME NEW k \in Int, g_psSamples \in [Slot -> Nat], reading \in Nat, Store(k)
    PROVE  g_psSamples' \in [Slot -> Nat]
<1>1. reading + 1 \in Nat
  OBVIOUS
<1> QED
  BY <1>1, Zenon DEF Store

\* A reading that only moves the counter leaves the queue and its order alone.
LEMMA CountKeepsInv ==
    ASSUME IInv, NEW y \in BOOLEAN, PairRead(y), NotTouched \/ Touched
    PROVE  IInv'
<1> USE TouchAssumption
<1>1. /\ UNCHANGED <<g_cIndex, g_psSamples, g_lLastTouch, sent>>
      /\ g_cState' \in UpStates \cup DownStates
      /\ PenIsDown' <=> PenIsDown
      /\ ~PenIsDown => g_cState' <= g_cState + 1
  BY DEF IInv, TypeOK, NotTouched, Touched, PenIsDown, UpStates, DownStates, DownBit
<1>2. TypeOK'
  BY <1>1, PairType DEF IInv, TypeOK
<1>3. HandlerSet'
  BY <1>1, PairType DEF IInv, TypeOK, HandlerSet, PenIsDown, UpStates, DownStates
<1>4. PrefillInOrder'
  BY <1>1, PairType DEF IInv, TypeOK, PrefillInOrder, Slot
<1>5. QueueInOrder'
  BY <1>1, PairType DEF IInv, TypeOK, QueueInOrder, PenIsDown, Slot
<1>6. SentBefore'
  BY <1>1, PairType DEF IInv, TypeOK, SentBefore, Outside
<1>7. HeardOfPress'
  BY <1>1 DEF IInv, HeardOfPress
<1> QED
  BY <1>2, <1>3, <1>4, <1>5, <1>6, <1>7 DEF IInv

\* A recognised press starts a new queue with a position newer than all sent.
LEMMA PressedKeepsInv ==
    ASSUME IInv, NEW y \in BOOLEAN, PairRead(y), Pressed
    PROVE  IInv'
<1> USE TouchAssumption
<1>1. /\ ~PenIsDown /\ PenIsDown' /\ g_cState' \in DownStates
      /\ g_cIndex' = -Slots /\ UNCHANGED <<g_lLastTouch, sent>>
      /\ g_psSamples' = [g_psSamples EXCEPT ![0] = reading + 1]
  BY DEF Pressed, Store, PenIsDown, DownStates, DownBit
<1>2. TypeOK'
  <2>1. g_psSamples' \in [Slot -> Nat]
    BY StoreType DEF IInv, TypeOK, Pressed
  <2> QED
    BY <1>1, <2>1, PairType DEF IInv, TypeOK
<1>3. HandlerSet'
  BY <1>1, PairType DEF IInv, TypeOK, HandlerSet, Pressed
<1>4. PrefillInOrder'
  <2>1. g_psSamples'[0] = reading + 1 /\ reading' = reading + 1
    BY <1>1, PairType DEF IInv, TypeOK, Slot
  <2>2. sent.pos <= reading /\ reading \in Nat /\ sent.pos \in Int
    BY DEF IInv, TypeOK, SentBefore, Outside
  <2> QED
    BY <1>1, <2>1, <2>2 DEF PrefillInOrder
<1>5. QueueInOrder' /\ HeardOfPress'
  BY <1>1 DEF IInv, QueueInOrder, HeardOfPress
<1>6. SentBefore'
  BY <1>1, PairType DEF IInv, TypeOK, SentBefore, Outside
<1> QED
  BY <1>2, <1>3, <1>4, <1>5, <1>6 DEF IInv

\* Pre-filling appends to the part of the queue already filled.
LEMMA PrefillKeepsInv ==
    ASSUME IInv, NEW y \in BOOLEAN, PairRead(y), Prefill
    PROVE  IInv'
<1> USE TouchAssumption
<1> DEFINE new == g_cIndex + Slots + 1
<1>1. /\ PenIsDown /\ PenIsDown' /\ g_cState' = g_cState
      /\ g_cIndex < -1 /\ g_cIndex' = g_cIndex + 1
      /\ UNCHANGED <<g_lLastTouch, sent>>
      /\ g_psSamples' = [g_psSamples EXCEPT ![new] = reading + 1]
  BY DEF Prefill, PrefillSlot, Store, PenIsDown, DownStates, DownBit
<1>2. new \in Slot /\ new = g_cIndex' + Slots /\ g_cIndex' < 0 /\ g_cIndex' >= -Slots
  BY <1>1 DEF IInv, TypeOK, Slot
<1>3. TypeOK'
  <2>1. PrefillSlot \in Int
    BY DEF IInv, TypeOK, PrefillSlot
  <2>2. g_psSamples' \in [Slot -> Nat]
    BY <2>1, StoreType DEF IInv, TypeOK, Prefill
  <2> QED
    BY <1>1, <1>2, <2>2, PairType DEF IInv, TypeOK
<1>4. HandlerSet'
  BY <1>1, PairType DEF IInv, HandlerSet
<1>5. PrefillInOrder'
  <2>1. /\ g_psSamples'[new] = reading + 1 /\ reading' = reading + 1
        /\ \A k \in 0 .. new - 1 : g_psSamples'[k] = g_psSamples[k]
    BY <1>1, <1>2, PairType DEF IInv, TypeOK, Slot
  <2>2. /\ \A j, k \in 0 .. new - 1 : j < k => g_psSamples[j] < g_psSamples[k]
        /\ \A k \in 0 .. new - 1 : g_psSamples[k] > sent.pos /\ g_psSamples[k] <= reading
    BY <1>1, <1>2 DEF IInv, TypeOK, PrefillInOrder
  <2>3. sent.pos <= reading /\ sent.pos \in Int /\ reading \in Nat
    BY DEF IInv, TypeOK, SentBefore, Outside
  <2>4. \A k \in 0 .. new - 1 : g_psSamples[k] \in Nat
    BY <1>2 DEF IInv, TypeOK, Slot
  <2>5. new \in Nat /\ sent' = sent
    BY <1>1, <1>2 DEF Slot
  <2> HIDE DEF new
  <2>6. \A j, k \in 0 .. new : j < k => g_psSamples'[j] < g_psSamples'[k]
    BY <2>1, <2>2, <2>3, <2>4, <2>5
  <2>7. \A k \in 0 .. new : g_psSamples'[k] > sent.pos /\ g_psSamples'[k] <= reading + 1
    BY <2>1, <2>2, <2>3, <2>4, <2>5
  <2> QED
    BY <1>2, <2>1, <2>5, <2>6, <2>7 DEF PrefillInOrder
<1>6. QueueInOrder' /\ HeardOfPress'
  BY <1>1, <1>2 DEF IInv, TypeOK, QueueInOrder, HeardOfPress
<1>7. SentBefore'
  BY <1>1, <1>2, PairType DEF IInv, TypeOK, SentBefore, Outside
<1> QED
  BY <1>3, <1>4, <1>5, <1>6, <1>7 DEF IInv

\* The press is reported at the oldest position, whose slot gets the newest.
LEMMA PenDownKeepsInv ==
    ASSUME IInv, NEW y \in BOOLEAN, PairRead(y), PenDown
    PROVE  /\ IInv'
           /\ sent'.pos = g_psSamples[0] /\ sent'.msg = "PTR_DOWN"
           /\ sent'.pos > sent.pos
           /\ \A k \in Slot : g_psSamples'[k] > sent'.pos
           /\ sent.msg \in {"none", "PTR_UP"}
<1> USE TouchAssumption
<1>1. /\ PenIsDown /\ PenIsDown' /\ g_cState' = g_cState
      /\ g_cIndex = -1 /\ g_cIndex' = 1
      /\ g_psSamples' = [g_psSamples EXCEPT ![0] = reading + 1]
  BY DEF PenDown, Store, PenIsDown, DownStates, DownBit
<1>2. g_pfnTSHandler
  BY <1>1 DEF IInv, HandlerSet
<1>3. /\ sent' = [msg |-> "PTR_DOWN", pos |-> g_psSamples[0]]
      /\ g_lLastTouch' = g_psSamples[0]
  BY <1>2 DEF PenDown, Send
<1>4. /\ 0 \in Slot /\ 1 \in Slot /\ g_psSamples[0] \in Nat /\ reading \in Nat
      /\ \A k \in Slot : g_psSamples[k] \in Nat
  BY DEF IInv, TypeOK, Slot
<1>5. TypeOK'
  <2>1. g_psSamples' \in [Slot -> Nat]
    BY StoreType DEF IInv, TypeOK, PenDown
  <2>2. sent' \in [msg : Message, pos : Nat \cup {Outside}]
    BY <1>3, <1>4 DEF Message
  <2>3. g_cState' \in UpStates \cup DownStates /\ g_cIndex' \in -Slots .. Slots - 1
    BY <1>1 DEF PenIsDown
  <2> QED
    BY <1>3, <1>4, <2>1, <2>2, <2>3, PairType DEF IInv, TypeOK
<1>6. HandlerSet'
  BY <1>1, PairType DEF IInv, HandlerSet
<1>7. /\ \A j, k \in Slot : j < k => g_psSamples[j] < g_psSamples[k]
      /\ \A k \in Slot : g_psSamples[k] > sent.pos /\ g_psSamples[k] <= reading
  BY <1>1 DEF IInv, PrefillInOrder, Slot
<1>8. /\ g_psSamples'[0] = reading + 1 /\ reading' = reading + 1
      /\ \A k \in Slot : k # 0 => g_psSamples'[k] = g_psSamples[k]
  BY <1>1, <1>4, PairType DEF IInv, TypeOK
<1>9. QueueInOrder'
  <2>1. \A j, k \in Slot :
          j < k => IF j < 1 /\ 1 <= k THEN g_psSamples'[k] < g_psSamples'[j]
                                       ELSE g_psSamples'[j] < g_psSamples'[k]
    BY <1>4, <1>7, <1>8 DEF Slot
  <2>2. \A k \in Slot : g_psSamples'[k] \in g_psSamples[0] + 1 .. reading + 1
    BY <1>4, <1>7, <1>8 DEF Slot
  <2> QED
    BY <1>1, <1>3, <1>8, <2>1, <2>2 DEF QueueInOrder
<1>10. \A k \in Slot : g_psSamples'[k] > sent'.pos
  BY <1>3, <1>4, <1>7, <1>8 DEF Slot
<1>11. sent'.pos = g_psSamples[0] /\ sent'.msg = "PTR_DOWN"
  BY <1>3
<1>12. SentBefore'
  BY <1>4, <1>7, <1>8, <1>10, <1>11 DEF SentBefore
<1>13. HeardOfPress' /\ sent.msg \in {"none", "PTR_UP"}
  BY <1>1, <1>11 DEF IInv, HeardOfPress
<1>14. PrefillInOrder'
  BY <1>1 DEF PrefillInOrder
<1>15. sent'.pos > sent.pos
  BY <1>4, <1>7, <1>11
<1> QED
  BY <1>5, <1>6, <1>9, <1>10, <1>11, <1>12, <1>13, <1>14, <1>15 DEF IInv

\* A move sends the oldest position, whose slot gets the newest.
LEMMA PenMoveKeepsInv ==
    ASSUME IInv, NEW y \in BOOLEAN, PairRead(y), PenMove
    PROVE  /\ IInv'
           /\ sent'.msg = "PTR_MOVE" /\ sent'.pos > sent.pos
           /\ \A k \in Slot : g_psSamples'[k] > sent'.pos
           /\ sent.msg \in {"PTR_DOWN", "PTR_MOVE"}
<1> USE TouchAssumption
<1> DEFINE i == g_cIndex
<1>1. /\ PenIsDown /\ PenIsDown' /\ g_cState' = g_cState /\ i \in Slot
      /\ g_lLastTouch' = g_lLastTouch
      /\ g_psSamples' = [g_psSamples EXCEPT ![i] = reading + 1]
  BY DEF PenMove, Store, PenIsDown, DownStates, DownBit, IInv, TypeOK, Slot
<1>2. g_cIndex' = IF i + 1 = Slots THEN 0 ELSE i + 1
  BY <1>1, NextIndexWraps DEF PenMove
<1>3. sent' = [msg |-> "PTR_MOVE", pos |-> g_psSamples[i]]
  BY <1>1 DEF PenMove, Send, IInv, HandlerSet
<1>4. /\ \A k \in Slot : g_psSamples[k] \in Nat
      /\ g_psSamples[i] \in Nat /\ reading \in Nat /\ g_lLastTouch \in Nat
  BY <1>1 DEF IInv, TypeOK
<1>5. TypeOK'
  <2>1. g_psSamples' \in [Slot -> Nat]
    BY <1>1, StoreType DEF IInv, TypeOK, PenMove
  <2>2. sent' \in [msg : Message, pos : Nat \cup {Outside}]
    BY <1>3, <1>4 DEF Message
  <2>3. g_cState' \in UpStates \cup DownStates
    BY <1>1 DEF PenIsDown
  <2>4. g_cIndex' \in -Slots .. Slots - 1
    BY <1>1, <1>2 DEF Slot
  <2> QED
    BY <1>1, <1>4, <2>1, <2>2, <2>3, <2>4, PairType DEF IInv, TypeOK
<1>6. HandlerSet'
  BY <1>1, PairType DEF IInv, HandlerSet
<1>7. /\ \A j, k \in Slot :
            j < k => IF j < i /\ i <= k THEN g_psSamples[k] < g_psSamples[j]
                                       ELSE g_psSamples[j] < g_psSamples[k]
      /\ \A k \in Slot : g_psSamples[k] \in g_lLastTouch + 1 .. reading
  BY <1>1 DEF IInv, QueueInOrder, PenIsDown, Slot
<1>8. \A k \in Slot : k # i => g_psSamples[i] < g_psSamples[k]
  BY <1>1, <1>4, <1>7 DEF Slot
<1>9. /\ g_psSamples'[i] = reading + 1 /\ reading' = reading + 1
      /\ \A k \in Slot : k # i => g_psSamples'[k] = g_psSamples[k]
  BY <1>1, PairType DEF IInv, TypeOK
<1> HIDE DEF i
<1>10. QueueInOrder'
  <2>1. ASSUME NEW j \in Slot, NEW k \in Slot, j < k
        PROVE  IF j < g_cIndex' /\ g_cIndex' <= k THEN g_psSamples'[k] < g_psSamples'[j]
                                                 ELSE g_psSamples'[j] < g_psSamples'[k]
    <3>1. CASE i + 1 = Slots
      BY <1>1, <1>2, <1>4, <1>7, <1>9, <2>1, <3>1 DEF Slot
    <3>2. CASE i + 1 # Slots
      BY <1>1, <1>2, <1>4, <1>7, <1>9, <2>1, <3>2 DEF Slot
    <3> QED
      BY <3>1, <3>2
  <2>2. \A k \in Slot : g_psSamples'[k] \in g_lLastTouch + 1 .. reading + 1
    <3>1. g_lLastTouch < reading
      BY <1>1, <1>4, <1>7
    <3> QED
      BY <1>1, <1>4, <1>7, <1>9, <3>1
  <2> QED
    BY <1>1, <1>9, <2>1, <2>2 DEF QueueInOrder
<1>11. /\ sent'.pos = g_psSamples[i] /\ sent'.msg = "PTR_MOVE"
       /\ \A k \in Slot : g_psSamples'[k] > sent'.pos
       /\ sent'.pos <= reading'
  BY <1>1, <1>3, <1>4, <1>7, <1>8, <1>9
<1>12. sent'.pos > sent.pos
  BY <1>1, <1>11 DEF IInv, TypeOK, SentBefore, Slot, i, Outside
<1>13. g_cIndex' >= 0
  BY <1>1, <1>2 DEF Slot
<1>14. SentBefore' /\ PrefillInOrder'
  <2>1. SentBefore'
    <3>1. \A k \in Slot : sent'.pos < g_psSamples'[k]
      BY <1>4, <1>9, <1>11
    <3> QED
      BY <1>11, <3>1 DEF SentBefore
  <2>2. PrefillInOrder'
    <3>1. ~(g_cIndex' < 0)
      BY <1>5, <1>13 DEF TypeOK
    <3> QED
      BY <3>1 DEF PrefillInOrder
  <2> QED
    BY <2>1, <2>2
<1>15. HeardOfPress' /\ sent.msg \in {"PTR_DOWN", "PTR_MOVE"}
  BY <1>1, <1>11, <1>13 DEF IInv, HeardOfPress, Slot, i
<1> QED
  BY <1>5, <1>6, <1>10, <1>11, <1>12, <1>14, <1>15 DEF IInv

\* A release drops the queue, and sends its oldest position if it is full.
LEMMA PenUpKeepsInv ==
    ASSUME IInv, NEW y \in BOOLEAN, PairRead(y), PenUp
    PROVE  /\ IInv'
           /\ sent'.msg = "PTR_UP" /\ g_psSamples' = g_psSamples
           /\ sent'.pos # Outside =>
                 /\ g_cIndex \in Slot /\ sent'.pos = g_psSamples[g_cIndex]
                 /\ sent'.pos > sent.pos
                 /\ \A k \in Slot : k # g_cIndex => g_psSamples'[k] > sent'.pos
<1> USE TouchAssumption
<1>1. /\ PenIsDown /\ ~PenIsDown' /\ g_cState' = 0 /\ 0 \in UpStates
      /\ UNCHANGED <<g_cIndex, g_psSamples, g_lLastTouch>>
  BY DEF PenUp, PenIsDown, DownStates, UpStates, DownBit
<1>2. sent' = [msg |-> "PTR_UP", pos |-> SampleAtIndex]
  BY <1>1 DEF PenUp, Send, IInv, HandlerSet
<1>3. /\ SampleAtIndex \in Nat \cup {Outside}
      /\ SampleAtIndex # Outside => g_cIndex \in Slot /\ SampleAtIndex = g_psSamples[g_cIndex]
      /\ g_cIndex \in Slot => SampleAtIndex # Outside
  BY DEF IInv, TypeOK, SampleAtIndex, Outside
<1>4. TypeOK'
  <2>1. sent' \in [msg : Message, pos : Nat \cup {Outside}]
    BY <1>2, <1>3 DEF Message
  <2> QED
    BY <1>1, <2>1, PairType DEF IInv, TypeOK
<1>5. HandlerSet' /\ PrefillInOrder' /\ QueueInOrder'
  <2>1. HandlerSet'
    <3>1. reading' >= 0
      BY PairType DEF IInv, TypeOK
    <3> QED
      BY <1>1, <3>1 DEF HandlerSet
  <2>2. PrefillInOrder'
    BY <1>1 DEF PrefillInOrder
  <2>3. QueueInOrder'
    BY <1>1 DEF QueueInOrder, PenIsDown
  <2> QED
    BY <2>1, <2>2, <2>3
<1>6. sent'.msg = "PTR_UP" /\ sent'.pos = SampleAtIndex
  BY <1>2
<1>7. ASSUME sent'.pos # Outside
      PROVE  /\ g_cIndex \in Slot /\ sent'.pos = g_psSamples[g_cIndex]
             /\ sent'.pos > sent.pos /\ sent'.pos <= reading
             /\ \A k \in Slot : k # g_cIndex => g_psSamples'[k] > sent'.pos
  <2>1. g_cIndex \in Slot /\ sent'.pos = g_psSamples[g_cIndex]
    BY <1>3, <1>6, <1>7
  <2>2. sent'.pos > sent.pos
    BY <1>1, <2>1 DEF IInv, TypeOK, SentBefore, Slot, Outside
  <2>3. /\ \A j, k \in Slot :
              j < k => IF j < g_cIndex /\ g_cIndex <= k
                         THEN g_psSamples[k] < g_psSamples[j]
                         ELSE g_psSamples[j] < g_psSamples[k]
        /\ \A k \in Slot : g_psSamples[k] \in g_lLastTouch + 1 .. reading
    BY <1>1, <2>1 DEF IInv, QueueInOrder, PenIsDown, Slot
  <2>4. \A k \in Slot : k # g_cIndex => g_psSamples[k] > g_psSamples[g_cIndex]
    BY <2>1, <2>3 DEF IInv, TypeOK, Slot
  <2> QED
    BY <1>1, <2>1, <2>2, <2>3, <2>4
<1>8. SentBefore'
  <2>1. sent'.pos <= reading /\ reading' = reading + 1
    BY <1>3, <1>6, <1>7, PairType DEF IInv, TypeOK, Outside
  <2> QED
    BY <1>1, <1>4, <2>1 DEF IInv, SentBefore, TypeOK, Outside
<1>9. HeardOfPress'
  BY <1>1, <1>6 DEF HeardOfPress
<1> QED
  BY <1>1, <1>4, <1>5, <1>6, <1>7, <1>8, <1>9 DEF IInv

-----------------------------------------------------------------------------
\* The steps that complete no pair.
LEMMA OtherSteps ==
    ASSUME IInv, \/ Discard \/ CallbackSet \/ UNCHANGED vars
                 \/ \E touched \in BOOLEAN : ReadX(touched)
    PROVE  IInv' /\ sent' = sent
<1>1. /\ UNCHANGED <<reading, upRun, g_cState, g_cIndex, g_psSamples, g_lLastTouch, sent>>
      /\ g_pfnTSHandler => g_pfnTSHandler'
      /\ g_ulTSState' \in {"INIT", "SKIP_X", "READ_X", "SKIP_Y", "READ_Y"}
      /\ adcX' \in BOOLEAN /\ g_pfnTSHandler' \in BOOLEAN
  BY Zenon DEF IInv, TypeOK, Discard, CallbackSet, ReadX, AdcTo, vars, adcVars
<1>2. TypeOK'
  BY <1>1 DEF IInv, TypeOK
<1>3. HandlerSet' /\ PrefillInOrder' /\ QueueInOrder' /\ SentBefore' /\ HeardOfPress'
  BY <1>1 DEF IInv, HandlerSet, PrefillInOrder, QueueInOrder, SentBefore, HeardOfPress,
              PenIsDown
<1> QED
  BY <1>1, <1>2, <1>3 DEF IInv

\* Every way through the debouncer, in the order of DebounceUp and DebounceDown.
LEMMA PairWays ==
    ASSUME NEW y \in BOOLEAN, PairRead(y)
    PROVE  \/ NotTouched \/ Touched
           \/ PenUp \/ Pressed \/ Prefill \/ PenDown \/ PenMove
  BY Zenon DEF PairRead, DebounceUp, DebounceDown

\* The invariant, and for each pair what the messages it causes look like.
LEMMA StepInv ==
    ASSUME IInv, [Next]_vars
    PROVE  IInv'
<1>1. ASSUME NEW y \in BOOLEAN, PairRead(y) PROVE IInv'
  BY <1>1, PairWays, CountKeepsInv, PenUpKeepsInv, PressedKeepsInv, PrefillKeepsInv,
     PenDownKeepsInv, PenMoveKeepsInv, Zenon
<1> QED
  BY <1>1, OtherSteps, Zenon DEF Next

LEMMA Invariance == Spec => []IInv
<1> QED
  BY InitInv, StepInv, PTL DEF Spec

\* Only these three ways through the debouncer send.
LEMMA SendingWays ==
    ASSUME IInv, [Next]_vars, Sends
    PROVE  \E y \in BOOLEAN : PairRead(y) /\ (PenUp \/ PenDown \/ PenMove)
<1>1. ASSUME NEW y \in BOOLEAN, PairRead(y)
      PROVE  PenUp \/ PenDown \/ PenMove
  <2>1. ~(NotTouched \/ Touched \/ Pressed \/ Prefill)
    BY Zenon DEF Sends, NotTouched, Touched, Pressed, Prefill
  <2> QED
    BY <1>1, <2>1, PairWays, Zenon
<1> QED
  BY <1>1, OtherSteps, Zenon DEF Next, Sends

-----------------------------------------------------------------------------
\* Every variable keeps its type.
THEOREM TypeCorrect == Spec => []TypeOK
<1>1. IInv => TypeOK
  BY DEF IInv
<1> QED
  BY <1>1, Invariance, PTL

\* The full queue holds positions of this press only, oldest first.
THEOREM QueueOrdered == Spec => []QueueInOrder
<1>1. IInv => QueueInOrder
  BY DEF IInv
<1> QED
  BY <1>1, Invariance, PTL

\* Positions reach the handler in the order they were taken.
THEOREM PositionsInOrder == Spec => SentInOrder
<1>1. IInv /\ [Next]_vars =>
        [Sends /\ sent'.pos # Outside => sent'.pos > sent.pos]_vars
  BY SendingWays, PenUpKeepsInv, PenDownKeepsInv, PenMoveKeepsInv, Zenon
<1> QED
  BY <1>1, Invariance, PTL DEF Spec, SentInOrder

\* A position is sent only once Slots - 1 later ones have been taken.
THEOREM PositionsDelayed == Spec => DelayedByQueue
<1>1. ASSUME IInv, [Next]_vars, Sends, sent'.pos # Outside
      PROVE  /\ \A k \in Slot : g_psSamples'[k] >= sent'.pos
             /\ \A j, k \in Slot :
                   g_psSamples'[j] = sent'.pos /\ g_psSamples'[k] = sent'.pos => j = k
  <2>1. PICK y \in BOOLEAN : PairRead(y) /\ (PenUp \/ PenDown \/ PenMove)
    BY <1>1, SendingWays
  <2>2. \E i \in Int :
          /\ \A k \in Slot : k # i => g_psSamples'[k] > sent'.pos
          /\ i \in Slot => g_psSamples'[i] >= sent'.pos
    <3>1. CASE PenUp
      <4>1. g_cIndex \in Int /\ g_psSamples' = g_psSamples
        BY <1>1, <2>1, <3>1, PenUpKeepsInv DEF IInv, TypeOK
      <4>2. /\ \A k \in Slot : k # g_cIndex => g_psSamples'[k] > sent'.pos
            /\ g_psSamples'[g_cIndex] = sent'.pos /\ g_cIndex \in Slot
        BY <1>1, <2>1, <3>1, PenUpKeepsInv
      <4>3. g_psSamples'[g_cIndex] \in Nat
        BY <1>1, <4>1, <4>2 DEF IInv, TypeOK
      <4> QED
        BY <4>1, <4>2, <4>3
    <3>2. CASE PenDown \/ PenMove
      <4>1. \A k \in Slot : g_psSamples'[k] > sent'.pos
        BY <1>1, <2>1, <3>2, PenDownKeepsInv, PenMoveKeepsInv, Zenon
      <4> QED
        BY <4>1 DEF Slot
    <3> QED
      BY <2>1, <3>1, <3>2
  <2>3. IInv'
    BY <1>1, StepInv
  <2>4. sent'.pos \in Int /\ \A k \in Slot : g_psSamples'[k] \in Int
    BY <2>3 DEF IInv, TypeOK, Outside
  <2> QED
    BY <2>2, <2>4
<1>2. IInv /\ [Next]_vars =>
        [Sends /\ sent'.pos # Outside =>
            /\ \A k \in Slot : g_psSamples'[k] >= sent'.pos
            /\ \A j, k \in Slot :
                  g_psSamples'[j] = sent'.pos /\ g_psSamples'[k] = sent'.pos => j = k]_vars
  BY <1>1, Zenon
<1> QED
  BY <1>2, Invariance, PTL DEF Spec, DelayedByQueue

\* Presses are reported once, before their moves.
THEOREM PressesReported == Spec => MovesFollowPress
<1>1. ASSUME IInv, [Next]_vars, Sends
      PROVE  /\ sent'.msg = "PTR_MOVE" => sent.msg \in {"PTR_DOWN", "PTR_MOVE"}
             /\ sent'.msg = "PTR_DOWN" => sent.msg \in {"none", "PTR_UP"}
  <2>1. PICK y \in BOOLEAN : PairRead(y) /\ (PenUp \/ PenDown \/ PenMove)
    BY <1>1, SendingWays
  <2>2. CASE PenUp
    BY <1>1, <2>1, <2>2, PenUpKeepsInv
  <2>3. CASE PenDown
    BY <1>1, <2>1, <2>3, PenDownKeepsInv
  <2>4. CASE PenMove
    BY <1>1, <2>1, <2>4, PenMoveKeepsInv
  <2> QED
    BY <2>1, <2>2, <2>3, <2>4
<1>2. IInv /\ [Next]_vars =>
        [Sends =>
            /\ sent'.msg = "PTR_MOVE" => sent.msg \in {"PTR_DOWN", "PTR_MOVE"}
            /\ sent'.msg = "PTR_DOWN" => sent.msg \in {"none", "PTR_UP"}]_vars
  BY <1>1, Zenon
<1> QED
  BY <1>2, Invariance, PTL DEF Spec, MovesFollowPress

-----------------------------------------------------------------------------
\* Where ReleaseFollowsPress fails, and nowhere else: the pen was lifted while the queue
\* was being pre-filled.  A handler can tell such a release by its position alone, which
\* was read before the array.
ReleaseWithoutPress ==
    [][Sends /\ sent'.msg = "PTR_UP" =>
          /\ sent.msg \in {"PTR_DOWN", "PTR_MOVE"} <=> g_cIndex >= 0
          /\ sent'.pos = Outside <=> g_cIndex < 0]_vars

\* A release is one of a reported press unless its position is read outside the array.
THEOREM ReleasesFollowPresses == Spec => ReleaseWithoutPress
<1>1. ASSUME IInv, [Next]_vars, Sends, sent'.msg = "PTR_UP"
      PROVE  /\ sent.msg \in {"PTR_DOWN", "PTR_MOVE"} <=> g_cIndex >= 0
             /\ sent'.pos = Outside <=> g_cIndex < 0
  <2>1. PICK y \in BOOLEAN : PairRead(y) /\ (PenUp \/ PenDown \/ PenMove)
    BY <1>1, SendingWays
  <2>2. PenUp
    <3>1. PenDown => sent'.msg = "PTR_DOWN"
      BY <1>1, <2>1, PenDownKeepsInv
    <3>2. PenMove => sent'.msg = "PTR_MOVE"
      BY <1>1, <2>1, PenMoveKeepsInv
    <3> QED
      BY <1>1, <2>1, <3>1, <3>2
  <2>3. PenIsDown /\ g_pfnTSHandler
    BY <1>1, <2>2, TouchAssumption
       DEF PenUp, PenIsDown, DownStates, DownBit, IInv, HandlerSet
  <2>4. sent'.pos = SampleAtIndex
    BY <2>2, <2>3 DEF PenUp, Send
  <2>5. g_cIndex \in Slot <=> g_cIndex >= 0
    BY <1>1, TouchAssumption DEF IInv, TypeOK, Slot
  <2>6. SampleAtIndex = Outside <=> g_cIndex \notin Slot
    BY <1>1 DEF SampleAtIndex, Outside, IInv, TypeOK
  <2>7. g_cIndex < 0 <=> ~(g_cIndex >= 0)
    BY <1>1, TouchAssumption DEF IInv, TypeOK
  <2>8. sent.msg \in {"PTR_DOWN", "PTR_MOVE"} <=> g_cIndex >= 0
    BY <1>1, <2>3 DEF IInv, HeardOfPress
  <2> QED
    BY <2>4, <2>5, <2>6, <2>7, <2>8
<1>2. IInv /\ [Next]_vars =>
        [Sends /\ sent'.msg = "PTR_UP" =>
            /\ sent.msg \in {"PTR_DOWN", "PTR_MOVE"} <=> g_cIndex >= 0
            /\ sent'.pos = Outside <=> g_cIndex < 0]_vars
  BY <1>1, Zenon
<1> QED
  BY <1>2, Invariance, PTL DEF Spec, ReleaseWithoutPress
=============================================================================
