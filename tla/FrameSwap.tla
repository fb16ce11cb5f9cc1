----------------------------- MODULE FrameSwap -----------------------------
(***************************************************************************)
(* drivers/lcd_driver.c, main.cpp and interface.cpp: two frame buffers, of  *)
(* which one is moved to the LCD while the interface draws into the other.  *)
(*                                                                          *)
(* A line is three DMA transfers: stream 0 is its front porch, stream 1 its *)
(* pixels, stream 2 its back porch.  The interrupt at the end of each       *)
(* starts the next; after the last line the chain ends, and the buffers     *)
(* change places if the interface has finished a picture.  The timer        *)
(* service starts a chain and suspends and resumes the interface, which may *)
(* be anywhere in its loop.                                                 *)
(*                                                                          *)
(* The second buffer starts where the first one ends, so what lies one row  *)
(* past the first is the top row of the second.  Of a buffer the model has  *)
(* two parts, its top row and the rows below.                               *)
(*                                                                          *)
(* Nothing but the length of the timer's periods keeps a chain from being   *)
(* started while the last one runs, and DisplayEnable starts one at a time  *)
(* of its own.  The model has no time, so this may happen whenever the code *)
(* does not test for it.  The three interrupts have one priority and do not *)
(* interrupt each other.                                                    *)
(*                                                                          *)
(* A variant is the next definition with a plausible slip; no action uses   *)
(* it.                                                                      *)
(***************************************************************************)
EXTENDS Integers, FiniteSets

CONSTANTS
    FrontPorch,   \* LCD_V_FRONT_PORCH (19): lines before the picture
    VSize,        \* LCD_V_SIZE (240)
    BackPorch,    \* LCD_V_BACK_PORCH (4)
    Pictures      \* pictures are counted modulo this

ASSUME FrameAssumption ==
    /\ FrontPorch \in Nat \ {0} /\ VSize \in Nat \ {0} /\ BackPorch \in Nat \ {0}
    /\ Pictures \in Nat /\ Pictures > 2

BackPorchStart == FrontPorch + VSize
LineEnd        == BackPorchStart + BackPorch

Streams == {0, 1, 2}
Buffers == {0, 1}     \* LCD_BUFFER_0, LCD_BUFFER_1
Parts   == {"top", "rest"}

\* No picture: what is in the memory behind LCD_BUFFER_1.
Foreign == Pictures

VARIABLES
    enabled,             \* streams whose EN bit is set
    complete,            \* streams whose transfer complete flag is set
    configured,          \* LCD_DMA_Init is done
    ulLineCounter,
    ulPixelOffset,       \* in rows of LCD_H_SIZE * 2 bytes
    output_buffer, reserv_buffer,
    address,             \* PAR of stream 1: the buffer and the row it reads
    frame_loading_done,
    render_sequence,
    suspended,           \* the interface task is
    ifacePc, pusData,    \* how far InterfaceTask is, and its local pointer when it draws
    picture,             \* how many pictures the interface has finished
    drawn,               \* the parts of the next one that it has drawn
    content,             \* the picture that was last drawn into each part of each buffer
    lines,               \* history: the pictures the lines of this frame were taken from,
                         \* until a chain overlaps
    overlapped           \* history: the chain was started while one was running

dmaVars     == <<enabled, complete>>
bufferVars  == <<output_buffer, reserv_buffer, frame_loading_done>>
lineVars    == <<ulLineCounter, ulPixelOffset, address, lines>>
ifaceVars   == <<ifacePc, pusData, picture, drawn, content, configured>>
vars == <<dmaVars, bufferVars, lineVars, ifaceVars, render_sequence, suspended, overlapped>>

\* The buffers hold anything at first: what is in LCD_BUFFER_0 counts as picture 0, what is
\* in LCD_BUFFER_1 as the one before.
Init ==
    /\ enabled = {} /\ complete = {} /\ configured = FALSE
    /\ ulLineCounter = 0 /\ ulPixelOffset = 0
    /\ output_buffer = 0 /\ reserv_buffer = 1
    /\ address = [buffer |-> 0, row |-> 0]
    /\ frame_loading_done = FALSE
    /\ render_sequence = "start" /\ suspended = FALSE
    /\ ifacePc = "init" /\ pusData = 0
    /\ picture = 0 /\ drawn = {}
    /\ content = [b \in Buffers |-> [p \in Parts |-> IF b = 0 THEN 0 ELSE Pictures - 1]]
    /\ lines = {} /\ overlapped = FALSE

-----------------------------------------------------------------------------
(* The DMA controller and its interrupts                                    *)

\* No transfer is under way and no interrupt is due.
Idle == enabled = {} /\ complete = {}

\* Lines 64-65, 77-78: the picture the row at an address belongs to.
LineRead(a) ==
    IF a.row = 0 THEN content[a.buffer]["top"]
    ELSE IF a.row < VSize THEN content[a.buffer]["rest"]
    ELSE IF a.buffer = 0 THEN content[1]["top"]
    ELSE Foreign

\* A transfer ends.  Stream 1 has moved a line of the picture.
Transfer(s) ==
    /\ s \in enabled
    /\ enabled' = enabled \ {s}
    /\ complete' = complete \cup {s}
    /\ lines' = IF s = 1 /\ ~overlapped THEN lines \cup {LineRead(address)} ELSE lines
    /\ UNCHANGED <<bufferVars, ulLineCounter, ulPixelOffset, address, ifaceVars,
                   render_sequence, suspended, overlapped>>

\* DMA2_Stream0_IRQHandler.  PAR cannot be written while the stream is enabled.
FrontPorchDone ==
    /\ 0 \in complete
    /\ address' = IF 1 \in enabled THEN address
                  ELSE [buffer |-> output_buffer, row |-> ulPixelOffset]
    /\ enabled' = enabled \cup {1}
    /\ complete' = complete \ {0}
    /\ UNCHANGED <<bufferVars, ulLineCounter, ulPixelOffset, lines, ifaceVars,
                   render_sequence, suspended, overlapped>>

\* DMA2_Stream1_IRQHandler
DataDone ==
    /\ 1 \in complete
    /\ enabled' = enabled \cup {2}
    /\ complete' = complete \ {1}
    /\ UNCHANGED <<bufferVars, lineVars, ifaceVars, render_sequence, suspended, overlapped>>

\* Lines 185-193
Swap ==
    IF frame_loading_done
    THEN /\ output_buffer' = reserv_buffer
         /\ reserv_buffer' = output_buffer
         /\ frame_loading_done' = FALSE
    ELSE UNCHANGED bufferVars

\* Variant: rows are counted in the back porch too.
NextRowUnbounded(line) == IF line >= FrontPorch THEN ulPixelOffset + 1 ELSE ulPixelOffset

\* Variant: the row is counted up a line earlier.
NextRowEarly(line) ==
    IF FrontPorch - 1 <= line /\ line < BackPorchStart - 1
    THEN ulPixelOffset + 1 ELSE ulPixelOffset

\* Lines 164-169
NextRow(line) ==
    IF FrontPorch <= line /\ line < BackPorchStart THEN ulPixelOffset + 1 ELSE ulPixelOffset

\* Lines 178-198: the frame ends and the chain is not continued.
FrameEnds ==
    /\ ulLineCounter + 1 = LineEnd
    /\ ulLineCounter' = 0 /\ ulPixelOffset' = 0
    /\ lines' = {}
    /\ Swap
    /\ UNCHANGED enabled

\* Variant: a finished picture is taken at once.
NextLineSwaps ==
    /\ ulLineCounter + 1 # LineEnd
    /\ ulLineCounter' = ulLineCounter + 1
    /\ ulPixelOffset' = NextRow(ulLineCounter + 1)
    /\ enabled' = enabled \cup {0}
    /\ Swap
    /\ UNCHANGED lines

\* Lines 160-175, 200-203
NextLine ==
    /\ ulLineCounter + 1 # LineEnd
    /\ ulLineCounter' = ulLineCounter + 1
    /\ ulPixelOffset' = NextRow(ulLineCounter + 1)
    /\ enabled' = enabled \cup {0}
    /\ UNCHANGED <<bufferVars, lines>>

\* DMA2_Stream2_IRQHandler
BackPorchDone ==
    /\ 2 \in complete
    /\ complete' = complete \ {2}
    /\ FrameEnds \/ NextLine
    /\ UNCHANGED <<address, ifaceVars, render_sequence, suspended, overlapped>>

-----------------------------------------------------------------------------
(* vTimerCallback                                                           *)

\* Stream 0 is enabled.  Before LCD_DMA_Init its clock is off and the write has no effect.
StartChain ==
    IF configured
    THEN /\ enabled' = enabled \cup {0}
         /\ overlapped' = ~Idle
    ELSE UNCHANGED <<enabled, overlapped>>

RenderStart ==
    /\ render_sequence = "start"
    /\ suspended' = FALSE
    /\ StartChain
    /\ render_sequence' = "suspend"
    /\ UNCHANGED <<complete, bufferVars, lineVars, ifaceVars>>

\* Variant: the sequence is not moved on.
RenderSuspendStays ==
    /\ render_sequence = "suspend"
    /\ suspended' = TRUE
    /\ UNCHANGED <<render_sequence, dmaVars, bufferVars, lineVars, ifaceVars, overlapped>>

RenderSuspend ==
    /\ render_sequence = "suspend"
    /\ suspended' = TRUE
    /\ render_sequence' = "resume"
    /\ UNCHANGED <<dmaVars, bufferVars, lineVars, ifaceVars, overlapped>>

RenderResume ==
    /\ render_sequence = "resume"
    /\ suspended' = FALSE
    /\ render_sequence' = "start"
    /\ UNCHANGED <<dmaVars, bufferVars, lineVars, ifaceVars, overlapped>>

TimerCallback == RenderStart \/ RenderSuspend \/ RenderResume

-----------------------------------------------------------------------------
(* InterfaceTask.  Handling its messages draws nothing; Update draws every   *)
(* picture, all of it, as a sequence of primitives, each of which loads      *)
(* reserv_buffer and then stores pixels.                                     *)

\* LCD_Init.  A chain started while the streams are configured dies with the first one
\* that is not, and is as one started before.
Configure ==
    /\ ifacePc = "init" /\ ~suspended
    /\ configured' = TRUE
    /\ ifacePc' = "enable"
    /\ UNCHANGED <<dmaVars, bufferVars, lineVars, pusData, picture, drawn, content,
                   render_sequence, suspended, overlapped>>

\* DisplayEnable
LCD_Enable ==
    /\ ifacePc = "enable" /\ ~suspended
    /\ StartChain
    /\ ifacePc' = "test"
    /\ UNCHANGED <<complete, bufferVars, lineVars, pusData, picture, drawn, content,
                   configured, render_sequence, suspended>>

\* Variant: the buffer is drawn into without looking at frame_loading_done.
TestLoadedSkipped ==
    /\ ifacePc = "test" /\ ~suspended
    /\ ifacePc' = "draw" /\ drawn' = {}
    /\ UNCHANGED <<dmaVars, bufferVars, lineVars, pusData, picture, content, configured,
                   render_sequence, suspended, overlapped>>

\* Line 172
TestLoaded ==
    /\ ifacePc = "test" /\ ~suspended
    /\ ~frame_loading_done
    /\ ifacePc' = "draw" /\ drawn' = {}
    /\ UNCHANGED <<dmaVars, bufferVars, lineVars, pusData, picture, content, configured,
                   render_sequence, suspended, overlapped>>

LoadBuffer ==
    /\ ifacePc = "draw" /\ ~suspended
    /\ pusData' = reserv_buffer
    /\ ifacePc' = "store"
    /\ UNCHANGED <<dmaVars, bufferVars, lineVars, picture, drawn, content, configured,
                   render_sequence, suspended, overlapped>>

StorePixels(parts) ==
    /\ ifacePc = "store" /\ ~suspended
    /\ content' = [content EXCEPT ![pusData] =
                      [p \in Parts |-> IF p \in parts THEN (picture + 1) % Pictures ELSE @[p]]]
    /\ drawn' = drawn \cup parts
    /\ ifacePc' = "draw"
    /\ UNCHANGED <<dmaVars, bufferVars, lineVars, pusData, picture, configured,
                   render_sequence, suspended, overlapped>>

\* Line 175, after the last primitive
FrameLoaded ==
    /\ ifacePc = "draw" /\ ~suspended
    /\ drawn = Parts
    /\ frame_loading_done' = TRUE
    /\ picture' = (picture + 1) % Pictures
    /\ ifacePc' = "test"
    /\ UNCHANGED <<dmaVars, output_buffer, reserv_buffer, lineVars, pusData, drawn, content,
                   configured, render_sequence, suspended, overlapped>>

Interface ==
    \/ Configure \/ LCD_Enable \/ TestLoaded
    \/ LoadBuffer
    \/ \E parts \in SUBSET Parts \ {{}} : StorePixels(parts)
    \/ FrameLoaded

-----------------------------------------------------------------------------

Next ==
    \/ \E s \in Streams : Transfer(s)
    \/ FrontPorchDone \/ DataDone \/ BackPorchDone
    \/ TimerCallback
    \/ Interface

Spec == Init /\ [][Next]_vars

\* Transfers end and interrupts are taken; the one-shot timer is restarted by every call.
\* The interface has six of the timer's sixteen ticks and nothing but the timer service
\* above it, and an Update draws all of a picture in finitely many primitives.
Fairness ==
    /\ \A s \in Streams : WF_vars(Transfer(s))
    /\ WF_vars(FrontPorchDone) /\ WF_vars(DataDone) /\ WF_vars(BackPorchDone)
    /\ WF_vars(TimerCallback)
    /\ SF_vars(Interface)
    /\ \A p \in Parts : SF_vars(\E parts \in SUBSET Parts : p \in parts /\ StorePixels(parts))
    /\ SF_vars(FrameLoaded)

FairSpec == Spec /\ Fairness

-----------------------------------------------------------------------------
(* Properties                                                               *)

TypeOK ==
    /\ enabled \subseteq Streams /\ complete \subseteq Streams
    /\ configured \in BOOLEAN
    /\ ulLineCounter \in 0 .. LineEnd - 1
    /\ ulPixelOffset \in 0 .. VSize
    /\ output_buffer \in Buffers /\ reserv_buffer \in Buffers
    /\ address \in [buffer : Buffers, row : 0 .. VSize]
    /\ frame_loading_done \in BOOLEAN
    /\ render_sequence \in {"start", "suspend", "resume"}
    /\ suspended \in BOOLEAN
    /\ ifacePc \in {"init", "enable", "test", "draw", "store"}
    /\ pusData \in Buffers
    /\ picture \in 0 .. Pictures - 1
    /\ drawn \subseteq Parts
    /\ content \in [Buffers -> [Parts -> 0 .. Pictures - 1]]
    /\ lines \subseteq 0 .. Pictures - 1 \cup {Foreign}
    /\ overlapped \in BOOLEAN

\* The picture that a whole buffer holds.
Torn == -1
PictureIn(b) == IF content[b]["top"] = content[b]["rest"] THEN content[b]["top"] ELSE Torn

\* The interface never draws into the buffer on the display: the picture there is whole and
\* changes only when the interrupt takes a finished one, in order, and none is skipped.  This
\* holds although the interface uses a pointer loaded before it was suspended, and whether or
\* not the chain is started twice.  It is about the buffer; the last line the display gets is
\* read past it (ReadsAtMostOneRowPast).
Scr == INSTANCE Screen WITH
    shown   <- PictureIn(output_buffer),
    waiting <- frame_loading_done

IsScreen == Scr!Spec

\* A frame is not torn above its last line: its lines are taken from one picture, unless the
\* chain was started while the frame before was still being moved.
FrameFromOnePicture ==
    ~overlapped /\ ulLineCounter < BackPorchStart - 1 => Cardinality(lines) <= 1

\* Rows are counted up before the first line of the picture, so its last line, and the porch
\* after it, are read one row past the buffer; nothing is read further out, and nothing
\* earlier.  What is read there is never of the picture shown: past LCD_BUFFER_0 it is the
\* top row of the buffer that is drawn, with the picture before or the next one in it.
ReadsAtMostOneRowPast ==
    1 \in enabled /\ ~overlapped /\ address.row >= VSize =>
        /\ address.row = VSize /\ ulLineCounter >= BackPorchStart - 1
        /\ LineRead(address) \in IF output_buffer = 0
                                  THEN {(PictureIn(0) - 1) % Pictures,
                                        (PictureIn(0) + 1) % Pictures}
                                  ELSE {Foreign}

\* The interface is always resumed and every picture is taken: it finishes pictures for ever.
InterfaceKeepsDrawing == []<><<FrameLoaded>>_vars

=============================================================================
