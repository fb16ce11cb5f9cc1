-------------------------- MODULE FrameSwapProofs --------------------------
(***************************************************************************)
(* Proofs about FrameSwap, for frames of any size.  The interface owns the   *)
(* buffer behind the display while frame_loading_done is clear, the          *)
(* interrupt while it is set, and the buffer on the display is whole         *)
(* (Ownership); as long as no chain was started on top of another, at most   *)
(* one stream is enabled or due (OneChain), and the row is a function of the *)
(* line (Rows).                                                              *)
(***************************************************************************)
EXTENDS FrameSwap, FiniteSetTheorems, TLAPS

Pos == 0 .. Pictures - 1

Following(n) == (n + 1) % Pictures
Previous(n)  == (n - 1) % Pictures

LEMMA Modular ==
    \A n \in Pos : /\ Following(n) \in Pos /\ Previous(n) \in Pos
                   /\ Following(Previous(n)) = n /\ Previous(Following(n)) = n
<1>1. \A m \in Nat \ {0} : (-1) % m = m - 1 /\ m % m = 0
  BY SMT
<1>2. \A m \in Nat \ {0} : \A x \in 0 .. m - 1 : x % m = x
  BY SMT
<1>3. Pictures \in Nat \ {0} /\ Pictures > 2
  BY FrameAssumption
<1>4. ASSUME NEW n \in Pos
      PROVE  /\ Following(n) = IF n = Pictures - 1 THEN 0 ELSE n + 1
             /\ Previous(n) = IF n = 0 THEN Pictures - 1 ELSE n - 1
  <2>1. CASE n = Pictures - 1
    <3>1. n + 1 = Pictures /\ n - 1 \in 0 .. Pictures - 1 /\ n # 0
      BY <1>3, <2>1
    <3> QED
      BY <1>1, <1>2, <1>3, <2>1, <3>1 DEF Following, Previous
  <2>2. CASE n = 0
    <3>1. n - 1 = -1 /\ n + 1 \in 0 .. Pictures - 1 /\ n # Pictures - 1
      BY <1>3, <2>2
    <3> QED
      BY <1>1, <1>2, <1>3, <2>2, <3>1 DEF Following, Previous
  <2>3. CASE n # 0 /\ n # Pictures - 1
    <3>1. n - 1 \in 0 .. Pictures - 1 /\ n + 1 \in 0 .. Pictures - 1
      BY <1>3, <2>3 DEF Pos
    <3> QED
      BY <1>2, <1>3, <2>3, <3>1 DEF Following, Previous
  <2> QED
    BY <2>1, <2>2, <2>3
<1> QED
  BY <1>3, <1>4 DEF Pos

-----------------------------------------------------------------------------
(* Who may use which buffer                                                 *)

Whole(b, n) == \A p \in Parts : content[b][p] = n

Ownership ==
    /\ output_buffer # reserv_buffer
    /\ ifacePc \in {"draw", "store"} =>
         /\ ~frame_loading_done
         /\ \A p \in drawn : content[reserv_buffer][p] = Following(picture)
    /\ ifacePc = "store" => pusData = reserv_buffer
    /\ IF frame_loading_done
       THEN Whole(reserv_buffer, picture) /\ Whole(output_buffer, Previous(picture))
       ELSE /\ Whole(output_buffer, picture)
            /\ \A p \in Parts :
                 content[reserv_buffer][p] \in {Previous(picture), Following(picture)}

RowOf(line) ==
    IF line < FrontPorch THEN 0
    ELSE IF line < BackPorchStart THEN line - FrontPorch + 1 ELSE VSize

Rows == ulPixelOffset = RowOf(ulLineCounter)

OneChain ==
    /\ Idle => lines = {}
    /\ ~overlapped =>
         /\ \A s, t \in enabled \cup complete : s = t
         /\ enabled \cap complete = {}
         /\ 1 \in enabled => address = [buffer |-> output_buffer, row |-> ulPixelOffset]
         /\ ulLineCounter < BackPorchStart - 1 => lines \subseteq {PictureIn(output_buffer)}

Inv == TypeOK /\ Ownership /\ Rows /\ OneChain

-----------------------------------------------------------------------------
LEMMA InitInv == Init => Inv
<1> SUFFICES ASSUME Init PROVE Inv
  OBVIOUS
<1> USE FrameAssumption DEF Init
<1>1. TypeOK
  <2>1. 0 \in 0 .. Pictures - 1 /\ 0 \in 0 .. VSize /\ 0 \in 0 .. LineEnd - 1
    BY DEF LineEnd, BackPorchStart
  <2>2. address \in [buffer : Buffers, row : 0 .. VSize]
    BY <2>1 DEF Buffers
  <2>3. content \in [Buffers -> [Parts -> 0 .. Pictures - 1]]
    BY <2>1
  <2> QED
    BY <2>1, <2>2, <2>3 DEF TypeOK, Buffers
<1>2. Ownership /\ Rows
  <2>1. Previous(0) = Pictures - 1
    <3>1. \A m \in Nat \ {0} : (-1) % m = m - 1
      BY SMT
    <3>2. Pictures \in Nat \ {0} /\ 0 - 1 = -1
      OBVIOUS
    <3> QED
      BY <3>1, <3>2 DEF Previous
  <2>2. Ownership
    BY <2>1 DEF Ownership, Whole, Buffers, Parts
  <2> QED
    BY <2>2 DEF Rows, RowOf
<1>3. OneChain
  BY DEF OneChain, Idle
<1> QED
  BY <1>1, <1>2, <1>3 DEF Inv

\* The counter stays below the last line and the row below one past the picture.
LEMMA LineStep ==
    ASSUME TypeOK, Rows, NextLine
    PROVE  /\ ulLineCounter' \in 0 .. LineEnd - 1
           /\ ulPixelOffset' \in 0 .. VSize
           /\ Rows'
<1> USE FrameAssumption DEF TypeOK, Rows, RowOf, NextLine, NextRow, LineEnd, BackPorchStart
<1>1. ulLineCounter' = ulLineCounter + 1 /\ ulLineCounter' \in 0 .. LineEnd - 1
  OBVIOUS
<1>2. CASE ulLineCounter' < FrontPorch
  BY <1>1, <1>2
<1>3. CASE FrontPorch <= ulLineCounter' /\ ulLineCounter' < BackPorchStart
  BY <1>1, <1>3
<1>4. CASE BackPorchStart <= ulLineCounter'
  BY <1>1, <1>4
<1> QED
  BY <1>1, <1>2, <1>3, <1>4

LEMMA TypeStep == TypeOK /\ Rows /\ [Next]_vars => TypeOK'
<1> SUFFICES ASSUME TypeOK, Rows, [Next]_vars PROVE TypeOK'
  OBVIOUS
<1> USE DEF TypeOK, dmaVars, bufferVars, lineVars, ifaceVars
<1>1. CASE \E s \in Streams : Transfer(s)
  <2>1. LineRead(address) \in 0 .. Pictures - 1 \cup {Foreign}
    <3>1. /\ address.buffer \in Buffers /\ 1 \in Buffers
          /\ "top" \in Parts /\ "rest" \in Parts
      BY DEF Buffers, Parts
    <3>2. \A b \in Buffers, p \in Parts : content[b][p] \in 0 .. Pictures - 1
      OBVIOUS
    <3> QED
      BY <3>1, <3>2 DEF LineRead
  <2> HIDE DEF LineRead
  <2> QED
    BY <1>1, <2>1 DEF Transfer
<1>2. CASE FrontPorchDone
  <2>1. address' \in [buffer : Buffers, row : 0 .. VSize]
    BY <1>2 DEF FrontPorchDone
  <2> QED
    BY <1>2, <2>1 DEF FrontPorchDone, Streams
<1>7. CASE DataDone
  BY <1>7 DEF DataDone, Streams
<1>3. CASE BackPorchDone
  <2>1. CASE FrameEnds
    <3>1. ulLineCounter' \in 0 .. LineEnd - 1 /\ ulPixelOffset' \in 0 .. VSize
      BY <2>1, FrameAssumption DEF FrameEnds, LineEnd, BackPorchStart
    <3>2. output_buffer' \in Buffers /\ reserv_buffer' \in Buffers
          /\ frame_loading_done' \in BOOLEAN
      BY <2>1 DEF FrameEnds, Swap
    <3> QED
      BY <1>3, <2>1, <3>1, <3>2 DEF BackPorchDone, FrameEnds
  <2>2. CASE NextLine
    BY <1>3, <2>2, LineStep DEF BackPorchDone, NextLine, Streams
  <2> QED
    BY <1>3, <2>1, <2>2 DEF BackPorchDone
<1>4. CASE TimerCallback
  BY <1>4 DEF TimerCallback, RenderStart, RenderSuspend, RenderResume, StartChain, Streams
<1>5. CASE Interface
  <2>0. Following(picture) \in 0 .. Pictures - 1
    BY Modular DEF Pos
  <2>1. ASSUME NEW parts \in SUBSET Parts, StorePixels(parts) PROVE TypeOK'
    <3>1. content' \in [Buffers -> [Parts -> 0 .. Pictures - 1]]
      BY <2>0, <2>1 DEF StorePixels, Following
    <3> QED
      BY <2>1, <3>1 DEF StorePixels
  <2>2. CASE FrameLoaded
    BY <2>0, <2>2 DEF FrameLoaded, Following
  <2>3. CASE Configure \/ LCD_Enable \/ TestLoaded \/ LoadBuffer
    BY <2>3 DEF Configure, LCD_Enable, TestLoaded, LoadBuffer, StartChain, Streams
  <2> QED
    BY <1>5, <2>1, <2>2, <2>3 DEF Interface
<1>6. CASE UNCHANGED vars
  BY <1>6 DEF vars
<1> QED
  BY <1>1, <1>2, <1>3, <1>4, <1>5, <1>6, <1>7 DEF Next

LEMMA RowsStep == TypeOK /\ Rows /\ [Next]_vars => Rows'
<1> SUFFICES ASSUME TypeOK, Rows, [Next]_vars PROVE Rows'
  OBVIOUS
<1> USE DEF dmaVars, bufferVars, lineVars, ifaceVars
<1>1. CASE BackPorchDone
  <2>1. CASE FrameEnds
    BY <2>1, FrameAssumption DEF FrameEnds, Rows, RowOf
  <2> QED
    BY <1>1, <2>1, LineStep DEF BackPorchDone
<1>2. CASE UNCHANGED <<ulLineCounter, ulPixelOffset>>
  BY <1>2 DEF Rows
<1> QED
  BY <1>1, <1>2 DEF Next, Transfer, FrontPorchDone, DataDone, TimerCallback, RenderStart,
       RenderSuspend, RenderResume, Interface, Configure, LCD_Enable, TestLoaded, LoadBuffer,
       StorePixels, FrameLoaded, vars

LEMMA OwnershipStep == TypeOK /\ Ownership /\ [Next]_vars => Ownership'
<1> SUFFICES ASSUME TypeOK, Ownership, [Next]_vars PROVE Ownership'
  OBVIOUS
<1> USE DEF dmaVars, bufferVars, lineVars, ifaceVars
<1>1. CASE BackPorchDone
  <2>1. UNCHANGED <<ifacePc, pusData, picture, drawn, content>>
    BY <1>1 DEF BackPorchDone
  <2>2. CASE frame_loading_done /\ FrameEnds
    BY <2>1, <2>2 DEF FrameEnds, Swap, Ownership, Whole, Previous, Following
  <2>3. CASE UNCHANGED bufferVars
    BY <2>1, <2>3 DEF Ownership, Whole, Previous, Following
  <2> QED
    BY <1>1, <2>2, <2>3 DEF BackPorchDone, FrameEnds, NextLine, Swap
<1>2. ASSUME NEW parts \in SUBSET Parts, StorePixels(parts) PROVE Ownership'
  <2>1. pusData = reserv_buffer /\ output_buffer # reserv_buffer /\ ~frame_loading_done
    BY <1>2 DEF StorePixels, Ownership
  <2>2. /\ content'[output_buffer] = content[output_buffer]
        /\ \A p \in Parts : content'[reserv_buffer][p] =
             IF p \in parts THEN Following(picture) ELSE content[reserv_buffer][p]
    BY <1>2, <2>1 DEF StorePixels, TypeOK, Following
  <2>3. UNCHANGED <<output_buffer, reserv_buffer, frame_loading_done, picture, pusData>>
        /\ drawn' = drawn \cup parts /\ drawn \subseteq Parts /\ ifacePc' = "draw"
        /\ ifacePc = "store"
    BY <1>2 DEF StorePixels, TypeOK
  <2>4. \A p \in drawn' : content'[reserv_buffer][p] = Following(picture)
    BY <2>2, <2>3 DEF Ownership
  <2>5. \A p \in Parts :
          content'[reserv_buffer][p] \in {Previous(picture), Following(picture)}
    BY <2>1, <2>2 DEF Ownership
  <2>6. \A p \in Parts : content'[output_buffer][p] = picture
    BY <2>1, <2>2 DEF Ownership, Whole
  <2> QED
    BY <2>1, <2>3, <2>4, <2>5, <2>6 DEF Ownership, Whole, Following, Previous
<1>3. CASE FrameLoaded
  <2>1. /\ Whole(output_buffer, picture) /\ ~frame_loading_done
        /\ \A p \in Parts : content[reserv_buffer][p] = Following(picture)
    BY <1>3 DEF FrameLoaded, Ownership
  <2>2. picture' = Following(picture) /\ Previous(picture') = picture
    BY <1>3, Modular DEF FrameLoaded, TypeOK, Pos, Following
  <2> QED
    BY <1>3, <2>1, <2>2 DEF FrameLoaded, Ownership, Whole, Previous
<1>4. CASE TestLoaded \/ LoadBuffer
  BY <1>4 DEF TestLoaded, LoadBuffer, Ownership, Whole, Previous, Following
<1>5. CASE Configure \/ LCD_Enable
  BY <1>5 DEF Configure, LCD_Enable, Ownership, Whole, Previous, Following
<1>6. CASE UNCHANGED <<bufferVars, ifacePc, pusData, picture, drawn, content>>
  BY <1>6 DEF Ownership, Whole, Previous, Following
<1> QED
  BY <1>1, <1>2, <1>3, <1>4, <1>5, <1>6 DEF Next, Transfer, FrontPorchDone, DataDone,
       TimerCallback, RenderStart, RenderSuspend, RenderResume, Interface, vars

\* What is on the display, and that a row of the buffer belongs to it.
LEMMA ShownIs ==
    ASSUME TypeOK, Ownership
    PROVE  /\ PictureIn(output_buffer) =
                IF frame_loading_done THEN Previous(picture) ELSE picture
           /\ Whole(output_buffer, PictureIn(output_buffer))
<1>1. "top" \in Parts /\ "rest" \in Parts
  BY DEF Parts
<1> QED
  BY <1>1 DEF PictureIn, Ownership, Whole

LEMMA RowOfPicture ==
    ASSUME TypeOK, Ownership, NEW a, a.buffer = output_buffer,
           a.row = 0 \/ a.row < VSize
    PROVE  LineRead(a) = PictureIn(output_buffer)
<1>1. "top" \in Parts /\ "rest" \in Parts
  BY DEF Parts
<1> QED
  BY <1>1, ShownIs DEF LineRead, Whole

LEMMA OneChainStep == TypeOK /\ Ownership /\ Rows /\ OneChain /\ [Next]_vars => OneChain'
<1> SUFFICES ASSUME TypeOK, Ownership, Rows, OneChain, [Next]_vars PROVE OneChain'
  OBVIOUS
<1> USE DEF dmaVars, bufferVars, lineVars, ifaceVars, OneChain, Idle
<1>0. ASSUME UNCHANGED <<output_buffer, content>>
      PROVE  PictureIn(output_buffer)' = PictureIn(output_buffer)
  BY <1>0 DEF PictureIn
<1>1. CASE \E s \in Streams : Transfer(s)
  <2> PICK s \in Streams : Transfer(s)
    BY <1>1
  <2>0. PictureIn(output_buffer)' = PictureIn(output_buffer)
    BY <1>0 DEF Transfer
  <2>1. ASSUME ~overlapped, ulLineCounter < BackPorchStart - 1
        PROVE  lines' \subseteq {PictureIn(output_buffer)}
    <3>1. CASE s = 1
      <4>1. address = [buffer |-> output_buffer, row |-> ulPixelOffset]
        BY <2>1, <3>1 DEF Transfer
      <4>2. ulPixelOffset = 0 \/ ulPixelOffset < VSize
        BY <2>1, FrameAssumption DEF Rows, RowOf, TypeOK, BackPorchStart
      <4>3. LineRead(address) = PictureIn(output_buffer)
        BY <4>1, <4>2, RowOfPicture
      <4> QED
        BY <2>1, <4>3 DEF Transfer
    <3>2. CASE s # 1
      BY <2>1, <3>2 DEF Transfer
    <3> QED
      BY <3>1, <3>2
  <2>2. ~Idle' /\ (enabled \cup complete)' = enabled \cup complete
    BY DEF Transfer
  <2>3. ~overlapped => (enabled \cap complete)' = {}
    BY DEF Transfer
  <2>4. 1 \in enabled' => 1 \in enabled
    BY DEF Transfer
  <2>5. UNCHANGED <<overlapped, address, output_buffer, ulPixelOffset, ulLineCounter>>
    BY DEF Transfer
  <2> QED
    BY <2>0, <2>1, <2>2, <2>3, <2>4, <2>5 DEF BackPorchStart
<1>2. CASE FrontPorchDone
  BY <1>0, <1>2 DEF FrontPorchDone, BackPorchStart
<1>3. CASE DataDone
  BY <1>0, <1>3 DEF DataDone, BackPorchStart
<1>4. CASE BackPorchDone
  <2>1. CASE FrameEnds
    BY <1>4, <2>1 DEF BackPorchDone, FrameEnds
  <2>2. CASE NextLine
    <3>1. PictureIn(output_buffer)' = PictureIn(output_buffer)
      BY <1>0, <1>4, <2>2 DEF BackPorchDone, NextLine
    <3>2. ulLineCounter' < BackPorchStart - 1 => ulLineCounter < BackPorchStart - 1
      BY <2>2, FrameAssumption DEF NextLine, TypeOK, BackPorchStart
    <3>3. (BackPorchStart - 1)' = BackPorchStart - 1
      BY DEF BackPorchStart
    <3> HIDE DEF BackPorchStart
    <3> QED
      BY <1>4, <2>2, <3>1, <3>2, <3>3 DEF BackPorchDone, NextLine
  <2> QED
    BY <1>4, <2>1, <2>2 DEF BackPorchDone
<1>5. CASE RenderStart \/ LCD_Enable
  <2>1. UNCHANGED <<complete, lineVars, output_buffer, content>> /\ StartChain
    BY <1>5 DEF RenderStart, LCD_Enable
  <2>2. CASE configured /\ Idle
    BY <2>1, <2>2 DEF StartChain
  <2>3. CASE configured /\ ~Idle
    <3>1. overlapped' /\ 0 \in enabled'
      BY <2>1, <2>3 DEF StartChain
    <3> QED
      BY <3>1
  <2>4. CASE ~configured
    BY <1>0, <2>1, <2>4 DEF StartChain, BackPorchStart
  <2> QED
    BY <2>2, <2>3, <2>4
<1>6. ASSUME NEW parts, StorePixels(parts) PROVE OneChain'
  <2>1. content'[output_buffer] = content[output_buffer]
    BY <1>6 DEF StorePixels, Ownership, TypeOK
  <2>2. PictureIn(output_buffer)' = PictureIn(output_buffer)
    BY <1>6, <2>1 DEF StorePixels, PictureIn
  <2> QED
    BY <1>6, <2>2 DEF StorePixels, BackPorchStart
<1>7. CASE UNCHANGED <<dmaVars, lineVars, output_buffer, content, overlapped>>
  BY <1>0, <1>7 DEF BackPorchStart
<1> QED
  BY <1>1, <1>2, <1>3, <1>4, <1>5, <1>6, <1>7 DEF Next, TimerCallback, RenderSuspend,
       RenderResume, Interface, Configure, TestLoaded, LoadBuffer, FrameLoaded, vars

LEMMA Invariance == Spec => []Inv
<1>1. Inv /\ [Next]_vars => Inv'
  BY TypeStep, RowsStep, OwnershipStep, OneChainStep DEF Inv
<1> QED
  BY InitInv, <1>1, PTL DEF Spec

-----------------------------------------------------------------------------
\* Lines, rows, streams and pictures stay in their ranges, for frames of any size.
THEOREM TypeCorrect == Spec => []TypeOK
BY Invariance, PTL DEF Inv

\* Above its last line a frame is taken from one picture, unless two chains run into each
\* other: the interface draws into the other buffer only, and the row read is inside this one.
THEOREM FramesWhole == Spec => []FrameFromOnePicture
<1>1. Inv => FrameFromOnePicture
  <2> SUFFICES ASSUME Inv, ~overlapped, ulLineCounter < BackPorchStart - 1
               PROVE  Cardinality(lines) <= 1
    BY DEF FrameFromOnePicture
  <2> DEFINE one == {PictureIn(output_buffer)}
  <2>1. lines \subseteq one
    BY DEF Inv, OneChain
  <2>2. IsFiniteSet(one) /\ Cardinality(one) = 1
    BY FS_Singleton
  <2>3. Cardinality(lines) <= Cardinality(one)
    BY <2>1, <2>2, FS_Subset
  <2> QED
    BY <2>2, <2>3
<1> QED
  BY Invariance, <1>1, PTL

\* No transfer starts further out than one row past the buffer, none there before the last
\* line of the picture, and what it reads past LCD_BUFFER_0 is of the picture before or after
\* the one shown.
THEOREM ReadsBounded == Spec => []ReadsAtMostOneRowPast
<1>1. Inv => ReadsAtMostOneRowPast
  <2> SUFFICES ASSUME Inv, 1 \in enabled, ~overlapped, address.row >= VSize
               PROVE  /\ address.row = VSize /\ ulLineCounter >= BackPorchStart - 1
                      /\ LineRead(address) \in IF output_buffer = 0
                                                THEN {Previous(PictureIn(0)),
                                                      Following(PictureIn(0))}
                                                ELSE {Foreign}
    BY DEF ReadsAtMostOneRowPast, Previous, Following
  <2>1. address.row = ulPixelOffset /\ address.buffer = output_buffer
    BY DEF Inv, OneChain
  <2>2. address.row = VSize /\ ulLineCounter >= BackPorchStart - 1
    BY <2>1, FrameAssumption DEF Inv, TypeOK, Rows, RowOf, LineEnd, BackPorchStart
  <2>3. LineRead(address) = IF output_buffer = 0 THEN content[1]["top"] ELSE Foreign
    BY <2>1, <2>2, FrameAssumption DEF LineRead
  <2>4. CASE output_buffer = 0
    <3>1. reserv_buffer = 1 /\ "top" \in Parts
      BY <2>4 DEF Inv, TypeOK, Ownership, Buffers, Parts
    <3>2. PictureIn(0) = IF frame_loading_done THEN Previous(picture) ELSE picture
      BY <2>4, ShownIs DEF Inv
    <3>3. CASE frame_loading_done
      <4>1. content[1]["top"] = picture
        BY <3>1, <3>3 DEF Inv, Ownership, Whole
      <4>2. Following(PictureIn(0)) = picture
        BY <3>2, <3>3, Modular DEF Inv, TypeOK, Pos
      <4> QED
        BY <2>2, <2>3, <2>4, <4>1, <4>2
    <3>4. CASE ~frame_loading_done
      BY <2>2, <2>3, <2>4, <3>1, <3>2, <3>4 DEF Inv, Ownership
    <3> QED
      BY <3>3, <3>4
  <2>5. CASE output_buffer # 0
    BY <2>2, <2>3, <2>5
  <2> QED
    BY <2>4, <2>5
<1> QED
  BY Invariance, <1>1, PTL

-----------------------------------------------------------------------------
(* FrameSwap implements Screen                                              *)

LEMMA InitScreen == Init => Scr!Init
BY DEF Init, Scr!Init, Buffers, Parts, PictureIn

LEMMA ScreenOf ==
    Inv => PictureIn(output_buffer) =
             IF frame_loading_done THEN (picture - 1) % Pictures ELSE picture
BY ShownIs DEF Inv, Previous

LEMMA StepScreen ==
    Inv /\ Inv' /\ [Next]_vars => [Scr!Next]_<<PictureIn(output_buffer), frame_loading_done>>
<1> SUFFICES ASSUME Inv, Inv', [Next]_vars
             PROVE  \/ Scr!Next
                    \/ UNCHANGED <<PictureIn(output_buffer), frame_loading_done>>
  BY DEF Scr!Next
<1> USE DEF dmaVars, bufferVars, lineVars, ifaceVars
<1> DEFINE shownNow == PictureIn(output_buffer)
<1>1. shownNow = IF frame_loading_done THEN Previous(picture) ELSE picture
  BY ScreenOf DEF Previous
<1>2. shownNow' = IF frame_loading_done' THEN Previous(picture') ELSE picture'
  <2>1. (Inv => PictureIn(output_buffer) =
                 IF frame_loading_done THEN (picture - 1) % Pictures ELSE picture)'
    BY ScreenOf, PTL
  <2> QED
    BY <2>1 DEF Previous
<1> HIDE DEF shownNow
<1>3. picture \in Pos
  BY DEF Inv, TypeOK, Pos
<1>4. CASE UNCHANGED <<frame_loading_done, picture>>
  BY <1>1, <1>2, <1>4 DEF shownNow
<1>5. CASE BackPorchDone /\ frame_loading_done /\ FrameEnds
  <2>1. frame_loading_done' = FALSE /\ picture' = picture
    BY <1>5 DEF BackPorchDone, FrameEnds, Swap
  <2>2. shownNow' = Following(shownNow)
    BY <1>1, <1>2, <1>3, <1>5, <2>1, Modular
  <2> QED
    BY <1>5, <2>1, <2>2 DEF Scr!Next, Scr!Show, Following, shownNow
<1>6. CASE FrameLoaded
  <2>1. frame_loading_done' /\ ~frame_loading_done /\ picture' = Following(picture)
    BY <1>6 DEF FrameLoaded, Inv, Ownership, Following
  <2>2. shownNow' = shownNow
    BY <1>1, <1>2, <1>3, <2>1, Modular
  <2> QED
    BY <2>1, <2>2 DEF Scr!Next, Scr!Finish, shownNow
<1>7. ASSUME NEW parts, StorePixels(parts)
      PROVE  UNCHANGED <<frame_loading_done, picture>>
  BY <1>7 DEF StorePixels
<1>8. CASE BackPorchDone
  <2>1. picture' = picture
    BY <1>8 DEF BackPorchDone
  <2>2. FrameEnds \/ frame_loading_done' = frame_loading_done
    BY <1>8 DEF BackPorchDone, NextLine
  <2>3. FrameEnds /\ ~frame_loading_done => frame_loading_done' = frame_loading_done
    BY DEF FrameEnds, Swap
  <2> QED
    BY <1>4, <1>5, <1>8, <2>1, <2>2, <2>3
<1> QED
  BY <1>4, <1>6, <1>7, <1>8 DEF Next, Transfer, FrontPorchDone, DataDone, TimerCallback,
       RenderStart, RenderSuspend, RenderResume, Interface, Configure, LCD_Enable, TestLoaded,
       LoadBuffer, vars

\* The buffer on the display holds every finished picture once and whole, in order, wherever
\* the timer service stops the interface and however often the chain is started.
THEOREM RefinesScreen == Spec => IsScreen
<1>1. Inv /\ Inv' /\ [Next]_vars => [Scr!Next]_<<PictureIn(output_buffer), frame_loading_done>>
  BY StepScreen
<1> QED
  BY InitScreen, Invariance, <1>1, PTL DEF Spec, IsScreen, Scr!Spec

-----------------------------------------------------------------------------
(* A frame ends                                                             *)

\* The transfers and interrupts between here and the end of the frame: six for each line.
PhaseLeft ==
    IF 0 \in enabled THEN 6 ELSE IF 0 \in complete THEN 5
    ELSE IF 1 \in enabled THEN 4 ELSE IF 1 \in complete THEN 3
    ELSE IF 2 \in enabled THEN 2 ELSE 1

FrameLeft == IF Idle THEN 0 ELSE 6 * (LineEnd - 1 - ulLineCounter) + PhaseLeft

ChainStep ==
    \/ \E s \in Streams : Transfer(s)
    \/ FrontPorchDone \/ DataDone \/ BackPorchDone

FrameEnding ==
    [][~overlapped /\ ~overlapped' =>
        /\ ChainStep => FrameLeft' < FrameLeft
        /\ FrameLeft' > FrameLeft => Idle /\ (RenderStart \/ LCD_Enable)]_vars

LEMMA FrameBounds ==
    ASSUME TypeOK PROVE FrameLeft \in 0 .. 6 * LineEnd /\ (~Idle => FrameLeft > 0)
<1>1. /\ ulLineCounter \in Int /\ LineEnd \in Int
      /\ 0 <= ulLineCounter /\ ulLineCounter <= LineEnd - 1
  BY FrameAssumption DEF TypeOK, LineEnd, BackPorchStart
<1>2. PhaseLeft \in 1 .. 6
  BY DEF PhaseLeft
<1> QED
  BY <1>1, <1>2 DEF FrameLeft

\* One stream at a time, each followed by the next: no step of a chain goes back.
LEMMA ChainDecreases ==
    ASSUME Inv, ~overlapped, ChainStep PROVE FrameLeft' < FrameLeft
<1>0. /\ ulLineCounter \in Int /\ LineEnd \in Int /\ ulLineCounter <= LineEnd - 1
      /\ enabled \subseteq Streams /\ complete \subseteq Streams
      /\ \A s, t \in enabled \cup complete : s = t
      /\ enabled \cap complete = {}
  BY FrameAssumption DEF Inv, TypeOK, OneChain, LineEnd, BackPorchStart
<1>1. ASSUME NEW s \in Streams, Transfer(s) PROVE FrameLeft' < FrameLeft
  <2>1. enabled = {s} /\ complete = {} /\ enabled' = {} /\ complete' = {s}
    BY <1>0, <1>1 DEF Transfer
  <2>2. ulLineCounter' = ulLineCounter
    BY <1>1 DEF Transfer
  <2>3. PhaseLeft \in Int /\ PhaseLeft' \in Int /\ PhaseLeft' < PhaseLeft
    BY <2>1 DEF PhaseLeft, Streams
  <2>4. /\ FrameLeft = 6 * (LineEnd - 1 - ulLineCounter) + PhaseLeft
        /\ FrameLeft' = 6 * (LineEnd - 1 - ulLineCounter) + PhaseLeft'
    BY <2>1, <2>2 DEF FrameLeft, Idle
  <2>5. 6 * (LineEnd - 1 - ulLineCounter) \in Int
    BY <1>0
  <2> QED
    BY <2>3, <2>4, <2>5
<1>2. CASE FrontPorchDone
  <2>1. /\ complete = {0} /\ enabled = {} /\ complete' = {} /\ enabled' = {1}
        /\ ulLineCounter' = ulLineCounter
    BY <1>0, <1>2 DEF FrontPorchDone
  <2>2. PhaseLeft = 5 /\ PhaseLeft' = 4
    BY <2>1 DEF PhaseLeft
  <2> QED
    BY <1>0, <2>1, <2>2 DEF FrameLeft, Idle
<1>3. CASE DataDone
  <2>1. /\ complete = {1} /\ enabled = {} /\ complete' = {} /\ enabled' = {2}
        /\ ulLineCounter' = ulLineCounter
    BY <1>0, <1>3 DEF DataDone, lineVars
  <2>2. PhaseLeft = 3 /\ PhaseLeft' = 2
    BY <2>1 DEF PhaseLeft
  <2> QED
    BY <1>0, <2>1, <2>2 DEF FrameLeft, Idle
<1>4. CASE BackPorchDone
  <2>1. complete = {2} /\ enabled = {} /\ complete' = {}
    BY <1>0, <1>4 DEF BackPorchDone
  <2>2. FrameLeft = 6 * (LineEnd - 1 - ulLineCounter) + 1
    BY <2>1 DEF FrameLeft, Idle, PhaseLeft
  <2>3. CASE FrameEnds
    <3>1. FrameLeft' = 0
      BY <2>1, <2>3 DEF FrameEnds, FrameLeft, Idle
    <3> QED
      BY <1>0, <2>2, <3>1
  <2>4. CASE NextLine
    <3>1. FrameLeft' = 6 * (LineEnd - 1 - (ulLineCounter + 1)) + 6
      BY <2>1, <2>4 DEF NextLine, FrameLeft, Idle, PhaseLeft
    <3> QED
      BY <1>0, <2>2, <3>1
  <2> QED
    BY <1>4, <2>3, <2>4 DEF BackPorchDone
<1> QED
  BY <1>1, <1>2, <1>3, <1>4 DEF ChainStep

\* A chain that was not started on top of another comes to its end, and with it to the place
\* where buffers are swapped, within six transfers and interrupts for each line; nothing the
\* timer service or the interface does puts it off.  That every picture is taken, and the
\* interface goes on drawing, rests on it.
THEOREM FramesEnd == Spec => [](FrameLeft \in 0 .. 6 * LineEnd) /\ FrameEnding
<1>1. Inv => FrameLeft \in 0 .. 6 * LineEnd
  BY FrameBounds DEF Inv
<1>2. Inv /\ Inv' /\ [Next]_vars =>
        [~overlapped /\ ~overlapped' =>
            /\ ChainStep => FrameLeft' < FrameLeft
            /\ FrameLeft' > FrameLeft => Idle /\ (RenderStart \/ LCD_Enable)]_vars
  <2> SUFFICES ASSUME Inv, Inv', Next, ~overlapped, ~overlapped'
               PROVE  /\ ChainStep => FrameLeft' < FrameLeft
                      /\ FrameLeft' > FrameLeft => Idle /\ (RenderStart \/ LCD_Enable)
    OBVIOUS
  <2>1. FrameLeft \in Int /\ (FrameLeft \in Int)'
    <3>1. LineEnd' = LineEnd /\ LineEnd \in Int
      BY FrameAssumption DEF LineEnd, BackPorchStart
    <3>2. FrameLeft \in 0 .. 6 * LineEnd /\ (FrameLeft \in 0 .. 6 * LineEnd)'
      BY <1>1, PTL
    <3> QED
      BY <3>1, <3>2
  <2>2. ChainStep => FrameLeft' < FrameLeft
    BY ChainDecreases
  <2>3. UNCHANGED <<enabled, complete, ulLineCounter>> => FrameLeft' = FrameLeft
    BY DEF FrameLeft, Idle, PhaseLeft
  <2>4. ASSUME RenderStart \/ LCD_Enable
        PROVE  Idle \/ UNCHANGED <<enabled, complete, ulLineCounter>>
    BY <2>4 DEF RenderStart, LCD_Enable, StartChain, lineVars
  <2>5. ASSUME RenderSuspend \/ RenderResume \/ Configure \/ TestLoaded \/ LoadBuffer
               \/ FrameLoaded
        PROVE  UNCHANGED <<enabled, complete, ulLineCounter>>
    BY <2>5 DEF RenderSuspend, RenderResume, Configure, TestLoaded, LoadBuffer, FrameLoaded,
                dmaVars, lineVars
  <2>6. ASSUME NEW parts, StorePixels(parts)
        PROVE  UNCHANGED <<enabled, complete, ulLineCounter>>
    BY <2>6 DEF StorePixels, dmaVars, lineVars
  <2> QED
    BY <2>1, <2>2, <2>3, <2>4, <2>5, <2>6 DEF Next, ChainStep, TimerCallback, Interface
<1> QED
  BY <1>1, <1>2, Invariance, PTL DEF Spec, FrameEnding
=============================================================================
