------------------------ MODULE RegisterTableProofs ------------------------
(***************************************************************************)
(* Proofs about RegisterTable for pages and tables of any size.  A paint     *)
(* makes cells, limit states and settings agree (Painted); the arrows are    *)
(* those of the limits when the window is built and those of the limit state *)
(* from its first paint on, if nothing came before it (Buttons); and an open *)
(* editor stays with the register it was opened for (Editor).                *)
(***************************************************************************)
EXTENDS RegisterTable, TLAPS

\* Only an open window has an editor, and an editor has a cell.
Window ==
    /\ painted => open
    /\ popup # None => open /\ active \in Cells

\* What the last paint left, if nothing was touched or changed since.
Painted ==
    painted =>
        /\ atLimit = Limits
        /\ shown = Rounded(scroll)
        /\ disabled = {c \in Cells : c >= CellsShown}

\* In a window that was painted before each touch.
Editor ==
    popup # None /\ seen /\ agreed =>
        /\ popup = scroll + active /\ popup < quan
        /\ scroll = Rounded(scroll)

\* The arrows before and after the first paint.  A first paint that comes late leaves them
\* as they were built wherever the limit state of the closed window agrees with the limits.
Buttons ==
    /\ painted => firstPaint # "due"
    /\ seen => firstPaint # "late"
    /\ open /\ firstPaint = "due" => popup = None /\ off = Limits
    /\ open /\ firstPaint = "clean" => off = atLimit

Inv == TypeOK /\ Window /\ Painted /\ Buttons /\ Editor

-----------------------------------------------------------------------------
(* Pages                                                                    *)

LEMMA Remainder ==
    \A x \in Nat, r \in Nat \ {0} : (x % r) \in 0 .. r - 1 /\ x % r <= x
BY SMT

\* Rounding goes back by less than a page, and never below the first register.
LEMMA RoundedBounds ==
    ASSUME NEW x \in Nat
    PROVE  Rounded(x) \in Nat /\ Rounded(x) <= x /\ x <= Rounded(x) + Rows - 1
<1>1. (x % Rows) \in 0 .. Rows - 1 /\ x % Rows <= x
  BY Remainder, TableAssumption
<1> QED
  BY <1>1, TableAssumption DEF Rounded

\* The subtraction of one wraps for no quantity but zero.
LEMMA LastOffsetIs ==
    ASSUME TypeOK
    PROVE  LastOffset = IF quan = 0 THEN Word - 1 ELSE quan - 1
<1>1. \A w \in Nat \ {0} : (-1) % w = w - 1
  BY SMT
<1>2. \A w \in Nat \ {0} : \A x \in 0 .. w - 1 : x % w = x
  BY SMT
<1>3. Word \in Nat \ {0} /\ quan \in Nat /\ quan < Word
  BY TableAssumption DEF TypeOK
<1>4. CASE quan = 0
  <2>1. (quan - 1) % Word = (-1) % Word
    BY <1>4
  <2> QED
    BY <1>1, <1>3, <1>4, <2>1 DEF LastOffset
<1>5. CASE quan # 0
  <2>1. quan - 1 \in 0 .. Word - 1
    BY <1>3, <1>5
  <2> QED
    BY <1>2, <1>3, <1>5, <2>1 DEF LastOffset
<1> QED
  BY <1>4, <1>5

\* The right limit is the page of the last register, and is never met in a table whose
\* quantity has not been restored: what the subtraction wraps to is out of reach.
LEMMA LastPage ==
    ASSUME TypeOK, scroll = Rounded(LastOffset)
    PROVE  quan # 0 /\ scroll = Rounded(quan - 1)
<1>1. CASE quan = 0
  <2>1. scroll = Rounded(Word - 1)
    BY <1>1, LastOffsetIs
  <2>2. Word - 1 <= Rounded(Word - 1) + Rows - 1
    BY RoundedBounds, TableAssumption
  <2> QED
    BY <2>1, <2>2, TableAssumption DEF TypeOK
<1>2. CASE quan # 0
  BY <1>2, LastOffsetIs
<1> QED
  BY <1>1, <1>2

-----------------------------------------------------------------------------
(* Scrolling                                                                *)

LEMMA ScrolledType ==
    ASSUME TypeOK, NEW arrow \in Arrows
    PROVE  Scrolled(arrow) \in 0 .. MaxScroll
<1> DEFINE step   == IF mode = "reg" THEN 1 ELSE Rows
           offset == Adjusted(IF arrow = "prev" THEN scroll - step ELSE scroll + step)
           least  == IF offset > LastOffset THEN LastOffset ELSE offset
<1>1. offset \in 0 .. MaxScroll
  BY TableAssumption DEF Adjusted, TypeOK
<1>2. LastOffset \in Nat
  BY LastOffsetIs, TableAssumption DEF TypeOK
<1> HIDE DEF offset
<1>3. least \in 0 .. MaxScroll
  BY <1>1, <1>2, TableAssumption
<1>4. Scrolled(arrow) = Rounded(least)
  BY DEF Scrolled, offset
<1> HIDE DEF least
<1> QED
  BY <1>3, <1>4, RoundedBounds, TableAssumption

-----------------------------------------------------------------------------
(* The invariant                                                            *)

LEMMA InitInv == Init => Inv
<1> SUFFICES ASSUME Init PROVE Inv
  OBVIOUS
<1>1. TypeOK
  <2>1. 0 \in 0 .. MaxQuan /\ 0 \in 0 .. MaxScroll
    BY TableAssumption
  <2>2. off \subseteq Arrows
    BY DEF Init, ArrowsAsBuilt, Limits
  <2> QED
    BY <2>1, <2>2 DEF Init, TypeOK
<1>2. Window /\ Painted /\ Buttons /\ Editor
  BY DEF Init, Window, Painted, Buttons, Editor, ArrowsAsBuilt
<1> QED
  BY <1>1, <1>2 DEF Inv

LEMMA TypeStep == TypeOK /\ Window /\ [Next]_vars => TypeOK'
<1> SUFFICES ASSUME TypeOK, Window, [Next]_vars PROVE TypeOK'
  OBVIOUS
<1> USE TableAssumption DEF TypeOK, settings, Touched, TooEarly
<1>1. CASE Paint
  <2>1. Rounded(scroll) \in 0 .. MaxScroll
    BY RoundedBounds
  <2>2. off' \subseteq Arrows /\ atLimit' \subseteq Arrows
    BY <1>1 DEF Paint, ArrowsDisabled, Limits
  <2>3. disabled' \subseteq Cells
    BY <1>1 DEF Paint
  <2>4. active' \in {None} \cup Cells
    BY <1>1 DEF Paint
  <2> QED
    BY <1>1, <2>1, <2>2, <2>3, <2>4 DEF Paint
<1>2. ASSUME NEW arrow \in Arrows, Scroll(arrow) PROVE TypeOK'
  BY <1>2, ScrolledType DEF Scroll
<1>3. ASSUME NEW c \in Cells, TapCell(c) PROVE TypeOK'
  <2>1. c + scroll \in 0 .. MaxScroll + 2 * Rows - 1
    BY DEF Cells
  <2>2. OffsetShown \in BOOLEAN
    BY DEF OffsetShown
  <2> HIDE DEF OffsetShown
  <2> QED
    BY <1>3, <2>1, <2>2 DEF TapCell
<1>4. CASE ClosePopup
  BY <1>4 DEF ClosePopup
<1>5. CASE OpenSetup
  BY <1>5 DEF OpenSetup
<1>6. ASSUME NEW q \in 1 .. MaxQuan, NEW m \in {"page", "reg"}, SetupApply(q, m)
      PROVE  TypeOK'
  BY <1>6 DEF SetupApply
<1>7. CASE SetupDefaults
  BY <1>7 DEF SetupDefaults
<1>8. CASE CloseSetup
  <2>1. ArrowsAsBuilt \subseteq Arrows
    BY DEF ArrowsAsBuilt, Limits
  <2> QED
    BY <1>8, <2>1 DEF CloseSetup
<1>9. ASSUME NEW q \in 1 .. MaxQuan, Restore(q) PROVE TypeOK'
  <2>1. q \in 0 .. MaxQuan /\ 0 \in 0 .. MaxScroll
    OBVIOUS
  <2> QED
    BY <1>9, <2>1 DEF Restore
<1>10. CASE UNCHANGED vars
  BY <1>10 DEF vars
<1> QED
  BY <1>1, <1>2, <1>3, <1>4, <1>5, <1>6, <1>7, <1>8, <1>9, <1>10 DEF Next

LEMMA WindowStep == TypeOK /\ Window /\ [Next]_vars => Window'
<1> SUFFICES ASSUME TypeOK, Window, [Next]_vars PROVE Window'
  OBVIOUS
<1> USE DEF Window, settings, Touched
<1>1. CASE Paint
  BY <1>1 DEF Paint
<1>2. ASSUME NEW arrow \in Arrows, Scroll(arrow) PROVE Window'
  BY <1>2 DEF Scroll
<1>3. ASSUME NEW c \in Cells, TapCell(c) PROVE Window'
  BY <1>3 DEF TapCell
<1>4. CASE ClosePopup \/ OpenSetup \/ SetupDefaults \/ CloseSetup
  BY <1>4 DEF ClosePopup, OpenSetup, SetupDefaults, CloseSetup
<1>5. ASSUME NEW q, NEW m, SetupApply(q, m) PROVE Window'
  BY <1>5 DEF SetupApply
<1>6. ASSUME NEW q, Restore(q) PROVE Window'
  BY <1>6 DEF Restore
<1>7. CASE UNCHANGED vars
  BY <1>7 DEF vars
<1> QED
  BY <1>1, <1>2, <1>3, <1>4, <1>5, <1>6, <1>7 DEF Next

\* What a paint shows is what the settings say until something is touched or changed.
LEMMA PaintedStep == TypeOK /\ Window /\ Painted /\ [Next]_vars => Painted'
<1> SUFFICES ASSUME TypeOK, Window, Painted, [Next]_vars, painted' PROVE Painted'
  BY DEF Painted
<1> USE DEF settings, Touched
<1>1. CASE Paint
  <2>1. Limits' = Limits /\ Rounded(scroll)' = Rounded(scroll) /\ CellsShown' = CellsShown
    BY <1>1 DEF Paint, Limits, Rounded, LastOffset, CellsShown
  <2> QED
    BY <1>1, <2>1 DEF Paint, Painted, ArrowsDisabled
<1>2. CASE UNCHANGED vars
  <2>1. Limits' = Limits /\ Rounded(scroll)' = Rounded(scroll) /\ CellsShown' = CellsShown
    BY <1>2 DEF vars, Limits, Rounded, LastOffset, CellsShown
  <2> QED
    BY <1>2, <2>1 DEF vars, Painted
<1>3. painted' = FALSE \/ ~open \/ Paint \/ UNCHANGED vars
  BY DEF Next, Scroll, TapCell, ClosePopup, OpenSetup, SetupApply, SetupDefaults, CloseSetup,
         Restore
<1>4. ~open /\ ~Paint /\ ~UNCHANGED vars => painted' = painted \/ painted' = FALSE
  BY DEF Next, Scroll, TapCell, ClosePopup, OpenSetup, SetupApply, SetupDefaults, CloseSetup,
         Restore
<1> QED
  BY <1>1, <1>2, <1>3, <1>4 DEF Window

LEMMA ButtonsStep == TypeOK /\ Window /\ Painted /\ Buttons /\ [Next]_vars => Buttons'
<1> SUFFICES ASSUME TypeOK, Window, Painted, Buttons, [Next]_vars PROVE Buttons'
  OBVIOUS
<1> USE DEF settings
<1>1. CASE Paint
  <2>1. Limits' = Limits
    BY <1>1 DEF Paint, Limits, Rounded, LastOffset
  <2>2. CASE firstPaint = "due"
    <3>1. off = Limits /\ Limits \subseteq Arrows
      BY <1>1, <2>2 DEF Paint, Buttons, Limits
    <3>2. off' = Limits
      BY <1>1, <3>1 DEF Paint, ArrowsDisabled
    <3> QED
      BY <1>1, <2>2, <3>2 DEF Paint, ArrowsDisabled, Buttons
  <2>3. CASE firstPaint = "clean"
    <3>1. off = atLimit /\ Limits \subseteq Arrows
      BY <1>1, <2>3 DEF Paint, Buttons, Limits
    <3>2. off' = Limits
      BY <1>1, <3>1 DEF Paint, ArrowsDisabled
    <3> QED
      BY <1>1, <2>3, <3>2 DEF Paint, ArrowsDisabled, Buttons
  <2>4. CASE firstPaint = "late"
    BY <1>1, <2>4 DEF Paint, Buttons
  <2> QED
    BY <2>2, <2>3, <2>4 DEF TypeOK
<1>2. ASSUME Touched \/ (TooEarly /\ painted' = FALSE /\ seen' = FALSE),
             UNCHANGED <<open, off, atLimit>>
      PROVE  Buttons'
  BY <1>2 DEF Touched, TooEarly, Buttons
<1>3. ASSUME NEW arrow \in Arrows, Scroll(arrow) PROVE Buttons'
  BY <1>2, <1>3 DEF Scroll
<1>4. ASSUME NEW c \in Cells, TapCell(c) PROVE Buttons'
  BY <1>2, <1>4 DEF TapCell
<1>5. CASE ClosePopup
  BY <1>2, <1>5 DEF ClosePopup
<1>6. CASE OpenSetup
  BY <1>6 DEF OpenSetup, Buttons
<1>7. ASSUME ~open, UNCHANGED <<open, painted, firstPaint, seen>> PROVE Buttons'
  BY <1>7 DEF Buttons
<1>8. CASE CloseSetup
  <2>1. Limits' = Limits
    BY <1>8 DEF CloseSetup, Limits, Rounded, LastOffset
  <2>2. ~painted' /\ popup' = None
    BY <1>8 DEF CloseSetup, Window
  <2> QED
    BY <1>8, <2>1, <2>2 DEF CloseSetup, ArrowsAsBuilt, Buttons
<1>9. ASSUME NEW q, Restore(q) PROVE Buttons'
  BY <1>2, <1>9 DEF Restore
<1>10. CASE UNCHANGED vars
  <2>1. Limits' = Limits
    BY <1>10 DEF vars, Limits, Rounded, LastOffset
  <2> QED
    BY <1>10, <2>1 DEF vars, Buttons
<1> QED
  BY <1>1, <1>3, <1>4, <1>5, <1>6, <1>7, <1>8, <1>9, <1>10 DEF Next, SetupApply, SetupDefaults

\* With the editor open in a window that was painted before it was touched, and since, no
\* arrow reacts.
LEMMA ArrowsHeldBack ==
    ASSUME Inv, open, popup # None, painted, firstPaint = "clean",
           NEW arrow \in Arrows
    PROVE  ~Scroll(arrow)
<1>1. off = Limits
  BY DEF Inv, Painted, Buttons
<1>2. Limits = Arrows
  BY DEF Limits
<1> QED
  BY <1>1, <1>2 DEF Scroll

\* A cell that reacts in a painted window is the cell of a register.
LEMMA CellOfRegister ==
    ASSUME TypeOK, Window, Painted, painted, NEW c \in Cells, c \notin disabled,
           OffsetShown
    PROVE  c + scroll < quan
<1>0. CellsShown \in Int
  <2>1. \A x \in Int, w \in Nat \ {0} : x % w \in Int
    BY SMT
  <2> QED
    BY <2>1, TableAssumption DEF CellsShown, TypeOK, OffsetShown
<1>1. c < CellsShown
  <2>1. ~(c >= CellsShown)
    BY DEF Painted
  <2> QED
    BY <1>0, <2>1 DEF Cells
<1>2. quan - Rounded(scroll) \in 0 .. Word - 1
  BY TableAssumption DEF OffsetShown, TypeOK
<1>3. \A w \in Nat \ {0} : \A x \in 0 .. w - 1 : x % w = x
  BY SMT
<1>4. (quan - Rounded(scroll)) % Word = quan - scroll
  BY <1>2, <1>3, TableAssumption DEF OffsetShown
<1>5. CellsShown <= quan - scroll
  BY <1>4, TableAssumption DEF CellsShown, TypeOK
<1>6. c \in Int /\ scroll \in Int /\ quan \in Int
  BY TableAssumption DEF TypeOK, Cells
<1> QED
  BY <1>0, <1>1, <1>5, <1>6

LEMMA EditorStep == Inv /\ [Next]_vars => Editor'
<1> SUFFICES ASSUME Inv, [Next]_vars, (popup # None)', seen', agreed' PROVE Editor'
  BY DEF Editor
<1> USE DEF settings
<1>1. ASSUME UNCHANGED <<quan, mode, scroll, popup, seen, agreed>>, active' = active
      PROVE  Editor'
  BY <1>1 DEF Inv, Editor, Rounded
<1>2. CASE Paint
  BY <1>1, <1>2 DEF Paint
<1>3. ASSUME NEW arrow \in Arrows, Scroll(arrow) PROVE Editor'
  <2>1. open /\ popup # None /\ seen /\ painted
    BY <1>3 DEF Scroll, Touched
  <2>2. firstPaint = "clean"
    BY <2>1 DEF Inv, TypeOK, Buttons
  <2> QED
    BY <1>3, <2>1, <2>2, ArrowsHeldBack
<1>4. ASSUME NEW c \in Cells, TapCell(c) PROVE Editor'
  <2>1. painted /\ OffsetShown /\ popup' = c + scroll /\ active' = c
    BY <1>4 DEF TapCell, Touched
  <2>2. c + scroll < quan
    BY <1>4, <2>1, CellOfRegister DEF Inv, TapCell
  <2>3. UNCHANGED <<quan, mode, scroll>>
    BY <1>4 DEF TapCell
  <2>4. c + scroll = scroll + c
    BY DEF Inv, TypeOK, Cells
  <2> QED
    BY <2>1, <2>2, <2>3, <2>4 DEF Editor, OffsetShown, Rounded
<1>5. CASE ClosePopup \/ OpenSetup
  BY <1>5 DEF ClosePopup, OpenSetup
<1>6. CASE SetupDefaults \/ CloseSetup
  BY <1>6 DEF SetupDefaults, CloseSetup, Inv, Window
<1>7. ASSUME NEW q, NEW m, SetupApply(q, m) PROVE Editor'
  BY <1>7 DEF SetupApply, Inv, Window
<1>8. ASSUME NEW q, Restore(q) PROVE Editor'
  BY <1>8 DEF Restore
<1>9. CASE UNCHANGED vars
  BY <1>1, <1>9 DEF vars
<1> QED
  BY <1>2, <1>3, <1>4, <1>5, <1>6, <1>7, <1>8, <1>9 DEF Next

THEOREM Invariance == Spec => []Inv
<1>1. Inv /\ [Next]_vars => Inv'
  <2> SUFFICES ASSUME Inv, [Next]_vars PROVE Inv'
    OBVIOUS
  <2>1. TypeOK' /\ Window' /\ Painted'
    BY TypeStep, WindowStep, PaintedStep DEF Inv
  <2>2. Buttons' /\ Editor'
    BY ButtonsStep, EditorStep DEF Inv
  <2> QED
    BY <2>1, <2>2 DEF Inv
<1> QED
  BY <1>1, InitInv, PTL DEF Spec

-----------------------------------------------------------------------------
(* The properties                                                           *)

\* The scroll value, the editor's register and the cell it was opened from stay in their
\* ranges, whatever order touches, paints and the restored settings come in.
THEOREM TypeCorrect == Spec => []TypeOK
<1>1. Inv => TypeOK
  BY DEF Inv
<1> QED
  BY <1>1, Invariance, PTL

\* The editor is for the register that its highlighted cell shows, and that register is one
\* of those polled.
THEOREM EditorAgrees == Spec => []EditsWhatIsShown
<1>1. Inv => EditsWhatIsShown
  BY DEF Inv, Painted, Editor, EditsWhatIsShown
<1> QED
  BY <1>1, Invariance, PTL

\* An arrow that does not react has nothing left to scroll to, for pages and tables of any
\* size, in a window that was painted before it was touched.
THEOREM ArrowsEnd == Spec => []ArrowsAtEnds
<1>1. Inv => ArrowsAtEnds
  <2> SUFFICES ASSUME Inv, open, painted, popup = None, firstPaint = "clean"
               PROVE  /\ "prev" \in off => shown = 0
                      /\ "next" \in off =>
                            shown <= quan - 1 /\ quan - 1 <= shown + 2 * Rows - 1
    BY DEF ArrowsAtEnds
  <2>1. shown = Rounded(scroll) /\ off = Limits
    BY DEF Inv, Painted, Buttons
  <2>2. ASSUME "prev" \in off PROVE shown = 0
    <3>1. scroll = 0
      BY <2>1, <2>2 DEF Limits
    <3> QED
      BY <2>1, <3>1, RoundedBounds
  <2>3. ASSUME "next" \in off
        PROVE  shown <= quan - 1 /\ quan - 1 <= shown + 2 * Rows - 1
    <3>1. scroll = Rounded(LastOffset)
      BY <2>1, <2>3 DEF Limits
    <3>2. quan - 1 \in Nat /\ scroll = Rounded(quan - 1)
      BY <3>1, LastPage DEF Inv, TypeOK
    <3>3. scroll \in Nat /\ scroll <= quan - 1 /\ quan - 1 <= scroll + Rows - 1
      BY <3>2, RoundedBounds
    <3>4. shown \in Nat /\ shown <= scroll /\ scroll <= shown + Rows - 1
      BY <2>1, <3>3, RoundedBounds
    <3> QED
      BY <3>2, <3>3, <3>4, TableAssumption
  <2> QED
    BY <2>2, <2>3
<1> QED
  BY <1>1, Invariance, PTL

\* With the editor open and painted, no touch scrolls the table under it, whatever limit
\* state closed windows have left, in a window that was painted before it was touched.
THEOREM MenuStays == Spec => MenuDoesNotScroll
<1>1. Inv /\ [Next]_vars =>
         [open /\ popup # None /\ painted /\ firstPaint = "clean" /\ UNCHANGED restored
             => scroll' = scroll]_vars
  <2> SUFFICES ASSUME Inv, Next, open, popup # None, painted, firstPaint = "clean",
                      UNCHANGED restored
               PROVE  scroll' = scroll
    OBVIOUS
  <2>1. ASSUME NEW arrow \in Arrows PROVE ~Scroll(arrow)
    BY <2>1, ArrowsHeldBack
  <2>2. (\E arrow \in Arrows : Scroll(arrow)) \/ scroll' = scroll
    BY DEF Next, Paint, TapCell, ClosePopup, OpenSetup, SetupApply, SetupDefaults, CloseSetup,
           Restore, settings
  <2> QED
    BY <2>1, <2>2
<1> QED
  BY <1>1, Invariance, PTL DEF Spec, MenuDoesNotScroll
=============================================================================
