--------------------------- MODULE RegisterTable ---------------------------
(***************************************************************************)
(* The table of registers: interface/tables/modbus_table.cpp, the arrow      *)
(* buttons of interface/windows/window_main.cpp around it, the editor a cell *)
(* opens (window_cell_setup_popup.cpp) and the set-up window behind it.      *)
(*                                                                           *)
(* Touches and paints come in any order, so a touch may meet a window that   *)
(* does not show yet what the last touch did; "painted", "firstPaint" and    *)
(* "seen" tell.  A handler is one step.  Of the editor's value, its digits   *)
(* and its time limit nothing is said, only which register it is for.        *)
(*                                                                           *)
(* A variant is the next definition with a plausible slip; no action uses    *)
(* it.                                                                       *)
(***************************************************************************)
EXTENDS Integers

CONSTANTS
    Rows,          \* ROW_PER_COL, and the literal 8 of the page mode
    MaxQuan,       \* the largest quantity of registers (125)
    MaxScroll,     \* the largest scroll value (125)
    DefaultQuan,   \* the quantity the set-up window's defaults give (36)
    Word           \* 2^16, the offsets are uint16_t

ASSUME TableAssumption ==
    /\ Rows \in Nat \ {0} /\ MaxQuan \in Nat \ {0} /\ MaxScroll \in Nat
    /\ DefaultQuan \in 1 .. MaxQuan
    /\ Word \in Nat /\ Word > MaxQuan + MaxScroll + 2 * Rows

VARIABLES
    quan, mode, scroll,  \* the settings REG_TOTAL_QUAN, SCROLL_MODE and REG_SCROLL_VAL
    restored,            \* the settings have been restored after the start
    open,                \* the main window is shown; the set-up window if not
    popup, active,       \* comm_id of the editor, the cell it was opened from
    disabled,            \* the cells that do not react
    off,                 \* the arrow buttons that do not react
    atLimit,             \* btn_at_limit_state_prev, which outlives the window
    shown,               \* the register in the first cell at the last paint
    painted,             \* history: nothing was touched or changed since the last paint
    firstPaint,          \* history: this window's first paint is "due", or came before any
                         \* touch of it ("clean"), or not ("late")
    seen,                \* history: every touch of this window came when it was painted, and
                         \* the settings were not restored under it
    agreed               \* history: the offset was the one shown when the cell was touched

settings == <<quan, mode, scroll, restored>>
vars == <<settings, open, popup, active, disabled, off, atLimit, shown, painted,
          firstPaint, seen, agreed>>

Cells == 0 .. 2 * Rows - 1
Arrows == {"prev", "next"}
None == -1

\* In the page mode the offset is rounded down to a page (lines 257-260, 332-335).
Rounded(offset) == IF mode = "page" THEN offset - (offset % Rows) ELSE offset

-----------------------------------------------------------------------------
(* Painting                                                                 *)

\* Variant: one is not subtracted.
LastOffsetOneTooFar == quan % Word

LastOffset == (quan - 1) % Word

\* Variant: the arrows are not held back while the editor is open.
LimitsIgnoreEditor ==
    {a \in Arrows :
        \/ a = "prev" /\ scroll = 0
        \/ a = "next" /\ scroll = Rounded(LastOffset)}

\* at_left_limit, at_right_limit: both arrows while the editor is open.
Limits ==
    {a \in Arrows :
        \/ popup # None
        \/ a = "prev" /\ scroll = 0
        \/ a = "next" /\ scroll = Rounded(LastOffset)}

\* The constructor disables the arrows that are at their limits.  It leaves
\* btn_at_limit_state_prev alone.
ArrowsAsBuilt == Limits

\* The settings are zero until they are restored.
Init ==
    /\ quan = 0 /\ mode = "page" /\ scroll = 0 /\ restored = FALSE
    /\ open = TRUE /\ popup = None /\ active = None
    /\ disabled = {} /\ off = ArrowsAsBuilt /\ atLimit = {}
    /\ shown = 0 /\ painted = FALSE /\ firstPaint = "due" /\ seen = TRUE /\ agreed = FALSE

\* button_disable_handler: an arrow changes when its limit does.
ArrowsDisabled ==
    /\ off' = {a \in Arrows :
                 IF (a \in Limits) = (a \in atLimit) THEN a \in off ELSE a \in Limits}
    /\ atLimit' = Limits

\* Variant: the cell after the last register is one too.
CellsShownOneMore ==
    LET left == (quan - Rounded(scroll) + 1) % Word
    IN  IF left >= 2 * Rows THEN 2 * Rows ELSE left

\* The number of cells enabled (lines 404-409).
CellsShown ==
    LET left == (quan - Rounded(scroll)) % Word
    IN  IF left >= 2 * Rows THEN 2 * Rows ELSE left

\* popup_handle disables the cells under the editor, and table_content_render, which comes
\* after it, enables them again.
Paint ==
    /\ open
    /\ active' = IF popup = None THEN None ELSE active
    /\ disabled' = {c \in Cells : c >= CellsShown}
    /\ shown' = Rounded(scroll)
    /\ ArrowsDisabled
    /\ painted' = TRUE
    /\ firstPaint' = IF firstPaint = "due" THEN "clean" ELSE firstPaint
    /\ UNCHANGED <<settings, open, popup, seen, agreed>>

-----------------------------------------------------------------------------
(* Touches                                                                  *)

\* Variant: the settings' lower limit is left to an unsigned value.
AdjustedNoFloor(value) == IF value > MaxScroll THEN MaxScroll ELSE value

\* app_data_item_adjust
Adjusted(value) == IF value < 0 THEN 0 ELSE IF value > MaxScroll THEN MaxScroll ELSE value

\* page_scroll
Scrolled(arrow) ==
    LET step   == IF mode = "reg" THEN 1 ELSE Rows
        offset == Adjusted(IF arrow = "prev" THEN scroll - step ELSE scroll + step)
    IN  Rounded(IF offset > LastOffset THEN LastOffset ELSE offset)

\* What comes before the first paint makes it late.
TooEarly == firstPaint' = IF firstPaint = "due" THEN "late" ELSE firstPaint

Touched == painted' = FALSE /\ seen' = (seen /\ painted) /\ TooEarly

Scroll(arrow) ==
    /\ open /\ arrow \notin off
    /\ scroll' = Scrolled(arrow)
    /\ Touched
    /\ UNCHANGED <<quan, mode, restored, open, popup, active, disabled, off, atLimit, shown,
                   agreed>>

\* The offset as the table shows it: a whole page in the page mode, inside the table.  It is
\* not when the set-up window has changed the mode or the quantity and no arrow was used
\* since; the editor then opens for another register than the cell shows.
OffsetShown == scroll = Rounded(scroll) /\ scroll <= quan

\* A cell opens the editor, moves it, or closes it if it is the cell's already.
TapCell(c) ==
    /\ open /\ c \notin disabled
    /\ popup' = IF popup # None /\ active = c THEN None ELSE c + scroll
    /\ active' = c
    /\ Touched
    /\ agreed' = OffsetShown
    /\ UNCHANGED <<settings, open, disabled, off, atLimit, shown>>

\* The editor's button "Close".
ClosePopup ==
    /\ open /\ popup # None
    /\ popup' = None
    /\ Touched
    /\ UNCHANGED <<settings, open, active, disabled, off, atLimit, shown, agreed>>

-----------------------------------------------------------------------------
(* The set-up window                                                        *)

\* The main window is destroyed with its table and editor.
OpenSetup ==
    /\ open
    /\ open' = FALSE /\ popup' = None
    /\ painted' = FALSE
    /\ UNCHANGED <<settings, active, disabled, off, atLimit, shown, firstPaint, seen, agreed>>

\* WIDGET_NOTIFY_APPLY of Dialog_Confirmation_Apply
SetupApply(q, m) ==
    /\ ~open
    /\ quan' = q /\ mode' = m
    /\ UNCHANGED <<scroll, restored, open, popup, active, disabled, off, atLimit, shown,
                   painted, firstPaint, seen, agreed>>

SetupDefaults ==
    /\ ~open
    /\ quan' = DefaultQuan /\ mode' = "page" /\ scroll' = 0
    /\ UNCHANGED <<restored, open, popup, active, disabled, off, atLimit, shown, painted,
                   firstPaint, seen, agreed>>

\* A new main window.  Its cells all react until it is painted.
CloseSetup ==
    /\ ~open
    /\ open' = TRUE /\ active' = None /\ disabled' = {} /\ off' = ArrowsAsBuilt
    /\ firstPaint' = "due" /\ seen' = TRUE
    /\ UNCHANGED <<settings, popup, atLimit, shown, painted, agreed>>

\* app_data restores the settings while the window is up.  Neither the scroll value nor the
\* mode is stored.
Restore(q) ==
    /\ ~restored
    /\ restored' = TRUE
    /\ quan' = q /\ mode' = "page" /\ scroll' = 0
    /\ painted' = FALSE /\ seen' = FALSE /\ TooEarly
    /\ UNCHANGED <<open, popup, active, disabled, off, atLimit, shown, agreed>>

Next ==
    \/ Paint
    \/ \E arrow \in Arrows : Scroll(arrow)
    \/ \E c \in Cells : TapCell(c)
    \/ ClosePopup
    \/ OpenSetup
    \/ \E q \in 1 .. MaxQuan, m \in {"page", "reg"} : SetupApply(q, m)
    \/ SetupDefaults
    \/ CloseSetup
    \/ \E q \in 1 .. MaxQuan : Restore(q)

Spec == Init /\ [][Next]_vars

-----------------------------------------------------------------------------
(* Properties                                                               *)

TypeOK ==
    /\ quan \in 0 .. MaxQuan /\ mode \in {"page", "reg"} /\ scroll \in 0 .. MaxScroll
    /\ restored \in BOOLEAN /\ open \in BOOLEAN
    /\ popup \in {None} \cup 0 .. MaxScroll + 2 * Rows - 1 /\ active \in {None} \cup Cells
    /\ disabled \subseteq Cells /\ off \subseteq Arrows /\ atLimit \subseteq Arrows
    /\ shown \in 0 .. MaxScroll /\ painted \in BOOLEAN
    /\ firstPaint \in {"due", "clean", "late"} /\ seen \in BOOLEAN /\ agreed \in BOOLEAN

\* The editor is for the register that its highlighted cell shows, and that register is one
\* of those polled: a value sent goes where the user sees it go.
EditsWhatIsShown ==
    popup # None /\ painted /\ seen /\ agreed => popup = shown + active /\ popup < quan

\* With the editor open and painted, no touch scrolls the table under it ("Ugly hack to
\* prevent window from scrolling while in setup menu", lines 271 and 293): the arrows are
\* held back whatever the state is that the windows before this one have left.  Only a
\* touch that came before this window's first paint can break it.
MenuDoesNotScroll ==
    [][open /\ popup # None /\ painted /\ firstPaint = "clean" /\ UNCHANGED restored
        => scroll' = scroll]_vars

\* An arrow that does not react has nothing left to scroll to: the window shows the table's
\* first, or its last, register.  The arrows are built from the limits and then follow the
\* changes of a limit state that outlives the window; the two agree after the first paint,
\* unless a touch, or the restored settings, came before it.
ArrowsAtEnds ==
    open /\ painted /\ popup = None /\ firstPaint = "clean" =>
        /\ "prev" \in off => shown = 0
        /\ "next" \in off => shown <= quan - 1 /\ quan - 1 <= shown + 2 * Rows - 1

=============================================================================
