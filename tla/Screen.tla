------------------------------- MODULE Screen -------------------------------
(***************************************************************************)
(* What the pair of frame buffers promises the interface: a finished        *)
(* picture replaces the one on the display as a whole, pictures appear in   *)
(* the order they were drawn in, none is left out and none comes twice.     *)
(* Pictures are counted modulo Pictures.                                    *)
(***************************************************************************)
EXTENDS Integers

CONSTANT Pictures

VARIABLES
    shown,    \* the picture on the display
    waiting   \* the next one is finished, the display has not taken it

Init == shown = 0 /\ waiting = FALSE

Finish == ~waiting /\ waiting' = TRUE /\ UNCHANGED shown

Show == waiting /\ waiting' = FALSE /\ shown' = (shown + 1) % Pictures

Next == Finish \/ Show

Spec == Init /\ [][Next]_<<shown, waiting>>
=============================================================================
