-------------------------- MODULE MCTouchDebouncer --------------------------
(* Instance of TouchDebouncer with the driver's own sizes, four pairs and    *)
(* three readings, and enough readings for two complete presses.             *)
EXTENDS TouchDebouncer
=============================================================================
