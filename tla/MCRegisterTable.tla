------------------------- MODULE MCRegisterTable -------------------------
(* Instance of RegisterTable: pages of two rows, up to three of them. *)
EXTENDS RegisterTable
=============================================================================
