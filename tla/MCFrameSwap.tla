---------------------------- MODULE MCFrameSwap ----------------------------
(* Instance of FrameSwap: frames of six lines, of which three are the picture. *)
EXTENDS FrameSwap
=============================================================================
