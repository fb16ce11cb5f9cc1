----------------------------- MODULE MCI2cBus -----------------------------
(* Instance of I2cBus: two words of two different bytes, so that a torn, a    *)
(* misplaced and a stale word differ from what was asked for.                 *)
EXTENDS I2cBus

MCByte == {0, 1}
MCAddr == {0, 1}
=============================================================================
