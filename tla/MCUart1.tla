------------------------------ MODULE MCUart1 ------------------------------
(* Instance of Uart1: queues that fill and wrap round within one request,    *)
(* two byte values to tell the order of bytes by.                            *)
EXTENDS Uart1

MCByte == {0, 1}
=============================================================================
