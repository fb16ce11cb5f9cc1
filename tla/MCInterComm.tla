---------------------------- MODULE MCInterComm ----------------------------
(* Instance of InterComm: three registers in two frames, bytes of two bits,  *)
(* so that one frame is short and one byte is shared by two registers.       *)
EXTENDS InterComm

MCAddrs  == {0, 1}
MCQuans  == {0, 1, 3}
MCQuansLive == {0, 1, 2}
MCFixed == {0}
MCSlaves == {0, 1}
=============================================================================
