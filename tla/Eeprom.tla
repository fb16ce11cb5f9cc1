------------------------------- MODULE Eeprom -------------------------------
(* What drivers/at_eeprom.c promises app_data.cpp.  An access that reports no  *)
(* error has reached the memory and brings what stands there.  One that       *)
(* reports an error promises little: its word may have been stored, or half   *)
(* of it, even after it has returned, but no other word is touched.           *)
EXTENDS Naturals

CONSTANTS Addr, Byte, NoRequest

VARIABLES memory,   \* two bytes at each address
          asked,    \* the access in progress
          taken,    \* the last access the bus has begun to transfer
          answer    \* of the last access

Word == [0 .. 1 -> Byte]     \* high byte first

Request == [op : {"read"}, addr : Addr, word : {[i \in 0 .. 1 |-> 0]}] \union
           [op : {"write"}, addr : Addr, word : Word]

EepromInit ==
    /\ memory \in [Addr -> Word]
    /\ asked = NoRequest /\ taken = NoRequest
    /\ answer \in [err : BOOLEAN, word : Word]

Ask(r) ==
    /\ asked = NoRequest /\ asked' = r
    /\ UNCHANGED <<memory, taken, answer>>

Take ==
    /\ asked # NoRequest /\ taken' = asked
    /\ UNCHANGED <<memory, asked, answer>>

StoreWord ==
    /\ taken # NoRequest /\ taken.op = "write"
    /\ \/ memory' = [memory EXCEPT ![taken.addr] = taken.word]
       \/ memory' = [memory EXCEPT ![taken.addr][0] = taken.word[0]]
    /\ UNCHANGED <<asked, taken, answer>>

\* What memory[a] has to be for an access to have succeeded.
Holds(r) == IF r.op = "read" THEN answer'.word = memory[r.addr]
                             ELSE memory[r.addr] = r.word

Return ==
    /\ asked # NoRequest /\ asked' = NoRequest
    /\ answer' \in [err : BOOLEAN, word : Word]
    /\ ~answer'.err => taken = asked /\ Holds(asked)
    /\ UNCHANGED <<memory, taken>>

EepromNext == (\E r \in Request : Ask(r)) \/ Take \/ StoreWord \/ Return

EepromSpec == EepromInit /\ [][EepromNext]_<<memory, asked, taken, answer>>
=============================================================================
