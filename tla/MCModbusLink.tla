--------------------------- MODULE MCModbusLink ---------------------------
(* Instance of ModbusLink: a slave of two registers; requests for one and    *)
(* for two of them, past the last one, and to every slave.                   *)
EXTENDS ModbusLink, Sequences

MCCall(slave, fn, addr, words) ==
    [slave |-> slave, fn |-> fn, addr |-> addr, num |-> Len(words), words |-> words]

MCRequest == {
    MCCall(1, "read", 0, <<0, 0>>), MCCall(1, "read", 1, <<0>>), MCCall(1, "read", 1, <<0, 0>>),
    MCCall(1, "write", 0, <<0, 1>>), MCCall(0, "write", 0, <<1>>)}
=============================================================================
