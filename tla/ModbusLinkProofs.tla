------------------------- MODULE ModbusLinkProofs -------------------------
(* Theorems of ModbusLink. *)
EXTENDS ModbusLink, TLAPS

-----------------------------------------------------------------------------
(* What is received *)

LEMMA AnswerCases ==
    ASSUME NEW f \in AnswerFrame
    PROVE  f \in OtherAnswer \/ \E n \in 1 .. FrameRegs : f \in ReadAnswer(n)
  BY DEF AnswerFrame

LEMMA AnswerFresh ==
    ASSUME NEW f \in AnswerFrame
    PROVE  /\ f.fresh \in BOOLEAN
           /\ Old(f) \in AnswerFrame
           /\ Old(f).fresh = FALSE
<1>1. CASE f \in OtherAnswer
  <2>1. Old(f) \in OtherAnswer /\ f.fresh \in BOOLEAN
    BY <1>1 DEF OtherAnswer, Old
  <2>2. Old(f).fresh = FALSE
    BY <1>1 DEF OtherAnswer, Old
  <2> QED BY <2>1, <2>2 DEF AnswerFrame
<1>2. ASSUME NEW n \in 1 .. FrameRegs, f \in ReadAnswer(n)
      PROVE  /\ f.fresh \in BOOLEAN
             /\ Old(f) \in AnswerFrame
             /\ Old(f).fresh = FALSE
  <2>1. Old(f) \in ReadAnswer(n) /\ f.fresh \in BOOLEAN
    BY <1>2 DEF ReadAnswer, Old
  <2>2. Old(f).fresh = FALSE
    BY <1>2 DEF ReadAnswer, Old
  <2> QED BY <2>1, <2>2 DEF AnswerFrame
<1> QED BY <1>1, <1>2, AnswerCases

LEMMA RequestFresh ==
    ASSUME NEW f \in RequestFrame
    PROVE  /\ f.fresh \in BOOLEAN
           /\ Old(f) \in RequestFrame
           /\ Old(f).fresh = FALSE
  BY DEF RequestFrame, Old

\* What is received of frames that can be aged can be aged.
LEMMA AgedReceived ==
    ASSUME NEW S, NEW p \in Received(S),
           \A f \in S : /\ Old(f) \in S
                        /\ Old(f).fresh = FALSE
    PROVE  Aged(p) \in Received(S) /\ Aged(p).frame.fresh = FALSE
<1>1. CASE p \in {Nothing, Spoiled}
  <2>1. Old(NoFrame) = NoFrame
    BY DEF NoFrame, Old
  <2>2. Aged(p) = p /\ p.frame = NoFrame
    BY <1>1, <2>1 DEF Aged, Nothing, Spoiled
  <2> QED BY <2>2 DEF NoFrame
<1>2. CASE p \in [part : {"whole", "opening", "rest"}, frame : S]
  <2>1. p.frame \in S /\ p.part \in {"whole", "opening", "rest"}
    BY <1>2
  <2> QED BY <2>1 DEF Received, Aged
<1> QED BY <1>1, <1>2 DEF Received

LEMMA ReceivedFresh ==
    ASSUME NEW S, NEW p \in Received(S), \A f \in S : f.fresh \in BOOLEAN
    PROVE  p.frame.fresh \in BOOLEAN
<1>1. CASE p \in {Nothing, Spoiled}
  <2>1. p.frame = NoFrame
    BY <1>1 DEF Nothing, Spoiled
  <2>2. NoFrame.fresh = FALSE
    BY DEF NoFrame
  <2> QED BY <2>1, <2>2
<1>2. CASE p \in [part : {"whole", "opening", "rest"}, frame : S]
  BY <1>2
<1> QED BY <1>1, <1>2 DEF Received

LEMMA JoinedReceived ==
    ASSUME NEW S, NEW p \in Received(S), NEW q \in Received(S)
    PROVE  Joined(p, q) \in Received(S) /\ Joined(p, q) \in {p, q, Whole(p.frame), Spoiled}
  BY DEF Received, Joined, Whole, Rest, Nothing, Spoiled

LEMMA WholeReceived ==
    ASSUME NEW S, NEW f \in S
    PROVE  {Nothing, Spoiled, Whole(f), Opening(f), Rest(f)} \subseteq Received(S)
  BY DEF Received, Whole, Opening, Rest

LEMMA Copied ==
    ASSUME NEW f \in AnswerFrame, f.fn = "read", LinkAssumption
    PROVE  f.third \div 2 \in 1 .. FrameRegs /\ f.words \in [1 .. f.third \div 2 -> Value]
<1>1. f \notin OtherAnswer
  BY DEF OtherAnswer
<1>2. PICK n \in 1 .. FrameRegs : f \in ReadAnswer(n)
  BY <1>1, AnswerCases
<1>3. f.third = 2 * n /\ f.words \in [1 .. n -> Value] /\ n \in Nat
  BY <1>2 DEF ReadAnswer, Old
<1>4. f.third \div 2 = n
  BY <1>3
<1> QED BY <1>3, <1>4

-----------------------------------------------------------------------------
(* Type correctness *)

LEMMA AgedTypes ==
    /\ \A p \in Received(RequestFrame) :
         Aged(p) \in Received(RequestFrame) /\ Aged(p).frame.fresh = FALSE
    /\ \A p \in Received(AnswerFrame) :
         Aged(p) \in Received(AnswerFrame) /\ Aged(p).frame.fresh = FALSE
<1>1. \A p \in Received(RequestFrame) :
        Aged(p) \in Received(RequestFrame) /\ Aged(p).frame.fresh = FALSE
  <2>1. \A f \in RequestFrame : Old(f) \in RequestFrame /\ Old(f).fresh = FALSE
    BY RequestFresh
  <2> QED BY <2>1, AgedReceived
<1>2. \A p \in Received(AnswerFrame) :
        Aged(p) \in Received(AnswerFrame) /\ Aged(p).frame.fresh = FALSE
  <2>1. \A f \in AnswerFrame : Old(f) \in AnswerFrame /\ Old(f).fresh = FALSE
    BY AnswerFresh
  <2> QED BY <2>1, AgedReceived
<1> QED BY <1>1, <1>2

LEMMA TypeInit ==
    ASSUME LinkAssumption, Init
    PROVE  TypeOK
<1>1. \A S : Nothing \in Received(S)
  BY DEF Received
<1>2. pusOutput \in [1 .. FrameRegs -> Value \cup {Garbage}]
  BY DEF Init
<1> QED BY <1>1, <1>2 DEF Init, TypeOK

LEMMA SendType ==
    ASSUME LinkAssumption, TypeOK, NEW r \in Request,
           NEW arrives \in {Nothing, Spoiled, Whole([req |-> r, fresh |-> TRUE])},
           Send(r, arrives)
    PROVE  TypeOK'
<1>1. slaveRing' \in Received(RequestFrame)
  <2>1. [req |-> r, fresh |-> TRUE] \in RequestFrame
    BY DEF RequestFrame
  <2>2. arrives \in Received(RequestFrame)
    BY <2>1, WholeReceived
  <2> QED BY <2>2, AgedTypes, JoinedReceived DEF TypeOK, Send
<1>2. slaveBuffer' \in Received(RequestFrame) /\ ring' \in Received(AnswerFrame)
  BY AgedTypes DEF TypeOK, Send
<1>3. answer' \in IF slavePc \in {"send", "pause"} THEN AnswerFrame ELSE {NoFrame}
  <2>1. Old(NoFrame) = NoFrame
    BY DEF Old, NoFrame
  <2>2. answer' = Old(answer)
    BY DEF Send
  <2>3. answer \in IF slavePc \in {"send", "pause"} THEN AnswerFrame ELSE {NoFrame}
    BY DEF TypeOK
  <2> QED BY <2>1, <2>2, <2>3, AnswerFresh
<1>4. /\ memory' \in [0 .. Regs - 1 -> Value] /\ slavePc' = slavePc
      /\ masterPc' \in {"idle", "flush"} /\ lReturn' \in {"MB_OK", "none"}
      /\ request' \in Request /\ buffer' \in Received(AnswerFrame)
      /\ pusOutput' \in [1 .. FrameRegs -> Value \cup {Garbage}]
      /\ copied' \in Nat /\ late' \in BOOLEAN /\ slavePc \in {"flush", "listen", "send", "pause"}
  BY DEF TypeOK, Send
<1> QED BY <1>1, <1>2, <1>3, <1>4 DEF TypeOK

LEMMA CopyType ==
    ASSUME LinkAssumption, TypeOK, NEW f \in AnswerFrame, f.fn = "read", Copy(f)
    PROVE  /\ pusOutput' \in [1 .. FrameRegs -> Value \cup {Garbage}]
           /\ copied' \in 1 .. FrameRegs /\ copied' = f.third \div 2
           /\ \A i \in 1 .. f.third \div 2 : pusOutput'[i] = f.words[i]
<1>1. /\ f.third \div 2 \in 1 .. FrameRegs
      /\ f.words \in [1 .. f.third \div 2 -> Value]
  BY Copied
<1>2. \A i \in 1 .. FrameRegs : i <= f.third \div 2 => i \in DOMAIN f.words /\ f.words[i] \in Value
  BY <1>1 DEF LinkAssumption
<1> QED BY <1>1, <1>2 DEF TypeOK, Copy, LinkAssumption

LEMMA MasterType ==
    ASSUME LinkAssumption, TypeOK, Master
    PROVE  TypeOK'
<1>1. ASSUME NEW r \in Request,
             NEW arrives \in {Nothing, Spoiled, Whole([req |-> r, fresh |-> TRUE])},
             Send(r, arrives)
      PROVE  TypeOK'
  BY <1>1, SendType
<1>2. CASE Flush
  BY <1>2 DEF TypeOK, Flush, slaveVars, Received
<1>3. CASE Take
  <2>1. Joined(buffer, ring) \in Received(AnswerFrame) /\ Nothing \in Received(AnswerFrame)
    BY JoinedReceived DEF TypeOK, Received
  <2> QED BY <1>3, <2>1 DEF TypeOK, Take, slaveVars
<1>4. CASE FrameTimeout
  BY <1>4 DEF TypeOK, FrameTimeout, Return, slaveVars, Received
<1>5. ASSUME NEW result \in {"MB_ERROR_LENGTH", "MB_ERROR_FORMAT"}, ReceivedNothingUseful(result)
      PROVE  TypeOK'
  BY <1>5 DEF TypeOK, ReceivedNothingUseful, Return, slaveVars, Received
<1>6. CASE Accept
  <2>1. buffer.frame \in AnswerFrame
    BY <1>6 DEF Accept, TypeOK, Received, Nothing, Spoiled
  <2>2. pusOutput' \in [1 .. FrameRegs -> Value \cup {Garbage}] /\ copied' \in Nat
    <3>1. CASE request.fn = "read"
      BY <1>6, <2>1, <3>1, CopyType DEF Accept, AnswersCall, LinkAssumption
    <3>2. CASE request.fn # "read"
      BY <1>6, <3>2 DEF Accept, TypeOK
    <3> QED BY <3>1, <3>2
  <2> QED BY <1>6, <2>2 DEF TypeOK, Accept, Return, slaveVars, Received
<1>7. CASE RefuseFunction
  BY <1>7 DEF TypeOK, RefuseFunction, Return, slaveVars, Received
<1> QED BY <1>1, <1>2, <1>3, <1>4, <1>5, <1>6, <1>7 DEF Master

\* The whole request the slave has received.
LEMMA ParsedRequest ==
    ASSUME LinkAssumption, TypeOK, slaveBuffer.part = "whole"
    PROVE  /\ slaveBuffer.frame \in RequestFrame /\ slaveBuffer.frame.req \in Request
           /\ slaveBuffer.frame.fresh \in BOOLEAN
           /\ slaveBuffer.frame.req.num \in 1 .. FrameRegs /\ slaveBuffer.frame.req.addr \in Nat
           /\ slaveBuffer.frame.req.words \in [1 .. slaveBuffer.frame.req.num -> Value]
<1>1. slaveBuffer.frame \in RequestFrame
  BY DEF TypeOK, Received, Nothing, Spoiled
<1> QED BY <1>1 DEF RequestFrame, LinkAssumption

LEMMA AnswerType ==
    ASSUME LinkAssumption, TypeOK, slaveBuffer.part = "whole",
           NEW fn, NEW third, NEW words,
           [fn |-> fn, third |-> third, words |-> words,
            fresh |-> slaveBuffer.frame.fresh] \in AnswerFrame,
           Parse(slaveBuffer.frame),
           Answer(slaveBuffer.frame, fn, third, words),
           memory' \in [0 .. Regs - 1 -> Value]
    PROVE  TypeOK'
<1>1. answer' \in IF slavePc' \in {"send", "pause"} THEN AnswerFrame ELSE {NoFrame}
  BY DEF Answer, TypeOK, Parse
<1>2. slaveBuffer' \in Received(RequestFrame) /\ slavePc' \in {"flush", "send"}
  BY DEF Answer, Received
<1> QED BY <1>1, <1>2 DEF TypeOK, Answer, masterVars

LEMMA ReadWords ==
    ASSUME LinkAssumption, TypeOK, NEW a \in Nat, NEW n \in 1 .. FrameRegs, a + n <= Regs,
           NEW fresh \in BOOLEAN
    PROVE  [fn |-> "read", third |-> 2 * n, words |-> [i \in 1 .. n |-> memory[a + i - 1]],
            fresh |-> fresh] \in AnswerFrame
<1>1. \A i \in 1 .. n : memory[a + i - 1] \in Value
  BY DEF TypeOK, LinkAssumption
<1>2. [fn |-> "read", third |-> 2 * n, words |-> [i \in 1 .. n |-> memory[a + i - 1]],
       fresh |-> fresh] \in ReadAnswer(n)
  BY <1>1 DEF ReadAnswer
<1> QED BY <1>2 DEF AnswerFrame

LEMMA OtherAnswers ==
    ASSUME NEW fn \in {"write", "exception"}, NEW third \in 0 .. 255, NEW fresh \in BOOLEAN
    PROVE  [fn |-> fn, third |-> third, words |-> <<>>, fresh |-> fresh] \in AnswerFrame
  BY DEF AnswerFrame, OtherAnswer

LEMMA WrittenType ==
    ASSUME LinkAssumption, TypeOK, slaveBuffer.part = "whole",
           NEW refused \in SUBSET Addressed(slaveBuffer.frame.req),
           SlaveWrites(slaveBuffer.frame, refused)
    PROVE  memory' \in [0 .. Regs - 1 -> Value]
<1> DEFINE r == slaveBuffer.frame.req
<1>1. /\ r.num \in 1 .. FrameRegs /\ r.addr \in Nat /\ r.words \in [1 .. r.num -> Value]
  BY ParsedRequest
<1> HIDE DEF r
<1>2. \A a \in Addressed(r) : r.words[a - r.addr + 1] \in Value
  BY <1>1 DEF Addressed, LinkAssumption
<1>3. memory' = [a \in 0 .. Regs - 1 |->
                   IF a \in Addressed(r) \ refused THEN r.words[a - r.addr + 1]
                   ELSE memory[a]]
  BY DEF SlaveWrites, r
<1> QED BY <1>2, <1>3 DEF TypeOK

LEMMA SlaveType ==
    ASSUME LinkAssumption, TypeOK, Slave
    PROVE  TypeOK'
<1>1. CASE SlaveFlush
  BY <1>1 DEF TypeOK, SlaveFlush, masterVars, Received
<1>2. CASE SlaveTake
  <2>1. Joined(slaveBuffer, slaveRing) \in Received(RequestFrame)
        /\ Nothing \in Received(RequestFrame)
    BY JoinedReceived DEF TypeOK, Received
  <2> QED BY <1>2, <2>1 DEF TypeOK, SlaveTake, masterVars
<1>3. CASE SlaveDrop
  BY <1>3 DEF TypeOK, SlaveDrop, masterVars, Received
<1>4. CASE slaveBuffer.part = "whole" /\ SlaveRefuses(slaveBuffer.frame)
  <2>1. memory' \in [0 .. Regs - 1 -> Value]
    BY <1>4 DEF SlaveRefuses, TypeOK
  <2>2. 2 \in 0 .. 255
    OBVIOUS
  <2>3. [fn |-> "exception", third |-> 2, words |-> <<>>,
         fresh |-> slaveBuffer.frame.fresh] \in AnswerFrame
    BY <1>4, <2>2, OtherAnswers, ParsedRequest
  <2>4. Parse(slaveBuffer.frame) /\ Answer(slaveBuffer.frame, "exception", 2, <<>>)
    BY <1>4 DEF SlaveRefuses
  <2> QED BY <1>4, <2>1, <2>3, <2>4, AnswerType
<1>5. CASE slaveBuffer.part = "whole" /\ SlaveReads(slaveBuffer.frame)
  <2>1. memory' \in [0 .. Regs - 1 -> Value]
    BY <1>5 DEF SlaveReads, TypeOK
  <2> QED BY <1>5, <2>1, ReadWords, ParsedRequest, AnswerType DEF SlaveReads, InRange
<1>6. ASSUME slaveBuffer.part = "whole",
             NEW refused \in SUBSET Addressed(slaveBuffer.frame.req),
             SlaveWrites(slaveBuffer.frame, refused)
      PROVE  TypeOK'
  <2>1. memory' \in [0 .. Regs - 1 -> Value]
    BY <1>6, WrittenType
  <2>2. AddrHigh \in 0 .. 255 /\ 3 \in 0 .. 255
    BY DEF LinkAssumption
  <2>3. CASE refused = {}
    BY <1>6, <2>1, <2>2, <2>3, OtherAnswers, ParsedRequest, AnswerType DEF SlaveWrites
  <2>4. CASE refused # {}
    BY <1>6, <2>1, <2>2, <2>4, OtherAnswers, ParsedRequest, AnswerType DEF SlaveWrites
  <2> QED BY <2>3, <2>4
<1>7. CASE SlaveSends \/ SlaveSendsOpening \/ SlaveSendsRest
  <2>1. answer \in AnswerFrame
    BY <1>7 DEF TypeOK, SlaveSends, SlaveSendsOpening, SlaveSendsRest
  <2>2. \A bytes \in {Spoiled, Whole(answer), Opening(answer), Rest(answer)} :
          Joined(ring, bytes) \in Received(AnswerFrame)
    BY <2>1, WholeReceived, JoinedReceived DEF TypeOK
  <2>3. ring' \in Received(AnswerFrame) /\ late' \in BOOLEAN
    <3>1. \/ ring' = ring /\ late' = late
          \/ \E bytes \in {Spoiled, Whole(answer), Opening(answer), Rest(answer)} : Deliver(bytes)
      BY <1>7 DEF SlaveSends, SlaveSendsOpening, SlaveSendsRest
    <3>2. ring \in Received(AnswerFrame) /\ late \in BOOLEAN
      BY DEF TypeOK
    <3>3. ring' \in Received(AnswerFrame)
      BY <2>2, <3>1, <3>2 DEF Deliver
    <3>4. (late \/ (masterPc = "recv" /\ ~answer.fresh)) \in BOOLEAN
      OBVIOUS
    <3>5. late' \in BOOLEAN
      BY <3>1, <3>2, <3>4, Zenon DEF Deliver
    <3> QED BY <3>3, <3>5
  <2>4. answer' \in IF slavePc' \in {"send", "pause"} THEN AnswerFrame ELSE {NoFrame}
    BY <1>7, <2>1 DEF SlaveSends, SlaveSendsOpening, SlaveSendsRest, SlaveSent
  <2> QED BY <1>7, <2>3, <2>4
          DEF TypeOK, SlaveSends, SlaveSendsOpening, SlaveSendsRest, SlaveSent, masterVars
<1> QED BY <1>1, <1>2, <1>3, <1>4, <1>5, <1>6, <1>7 DEF Slave

LEMMA TypeStutter == TypeOK /\ UNCHANGED vars => TypeOK'
  BY DEF TypeOK, vars, slaveVars, masterVars

\* The variables keep their types.
THEOREM TypeCorrect == Spec => []TypeOK
<1>1. Init => TypeOK
  BY LinkAssumption, TypeInit
<1>2. TypeOK /\ [Next]_vars => TypeOK'
  BY LinkAssumption, MasterType, SlaveType, TypeStutter DEF Next
<1> QED BY <1>1, <1>2, PTL DEF Spec

-----------------------------------------------------------------------------
(* A call that reports success has been done                                *)

\* The answer f is true of the registers as they are.
AnswersRequest(f) ==
    f.fn = request.fn =>
        /\ InRange(request)
        /\ IF request.fn = "read"
           THEN /\ f.third = 2 * request.num
                /\ f.words = [i \in 1 .. request.num |-> memory[request.addr + i - 1]]
           ELSE \A i \in 1 .. request.num : memory[request.addr + i - 1] = request.words[i]

ReportedOk == masterPc = "idle" /\ lReturn = "MB_OK" /\ request.slave # 0 /\ ~late

\* The call under way has been answered, or has returned.
Answered == answer.fresh \/ ring.frame.fresh \/ buffer.frame.fresh \/ ReportedOk

\* The slave's fresh request is the call's.
RequestCurrent == \A p \in {slaveRing, slaveBuffer} : p.frame.fresh => p.frame.req = request

\* Nothing comes after the call's request, and once it is answered the slave has no request
\* left that could change its registers.
NothingAfter ==
    /\ slaveBuffer.frame.fresh => slaveRing = Nothing
    /\ Answered => slaveRing = Nothing /\ slaveBuffer = Nothing

AnswerCurrent == \A f \in {answer, ring.frame, buffer.frame} : f.fresh => AnswersRequest(f)

\* Until a late answer comes, all the master has received since its flush is the call's.
PiecesCurrent ==
    masterPc = "recv" /\ ~late =>
        \A p \in {ring, buffer} : p.part \in {"whole", "opening", "rest"} => p.frame.fresh

BufferEmpty == masterPc # "recv" => buffer = Nothing

LinkInv ==
    /\ TypeOK /\ RequestCurrent /\ NothingAfter /\ AnswerCurrent /\ PiecesCurrent
    /\ BufferEmpty /\ OkMeansDone

LEMMA Pieces ==
    /\ Nothing.frame.fresh = FALSE /\ Spoiled.frame.fresh = FALSE /\ NoFrame.fresh = FALSE
    /\ Nothing.part = "nothing" /\ Spoiled.part = "spoiled"
    /\ \A f : /\ Whole(f).frame = f /\ Opening(f).frame = f /\ Rest(f).frame = f
              /\ Whole(f).part = "whole"
  BY DEF Nothing, Spoiled, NoFrame, Whole, Opening, Rest

\* What is joined is no fresher than its parts.
LEMMA JoinedFresh ==
    ASSUME NEW S, NEW p \in Received(S), NEW q \in Received(S), Joined(p, q).frame.fresh
    PROVE  \/ p.frame.fresh /\ Joined(p, q).frame = p.frame
           \/ q.frame.fresh /\ Joined(p, q).frame = q.frame
  BY JoinedReceived, Pieces

LEMMA JoinedCurrent ==
    ASSUME NEW p, NEW q,
           p.part \in {"whole", "opening", "rest"} => p.frame.fresh,
           q.part \in {"whole", "opening", "rest"} => q.frame.fresh,
           Joined(p, q).part \in {"whole", "opening", "rest"}
    PROVE  Joined(p, q).frame.fresh
<1>1. Spoiled.part = "spoiled" /\ Whole(p.frame).frame = p.frame
  BY Pieces
<1> QED BY <1>1 DEF Joined

LEMMA SendLink ==
    ASSUME LinkAssumption, LinkInv, NEW r \in Request,
           NEW arrives \in {Nothing, Spoiled, Whole([req |-> r, fresh |-> TRUE])},
           Send(r, arrives)
    PROVE  LinkInv'
<1>1. TypeOK'
  BY SendType DEF LinkInv
<1>2. /\ slaveBuffer'.frame.fresh = FALSE /\ ring'.frame.fresh = FALSE
      /\ Aged(slaveRing).frame.fresh = FALSE /\ Aged(slaveRing) \in Received(RequestFrame)
  BY AgedTypes DEF LinkInv, TypeOK, Send
<1>3. answer'.fresh = FALSE
  <2>1. answer = NoFrame \/ answer \in AnswerFrame
    BY DEF LinkInv, TypeOK
  <2>2. Old(NoFrame).fresh = FALSE
    BY DEF Old, NoFrame
  <2> QED BY <2>1, <2>2, AnswerFresh DEF Send
<1>4. buffer' = Nothing /\ request' = r /\ masterPc' # "recv"
  BY DEF LinkInv, BufferEmpty, Send
<1>5. ~ReportedOk'
  BY DEF ReportedOk, Send
<1>6. slaveRing'.frame.fresh => slaveRing'.frame.req = request'
  <2>1. [req |-> r, fresh |-> TRUE] \in RequestFrame
    BY DEF RequestFrame
  <2>2. arrives \in Received(RequestFrame)
    <3>1. {Nothing, Spoiled, Whole([req |-> r, fresh |-> TRUE])} \subseteq Received(RequestFrame)
      BY <2>1, WholeReceived
    <3> QED BY <3>1
  <2>3. arrives.frame.fresh => arrives.frame.req = r
    BY Pieces
  <2> QED BY <1>2, <1>4, <2>2, <2>3, JoinedFresh DEF Send
<1>7. RequestCurrent' /\ NothingAfter' /\ AnswerCurrent' /\ PiecesCurrent' /\ BufferEmpty'
  BY <1>2, <1>3, <1>4, <1>5, <1>6, Pieces
  DEF RequestCurrent, NothingAfter, AnswerCurrent, PiecesCurrent, BufferEmpty, Answered
<1>8. OkMeansDone'
  BY <1>5 DEF OkMeansDone, ReportedOk
<1> QED BY <1>1, <1>7, <1>8 DEF LinkInv

\* Receiving leaves what has been answered as it is.
LEMMA ReceiveLink ==
    ASSUME LinkAssumption, LinkInv, Flush \/ Take
    PROVE  LinkInv'
<1>1. TypeOK'
  BY MasterType DEF LinkInv, Master
<1>2. ~ReportedOk'
  BY DEF ReportedOk, Flush, Take
<1>3. /\ UNCHANGED <<memory, request, slaveRing, slaveBuffer, answer>>
      /\ ring' = Nothing /\ late' = late /\ masterPc' = "recv"
  BY DEF Flush, Take, slaveVars
<1>4. buffer'.frame.fresh => \/ buffer.frame.fresh /\ buffer'.frame = buffer.frame
                             \/ ring.frame.fresh /\ buffer'.frame = ring.frame
  BY JoinedFresh DEF Flush, Take, LinkInv, TypeOK
<1>5. RequestCurrent' /\ NothingAfter' /\ BufferEmpty'
  BY <1>2, <1>3, <1>4, Pieces
  DEF LinkInv, RequestCurrent, NothingAfter, Answered, BufferEmpty
<1>6. AnswerCurrent'
  <2>1. \A f : AnswersRequest(f) => AnswersRequest(f)'
    BY <1>3 DEF AnswersRequest, InRange
  <2> QED BY <1>3, <1>4, <2>1, Pieces DEF LinkInv, AnswerCurrent
<1>7. PiecesCurrent'
  <2>1. CASE Flush
    <3>1. buffer' = Nothing
      BY <2>1 DEF Flush, LinkInv, BufferEmpty
    <3> QED BY <3>1, <1>3, Pieces DEF PiecesCurrent
  <2>2. CASE Take
    <3>1. ASSUME ~late, buffer'.part \in {"whole", "opening", "rest"}
          PROVE  buffer'.frame.fresh
      BY <2>2, <3>1, JoinedCurrent DEF Take, LinkInv, PiecesCurrent
    <3> QED BY <3>1, <1>3, Pieces DEF PiecesCurrent
  <2> QED BY <2>1, <2>2
<1>8. OkMeansDone'
  BY <1>2 DEF OkMeansDone, ReportedOk
<1> QED BY <1>1, <1>5, <1>6, <1>7, <1>8 DEF LinkInv

LEMMA ReturnLink ==
    ASSUME LinkAssumption, LinkInv,
           \/ FrameTimeout \/ Accept \/ RefuseFunction
           \/ \E result \in {"MB_ERROR_LENGTH", "MB_ERROR_FORMAT"} : ReceivedNothingUseful(result)
    PROVE  LinkInv'
<1>1. TypeOK'
  BY MasterType DEF LinkInv, Master
<1>2. /\ UNCHANGED <<memory, request, slaveRing, slaveBuffer, answer, ring, late>>
      /\ buffer' = Nothing /\ masterPc' = "idle"
  BY DEF FrameTimeout, Accept, RefuseFunction, ReceivedNothingUseful, Return, slaveVars
<1>3. ASSUME ReportedOk'
      PROVE  Accept /\ buffer.part = "whole" /\ buffer.frame.fresh /\ ~late
  <2>1. Accept
    BY <1>3 DEF ReportedOk, FrameTimeout, RefuseFunction, ReceivedNothingUseful, Return
  <2>2. buffer.part = "whole" /\ masterPc = "recv" /\ ~late
    BY <1>2, <1>3, <2>1 DEF Accept, ReportedOk
  <2> QED BY <2>1, <2>2 DEF LinkInv, PiecesCurrent
<1>4. RequestCurrent' /\ NothingAfter' /\ PiecesCurrent' /\ BufferEmpty'
  BY <1>2, <1>3, Pieces
  DEF LinkInv, RequestCurrent, NothingAfter, Answered, PiecesCurrent, BufferEmpty
<1>5. AnswerCurrent'
  <2>1. \A f : AnswersRequest(f) => AnswersRequest(f)'
    BY <1>2 DEF AnswersRequest, InRange
  <2> QED BY <1>2, <2>1, Pieces DEF LinkInv, AnswerCurrent
<1>6. OkMeansDone'
  <2> SUFFICES ASSUME ReportedOk'
               PROVE  /\ InRange(request)'
                      /\ \A i \in 1 .. request'.num :
                           memory'[request'.addr + i - 1] =
                             IF request'.fn = "read" THEN pusOutput'[i] ELSE request'.words[i]
    BY DEF OkMeansDone, ReportedOk
  <2>1. AnswersRequest(buffer.frame) /\ buffer.frame.fn = request.fn
    BY <1>3 DEF LinkInv, AnswerCurrent, Accept, AnswersCall
  <2>2. InRange(request) /\ InRange(request)'
    BY <2>1, <1>2 DEF AnswersRequest, InRange
  <2>3. CASE request.fn = "read"
    <3>1. buffer.frame \in AnswerFrame
      BY <1>3 DEF LinkInv, TypeOK, Received, Nothing, Spoiled
    <3>2. \A i \in 1 .. buffer.frame.third \div 2 : pusOutput'[i] = buffer.frame.words[i]
      BY <1>3, <2>1, <2>3, <3>1, CopyType DEF Accept, LinkInv
    <3>3. /\ buffer.frame.third = 2 * request.num /\ request.num \in Nat
          /\ buffer.frame.words = [i \in 1 .. request.num |-> memory[request.addr + i - 1]]
      BY <2>1, <2>3 DEF AnswersRequest, LinkInv, TypeOK, LinkAssumption
    <3>4. buffer.frame.third \div 2 = request.num
      BY <3>3
    <3>5. \A i \in 1 .. request.num : pusOutput'[i] = memory[request.addr + i - 1]
      BY <3>2, <3>3, <3>4
    <3> QED BY <1>2, <2>2, <2>3, <3>5
  <2>4. CASE request.fn # "read"
    BY <1>2, <2>1, <2>2, <2>4 DEF AnswersRequest
  <2> QED BY <2>3, <2>4
<1> QED BY <1>1, <1>4, <1>5, <1>6 DEF LinkInv

\* A request that is not parsed, and the slave's buffers when there is none left.
LEMMA SlaveReceivesLink ==
    ASSUME LinkAssumption, LinkInv, SlaveFlush \/ SlaveTake \/ SlaveDrop
    PROVE  LinkInv'
<1>1. TypeOK'
  BY SlaveType DEF LinkInv, Slave
<1>2. UNCHANGED <<memory, answer, masterVars, ring, late>>
  BY DEF SlaveFlush, SlaveTake, SlaveDrop
<1>3. (Answered' <=> Answered) /\ (ReportedOk' <=> ReportedOk)
  BY <1>2 DEF Answered, ReportedOk, masterVars
<1>4. RequestCurrent' /\ NothingAfter'
  <2>1. CASE SlaveFlush \/ SlaveDrop
    BY <1>2, <1>3, <2>1, Pieces
    DEF LinkInv, RequestCurrent, NothingAfter, SlaveFlush, SlaveDrop, masterVars
  <2>2. CASE SlaveTake
    <3>1. slaveRing' = Nothing /\ slaveBuffer' = Joined(slaveBuffer, slaveRing)
          /\ slaveRing # Nothing
      BY <2>2 DEF SlaveTake
    <3>2. ~Answered
      BY <3>1 DEF LinkInv, NothingAfter
    <3>3. slaveBuffer'.frame.fresh => slaveBuffer'.frame.req = request
      BY <3>1, JoinedFresh DEF LinkInv, TypeOK, RequestCurrent
    <3> QED BY <1>2, <1>3, <3>1, <3>2, <3>3, Pieces DEF RequestCurrent, NothingAfter, masterVars
  <2> QED BY <2>1, <2>2
<1>5. AnswerCurrent' /\ PiecesCurrent' /\ BufferEmpty' /\ OkMeansDone'
  <2>1. \A f : AnswersRequest(f) => AnswersRequest(f)'
    BY <1>2 DEF AnswersRequest, InRange, masterVars
  <2>2. AnswerCurrent'
    BY <1>2, <2>1 DEF LinkInv, AnswerCurrent, masterVars
  <2>3. PiecesCurrent' /\ BufferEmpty'
    BY <1>2 DEF LinkInv, PiecesCurrent, BufferEmpty, masterVars
  <2>4. OkMeansDone'
    BY <1>2 DEF LinkInv, OkMeansDone, InRange, masterVars
  <2> QED BY <2>2, <2>3, <2>4
<1> QED BY <1>1, <1>4, <1>5 DEF LinkInv

\* The slave handles the request r; what it answers to the call's is true of its registers.
LEMMA AnswerLink ==
    ASSUME LinkAssumption, LinkInv, TypeOK', slaveBuffer.part = "whole",
           NEW fn, NEW third, NEW words, NEW f,
           f = [fn |-> fn, third |-> third, words |-> words, fresh |-> slaveBuffer.frame.fresh],
           Parse(slaveBuffer.frame),
           Answer(slaveBuffer.frame, fn, third, words),
           slaveBuffer.frame.req = request => AnswersRequest(f)'
    PROVE  LinkInv'
<1>1. UNCHANGED <<slaveRing, masterVars, ring, late>> /\ slaveBuffer' = Nothing
  BY DEF Answer
<1>2. slaveBuffer # Nothing
  BY Pieces
<1>3. ~Answered
  BY <1>2 DEF LinkInv, NothingAfter
<1>4. ~ReportedOk' /\ ~ring'.frame.fresh /\ ~buffer'.frame.fresh /\ ~answer.fresh
  BY <1>1, <1>3 DEF Answered, ReportedOk, masterVars
<1>5. answer'.fresh => slaveBuffer.frame.fresh /\ answer' = f
  BY <1>4 DEF Answer
<1>6. RequestCurrent'
  BY <1>1, Pieces DEF LinkInv, RequestCurrent, masterVars
<1>7. NothingAfter'
  BY <1>1, <1>4, <1>5, Pieces DEF LinkInv, NothingAfter, Answered
<1>8. AnswerCurrent'
  <2>1. slaveBuffer.frame.fresh => slaveBuffer.frame.req = request
    BY DEF LinkInv, RequestCurrent
  <2>2. answer'.fresh => answer' = f /\ AnswersRequest(f)'
    BY <1>5, <2>1
  <2> QED BY <1>4, <2>2 DEF AnswerCurrent
<1>9. PiecesCurrent' /\ BufferEmpty' /\ OkMeansDone'
  BY <1>1, <1>4 DEF LinkInv, PiecesCurrent, BufferEmpty, OkMeansDone, ReportedOk, masterVars
<1> QED BY <1>6, <1>7, <1>8, <1>9 DEF LinkInv

LEMMA SlaveAnswersLink ==
    ASSUME LinkAssumption, LinkInv, slaveBuffer.part = "whole",
           NEW r, r = slaveBuffer.frame,
           \/ SlaveRefuses(r) \/ SlaveReads(r)
           \/ \E refused \in SUBSET Addressed(r.req) : SlaveWrites(r, refused)
    PROVE  LinkInv'
<1>1. TypeOK'
  BY SlaveType DEF LinkInv, Slave
<1>2. request' = request
  BY DEF SlaveRefuses, SlaveReads, SlaveWrites, Answer, masterVars
<1>3. /\ request.fn \in {"read", "write"} /\ request.num \in 1 .. FrameRegs
      /\ request.num \in Nat /\ request.addr \in Nat
  BY DEF LinkInv, TypeOK, LinkAssumption
<1>4. CASE SlaveRefuses(r)
  <2>1. ASSUME NEW f, f = [fn |-> "exception", third |-> 2, words |-> <<>>, fresh |-> r.fresh]
        PROVE  AnswersRequest(f)'
    BY <1>2, <1>3, <2>1 DEF AnswersRequest
  <2>2. Parse(r) /\ Answer(r, "exception", 2, <<>>)
    BY <1>4 DEF SlaveRefuses
  <2> QED BY <1>1, <2>1, <2>2, AnswerLink
<1>5. CASE SlaveReads(r)
  <2> DEFINE words == [i \in 1 .. r.req.num |-> memory[r.req.addr + i - 1]]
  <2>1. ASSUME NEW f, r.req = request,
               f = [fn |-> "read", third |-> 2 * r.req.num, words |-> words, fresh |-> r.fresh]
        PROVE  AnswersRequest(f)'
    <3>1. memory' = memory /\ InRange(request) /\ request.fn = "read"
      BY <1>5, <2>1 DEF SlaveReads
    <3> QED BY <1>2, <2>1, <3>1 DEF AnswersRequest, InRange
  <2>2. Parse(r) /\ Answer(r, "read", 2 * r.req.num, words)
    BY <1>5 DEF SlaveReads
  <2> HIDE DEF words
  <2> QED BY <1>1, <2>1, <2>2, AnswerLink
<1>6. ASSUME NEW refused \in SUBSET Addressed(r.req), SlaveWrites(r, refused)
      PROVE  LinkInv'
  <2>1. CASE refused = {}
    <3>1. ASSUME NEW f, r.req = request,
                 f = [fn |-> "write", third |-> AddrHigh, words |-> <<>>, fresh |-> r.fresh]
          PROVE  AnswersRequest(f)'
      <4>1. request.addr + request.num <= Regs /\ request.fn = "write"
        BY <1>6, <3>1 DEF SlaveWrites, InRange
      <4>2. ASSUME NEW i \in 1 .. request.num
            PROVE  memory'[request.addr + i - 1] = request.words[i]
        <5>1. /\ request.addr + i - 1 \in 0 .. Regs - 1
              /\ request.addr + i - 1 \in Addressed(request)
              /\ (request.addr + i - 1) - request.addr + 1 = i
          BY <1>3, <4>1, LinkAssumption DEF Addressed, LinkAssumption
        <5> QED BY <1>6, <2>1, <3>1, <5>1 DEF SlaveWrites
      <4> QED BY <1>2, <4>1, <4>2 DEF AnswersRequest, InRange
    <3>2. Parse(r) /\ Answer(r, "write", AddrHigh, <<>>)
      BY <1>6, <2>1 DEF SlaveWrites
    <3> QED BY <1>1, <3>1, <3>2, AnswerLink
  <2>2. CASE refused # {}
    <3>1. ASSUME NEW f, f = [fn |-> "exception", third |-> 3, words |-> <<>>, fresh |-> r.fresh]
          PROVE  AnswersRequest(f)'
      BY <1>2, <1>3, <3>1 DEF AnswersRequest
    <3>2. Parse(r) /\ Answer(r, "exception", 3, <<>>)
      BY <1>6, <2>2 DEF SlaveWrites
    <3> QED BY <1>1, <3>1, <3>2, AnswerLink
  <2> QED BY <2>1, <2>2
<1> QED BY <1>4, <1>5, <1>6

LEMMA SlaveSendsLink ==
    ASSUME LinkAssumption, LinkInv, SlaveSends \/ SlaveSendsOpening \/ SlaveSendsRest
    PROVE  LinkInv'
<1>1. TypeOK'
  BY SlaveType DEF LinkInv, Slave
<1>2. UNCHANGED <<memory, slaveRing, slaveBuffer, masterVars>> /\ answer' \in {answer, NoFrame}
  BY DEF SlaveSends, SlaveSendsOpening, SlaveSendsRest, SlaveSent
<1>3. \/ ring' = ring /\ late' = late
      \/ \E bytes \in {Spoiled, Whole(answer), Opening(answer), Rest(answer)} : Deliver(bytes)
  BY DEF SlaveSends, SlaveSendsOpening, SlaveSendsRest
<1>4. answer \in AnswerFrame /\ ring \in Received(AnswerFrame)
  BY DEF LinkInv, TypeOK, SlaveSends, SlaveSendsOpening, SlaveSendsRest
<1>5. ring'.frame.fresh => \/ ring.frame.fresh /\ ring'.frame = ring.frame
                           \/ answer.fresh /\ ring'.frame = answer
  <2>1. CASE ring' = ring
    BY <2>1
  <2>2. ASSUME NEW bytes \in {Spoiled, Whole(answer), Opening(answer), Rest(answer)},
               ring' = Joined(ring, bytes)
        PROVE  ring'.frame.fresh => \/ ring.frame.fresh /\ ring'.frame = ring.frame
                                    \/ answer.fresh /\ ring'.frame = answer
    <3>1. bytes \in Received(AnswerFrame)
      <4>1. {Spoiled, Whole(answer), Opening(answer), Rest(answer)} \subseteq Received(AnswerFrame)
        BY <1>4, WholeReceived
      <4> QED BY <4>1
    <3>2. bytes.frame.fresh => bytes.frame = answer
      BY Pieces
    <3> QED BY <1>4, <2>2, <3>1, <3>2, JoinedFresh
  <2> QED BY <1>3, <2>1, <2>2 DEF Deliver
<1>6. late => late'
  BY <1>3 DEF Deliver
<1>7. ReportedOk' => ReportedOk
  BY <1>2, <1>6 DEF ReportedOk, masterVars
<1>8. RequestCurrent' /\ NothingAfter'
  BY <1>2, <1>5, <1>7, Pieces DEF LinkInv, RequestCurrent, NothingAfter, Answered, masterVars
<1>9. AnswerCurrent'
  <2>1. \A f : AnswersRequest(f) => AnswersRequest(f)'
    BY <1>2 DEF AnswersRequest, InRange, masterVars
  <2> QED BY <1>2, <1>5, <2>1, Pieces DEF LinkInv, AnswerCurrent, masterVars
<1>10. PiecesCurrent'
  <2> SUFFICES ASSUME masterPc = "recv", ~late', ring'.part \in {"whole", "opening", "rest"}
               PROVE  ring'.frame.fresh
    BY <1>2, <1>6 DEF LinkInv, PiecesCurrent, masterVars
  <2>1. ring.part \in {"whole", "opening", "rest"} => ring.frame.fresh
    BY <1>6 DEF LinkInv, PiecesCurrent
  <2>2. CASE ring' = ring
    BY <2>1, <2>2
  <2>3. ASSUME NEW bytes \in {Spoiled, Whole(answer), Opening(answer), Rest(answer)},
               Deliver(bytes)
        PROVE  ring'.frame.fresh
    <3>1. answer.fresh /\ ring' = Joined(ring, bytes)
      BY <2>3 DEF Deliver
    <3>2. bytes.part \in {"whole", "opening", "rest"} => bytes.frame.fresh
      BY <3>1, Pieces
    <3> QED BY <2>1, <3>1, <3>2, JoinedCurrent
  <2> QED BY <1>3, <2>2, <2>3
<1>11. BufferEmpty' /\ OkMeansDone'
  BY <1>2, <1>7 DEF LinkInv, BufferEmpty, OkMeansDone, ReportedOk, InRange, masterVars
<1> QED BY <1>1, <1>8, <1>9, <1>10, <1>11 DEF LinkInv

LEMMA LinkInit ==
    ASSUME LinkAssumption, Init
    PROVE  LinkInv
<1>1. TypeOK
  BY TypeInit
<1>2. ~Answered
  BY Pieces DEF Init, Answered, ReportedOk
<1>3. RequestCurrent /\ NothingAfter /\ AnswerCurrent /\ PiecesCurrent /\ BufferEmpty
  BY <1>2, Pieces
  DEF Init, RequestCurrent, NothingAfter, AnswerCurrent, PiecesCurrent, BufferEmpty
<1>4. OkMeansDone
  BY DEF Init, OkMeansDone
<1> QED BY <1>1, <1>3, <1>4 DEF LinkInv

LEMMA LinkStutter ==
    ASSUME LinkInv, UNCHANGED vars
    PROVE  LinkInv'
<1>1. TypeOK'
  BY TypeStutter DEF LinkInv
<1>2. RequestCurrent' /\ NothingAfter' /\ PiecesCurrent' /\ BufferEmpty'
  BY DEF LinkInv, RequestCurrent, NothingAfter, Answered, ReportedOk, PiecesCurrent,
         BufferEmpty, vars, slaveVars, masterVars
<1>3. AnswerCurrent' /\ OkMeansDone'
  BY DEF LinkInv, AnswerCurrent, AnswersRequest, InRange, OkMeansDone, vars, slaveVars,
         masterVars
<1> QED BY <1>1, <1>2, <1>3 DEF LinkInv

LEMMA LinkStep == LinkAssumption /\ LinkInv /\ [Next]_vars => LinkInv'
<1>1. LinkAssumption /\ LinkInv /\ Master => LinkInv'
  BY SendLink, ReceiveLink, ReturnLink DEF Master
<1>2. LinkAssumption /\ LinkInv /\ Slave => LinkInv'
  BY SlaveReceivesLink, SlaveAnswersLink, SlaveSendsLink DEF Slave
<1> QED BY <1>1, <1>2, LinkStutter DEF Next

\* Whatever is lost, broken, interrupted or late, a call that reports success has been done,
\* unless a late answer came after its flush.
THEOREM SuccessMeansDone == Spec => []OkMeansDone
<1>1. Init => LinkInv
  BY LinkAssumption, LinkInit
<1>2. LinkInv /\ [Next]_vars => LinkInv'
  BY LinkAssumption, LinkStep
<1>3. LinkInv => OkMeansDone
  BY DEF LinkInv
<1> QED BY <1>1, <1>2, <1>3, PTL DEF Spec

-----------------------------------------------------------------------------
(* The answer's length and the caller's array                               *)

\* Whatever answer comes, the caller's array is large enough for what is copied.
THEOREM CopiesFit == Spec => []CopyFits
<1>1. Init => CopyFits
  BY LinkAssumption DEF Init, CopyFits, LinkAssumption
<1>2. TypeOK /\ CopyFits /\ [Next]_vars => CopyFits'
  <2> SUFFICES ASSUME TypeOK, CopyFits, [Next]_vars
               PROVE  CopyFits'
    OBVIOUS
  <2>1. copied' \in {copied, 0} \/ Accept
    BY DEF Next, Master, Slave, vars, masterVars, slaveVars, Send, Flush, Take, FrameTimeout,
           ReceivedNothingUseful, RefuseFunction, SlaveFlush, SlaveTake, SlaveDrop,
           SlaveRefuses, SlaveReads, SlaveWrites, Answer, SlaveSends, SlaveSendsOpening,
           SlaveSendsRest
  <2>2. CASE Accept
    <3>1. buffer.frame \in AnswerFrame
      BY <2>2 DEF Accept, TypeOK, Received, Nothing, Spoiled
    <3>2. copied' \in 1 .. FrameRegs \/ copied' = copied
      BY <2>2, <3>1, CopyType, LinkAssumption DEF Accept, AnswersCall
    <3> QED BY <3>2, LinkAssumption DEF CopyFits, LinkAssumption
  <2> QED BY <2>1, <2>2, LinkAssumption DEF CopyFits, LinkAssumption
<1> QED BY <1>1, <1>2, TypeCorrect, PTL DEF Spec
=============================================================================
