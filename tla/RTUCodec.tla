------------------------------ MODULE RTUCodec ------------------------------
(***************************************************************************)
(* The byte level of RTUProtocol (ModbusRTU.cpp, ModbusRTU.h): how the     *)
(* four handlers build TxFrame with Write, WriteAddressPointCountPair and  *)
(* WriteCRC, how the receive loop of SendAndReceiveFramesInt cuts a frame  *)
(* out of the bytes on the line and checks its CRC, slave address and      *)
(* function code, and how each handler decodes the bytes it is handed.     *)
(*                                                                         *)
(* The CRC is the one of Crc16: the table-driven crc_16_type of the code   *)
(* builds and checks frames; the reference layout uses the bitwise         *)
(* CRC-16/MODBUS.  One operation, one attempt at a time: RTUMaster models  *)
(* the retries, the echo and late frames over frame records; this module   *)
(* checks the bytes those records stand for.                               *)
(***************************************************************************)
EXTENDS Integers, Sequences, ModbusRegisters

CONSTANTS
    Units,      \* slave addresses
    RegAddrs,   \* start addresses
    Counts,     \* PointCount of reads and multiple writes
    Words,      \* register values and masks
    ExcCodes    \* exception codes a slave may answer with

VARIABLES
    op,         \* the request of the running handler
    txFrame,    \* TxFrame, <<>> when no handler runs
    line,       \* bytes the slave put on the line, <<>> until it answers
    answer,     \* ghost: which answer the slave gave, its register value and
                \* exception code
    outcome     \* what the handler returned or threw

vars == <<op, txFrame, line, answer, outcome>>

NoExc == [cls |-> "none", code |-> 0]

LOCAL Crc == INSTANCE Crc16 WITH rxFrame <- <<>>, crc <- 0, ByteVals <- {}, MaxLen <- 0

-----------------------------------------------------------------------------
(* RTUProtocol::Write( Out, uint8_t ) and Write( Out, uint16_t ).          *)
WriteByte(b) == << b % 256 >>

(* Mutant: a 16-bit value written low byte first.                          *)
WriteWordLoFirst(w) == << w % 256, (w \div 256) % 256 >>

WriteWord(w) == << (w \div 256) % 256, w % 256 >>

WriteAddressPointCountPair(a, n) == WriteWord(a) \o WriteWord(n)

(* Read( In, Data ): ( In[0] & 0xFF ) << 8 plus In[1]; i is 1-based.       *)
ReadWord(s, i) == s[i] * 256 + s[i + 1]

(* The TxFrame of each handler: slave address, function code, fields,      *)
(* then WriteCRC over what precedes it.                                    *)
TxFrame(r) ==
    LET n == r.count
        body == << r.slave % 256, r.fc % 256 >> \o
          CASE r.fc \in ReadFCs -> WriteAddressPointCountPair(r.addr, n)
            [] r.fc = PresetSingleRegister ->
                  WriteWord(r.addr) \o WriteWord(r.data[1])
            [] r.fc = PresetMultipleRegisters ->
                  WriteAddressPointCountPair(r.addr, n) \o WriteByte(2 * n)
                  \o [i \in 1..2 * n |-> WriteWord(r.data[(i + 1) \div 2])[2 - (i % 2)]]
            [] r.fc = MaskWrite4XRegister ->
                  WriteWord(r.addr) \o WriteWord(r.andm) \o WriteWord(r.orm)
    IN body \o Crc!WriteCRC(body)

ExpectedRxFramelength(r) ==
    CASE r.fc \in ReadFCs               -> 2 * r.count + 5
      [] r.fc = PresetSingleRegister    -> 8
      [] r.fc = PresetMultipleRegisters -> 8
      [] r.fc = MaskWrite4XRegister     -> 10

(* Mutant: the length switch tested on the slave address byte.            *)
RxFramelengthIndex0(l, n) == IF Len(l) >= 1 /\ l[1] >= 128 THEN 5 ELSE n

(* The receive loop reads RxFramelength bytes, and 5 once the byte at      *)
(* index 1 has bit 0x80 set.                                               *)
RxFramelength(l, n) == IF Len(l) >= 2 /\ l[2] >= 128 THEN 5 ELSE n

(* The checks after the loop, in order: Crc.checksum() over every byte     *)
(* read, RxFrame[0] against TxFrame[0], RxFrame[1] against TxFrame[1].     *)
FrameError(rx, tx) ==
    CASE Crc!ComputeCRC(rx) # 0 -> "crc"
      [] rx[1] # tx[1]          -> "slaveaddr"
      [] rx[2] # tx[2]          -> IF rx[2] >= 128 THEN "exception" ELSE "fcmismatch"
      [] OTHER                  -> "none"

(* Mutant: the exception code taken from the byte after it.               *)
RxExceptionCodeNextByte(rx) == rx[4]

(* ExceptionCode( RxFrame[2] ), handed to RaiseStandardException.          *)
RxExceptionCode(rx) == rx[3]

(* Mutant: ReadRegisters without the byte-count check.                     *)
ReadRegistersNoByteCount(r, p) ==
    [kind |-> "ok", data |-> [i \in 1..r.count |-> ReadWord(p, 2 * i)],
          exc |-> NoExc]

(* What each handler does with RxFrame[2..], the CRC bytes included.       *)
ReadRegisters(r, p) ==
    IF p[1] # ExpectedRxFramelength(r) - 5
    THEN [kind |-> "bytecount", data |-> <<>>, exc |-> NoExc]
    ELSE [kind |-> "ok", data |-> [i \in 1..r.count |-> ReadWord(p, 2 * i)],
          exc |-> NoExc]

EchoCheck(r, p) ==
    LET echoed == CASE r.fc = PresetSingleRegister    -> <<r.addr, r.data[1]>>
                    [] r.fc = PresetMultipleRegisters -> <<r.addr, r.count>>
                    [] r.fc = MaskWrite4XRegister     -> <<r.addr, r.andm, r.orm>>
    IN IF \E i \in 1..Len(echoed) : ReadWord(p, 2 * i - 1) # echoed[i]
       THEN [kind |-> "echo", data |-> <<>>, exc |-> NoExc]
       ELSE [kind |-> "ok", data |-> <<>>, exc |-> NoExc]

HandlerResult(r, p) ==
    IF r.fc \in ReadFCs THEN ReadRegisters(r, p) ELSE EchoCheck(r, p)

-----------------------------------------------------------------------------
(* Reference: the RTU layout of spec.md 4.2, with the bitwise CRC, low     *)
(* byte first.                                                             *)
RefWords(ws) ==
    [i \in 1..2 * Len(ws) |-> IF i % 2 = 1 THEN ws[(i + 1) \div 2] \div 256
                                         ELSE ws[i \div 2] % 256]

WithRefCrc(b) == b \o << Crc!RefCrc(b) % 256, Crc!RefCrc(b) \div 256 >>

RefTxFrame(r) ==
    WithRefCrc(<<r.slave, r.fc>> \o
      CASE r.fc \in ReadFCs -> RefWords(<<r.addr, r.count>>)
        [] r.fc = PresetSingleRegister -> RefWords(<<r.addr, r.data[1]>>)
        [] r.fc = PresetMultipleRegisters ->
              RefWords(<<r.addr, r.count>>) \o <<2 * r.count>> \o RefWords(r.data)
        [] r.fc = MaskWrite4XRegister -> RefWords(<<r.addr, r.andm, r.orm>>))

Alternating(n, w) == [i \in 1..n |-> IF i % 2 = 1 THEN w ELSE 0]

(* A slave's normal answer to r, before its CRC; the byte count of a read  *)
(* reply is one byte.                                                      *)
ReplyBody(r, w) ==
    IF r.fc \in ReadFCs
    THEN <<r.slave, r.fc, (2 * r.count) % 256>> \o RefWords(Alternating(r.count, w))
    ELSE SubSeq(RefTxFrame(r), 1, IF r.fc = PresetMultipleRegisters THEN 6
                                                              ELSE Len(RefTxFrame(r)) - 2)

(* What the line may carry: the normal answer, an exception, a read reply  *)
(* whose byte count is wrong under a valid CRC, an answer with its last    *)
(* data byte garbled, or an answer cut short.                              *)
Answers(r) ==
    LET ok(w) == WithRefCrc(ReplyBody(r, w)) IN
    {[tag |-> "normal", w |-> w, exc |-> 0, bytes |-> ok(w)] : w \in Words}
    \cup {[tag |-> "exception", w |-> 0, exc |-> e,
           bytes |-> WithRefCrc(<<r.slave, r.fc + 128, e>>)] : e \in ExcCodes}
    \cup {[tag |-> "garbled", w |-> w, exc |-> 0,
           bytes |-> [ok(w) EXCEPT ![Len(ok(w)) - 2] = (@ + 1) % 256]] : w \in Words}
    \cup {[tag |-> "short", w |-> w, exc |-> 0,
           bytes |-> SubSeq(ok(w), 1, Len(ok(w)) - 1)] : w \in Words}
    \cup IF r.fc \in ReadFCs
         THEN {[tag |-> "bytecount", w |-> w, exc |-> 0,
                bytes |-> WithRefCrc([ReplyBody(r, w) EXCEPT ![3] = @ + 2])] : w \in Words}
         ELSE {}

-----------------------------------------------------------------------------
NoOutcome == [kind |-> "none", data |-> <<>>, exc |-> NoExc]
NoAnswer == [tag |-> "none", w |-> 0, exc |-> 0, bytes |-> <<>>]

Init ==
    /\ op = NoReq /\ txFrame = <<>> /\ line = <<>>
    /\ answer = NoAnswer /\ outcome = NoOutcome

(* A handler builds TxFrame and hands it to SendAndReceiveFrames.          *)
Start(r) ==
    /\ txFrame = <<>>
    /\ op' = r /\ txFrame' = TxFrame(r)
    /\ line' = <<>> /\ answer' = NoAnswer /\ outcome' = NoOutcome

DoReadRegisters ==
    \E fc \in ReadFCs, u \in Units, a \in RegAddrs, n \in Counts :
        Start(ReadReq(fc, u, a, n))

DoPresetSingleRegister ==
    \E u \in Units, a \in RegAddrs, w \in Words : Start(PSRReq(u, a, w))

DoPresetMultipleRegisters ==
    \E u \in Units, a \in RegAddrs, n \in Counts, w \in Words :
        Start(PMRReq(u, a, Alternating(n, w)))

DoMaskWrite4XRegister ==
    \E u \in Units, a \in RegAddrs, am, om \in Words : Start(MWReq(u, a, am, om))

SlaveAnswer ==
    /\ txFrame # <<>> /\ answer = NoAnswer
    /\ \E x \in Answers(op) : answer' = x /\ line' = x.bytes
    /\ UNCHANGED <<op, txFrame, outcome>>

(* The receive loop, the frame checks, then the handler's own checks; one  *)
(* attempt, the last, so every failure is thrown, a slave exception by     *)
(* RaiseStandardException.                                                 *)
Receive ==
    /\ txFrame # <<>> /\ answer # NoAnswer
    /\ LET n == RxFramelength(line, ExpectedRxFramelength(op))
           rx == SubSeq(line, 1, n)
           err == FrameError(rx, txFrame)
       IN outcome' =
            CASE Len(line) < n -> [kind |-> "timeout", data |-> <<>>, exc |-> NoExc]
              [] err # "none"  ->
                   [kind |-> err, data |-> <<>>,
                    exc |-> IF err = "exception"
                            THEN RaiseStandardException(RxExceptionCode(rx)) ELSE NoExc]
              [] OTHER -> HandlerResult(op, SubSeq(rx, 3, n))
    /\ txFrame' = <<>>
    /\ UNCHANGED <<op, line, answer>>

Next ==
    \/ DoReadRegisters \/ DoPresetSingleRegister
    \/ DoPresetMultipleRegisters \/ DoMaskWrite4XRegister
    \/ SlaveAnswer \/ Receive

Spec == Init /\ [][Next]_vars

-----------------------------------------------------------------------------
(* Every TxFrame a handler of RTUProtocol sends is the RTU frame of its    *)
(* request: big-endian fields, the byte count of a multiple write, and the *)
(* MODBUS CRC low byte first, as the bitwise reference computes it.        *)
RtuRequestFollowsLayout ==
    txFrame # <<>> => txFrame = RefTxFrame(op)

(* An RTU operation returns normally only on the slave's intact answer,    *)
(* and a read then returns exactly the register values that answer         *)
(* carried: the CRC, address, function code and byte-count checks reject   *)
(* every other frame.                                                      *)
RtuAcceptsOnlyIntactAnswer ==
    outcome.kind = "ok" =>
        /\ answer.tag = "normal"
        /\ op.fc \in ReadFCs => outcome.data = Alternating(op.count, answer.w)

(* The other half of the receive checks: an RTU operation whose slave     *)
(* gave its normal, intact answer returns normally, whatever the slave     *)
(* address, register values and point count.                              *)
RtuAcceptsIntactAnswer ==
    answer.tag = "normal" /\ outcome # NoOutcome => outcome.kind = "ok"

(* An RTU operation throws a slave exception only when its slave answered  *)
(* with one, and the exception carries the code the slave sent: one of the *)
(* eight typed exceptions for a standard code, EProtocolException for any  *)
(* other value.                                                            *)
RtuExceptionCarriesSlaveCode ==
    outcome.kind = "exception" =>
        /\ answer.tag = "exception"
        /\ outcome.exc.code = answer.exc
        /\ (outcome.exc.cls = "EProtocolException" <=> answer.exc \notin 1..8)

=============================================================================
