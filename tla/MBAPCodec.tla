------------------------------ MODULE MBAPCodec ------------------------------
(***************************************************************************)
(* The byte level of TCPIPProtocol (ModbusTCP_IP.cpp): how the four        *)
(* handlers lay out a request ADU (WriteBMAPHeader, WriteAddressPointCount- *)
(* Pair, WriteData, the byte-count byte of PresetMultipleRegisters), and   *)
(* how ReadRegisters and the write handlers take a reply apart (the GetBMAP *)
(* accessors, RaiseExceptionIfBMAPIsNotEQ, RaiseExceptionIfReplyIsNotValid,*)
(* GetPayloadLength and CopyDataWord).  Buffers are sequences of bytes.    *)
(*                                                                         *)
(* One operation at a time: the master writes a request, a server answers  *)
(* with a reply of the Modbus layout or with a read reply whose byte count *)
(* or data length is wrong, and the master decodes it.  TCPIPMaster models *)
(* the same handlers over whole replies; this module checks the byte       *)
(* layouts that model takes for granted.                                   *)
(***************************************************************************)
EXTENDS Integers, Sequences, ModbusRegisters

CONSTANTS
    Tids,       \* transaction ids a TCPIPContext may carry
    Units,      \* slave addresses
    RegAddrs,   \* start addresses
    Counts,     \* PointCount values of reads and multiple writes
    Words,      \* register values, masks
    ExcCodes    \* exception codes a server may answer with

VARIABLES
    req,        \* the operation the caller asked for
    tid,        \* its context's transaction id
    out,        \* OutBuffer the handler wrote, <<>> when idle
    reply,      \* the bytes the server sent back, <<>> until it answers
    result      \* what the handler returned or threw

vars == <<req, tid, out, reply, result>>

-----------------------------------------------------------------------------
(* Bytes of a 16-bit value, high byte first, and back.                     *)
Hi(w) == (w \div 256) % 256
Lo(w) == w % 256
WordBytes(w) == <<Hi(w), Lo(w)>>
Uint16(x) == x % 2^16
ByteAt(b, off) == b[off + 1]                  \* Buffer[off], 0-based
WordAt(b, off) == ByteAt(b, off) * 256 + ByteAt(b, off + 1)

(* Mutant: the Length field counts the unit id twice.                      *)
WriteBMAPHeaderOffByOne(len, t, u) ==
    <<Hi(t), Lo(t), 0, 0>> \o WordBytes(Uint16(len - 7)) \o <<u>>

(* WriteBMAPHeader on an OutBuffer of len bytes: transaction id, protocol *)
(* id 0, PayloadLength = GetLength( OutBuffer ) - 6, unit id.              *)
WriteBMAPHeader(len, t, u) ==
    <<Hi(t), Lo(t), 0, 0>> \o WordBytes(Uint16(len - 6)) \o <<u>>

WriteAddressPointCountPair(a, n) == WordBytes(a) \o WordBytes(n)
WriteData(d) == WordBytes(d)

(* The OutBuffer each handler builds: SetLength, the header, the PDU.      *)
(* PresetMultipleRegisters stores PointCount * 2 into one byte.            *)
RequestAdu(r, t) ==
    LET n == r.count
        len == CASE r.fc \in ReadFCs               -> 7 + 1 + 4
                 [] r.fc = PresetSingleRegister    -> 7 + 1 + 2 + 2
                 [] r.fc = PresetMultipleRegisters -> Uint16(7 + 4 + 2 * n + 2)
                 [] r.fc = MaskWrite4XRegister     -> 7 + 1 + 2 + 2 + 2
        pdu == CASE r.fc \in ReadFCs ->
                      <<r.fc>> \o WriteAddressPointCountPair(r.addr, n)
                 [] r.fc = PresetSingleRegister ->
                      <<r.fc>> \o WriteData(r.addr) \o WriteData(r.data[1])
                 [] r.fc = PresetMultipleRegisters ->
                      <<r.fc>> \o WriteAddressPointCountPair(r.addr, n)
                      \o <<(2 * n) % 256>>
                      \o [i \in 1..2 * n |-> WordBytes(r.data[(i + 1) \div 2])[2 - (i % 2)]]
                 [] r.fc = MaskWrite4XRegister ->
                      <<r.fc>> \o WriteData(r.addr) \o WriteData(r.andm)
                      \o WriteData(r.orm)
    IN WriteBMAPHeader(len, t, r.slave) \o pdu

(* The GetBMAP* accessors on a 7-byte header, and the PDU accessors.       *)
GetBMAPTransactionIdentifier(b) == WordAt(b, 0)
GetBMAPProtocol(b) == WordAt(b, 2)
GetBMAPDataLength(b) == WordAt(b, 4)
GetBMAPUnitIdentifier(b) == ByteAt(b, 6)
GetFunctionCode(b) == ByteAt(b, 0)
GetExceptCode(b) == ByteAt(b, 1)

NoExc == [cls |-> "none", code |-> 0]
GetDataLength(b) == ByteAt(b, 1)

(* RaiseExceptionIfBMAPIsNotValid on both buffers, then                    *)
(* RaiseExceptionIfBMAPIsNotEQ's three comparisons, in the code's order.   *)
BMAPError(l, r) ==
    CASE Len(l) < 7 \/ Len(r) < 7                               -> "bmaplen"
      [] GetBMAPTransactionIdentifier(l) # GetBMAPTransactionIdentifier(r) -> "tid"
      [] GetBMAPProtocol(l) # GetBMAPProtocol(r) \/ GetBMAPProtocol(l) # 0 -> "protocol"
      [] GetBMAPUnitIdentifier(l) # GetBMAPUnitIdentifier(r)     -> "unit"
      [] OTHER                                                   -> "none"

(* RaiseExceptionIfReplyIsNotValid: a ReplyBuffer of one byte or less is   *)
(* too short; bit 0x80 of the function code raises the exception code.     *)
ReplyError(b, fc) ==
    CASE Len(b) <= 1                -> "short"
      [] GetFunctionCode(b) >= 128  -> "exception"
      [] GetFunctionCode(b) # fc    -> "fcmismatch"
      [] OTHER                      -> "none"

(* Mutant: GetPayloadLength without the test on the parity of the length.  *)
PayloadLengthErrorNoParity(b) == Len(b) - 2 # GetDataLength(b)

(* GetPayloadLength with BufferOffset 1: the byte count must be the length *)
(* less 2, and ~( GetLength( Buffer ) - 1 ) & 1 must be 0.                  *)
PayloadLengthError(b) ==
    Len(b) - 2 # GetDataLength(b) \/ (Len(b) - 1) % 2 = 0

(* CopyDataWord's loop: for ( Idx = 2 ; DataLength ; DataLength -= 2 )   *)
(* reads the word at Idx.  An even DataLength that fits stops after        *)
(* DataLength / 2 words; otherwise the loop reads every word the buffer    *)
(* holds and then past its end, marked -1.                                 *)
CopyDataWord(b) ==
    LET d == GetDataLength(b)
        WordsRead(k) == [i \in 1..k |-> WordAt(b, 2 * i)]
    IN IF d % 2 = 0 /\ d + 2 <= Len(b) THEN WordsRead(d \div 2)
       ELSE WordsRead((Len(b) - 2) \div 2) \o << -1 >>

(* The receive half of ReadRegisters and of the write handlers: DoRead of  *)
(* the header, the BMAP check, DoRead of GetBMAPDataLength - 1 bytes (a     *)
(* read past what was sent times out), the reply checks and, for reads,    *)
(* GetPayloadLength and CopyDataWord.  An exception reply is thrown by      *)
(* RaiseStandardException( Context, GetExceptCode( Buffer ) ).              *)
Decode(b) ==
    LET hdr == SubSeq(b, 1, 7)
        n == Uint16(GetBMAPDataLength(hdr) - 1)
        rb == SubSeq(b, 8, 7 + n)
        Fail(k) == [kind |-> k, data |-> <<>>,
                    exc |-> IF k = "exception" THEN RaiseStandardException(GetExceptCode(rb))
                            ELSE NoExc]
    IN CASE BMAPError(out, hdr) # "none"          -> Fail(BMAPError(out, hdr))
         [] 7 + n > Len(b)                         -> Fail("timeout")
         [] ReplyError(rb, req.fc) # "none"        -> Fail(ReplyError(rb, req.fc))
         [] req.fc \in ReadFCs /\ PayloadLengthError(rb) -> Fail("framelength")
         [] OTHER -> [kind |-> "ok", exc |-> NoExc,
                      data |-> IF req.fc \in ReadFCs THEN CopyDataWord(rb) ELSE <<>>]

-----------------------------------------------------------------------------
(* Reference: the Modbus/TCP layout of spec.md 4.3.  Every field is big    *)
(* endian, Length counts the unit id and the PDU, and a write of n         *)
(* registers carries the byte count 2 * n.                                 *)
RefAdu(t, u, pdu) ==
    <<t \div 256, t % 256, 0, 0, (Len(pdu) + 1) \div 256, (Len(pdu) + 1) % 256, u>>
    \o pdu

RefWords(ws) ==
    [i \in 1..2 * Len(ws) |-> IF i % 2 = 1 THEN ws[(i + 1) \div 2] \div 256
                                         ELSE ws[i \div 2] % 256]

RefRequestPdu(r) ==
    CASE r.fc \in ReadFCs -> <<r.fc>> \o RefWords(<<r.addr, r.count>>)
      [] r.fc = PresetSingleRegister -> <<r.fc>> \o RefWords(<<r.addr, r.data[1]>>)
      [] r.fc = PresetMultipleRegisters ->
            <<r.fc>> \o RefWords(<<r.addr, r.count>>) \o <<2 * r.count>> \o RefWords(r.data)
      [] r.fc = MaskWrite4XRegister -> <<r.fc>> \o RefWords(<<r.addr, r.andm, r.orm>>)

(* Register values alternate with 0, so that a word out of place shows.    *)
Alternating(n, w) == [i \in 1..n |-> IF i % 2 = 1 THEN w ELSE 0]

(* What a server may send for r: its normal reply, an exception, or a read *)
(* reply whose byte count or data length is off by one or two bytes.       *)
ReplyPdus(r) ==
    LET n == r.count
        Filler(k, w) == [i \in 1..k |-> IF i % 2 = 1 THEN w \div 256 ELSE w % 256]
    IN {<<r.fc + 128, e>> : e \in ExcCodes}
       \cup
       IF r.fc \in ReadFCs
       THEN {<<r.fc, 2 * n>> \o RefWords(Alternating(n, w)) : w \in Words}
            \cup UNION {{<<r.fc, bc>> \o Filler(k, w) : w \in Words, bc \in {2 * n, k}} :
                         k \in {2 * n - 1, 2 * n + 1, 2 * n + 2}}
       ELSE {SubSeq(RefRequestPdu(r), 1, IF r.fc = PresetMultipleRegisters THEN 5
                                                              ELSE Len(RefRequestPdu(r)))}

-----------------------------------------------------------------------------
NoResult == [kind |-> "none", data |-> <<>>, exc |-> NoExc]

Init ==
    /\ req = NoReq /\ tid = 0
    /\ out = <<>> /\ reply = <<>>
    /\ result = NoResult

(* A handler builds and writes its OutBuffer.                              *)
Start(r, t) ==
    /\ out = <<>>
    /\ req' = r /\ tid' = t
    /\ out' = RequestAdu(r, t)
    /\ reply' = <<>> /\ result' = NoResult

DoReadRegisters ==
    \E fc \in ReadFCs, u \in Units, a \in RegAddrs, n \in Counts, t \in Tids :
        Start(ReadReq(fc, u, a, n), t)

DoPresetSingleRegister ==
    \E u \in Units, a \in RegAddrs, w \in Words, t \in Tids :
        Start(PSRReq(u, a, w), t)

DoPresetMultipleRegisters ==
    \E u \in Units, a \in RegAddrs, n \in Counts, w \in Words, t \in Tids :
        Start(PMRReq(u, a, Alternating(n, w)), t)

DoMaskWrite4XRegister ==
    \E u \in Units, a \in RegAddrs, am, om \in Words, t \in Tids :
        Start(MWReq(u, a, am, om), t)

(* The server answers under the request's transaction id and unit id.      *)
ServerAnswer ==
    /\ out # <<>> /\ reply = <<>>
    /\ \E pdu \in ReplyPdus(req) : reply' = RefAdu(tid, req.slave, pdu)
    /\ UNCHANGED <<req, tid, out, result>>

(* The handler reads and checks the reply, returns or throws.              *)
Receive ==
    /\ out # <<>> /\ reply # <<>>
    /\ result' = Decode(reply)
    /\ out' = <<>>
    /\ UNCHANGED <<req, tid, reply>>

Next ==
    \/ DoReadRegisters \/ DoPresetSingleRegister
    \/ DoPresetMultipleRegisters \/ DoMaskWrite4XRegister
    \/ ServerAnswer \/ Receive

Spec == Init /\ [][Next]_vars

-----------------------------------------------------------------------------
(* Every OutBuffer a handler writes is the Modbus/TCP ADU of its request:  *)
(* the context's transaction id, protocol 0, a Length field that counts    *)
(* what follows it, the unit id, then the PDU with every field, the byte   *)
(* count of PresetMultipleRegisters included, where the layout puts it.    *)
RequestFollowsLayout ==
    out # <<>> => out = RefAdu(tid, req.slave, RefRequestPdu(req))

(* ReadRegisters returns only a reply whose byte count matches the data it *)
(* carries, and then exactly the register values in it: GetPayloadLength   *)
(* stops CopyDataWord from running past the ReplyBuffer or misreading it.  *)
ReadReturnsReplyValues ==
    result.kind = "ok" /\ req.fc \in ReadFCs =>
        LET pdu == SubSeq(reply, 8, Len(reply)) IN
        /\ pdu[2] = Len(pdu) - 2 /\ pdu[2] % 2 = 0
        /\ result.data = [i \in 1..(pdu[2] \div 2) |-> pdu[2 * i + 1] * 256 + pdu[2 * i + 2]]

(* A TCP operation throws a slave exception only for a reply whose        *)
(* function code has bit 0x80 set, and the exception carries the code the *)
(* server sent after it: a typed exception for the eight standard codes,   *)
(* EProtocolException for any other value.                                 *)
TcpExceptionCarriesServerCode ==
    result.kind = "exception" =>
        LET pdu == SubSeq(reply, 8, Len(reply)) IN
        /\ pdu[1] >= 128
        /\ result.exc.code = pdu[2]
        /\ (result.exc.cls = "EProtocolException" <=> pdu[2] \notin 1..8)

=============================================================================
