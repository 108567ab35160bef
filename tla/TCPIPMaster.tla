---------------------------- MODULE TCPIPMaster ----------------------------
(***************************************************************************)
(* The Modbus/TCP master of ModbusTCP_IP.cpp over either transport of the  *)
(* library: TCPProtocolIndy (a byte stream read through Indy's InputBuffer) *)
(* or UDPProtocolIndy (one datagram received per request).  One caller     *)
(* thread; servers answer over the network.                                *)
(*                                                                         *)
(* Received bytes are a sequence of pieces: the 7-byte MBAP header of a    *)
(* reply, its PDU, or the tail of a piece a read cut in two.  Every piece  *)
(* carries the whole reply (adu) it belongs to; a read that starts at a    *)
(* header piece sees that reply's header, any other read sees garbage.     *)
(***************************************************************************)
EXTENDS Integers, Sequences, SequencesExt, ModbusRegisters

CONSTANTS
    Transport,     \* "tcp" or "udp"
    Slaves,        \* unit identifiers served
    Addrs, Values, \* registers of each unit and their values
    Requests,      \* the operations the caller may issue
    TidOf(_),      \* transaction id the caller's TCPIPContext gives op n
    ExcCodes,      \* exception codes a server may answer with
    BadLengths,    \* MBAP Length fields a faulty server may put in a header
    AllowLate,     \* may a reply arrive after the master's read timed out?
    MaxOps,        \* bound: operations issued
    MaxSessions,   \* bound: SessionManager scopes alive at once
    MaxFaults      \* bound: requests left unanswered, datagrams lost or doubled

VARIABLES
    conn,          \* Protocol::IsConnected()
    wire,          \* reply pieces sent by the servers, not yet arrived
    rx,            \* arrived and not yet taken: socket buffer / pending datagrams
    buf,           \* taken: Indy's InputBuffer / recvBuffer_ from recvBufferPos_
    inbox,         \* requests each server has and has not yet answered
    regs,          \* the servers' registers
    mstate,        \* where the caller is: idle, write, udprecv, hdr, pdu
    op, tid,       \* the current request and its transaction id
    rhdr,          \* the reply whose header the master accepted
    result,        \* what the last operation returned or threw
    opNo, faults,
    sessions       \* SessionManager objects alive, innermost last

vars == <<conn, wire, rx, buf, inbox, regs, mstate, op, tid, rhdr, result,
          opNo, faults, sessions>>

-----------------------------------------------------------------------------
(* Replies and pieces.                                                     *)

(* PDU length of each reply: function code plus what follows it.           *)
PduLen(r, isExc) ==
    CASE isExc                          -> 2
      [] r.fc \in ReadFCs               -> 2 + 2 * r.count
      [] r.fc = MaskWrite4XRegister     -> 7
      [] OTHER                          -> 5

(* A server's reply ADU; plen is the length of the PDU it sends and mlen  *)
(* the MBAP Length field, which a correct server sets to plen + 1.         *)
Adu(q, fc, exc, d, isExc) ==
    [tid |-> q.tid, unit |-> q.req.slave, mlen |-> PduLen(q.req, isExc) + 1,
     plen |-> PduLen(q.req, isExc),
     fc |-> fc, exc |-> exc, data |-> d, rid |-> q.rid, for |-> q.req]

NoAdu == [tid |-> 0, unit |-> 0, mlen |-> 0, plen |-> 0, fc |-> 0, exc |-> 0,
          data |-> <<>>, rid |-> 0, for |-> NoReq]

Pieces(a) == << [kind |-> "hdr", len |-> 7, adu |-> a],
                [kind |-> "pdu", len |-> a.plen, adu |-> a] >>

Bytes(s) == FoldLeft(LAMBDA acc, p : acc + p.len, 0, s)

(* The bytes left after a read of k bytes from the front of s.             *)
RECURSIVE DropBytes(_, _)
DropBytes(s, k) ==
    IF k = 0 THEN s
    ELSE IF Head(s).len <= k THEN DropBytes(Tail(s), k - Head(s).len)
    ELSE <<[Head(s) EXCEPT !.kind = "frag", !.len = @ - k]>> \o Tail(s)

-----------------------------------------------------------------------------
(* The framer.                                                             *)

(* What DoRead can see: TCP reads whatever has reached the socket; UDP     *)
(* only the datagram DoWrite received.                                     *)
Avail == IF Transport = "tcp" THEN buf \o rx ELSE buf

(* Mutant: the transaction identifiers are not compared.                  *)
BMAPIsEQNoTid(p) == p.kind = "hdr" /\ p.adu.unit = op.slave

(* RaiseExceptionIfBMAPIsNotEQ: same transaction id, protocol id 0 on both *)
(* sides, same unit id.  A header read out of step with the stream starts  *)
(* inside a PDU or a header and never matches.                             *)
BMAPIsEQ(p) ==
    /\ p.kind = "hdr"
    /\ p.adu.tid = tid
    /\ p.adu.unit = op.slave

(* SetLength( ReplyBuffer, GetBMAPDataLength( hdr ) - 1 ): the int -1 of a *)
(* Length field 0 becomes 65535 as the uint16_t argument of SetLength.     *)
PduReadLen(h) == (h.mlen - 1) % 2^16

(* Mutant: the exception bit of the function code is not tested.          *)
ReplyErrorNoException(a) ==
    CASE PduReadLen(rhdr) <= 1                  -> "short"
      [] a.fc # op.fc /\ a.fc < 128             -> "fcmismatch"
      [] op.fc \in ReadFCs /\ PduReadLen(rhdr) - 2 # 2 * Len(a.data) -> "framelength"
      [] OTHER                                  -> "none"

(* RaiseExceptionIfReplyIsNotValid, then for reads GetPayloadLength, on a  *)
(* ReplyBuffer of PduReadLen(rhdr) bytes that hold the reply a.            *)
ReplyError(a) ==
    CASE PduReadLen(rhdr) <= 1                  -> "short"
      [] a.fc >= 128                            -> "exception"
      [] a.fc # op.fc                           -> "fcmismatch"
      [] op.fc \in ReadFCs /\ PduReadLen(rhdr) - 2 # 2 * Len(a.data) -> "framelength"
      [] OTHER                                  -> "none"

(* CopyDataWord copies DataLength / 2 words into the caller's Data.        *)
CopiedWords(a) == IF op.fc \in ReadFCs THEN Len(a.data) ELSE 0

(* What DoInputBufferClear leaves of the arrived replies: TCP clears only  *)
(* what Indy already took, UDP reads one waiting datagram with timeout 0.  *)
InputBufferClear(r) ==
    IF Transport = "udp" /\ r # <<>> THEN SubSeq(r, 3, Len(r)) ELSE r

Outcome(kind, code, a) ==
    [op |-> op, rid |-> opNo, kind |-> kind, code |-> code, from |-> a,
     copied |-> CopiedWords(a)]

Finish(kind, code, a) ==
    /\ result' = Outcome(kind, code, a)
    /\ mstate' = "idle"

(* Without AllowLate a read gives up (TIdTCPClient.ReadTimeout, the UDP    *)
(* ReceiveTimeout) only when no reply is still on its way.                 *)
NothingInFlight ==
    AllowLate \/ (wire = <<>> /\ \A s \in Slaves : \A i \in 1..Len(inbox[s]) :
                                     ~inbox[s][i].answered)

(* Mutant: ReadTimeout left at Indy's default, which waits for ever.       *)
ReadTimesOutNever == FALSE

(* ReadTimeout = 2000 of TCPProtocolIndy's constructor.                    *)
ReadTimesOut == NothingInFlight

-----------------------------------------------------------------------------
Init ==
    /\ conn = FALSE
    /\ wire = <<>> /\ rx = <<>> /\ buf = <<>>
    /\ inbox = [s \in Slaves |-> <<>>]
    /\ regs \in [Slaves -> [Addrs -> Values]]
    /\ mstate = "idle"
    /\ op = NoReq /\ tid = 0 /\ rhdr = NoAdu
    /\ result = [op |-> NoReq, rid |-> 0, kind |-> "none", code |-> 0,
                 from |-> NoAdu, copied |-> 0]
    /\ opNo = 0 /\ faults = 0
    /\ sessions = 0

(* Protocol::Open when it returns: DoOpen (TIdTCPClient.Connect or         *)
(* TIdUDPClient.Active := true) runs only if not IsConnected().            *)
OpenOk == IF conn THEN UNCHANGED conn ELSE conn' = TRUE

(* Protocol::Open when DoOpen throws: Connect failed.                      *)
OpenThrows ==
    /\ ~conn /\ UNCHANGED conn
    /\ result' = [result EXCEPT !.kind = "openfail"]

(* DoClose: the socket goes, with everything buffered for it; servers     *)
(* still execute what they received, their answers to the old socket are  *)
(* lost.                                                                   *)
DropConnection ==
    /\ conn' = FALSE
    /\ wire' = <<>> /\ rx' = <<>> /\ buf' = <<>>
    /\ inbox' = [s \in Slaves |-> [i \in 1..Len(inbox[s]) |->
                                     [inbox[s][i] EXCEPT !.answered = FALSE]]]

(* Protocol::Close: DoClose only if IsConnected().                         *)
ProtocolClose ==
    IF conn THEN DropConnection ELSE UNCHANGED <<conn, wire, rx, buf, inbox>>

(* The caller calls Protocol::Open on a closed connection.                 *)
Open ==
    /\ mstate = "idle" /\ ~conn
    /\ \/ OpenOk /\ UNCHANGED result
       \/ OpenThrows
    /\ UNCHANGED <<wire, rx, buf, inbox, regs, mstate, op, tid, rhdr, opNo,
                   faults, sessions>>

(* The caller calls Protocol::Close on an open connection, inside a        *)
(* SessionManager scope or not; on a closed one it does nothing.           *)
Close ==
    /\ mstate = "idle" /\ conn
    /\ DropConnection
    /\ UNCHANGED <<regs, mstate, op, tid, rhdr, result, opNo, faults, sessions>>

(* A SessionManager is constructed: its constructor calls Open; when that  *)
(* throws, no object exists.                                               *)
EnterSession ==
    /\ mstate = "idle" /\ sessions < MaxSessions
    /\ \/ OpenOk /\ sessions' = sessions + 1 /\ UNCHANGED result
       \/ OpenThrows /\ UNCHANGED sessions
    /\ UNCHANGED <<wire, rx, buf, inbox, regs, mstate, op, tid, rhdr, opNo, faults>>

(* The innermost SessionManager goes out of scope: its destructor calls    *)
(* Close.                                                                  *)
LeaveSession ==
    /\ mstate = "idle" /\ sessions > 0
    /\ sessions' = sessions - 1
    /\ ProtocolClose
    /\ UNCHANGED <<regs, mstate, op, tid, rhdr, result, opNo, faults>>

(* The common start of a Do* operation: RaiseExceptionIfIsNotConnected,    *)
(* build the ADU, then DoInputBufferClear: TCP empties Indy's InputBuffer; *)
(* UDP resets its buffer and takes (drops) at most one datagram waiting.   *)
StartOp(r) ==
    /\ mstate = "idle" /\ opNo < MaxOps
    /\ op' = r
    /\ tid' = TidOf(opNo + 1)
    /\ IF conn
       THEN /\ buf' = <<>>
            /\ rx' = InputBufferClear(rx)
            /\ mstate' = "write"
            /\ UNCHANGED result
       ELSE /\ result' = [op |-> r, rid |-> opNo + 1, kind |-> "notconnected",
                          code |-> 0, from |-> NoAdu, copied |-> 0]
            /\ UNCHANGED <<buf, rx, mstate>>
    /\ opNo' = opNo + 1
    /\ UNCHANGED <<conn, wire, inbox, regs, rhdr, faults, sessions>>

(* The caller's operations, one per Do* handler of TCPIPProtocol.          *)
DoReadRegisters == \E r \in Requests : r.fc \in ReadFCs /\ StartOp(r)

DoPresetSingleRegister ==
    \E r \in Requests : r.fc = PresetSingleRegister /\ StartOp(r)

DoPresetMultipleRegisters ==
    \E r \in Requests : r.fc = PresetMultipleRegisters /\ StartOp(r)

DoMaskWrite4XRegister ==
    \E r \in Requests : r.fc = MaskWrite4XRegister /\ StartOp(r)

(* DoWrite: the request reaches the server, or, as a UDP datagram, is     *)
(* lost.  UDPProtocolIndy then waits for one datagram (udprecv).           *)
Write ==
    /\ mstate = "write"
    /\ \/ /\ inbox' = [inbox EXCEPT ![op.slave] =
                          Append(@, [req |-> op, tid |-> tid, rid |-> opNo,
                                     answered |-> TRUE])]
          /\ UNCHANGED faults
       \/ /\ Transport = "udp" /\ faults < MaxFaults
          /\ faults' = faults + 1
          /\ UNCHANGED inbox
    /\ mstate' = IF Transport = "udp" THEN "udprecv" ELSE "hdr"
    /\ UNCHANGED <<conn, wire, rx, buf, regs, op, tid, rhdr, result, opNo, sessions>>

(* ReceiveBuffer(recvBuffer_) in UDPProtocolIndy::DoWrite: the next        *)
(* datagram, or nothing once ReceiveTimeout expires.                       *)
UdpReceive ==
    /\ mstate = "udprecv"
    /\ \/ /\ rx # <<>>
          /\ buf' = SubSeq(rx, 1, 2)
          /\ rx' = SubSeq(rx, 3, Len(rx))
       \/ /\ rx = <<>> /\ ReadTimesOut
          /\ buf' = <<>>
          /\ UNCHANGED rx
    /\ mstate' = "hdr"
    /\ UNCHANGED <<conn, wire, inbox, regs, op, tid, rhdr, result, opNo, faults, sessions>>

(* DoRead of the 7-byte header, then RaiseExceptionIfBMAPIsNotEQ.  TCP     *)
(* blocks until 7 bytes are there; UDP throws "UDP read timeout" at once   *)
(* when the datagram is shorter.                                           *)
ReadHeader ==
    /\ mstate = "hdr"
    /\ Bytes(Avail) >= 7 \/ Transport = "udp"
    /\ IF Bytes(Avail) < 7
       THEN Finish("timeout", 0, NoAdu) /\ UNCHANGED <<buf, rx, rhdr>>
       ELSE /\ buf' = DropBytes(Avail, 7)
            /\ rx' = IF Transport = "tcp" THEN <<>> ELSE rx
            /\ IF BMAPIsEQ(Head(Avail))
               THEN /\ rhdr' = Head(Avail).adu
                    /\ mstate' = "pdu"
                    /\ UNCHANGED result
               ELSE Finish("bmap", 0, NoAdu) /\ UNCHANGED rhdr
    /\ UNCHANGED <<conn, wire, inbox, regs, op, tid, opNo, faults, sessions>>

(* DoRead of GetBMAPDataLength - 1 bytes, RaiseExceptionIfReplyIsNotValid  *)
(* and, for reads, CopyDataWord.                                           *)
ReadPdu ==
    /\ mstate = "pdu"
    /\ Bytes(Avail) >= PduReadLen(rhdr) \/ Transport = "udp"
    /\ IF Bytes(Avail) < PduReadLen(rhdr)
       THEN Finish("timeout", 0, NoAdu) /\ UNCHANGED <<buf, rx>>
       ELSE /\ buf' = DropBytes(Avail, PduReadLen(rhdr))
            /\ rx' = IF Transport = "tcp" THEN <<>> ELSE rx
            /\ LET a == IF Avail = <<>> THEN NoAdu ELSE Head(Avail).adu
                   err == ReplyError(a)
               IN IF err = "none"
                  THEN Finish("ok", 0, a)
                  ELSE Finish(err, a.exc, IF err = "exception" THEN a ELSE NoAdu)
    /\ UNCHANGED <<conn, wire, inbox, regs, op, tid, rhdr, opNo, faults, sessions>>

(* Indy's ReadBytes raises EIdReadTimeout when the bytes do not come; what *)
(* reached the socket stays in the InputBuffer.                            *)
TcpReadTimeout ==
    /\ Transport = "tcp" /\ mstate \in {"hdr", "pdu"}
    /\ Bytes(Avail) < IF mstate = "hdr" THEN 7 ELSE PduReadLen(rhdr)
    /\ ReadTimesOut
    /\ buf' = Avail /\ rx' = <<>>
    /\ Finish("timeout", 0, NoAdu)
    /\ UNCHANGED <<conn, wire, inbox, regs, op, tid, rhdr, opNo, faults, sessions>>

-----------------------------------------------------------------------------
(* The servers and the network.                                            *)

(* A server takes its oldest request and answers it normally or with an   *)
(* exception, or (a gateway whose device is offline) not at all.  A faulty *)
(* server may execute the request and send its reply under a header whose  *)
(* Length field is one of BadLengths.                                      *)
ServerAnswer ==
    \E s \in Slaves :
      /\ inbox[s] # <<>>
      /\ LET q == Head(inbox[s])
             Send(a) == wire' = IF q.answered THEN wire \o Pieces(a) ELSE wire
             normal == Adu(q, q.req.fc, 0,
                           IF q.req.fc \in ReadFCs
                           THEN ReadRange(regs[s], q.req.addr, q.req.count)
                           ELSE <<>>, FALSE)
         IN \/ /\ regs' = [regs EXCEPT ![s] = Apply(@, q.req)]
               /\ Send(normal)
               /\ UNCHANGED faults
            \/ /\ faults < MaxFaults /\ faults' = faults + 1
               /\ regs' = [regs EXCEPT ![s] = Apply(@, q.req)]
               /\ \E l \in BadLengths : Send([normal EXCEPT !.mlen = l])
            \/ /\ \E e \in ExcCodes : Send(Adu(q, q.req.fc + 128, e, <<>>, TRUE))
               /\ UNCHANGED <<regs, faults>>
            \/ /\ faults < MaxFaults /\ faults' = faults + 1
               /\ UNCHANGED <<regs, wire>>
      /\ inbox' = [inbox EXCEPT ![s] = Tail(@)]
      /\ UNCHANGED <<conn, rx, buf, mstate, op, tid, rhdr, result, opNo, sessions>>

(* TCP delivers the stream in order, a header and its PDU possibly in      *)
(* separate segments; UDP delivers whole datagrams, and may lose or        *)
(* duplicate one.                                                          *)
Arrive ==
    /\ wire # <<>>
    /\ \/ /\ Transport = "tcp"
          /\ rx' = Append(rx, Head(wire)) /\ wire' = Tail(wire)
          /\ UNCHANGED faults
       \/ /\ Transport = "udp"
          /\ rx' = rx \o SubSeq(wire, 1, 2) /\ wire' = SubSeq(wire, 3, Len(wire))
          /\ UNCHANGED faults
       \/ /\ Transport = "udp" /\ faults < MaxFaults
          /\ faults' = faults + 1
          /\ \/ rx' = rx \o SubSeq(wire, 1, 2) /\ UNCHANGED wire
             \/ wire' = SubSeq(wire, 3, Len(wire)) /\ UNCHANGED rx
    /\ UNCHANGED <<conn, buf, inbox, regs, mstate, op, tid, rhdr, result, opNo, sessions>>

Caller == Open \/ Close \/ EnterSession \/ LeaveSession
          \/ DoReadRegisters \/ DoPresetSingleRegister
          \/ DoPresetMultipleRegisters \/ DoMaskWrite4XRegister

Master == Caller \/ Write \/ UdpReceive \/ ReadHeader \/ ReadPdu \/ TcpReadTimeout
Next == Master \/ ServerAnswer \/ Arrive

Spec == Init /\ [][Next]_vars

-----------------------------------------------------------------------------
(* Refinement of ModbusTransaction.  The request of the operation under    *)
(* way counts as sent while DoWrite has not yet run; the requests in the   *)
(* servers' inboxes are the rest.  The replies are the normal answers      *)
(* still in the network, the socket or Indy's buffer.                      *)
PendingOp == IF mstate = "idle" THEN [req |-> NoReq, rid |-> 0]
                                ELSE [req |-> op, rid |-> opNo]

SentReqs ==
    {[req |-> e.req, rid |-> e.rid, try |-> 1] :
        e \in UNION {Range(inbox[s]) : s \in Slaves}}
    \cup (IF mstate = "write" THEN {[req |-> op, rid |-> opNo, try |-> 1]} ELSE {})

UnreadReplies ==
    {[rid |-> p.adu.rid, data |-> p.adu.data] :
        p \in {p \in Range(wire \o rx \o buf) : p.adu.fc < 128}}

LastOk == IF result.kind = "ok" THEN [rid |-> result.rid, data |-> result.from.data]
                                ELSE [rid |-> 0, data |-> <<>>]

Txn == INSTANCE ModbusTransaction
         WITH calls <- opNo, pending <- PendingOp, sent <- SentReqs,
              replies <- UnreadReplies, lastOk <- LastOk

(* The caller thread always takes its next step, a server eventually takes *)
(* up a request, the network eventually moves what it carries.             *)
FairSpec == Spec /\ WF_vars(Master) /\ WF_vars(ServerAnswer) /\ WF_vars(Arrive)

-----------------------------------------------------------------------------
(* ReadRegisters -> CopyDataWord: a read that returns normally has written *)
(* exactly PointCount words into the caller's Data array, never more.      *)
ReadDataFitsBuffer ==
    result.kind = "ok" /\ result.op.fc \in ReadFCs => result.copied = result.op.count

(* RaiseExceptionIfBMAPIsNotEQ: the reply an operation accepts, whether it *)
(* returns its data or RaiseStandardException throws its exception code,  *)
(* is the server's answer to that operation's own request, not a late or  *)
(* duplicated answer to an earlier one.                                    *)
AcceptedReplyAnswersRequest ==
    result.kind \in {"ok", "exception"} => result.from.rid = result.rid

(* The Do* operations: when one returns normally, a read returned the     *)
(* unit's registers and a write's values are in place.                    *)
CompletedOpReflectsSlave ==
    [][mstate # "idle" /\ mstate' = "idle" /\ result'.kind = "ok" =>
         Reflects(op, result'.from, regs'[op.slave])]_vars

(* The master implements ModbusTransaction: an operation that returns     *)
(* normally returns the reply of an execution of its own request, however  *)
(* late, lost or duplicated the network's answers are.                     *)
TransactionRefinement == Txn!Spec

(* Every operation returns or throws: DoRead never blocks for ever.        *)
EveryOperationReturns == (mstate # "idle") ~> (mstate = "idle")

=============================================================================
