----------------------------- MODULE RTUMaster -----------------------------
(***************************************************************************)
(* The Modbus RTU master of ModbusRTU.h / ModbusRTU.cpp: one RTUProtocol   *)
(* used by one caller thread, the TCommPort it owns (CommPort.cpp), the    *)
(* RS-485 line and the slaves that answer on it.                           *)
(*                                                                         *)
(* A frame is a record, not a byte string: it keeps the fields the master  *)
(* compares (slave address, function code, echoed fields, register data),  *)
(* its length in bytes, which decides how the byte-by-byte receive loop    *)
(* lines up with it, and whether its CRC is intact.  The ghost fields src, *)
(* rid and for record who sent a frame and in answer to which request.     *)
(***************************************************************************)
EXTENDS Integers, Sequences, SequencesExt, ModbusRegisters

CONSTANTS
    Slaves,        \* slave addresses present on the bus
    Addrs,         \* register addresses, an interval 0..n
    Values,        \* register values; {0,1}: one-bit registers
    Requests,      \* the operations the caller may issue (ReadReq, ...)
    RetryCount,    \* RTUProtocol::retryCount_
    CancelTXEcho,  \* RTUProtocol::cancelTXEcho_; the line echoes TX iff TRUE
    ExcCodes,      \* exception codes the slaves may answer with
    AllowLate,     \* may a reply arrive after the master's read timed out?
    MaxPoints,     \* the register limit of DoPresetMultipleRegisters (123)
    MaxOps,        \* bound: operations the caller issues
    MaxFaults      \* bound: frames lost or garbled, hard I/O errors

ASSUME RetryCount \in Nat /\ CancelTXEcho \in BOOLEAN /\ AllowLate \in BOOLEAN

VARIABLES
    portOpen,      \* TCommPort::m_CommOpen
    line,          \* frames received by the port and not yet read
    inbox,         \* requests each slave has received and not yet answered
    regs,          \* the slaves' registers
    mstate,        \* where the caller is in SendAndReceiveFramesInt
    op,            \* the request being executed
    attempt,       \* Idx + 1 of the loop in SendAndReceiveFrames
    attemptErrs,   \* ghost: why each failed attempt of op failed
    result,        \* what the last operation returned or threw
    opNo,          \* operations issued so far
    faults         \* faults injected so far

vars == <<portOpen, line, inbox, regs, mstate, op, attempt, attemptErrs,
          result, opNo, faults>>

-----------------------------------------------------------------------------

(* Length in bytes of the TX frame each operation builds.                  *)
TxLen(r) ==
    CASE r.fc \in ReadFCs                -> 8
      [] r.fc = PresetSingleRegister     -> 8
      [] r.fc = PresetMultipleRegisters  -> 9 + 2 * r.count
      [] r.fc = MaskWrite4XRegister      -> 10

(* ExpectedRxFramelength passed to SendAndReceiveFrames.                   *)
ExpectedRxLen(r) ==
    CASE r.fc \in ReadFCs                -> 5 + 2 * r.count
      [] r.fc = PresetSingleRegister     -> 8
      [] r.fc = PresetMultipleRegisters  -> 8
      [] r.fc = MaskWrite4XRegister      -> 10

(* DoPresetMultipleRegisters refuses more than 123 points before sending.  *)
TooManyPoints(r) == r.fc = PresetMultipleRegisters /\ r.count > MaxPoints

-----------------------------------------------------------------------------
(* Frames.                                                                 *)
Frame(src, s, fc, exc, a, n, d, am, om, len, rid, for) ==
    [src |-> src, slave |-> s, fc |-> fc, exc |-> exc, addr |-> a,
     count |-> n, data |-> d, andm |-> am, orm |-> om, len |-> len,
     crcOk |-> TRUE, rid |-> rid, for |-> for]

NoFrame == Frame("none", 0, 0, 0, 0, 0, <<>>, 0, 0, 0, <<0, 0>>, NoReq)

(* The TX frame itself, as the half-duplex line echoes it back.            *)
EchoFrame(r, rid) ==
    Frame("echo", r.slave, r.fc, 0, r.addr,
          IF r.fc \in ReadFCs \cup {PresetMultipleRegisters} THEN r.count ELSE 0,
          IF r.fc \in {PresetSingleRegister, PresetMultipleRegisters}
            THEN r.data ELSE <<>>,
          r.andm, r.orm, TxLen(r), rid, r)

(* A slave's normal answer: read data, or the echo of the write request.   *)
ReplyFrame(r, m, rid) ==
    IF r.fc \in ReadFCs
    THEN Frame("slave", r.slave, r.fc, 0, 0, r.count,
               ReadRange(m, r.addr, r.count), 0, 0, ExpectedRxLen(r), rid, r)
    ELSE Frame("slave", r.slave, r.fc, 0, r.addr,
               IF r.fc = PresetMultipleRegisters THEN r.count ELSE 0,
               IF r.fc = PresetSingleRegister THEN r.data ELSE <<>>,
               r.andm, r.orm, ExpectedRxLen(r), rid, r)

(* [addr][fc | 0x80][code][crc lo][crc hi]                                 *)
ExceptionFrame(r, e, rid) ==
    Frame("slave", r.slave, r.fc + 128, e, 0, 0, <<>>, 0, 0, 5, rid, r)

-----------------------------------------------------------------------------
(* The master side.                                                        *)

(* Mutants: the loop bound off by one either way.                          *)
NoThrowPastLast(a) == a - 1 <= RetryCount
NoThrowOffByOne(a) == a < RetryCount

(* SendAndReceiveFrames passes NoThrow = Idx < RetryCount.                 *)
NoThrow(a) == a - 1 < RetryCount

(* Bytes the receive loop reads: RxFramelength, set to 5 once the byte at  *)
(* index 1 has its high bit set.                                           *)
RxFramelength(f) == IF f.fc >= 128 THEN 5 ELSE ExpectedRxLen(op)

(* Mutants: the CRC result ignored; the slave address not compared.        *)
FrameErrorNoCrc(f) ==
    CASE f.len # RxFramelength(f) -> "crc"
      [] f.slave # op.slave       -> "slaveaddr"
      [] f.fc # op.fc             -> IF f.fc >= 128 THEN "exception" ELSE "fcmismatch"
      [] OTHER                    -> "none"
FrameErrorNoSlave(f) ==
    CASE f.len # RxFramelength(f) \/ ~f.crcOk -> "crc"
      [] f.fc # op.fc                         ->
            IF f.fc >= 128 THEN "exception" ELSE "fcmismatch"
      [] OTHER                                -> "none"

(* Why SendAndReceiveFramesInt rejects frame f, in the order it checks:    *)
(* the CRC over the bytes read (a frame the loop does not line up with     *)
(* fails it), the slave address, the function code.                        *)
FrameError(f) ==
    CASE f.len # RxFramelength(f) \/ ~f.crcOk -> "crc"
      [] f.slave # op.slave                   -> "slaveaddr"
      [] f.fc # op.fc                         ->
            IF f.fc >= 128 THEN "exception" ELSE "fcmismatch"
      [] OTHER                                -> "none"

(* The checks each operation makes on the payload SendAndReceiveFrames     *)
(* hands back.                                                             *)
ReadRegistersCheck(r, f) ==
    IF 2 * f.count # ExpectedRxLen(r) - 5 THEN "bytecount" ELSE "ok"
PresetSingleRegisterCheck(r, f) ==
    IF f.addr # r.addr \/ f.data # r.data THEN "echo" ELSE "ok"
PresetMultipleRegistersCheck(r, f) ==
    IF f.addr # r.addr \/ f.count # r.count THEN "echo" ELSE "ok"
MaskWrite4XRegisterCheck(r, f) ==
    IF f.addr # r.addr \/ f.andm # r.andm \/ f.orm # r.orm THEN "echo" ELSE "ok"

OpCheck(r, f) ==
    CASE r.fc \in ReadFCs               -> ReadRegistersCheck(r, f)
      [] r.fc = PresetSingleRegister    -> PresetSingleRegisterCheck(r, f)
      [] r.fc = PresetMultipleRegisters -> PresetMultipleRegistersCheck(r, f)
      [] r.fc = MaskWrite4XRegister     -> MaskWrite4XRegisterCheck(r, f)

Outcome(r, kind, code, n, f) ==
    [op |-> r, kind |-> kind, code |-> code, attempts |-> n, from |-> f]

(* The operation returns (kind "ok") or throws.                            *)
Finish(kind, code, f) ==
    /\ result' = Outcome(op, kind, code, attempt, f)
    /\ mstate' = "idle"

(* SendAndReceiveFramesInt returned false, or threw on the last attempt;  *)
(* f is the frame the throw was about, if any.                             *)
AttemptFailed(kind, code, f) ==
    /\ attemptErrs' = Append(attemptErrs, kind)
    /\ IF NoThrow(attempt)
       THEN /\ attempt' = attempt + 1
            /\ mstate' = "purge"
            /\ UNCHANGED result
       ELSE /\ Finish(kind, code, f)
            /\ UNCHANGED attempt

(* Without AllowLate the master stops reading, on a timeout or an I/O     *)
(* error, only when no answer is still on its way.                         *)
NothingInFlight == AllowLate \/ \A s \in Slaves : inbox[s] = <<>>
ReadTimesOut == line = <<>> /\ NothingInFlight

-----------------------------------------------------------------------------
Init ==
    /\ portOpen = FALSE
    /\ line = <<>>
    /\ inbox = [s \in Slaves |-> <<>>]
    /\ regs \in [Slaves -> [Addrs -> Values]]
    /\ mstate = "idle"
    /\ op = NoReq
    /\ attempt = 1
    /\ attemptErrs = <<>>
    /\ result = Outcome(NoReq, "none", 0, 0, NoFrame)
    /\ opNo = 0
    /\ faults = 0

(* Protocol::Open -> RTUProtocol::DoOpen -> TCommPort::OpenCommPort: any   *)
(* of CreateFile, GetCommState, SetCommState, SetupComm, SetCommTimeouts   *)
(* may fail, and then the port stays closed.                               *)
Open ==
    /\ mstate = "idle" /\ ~portOpen
    /\ \/ /\ portOpen' = TRUE
          /\ UNCHANGED result
       \/ /\ result' = Outcome(NoReq, "openfail", 0, 0, NoFrame)
          /\ UNCHANGED portOpen
    /\ UNCHANGED <<line, inbox, regs, mstate, op, attempt, attemptErrs,
                   opNo, faults>>

(* Protocol::Close -> TCommPort::CloseCommPort: the handle and whatever it *)
(* had buffered are gone.                                                  *)
Close ==
    /\ mstate = "idle" /\ portOpen
    /\ portOpen' = FALSE
    /\ line' = <<>>
    /\ UNCHANGED <<inbox, regs, mstate, op, attempt, attemptErrs, result,
                   opNo, faults>>

(* The caller invokes a public operation of Protocol, which calls its Do*  *)
(* handler; the attempt loop starts afresh.                                *)
StartOp(r) ==
    /\ mstate = "idle" /\ opNo < MaxOps
    /\ op' = r
    /\ opNo' = opNo + 1
    /\ attempt' = 1
    /\ attemptErrs' = <<>>
    /\ UNCHANGED <<portOpen, line, inbox, regs, faults>>

(* The handler has built TxFrame and calls SendAndReceiveFrames.           *)
SendFrame ==
    /\ mstate' = "purge"
    /\ UNCHANGED result

(* The caller's operations, one per handler of RTUProtocol.                *)
DoReadRegisters ==
    \E r \in Requests : r.fc \in ReadFCs /\ StartOp(r) /\ SendFrame

DoPresetSingleRegister ==
    \E r \in Requests : r.fc = PresetSingleRegister /\ StartOp(r) /\ SendFrame

(* More than 123 points throw before any frame is built.                  *)
DoPresetMultipleRegisters ==
    \E r \in Requests :
      /\ r.fc = PresetMultipleRegisters /\ StartOp(r)
      /\ \/ /\ TooManyPoints(r)
            /\ result' = Outcome(r, "args", 0, 0, NoFrame)
            /\ UNCHANGED mstate
         \/ ~TooManyPoints(r) /\ SendFrame

DoMaskWrite4XRegister ==
    \E r \in Requests : r.fc = MaskWrite4XRegister /\ StartOp(r) /\ SendFrame

(* commPort_.PurgeCommPort(): VerifyOpen throws on a closed port, else the *)
(* bytes received so far are dropped.                                      *)
Purge ==
    /\ mstate = "purge"
    /\ IF portOpen
       THEN /\ line' = <<>>
            /\ mstate' = "write"
            /\ UNCHANGED result
       ELSE /\ Finish("notopen", 0, NoFrame)
            /\ UNCHANGED line
    /\ UNCHANGED <<portOpen, inbox, regs, op, attempt, attemptErrs, opNo, faults>>

(* commPort_.WriteBuffer(TxFrame): the request reaches the slave or is     *)
(* lost on the wire; a half-duplex line echoes it into the input buffer.   *)
Write ==
    /\ mstate = "write"
    /\ LET rid == <<opNo, attempt>> IN
       /\ \/ /\ inbox' = [inbox EXCEPT ![op.slave] =
                              Append(@, [req |-> op, rid |-> rid])]
             /\ UNCHANGED faults
          \/ /\ faults < MaxFaults
             /\ faults' = faults + 1
             /\ UNCHANGED inbox
       /\ line' = IF CancelTXEcho THEN Append(line, EchoFrame(op, rid)) ELSE line
    /\ mstate' = IF CancelTXEcho THEN "echo" ELSE "recv"
    /\ UNCHANGED <<portOpen, regs, op, attempt, attemptErrs, result, opNo>>

(* Mutant: the echo is not drained before the receive loop.               *)
CancelEchoSkipped ==
    /\ mstate = "echo"
    /\ mstate' = "recv"
    /\ UNCHANGED <<portOpen, line, inbox, regs, op, attempt, attemptErrs,
                   result, opNo, faults>>

(* The CancelTXEcho loop reads TxFrame.size() bytes and never looks at     *)
(* them; a frame of another length leaves the receive loop out of step.    *)
CancelEcho ==
    /\ mstate = "echo" /\ line # <<>>
    /\ line' = Tail(line)
    /\ IF Head(line).len = TxLen(op)
       THEN /\ mstate' = "recv"
            /\ UNCHANGED <<attempt, attemptErrs, result>>
       ELSE AttemptFailed("crc", 0, NoFrame)
    /\ UNCHANGED <<portOpen, inbox, regs, op, opNo, faults>>

EchoTimeout ==
    /\ mstate = "echo" /\ ReadTimesOut
    /\ AttemptFailed("timeout", 0, NoFrame)
    /\ UNCHANGED <<portOpen, line, inbox, regs, op, opNo, faults>>

(* The receive loop, then the CRC, address and function code checks; on   *)
(* success the operation checks the payload and returns.                   *)
Receive ==
    /\ mstate = "recv" /\ line # <<>>
    /\ LET f == Head(line) IN
       /\ line' = Tail(line)
       /\ IF FrameError(f) = "none"
          THEN /\ Finish(OpCheck(op, f), 0, f)
               /\ UNCHANGED <<attempt, attemptErrs>>
          ELSE AttemptFailed(FrameError(f), f.exc, f)
    /\ UNCHANGED <<portOpen, inbox, regs, op, opNo, faults>>

(* ReadBytes returned 0 bytes: "Timeout error" on the last attempt.        *)
ReceiveTimeout ==
    /\ mstate = "recv" /\ ReadTimesOut
    /\ AttemptFailed("timeout", 0, NoFrame)
    /\ UNCHANGED <<portOpen, line, inbox, regs, op, opNo, faults>>

(* PurgeComm, WriteFile or ReadFile fails: TCommPort throws ECommError,    *)
(* which SendAndReceiveFramesInt does not catch, whatever NoThrow says.    *)
HardIOError ==
    /\ mstate \in {"purge", "write", "echo", "recv"} /\ portOpen
    /\ faults < MaxFaults /\ NothingInFlight
    /\ faults' = faults + 1
    /\ Finish("io", 0, NoFrame)
    /\ UNCHANGED <<portOpen, line, inbox, regs, op, attempt, attemptErrs, opNo>>

-----------------------------------------------------------------------------
(* The environment: slaves and the line.                                   *)

(* A slave answers its oldest request, normally or with an exception; the *)
(* answer lands in the master's input buffer if the port is open.          *)
SlaveAnswer ==
    \E s \in Slaves :
      /\ inbox[s] # <<>>
      /\ LET rq == Head(inbox[s])
             Deliver(f) == line' = IF portOpen THEN Append(line, f) ELSE line
         IN \/ /\ regs' = [regs EXCEPT ![s] = Apply(@, rq.req)]
               /\ Deliver(ReplyFrame(rq.req, regs[s], rq.rid))
            \/ /\ \E e \in ExcCodes : Deliver(ExceptionFrame(rq.req, e, rq.rid))
               /\ UNCHANGED regs
      /\ inbox' = [inbox EXCEPT ![s] = Tail(@)]
      /\ UNCHANGED <<portOpen, mstate, op, attempt, attemptErrs, result,
                     opNo, faults>>

(* Noise drops a frame, or garbles one so that its CRC no longer checks.   *)
LineFault ==
    /\ faults < MaxFaults
    /\ \E i \in 1..Len(line) :
         \/ line' = RemoveAt(line, i)
         \/ \E d \in [1..Len(line[i].data) -> Values] :
              line' = [line EXCEPT ![i].crcOk = FALSE, ![i].data = d]
    /\ faults' = faults + 1
    /\ UNCHANGED <<portOpen, inbox, regs, mstate, op, attempt, attemptErrs,
                   result, opNo>>

Next ==
    \/ Open \/ Close
    \/ DoReadRegisters \/ DoPresetSingleRegister
    \/ DoPresetMultipleRegisters \/ DoMaskWrite4XRegister
    \/ Purge \/ Write \/ CancelEcho \/ EchoTimeout
    \/ Receive \/ ReceiveTimeout \/ HardIOError
    \/ SlaveAnswer \/ LineFault

Spec == Init /\ [][Next]_vars

-----------------------------------------------------------------------------
(* Refinement of ModbusTransaction.  Frames carry <<operation, attempt>>;  *)
(* the abstract request id is the operation.  A request counts as sent     *)
(* from Purge until WriteBuffer; the replies are the slaves' normal        *)
(* answers in the input buffer whose CRC holds.                            *)
PendingOp == IF mstate = "idle" THEN [req |-> NoReq, rid |-> 0]
                                ELSE [req |-> op, rid |-> opNo]

SentReqs ==
    {[req |-> e.req, rid |-> e.rid[1], try |-> e.rid[2]] :
        e \in UNION {Range(inbox[s]) : s \in Slaves}}
    \cup (IF mstate = "write" THEN {[req |-> op, rid |-> opNo, try |-> attempt]}
                              ELSE {})

(* What a reply returns to the caller: the registers a read copied; a     *)
(* write's echoed fields return nothing.                                   *)
Returned(f) == IF f.fc \in ReadFCs THEN f.data ELSE <<>>

UnreadReplies ==
    {[rid |-> f.rid[1], data |-> Returned(f)] :
        f \in {f \in Range(line) : f.src = "slave" /\ f.fc < 128 /\ f.crcOk}}

LastOk ==
    IF result.kind = "ok" THEN [rid |-> result.from.rid[1], data |-> Returned(result.from)]
                                ELSE [rid |-> 0, data |-> <<>>]

Txn == INSTANCE ModbusTransaction
         WITH calls <- opNo, pending <- PendingOp, sent <- SentReqs,
              replies <- UnreadReplies, lastOk <- LastOk

-----------------------------------------------------------------------------
Kinds == {"none", "ok", "args", "openfail", "notopen", "io", "timeout", "crc",
          "slaveaddr", "fcmismatch", "exception", "bytecount", "echo"}
(* Failures SendAndReceiveFramesInt reports by returning false.            *)
RetriedKinds == {"timeout", "crc", "slaveaddr", "fcmismatch", "exception"}

TypeOK ==
    /\ portOpen \in BOOLEAN
    /\ mstate \in {"idle", "purge", "write", "echo", "recv"}
    /\ op \in Requests \cup {NoReq}
    /\ attempt \in 1..(RetryCount + 1)
    /\ attemptErrs \in Seq(RetriedKinds)
    /\ result.kind \in Kinds /\ result.attempts \in 0..(RetryCount + 1)
    /\ opNo \in 0..MaxOps /\ faults \in 0..MaxFaults
    /\ regs \in [Slaves -> [Addrs -> Values]]

(* SendAndReceiveFrames: an operation that fails with an error of the      *)
(* retried kinds has made exactly RetryCount + 1 attempts, every one of    *)
(* them failed, and the caller sees the error of the last one.             *)
RetriesExhaustedBeforeFailure ==
    mstate = "idle" /\ result.kind \in RetriedKinds =>
        /\ result.attempts = RetryCount + 1
        /\ Len(attemptErrs) = RetryCount + 1
        /\ Last(attemptErrs) = result.kind

(* ReadRegisters and the Preset/MaskWrite operations: when one returns     *)
(* without an exception, the reply it accepted tells the truth about the   *)
(* addressed slave at that moment.                                         *)
CompletedOpReflectsSlave ==
    [][mstate # "idle" /\ mstate' = "idle" /\ result'.kind = "ok" =>
         Reflects(op, result'.from, regs'[op.slave])]_vars

(* The CancelTXEcho loop of SendAndReceiveFramesInt: the master never      *)
(* accepts its own echoed request as the slave's reply.                    *)
EchoNeverTakenAsReply == result.kind = "ok" => result.from.src # "echo"

(* SendAndReceiveFramesInt's address, function code and echo checks: an    *)
(* accepted reply comes from the addressed slave, for a request of the     *)
(* same function code and with the same echoed fields, even when replies   *)
(* to earlier attempts or operations arrive late.                          *)
AcceptedReplyMatchesRequest ==
    result.kind = "ok" =>
        /\ result.from.slave = result.op.slave
        /\ result.from.for.fc = result.op.fc
        /\ result.op.fc \in {PresetSingleRegister, MaskWrite4XRegister} =>
              result.from.for = result.op

(* The master implements ModbusTransaction: an operation that returns     *)
(* normally returns the reply of an execution of its own request, across  *)
(* retries, echoes, lost and garbled frames.                               *)
TransactionRefinement == Txn!Spec

(* spec.md 7: "this engine itself retries only transport-classified        *)
(* failures": a slave's exception reply ends the operation.                *)
SlaveExceptionNotRetried ==
    mstate # "idle" => \A i \in 1..Len(attemptErrs) : attemptErrs[i] # "exception"

(* SendAndReceiveFramesInt raises a slave exception only for the          *)
(* operation it answers: a frame thrown as an exception is a slave's        *)
(* answer to a request with the operation's function code.                 *)
ExceptionAnswersOperation ==
    result.kind = "exception" => result.from.for.fc = result.op.fc

(* spec.md 4.2 step 2: "On all but the final attempt, I/O failures are     *)
(* swallowed and the attempt is retried".                                  *)
IOFailureRetried == result.kind = "io" => result.attempts = RetryCount + 1

=============================================================================
