----------------------------- MODULE CommPortIO -----------------------------
(***************************************************************************)
(* The byte I/O of TCommPort (CommPort.cpp): WriteBuffer,                  *)
(* WriteBufferSlowly, WriteString, PutByte, ReadBytes, DiscardBytes,       *)
(* PurgeCommPort, GetByte and ReadString with its GetByte loop.  The       *)
(* driver's input queue fills from the line between the caller's calls;   *)
(* the caller is one thread, so a ReadString runs its loop to the end     *)
(* before anything else of TCommPort is called.  commOpen is m_CommOpen,   *)
(* owned by CommPort: every call here starts with VerifyOpen, and a call   *)
(* on a closed port throws before it changes anything.                     *)
(*                                                                         *)
(* ReadFile on an empty queue waits ReadTotalTimeoutConstant and succeeds  *)
(* with no byte.  GetByte then returns its local `value` uninitialized:    *)
(* the model lets that be any byte value.                                  *)
(***************************************************************************)
EXTENDS Integers, Sequences, SequencesExt

CONSTANTS
    Bytes,          \* byte values that arrive on the line
    MaxBytesVals,   \* MaxBytes arguments of ReadString; the caller's str has the largest
    ReadCounts,     \* MaxBytes arguments of ReadBytes and DiscardBytes
    Bufs,           \* buffers passed to the write calls
    MaxArrive,      \* bytes the line delivers per behaviour
    MaxIoFaults     \* Win32 calls that fail per behaviour

NUL == 0
CR  == 13
LF  == 10
Junk == -1          \* a byte of str nothing has written yet

VARIABLES
    commOpen,   \* m_CommOpen
    rx,         \* the driver's input queue
    tx,         \* the bytes the last write call put on the line
    want,       \* ghost: the bytes that call was asked to write
    wstatus,    \* ghost: "ok" if it returned, "error" if it threw
    str,        \* the caller's buffer passed to ReadString, indexed from 0
    rs,         \* ReadString: pc, MaxBytes, Index and the value returned
    got,        \* ghost: the bytes other than \r and \n the current ReadString
                \* took from the queue
    timedOut,   \* ghost: some GetByte of that ReadString timed out
    arrived, ioFaults

ioVars == <<rx, tx, want, wstatus, str, rs, got, timedOut, arrived, ioFaults>>
vars == <<commOpen, ioVars>>

StrLen == Max(MaxBytesVals)
RsIdle(ret) == [pc |-> "idle", max |-> 0, idx |-> 0, ret |-> ret]
Idle == rs.pc = "idle"
Transient == ioFaults < MaxIoFaults

-----------------------------------------------------------------------------
(* One WriteFile of buf.  It writes all of buf and returns TRUE; or       *)
(* WriteTotalTimeoutConstant (multiplier 0, set by OpenCommPort) expires   *)
(* after a prefix and it still returns TRUE, and the caller ignores the    *)
(* count in dummy; or it fails after a prefix and the call throws          *)
(* WRITE_ERROR.  Timeouts and failures share the fault budget.             *)
WriteFileCall(buf) ==
    /\ want' = buf
    /\ \/ tx' = buf /\ wstatus' = "ok" /\ UNCHANGED ioFaults
       \/ /\ Transient /\ ioFaults' = ioFaults + 1
          /\ \E k \in 0..Len(buf) - 1 : tx' = SubSeq(buf, 1, k)
          /\ wstatus' \in {"ok", "error"}

WriteBuffer ==
    /\ commOpen /\ Idle
    /\ \E b \in Bufs :
         IF b = <<>> THEN want' = <<>> /\ tx' = <<>> /\ wstatus' = "ok" /\ UNCHANGED ioFaults
         ELSE WriteFileCall(b)
    /\ UNCHANGED <<commOpen, rx, str, rs, got, timedOut, arrived>>

SlowlySent(b, k, skip) ==
    LET sent == SetToSortSeq((1..k) \ skip, LAMBDA i, j : i < j)
    IN  [i \in 1..Len(sent) |-> b[sent[i]]]

(* One WriteFile of one byte, then FlushCommPort, per byte.  A WriteFile   *)
(* may time out and return TRUE with nothing written.  The call throws    *)
(* when a WriteFile fails (WRITE_ERROR) after k bytes, or FlushCommPort    *)
(* fails (FLUSHFILEBUFFERS) after the k-th byte went out.                  *)
WriteBufferSlowly ==
    /\ commOpen /\ Idle
    /\ \E b \in Bufs : \E k \in 0..Len(b), thrown \in BOOLEAN, skip \in SUBSET (1..Len(b)) :
         LET used == Cardinality(skip) + (IF thrown THEN 1 ELSE 0)
         IN /\ thrown => b # <<>>
            /\ ~thrown => k = Len(b)
            /\ skip \subseteq 1..k
            /\ ioFaults + used <= MaxIoFaults
            /\ ioFaults' = ioFaults + used
            /\ want' = b
            /\ tx' = SlowlySent(b, k, skip)
            /\ wstatus' = IF thrown THEN "error" ELSE "ok"
    /\ UNCHANGED <<commOpen, rx, str, rs, got, timedOut, arrived>>

(* WriteString writes strlen( outString ) bytes: the C string ends at the  *)
(* first NUL.                                                              *)
CString(b) ==
    LET z == SelectInSeq(b \o <<NUL>>, LAMBDA c : c = NUL) IN SubSeq(b, 1, z - 1)

WriteString ==
    /\ commOpen /\ Idle
    /\ \E b \in Bufs : WriteFileCall(CString(b))
    /\ UNCHANGED <<commOpen, rx, str, rs, got, timedOut, arrived>>

PutByte ==
    /\ commOpen /\ Idle
    /\ \E v \in Bytes : WriteFileCall(<<v>>)
    /\ UNCHANGED <<commOpen, rx, str, rs, got, timedOut, arrived>>

(* ReadFile of up to n bytes: what the queue holds when the timeout        *)
(* expires, or READ_ERROR.                                                 *)
ReadFileCall(n) ==
    \/ rx' = SubSeq(rx, Min({n, Len(rx)}) + 1, Len(rx)) /\ UNCHANGED ioFaults
    \/ Transient /\ ioFaults' = ioFaults + 1 /\ UNCHANGED rx

ReadBytes ==
    /\ commOpen /\ Idle
    /\ \E n \in ReadCounts : ReadFileCall(n)
    /\ UNCHANGED <<commOpen, tx, want, wstatus, str, rs, got, timedOut, arrived>>

DiscardBytes ==
    /\ commOpen /\ Idle
    /\ \E n \in ReadCounts : n > 0 /\ ReadFileCall(n)
    /\ UNCHANGED <<commOpen, tx, want, wstatus, str, rs, got, timedOut, arrived>>

(* PurgeComm( PURGE_RXCLEAR ) empties the queue, or throws PURGECOMM.      *)
PurgeCommPort ==
    /\ commOpen /\ Idle
    /\ \/ rx' = <<>> /\ UNCHANGED ioFaults
       \/ Transient /\ ioFaults' = ioFaults + 1 /\ UNCHANGED rx
    /\ UNCHANGED <<commOpen, tx, want, wstatus, str, rs, got, timedOut, arrived>>

-----------------------------------------------------------------------------
(* ReadString up to its loop: MaxBytes 0 returns 0; otherwise str[0] = 0,  *)
(* then BytesAvailable (ClearCommError may throw) returns 0 on an empty    *)
(* queue.                                                                  *)
ReadStringStart ==
    /\ commOpen /\ Idle
    /\ \E m \in MaxBytesVals :
         IF m = 0 THEN rs' = RsIdle(0) /\ UNCHANGED <<str, got, timedOut, ioFaults>>
         ELSE /\ str' = [str EXCEPT ![0] = NUL]
              /\ \/ Transient /\ ioFaults' = ioFaults + 1 /\ rs' = RsIdle(0)
                    /\ UNCHANGED <<got, timedOut>>
                 \/ rx = <<>> /\ rs' = RsIdle(0) /\ UNCHANGED <<got, timedOut, ioFaults>>
                 \/ /\ rx # <<>> /\ UNCHANGED ioFaults
                    /\ rs' = [pc |-> "loop", max |-> m, idx |-> 0, ret |-> 0]
                    /\ got' = <<>> /\ timedOut' = FALSE
    /\ UNCHANGED <<commOpen, rx, tx, want, wstatus, arrived>>

(* GetByte: ReadFile of one byte.  It takes the head of the queue, or on   *)
(* an empty queue times out and returns `value` uninitialized: any b.      *)
GetByte(b) ==
    \/ rx # <<>> /\ b = Head(rx) /\ rx' = Tail(rx)
    \/ rx = <<>> /\ UNCHANGED rx

GetByteCall ==
    /\ commOpen /\ Idle
    /\ \/ \E b \in Bytes : GetByte(b) /\ UNCHANGED ioFaults
       \/ Transient /\ ioFaults' = ioFaults + 1 /\ UNCHANGED rx
    /\ UNCHANGED <<commOpen, tx, want, wstatus, str, rs, got, timedOut, arrived>>

(* Mutant: only \r kept out of the string.                                 *)
StoredKeepsLF(b) == b # CR

(* "if the byte is a \r or \n, don't add it to the string"                *)
Stored(b) == b # CR /\ b # LF

(* One turn of the loop: GetByte, then a byte other than \r or \n goes to  *)
(* str[Index], and \r ends the string there and returns Index + 1.  A      *)
(* failed ReadFile throws READ_ERROR out of ReadString.                    *)
ReadStringGetByte ==
    /\ rs.pc = "loop" /\ rs.idx < rs.max
    /\ \/ /\ Transient /\ ioFaults' = ioFaults + 1 /\ rs' = RsIdle(0)
          /\ UNCHANGED <<rx, str, got, timedOut>>
       \/ /\ UNCHANGED ioFaults
          /\ \E b \in Bytes :
               /\ GetByte(b)
               /\ timedOut' = (timedOut \/ rx = <<>>)
               /\ got' = IF b \in {CR, LF} \/ rx = <<>> THEN got ELSE Append(got, b)
               /\ LET i == rs.idx IN
                  CASE Stored(b) -> str' = [str EXCEPT ![i] = b] /\ rs' = [rs EXCEPT !.idx = i + 1]
                    [] b = CR    -> str' = [str EXCEPT ![i] = NUL] /\ rs' = RsIdle(i + 1)
                    [] OTHER     -> UNCHANGED <<str, rs>>
    /\ UNCHANGED <<commOpen, tx, want, wstatus, arrived>>

(* MaxBytes bytes stored without a \r: str[MaxBytes-1] = 0, return MaxBytes. *)
ReadStringFull ==
    /\ rs.pc = "loop" /\ rs.idx = rs.max
    /\ str' = [str EXCEPT ![rs.max - 1] = NUL]
    /\ rs' = RsIdle(rs.max)
    /\ UNCHANGED <<commOpen, rx, tx, want, wstatus, got, timedOut, arrived, ioFaults>>

(* The line delivers a byte into the queue of the open port.               *)
Arrive ==
    /\ commOpen /\ arrived < MaxArrive
    /\ \E b \in Bytes : rx' = Append(rx, b)
    /\ arrived' = arrived + 1
    /\ UNCHANGED <<commOpen, tx, want, wstatus, str, rs, got, timedOut, ioFaults>>

-----------------------------------------------------------------------------
Init ==
    /\ commOpen = FALSE
    /\ rx = <<>> /\ tx = <<>> /\ want = <<>> /\ wstatus = "ok"
    /\ str = [i \in 0..StrLen - 1 |-> Junk]
    /\ rs = RsIdle(0) /\ got = <<>> /\ timedOut = FALSE
    /\ arrived = 0 /\ ioFaults = 0

(* CloseCommPort's CloseHandle drops the driver's queue with the handle.   *)
PortClosed == rx' = <<>> /\ UNCHANGED <<tx, want, wstatus, str, rs, got, timedOut, arrived, ioFaults>>

Next ==
    \/ WriteBuffer \/ WriteBufferSlowly \/ WriteString \/ PutByte
    \/ ReadBytes \/ DiscardBytes \/ PurgeCommPort \/ GetByteCall
    \/ ReadStringStart \/ ReadStringGetByte \/ ReadStringFull
    \/ Arrive

-----------------------------------------------------------------------------
WriteReturnsOnlyWhenSent == wstatus = "ok" => tx = want

(* When ReadString has returned a string, and every byte it read came from *)
(* the line, the returned count locates the terminator, and the string is  *)
(* the bytes read other than \r and \n, in order: all of them when a \r    *)
(* ended it, all but the last when MaxBytes ran out.                       *)
ReadStringKeepsLine ==
    Idle /\ rs.ret > 0 /\ ~timedOut =>
        /\ str[rs.ret - 1] = NUL
        /\ rs.ret - 1 <= Len(got)
        /\ [i \in 1..rs.ret - 1 |-> str[i - 1]] = SubSeq(got, 1, rs.ret - 1)

=============================================================================
