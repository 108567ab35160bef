----------------------------- MODULE MCFraming -----------------------------
(***************************************************************************)
(* The wire encodings of the library checked in one model: the RTU frame  *)
(* check (Crc16), the RTU frames built and decoded with it (RTUCodec) and  *)
(* the Modbus/TCP byte layout (MBAPCodec).  They share no state; the run   *)
(* checks one of them, chosen in the initial state, so that the state      *)
(* space is the sum of the three and not their product.                    *)
(***************************************************************************)
EXTENDS Naturals

CONSTANTS ByteVals, MaxLen, Tids, Units, RegAddrs, Counts, Words, ExcCodes,
          RtuCounts

VARIABLES rxFrame, crc, req, tid, out, reply, result,
          op, txFrame, line, answer, outcome, part

C == INSTANCE Crc16
M == INSTANCE MBAPCodec
R == INSTANCE RTUCodec WITH Counts <- RtuCounts

crcVars == <<rxFrame, crc>>
codecVars == <<req, tid, out, reply, result>>
rtuVars == <<op, txFrame, line, answer, outcome>>

Init ==
    /\ part \in {"crc", "rtu", "mbap"}
    /\ C!Init /\ M!Init /\ R!Init

Next ==
    \/ part = "crc"  /\ C!ReceiveByte /\ UNCHANGED <<codecVars, rtuVars, part>>
    \/ part = "rtu"  /\ R!Next /\ UNCHANGED <<crcVars, codecVars, part>>
    \/ part = "mbap" /\ M!Next /\ UNCHANGED <<crcVars, rtuVars, part>>

Spec == Init /\ [][Next]_<<crcVars, codecVars, rtuVars, part>>

-----------------------------------------------------------------------------
(* Crc16: the register of SendAndReceiveFramesInt's receive loop is the    *)
(* MODBUS CRC of the bytes read so far.                                    *)
CrcMatchesReference == C!CrcMatchesReference

(* Crc16: a frame WriteCRC completes passes the receiver's checksum test.  *)
WrittenFrameChecks == C!WrittenFrameChecks

(* RTUCodec: every TxFrame an RTUProtocol handler sends is the RTU frame   *)
(* of its request, with the MODBUS CRC low byte first.                     *)
RtuRequestFollowsLayout == R!RtuRequestFollowsLayout

(* RTUCodec: an RTU operation returns normally only on the slave's intact  *)
(* answer, and a read then returns exactly the values it carried.          *)
RtuAcceptsOnlyIntactAnswer == R!RtuAcceptsOnlyIntactAnswer

(* RTUCodec: an RTU operation whose slave gave its intact answer returns   *)
(* normally.                                                               *)
RtuAcceptsIntactAnswer == R!RtuAcceptsIntactAnswer

(* RTUCodec: a slave exception is thrown only for an exception answer, as  *)
(* the typed or generic exception that carries the slave's code.           *)
RtuExceptionCarriesSlaveCode == R!RtuExceptionCarriesSlaveCode

(* MBAPCodec: every OutBuffer a TCPIPProtocol handler writes is the        *)
(* Modbus/TCP ADU of its request, byte count of a multiple write included. *)
RequestFollowsLayout == M!RequestFollowsLayout

(* MBAPCodec: ReadRegisters returns data only from a well-formed reply,    *)
(* and then exactly its register values.                                   *)
ReadReturnsReplyValues == M!ReadReturnsReplyValues

(* MBAPCodec: an exception is thrown only for a reply with bit 0x80 set,   *)
(* as the typed or generic exception that carries the server's code.       *)
TcpExceptionCarriesServerCode == M!TcpExceptionCarriesServerCode
====
