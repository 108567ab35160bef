------------------------------- MODULE Crc16 --------------------------------
(***************************************************************************)
(* The RTU frame check (ModbusRTU.h): WriteCRC appends ComputeCRC of the   *)
(* frame, low byte first; SendAndReceiveFramesInt feeds every received     *)
(* byte, the CRC included, to a boost::crc_16_type(0xFFFF) and rejects the *)
(* frame unless checksum() is 0.  crc_16_type is the reflected CRC with    *)
(* polynomial 0x8005, no final xor: each byte is xored into the low end of *)
(* the register and shifted out to the right against 0xA001.               *)
(*                                                                         *)
(* The state is the receive loop's: the bytes read so far and the CRC      *)
(* register after them.                                                    *)
(***************************************************************************)
EXTENDS Naturals, Sequences, Bitwise

CONSTANTS
    ByteVals,   \* the byte values a frame is made of
    MaxLen      \* longest frame body

VARIABLES rxFrame, crc

vars == <<rxFrame, crc>>

-----------------------------------------------------------------------------
(* One shift of the reflected register: polynomial 0x8005 reversed.         *)
CrcShift(c) == IF c % 2 = 1 THEN (c \div 2) ^^ 40961 ELSE c \div 2

RECURSIVE Shifts(_, _)
Shifts(c, k) == IF k = 0 THEN c ELSE Shifts(CrcShift(c), k - 1)

(* crc_optimal's table: the register after shifting each byte value out.   *)
CrcTable == [i \in 0..255 |-> Shifts(i, 8)]

(* crc_16_type::process_byte, table-driven as crc_optimal does it.          *)
ProcessByte(c, b) == (c \div 256) ^^ CrcTable[(c ^^ b) % 256]

(* The register after feeding s to register c; each step is evaluated      *)
(* before the next so that the recursion stays shallow.                    *)
RECURSIVE Feed(_, _)
Feed(c, s) ==
    IF s = <<>> THEN c
    ELSE LET next == ProcessByte(c, Head(s)) IN
         IF next >= 0 THEN Feed(next, Tail(s)) ELSE next

(* Mutant: crc_16_type constructed without an initial value (CRC-16/ARC).  *)
CrcInitZero == 0

(* boost::crc_16_type( 0xFFFF ).                                           *)
CrcInit == 65535

(* ComputeCRC: for_each over the frame, then checksum().                   *)
ComputeCRC(s) == Feed(CrcInit, s)

(* Mutant: the CRC appended high byte first.                               *)
WriteCRCHighFirst(s) ==
    LET c == ComputeCRC(s) IN << (c \div 256) % 256, c % 256 >>

(* WriteCRC: CRC & 0xFF, then ( CRC >> 8 ) & 0xFF.                          *)
WriteCRC(s) ==
    LET c == ComputeCRC(s) IN << c % 256, (c \div 256) % 256 >>

-----------------------------------------------------------------------------
(* Reference: the CRC as the MODBUS specification defines it, computed bit *)
(* by bit with an unreflected register.  Each byte is fed least            *)
(* significant bit first.  When the register's top bit differs from the    *)
(* incoming bit, the register is shifted left and xored with 0x8005.  The  *)
(* result is read back bit-reversed.                                       *)
Bit(x, i) == (x \div 2^i) % 2

RefStep(r, bit) ==
    LET shifted == (r * 2) % 65536
    IN IF Bit(r, 15) # bit THEN shifted ^^ 32773 ELSE shifted

(* The register after the bits i, i+1, ..., 7 of byte b.                    *)
RECURSIVE RefBits(_, _, _)
RefBits(r, b, i) ==
    IF i = 8 THEN r
    ELSE LET next == RefStep(r, Bit(b, i)) IN
         IF next >= 0 THEN RefBits(next, b, i + 1) ELSE next

RECURSIVE RefFeed(_, _)
RefFeed(r, s) ==
    IF s = <<>> THEN r
    ELSE LET next == RefBits(r, Head(s), 0) IN
         IF next >= 0 THEN RefFeed(next, Tail(s)) ELSE next

RECURSIVE Reflect(_, _)
Reflect(r, k) == IF k = 0 THEN 0 ELSE Bit(r, 0) * 2^(k - 1) + Reflect(r \div 2, k - 1)

RefCrc(s) == Reflect(RefFeed(65535, s), 16)

(* The reference gives the CRC-16/MODBUS check value 0x4B37 for "123456789". *)
ASSUME RefCrc(<<49, 50, 51, 52, 53, 54, 55, 56, 57>>) = 19255

-----------------------------------------------------------------------------
Init ==
    /\ rxFrame = <<>>
    /\ crc = CrcInit

(* One iteration of the receive loop: ReadBytes of one byte, then           *)
(* Crc.process_byte and RxFrame.push_back.                                  *)
ReceiveByte ==
    /\ Len(rxFrame) < MaxLen
    /\ \E b \in ByteVals :
         /\ rxFrame' = Append(rxFrame, b)
         /\ crc' = ProcessByte(crc, b)

Spec == Init /\ [][ReceiveByte]_vars

-----------------------------------------------------------------------------
(* The register the receive loop keeps is the MODBUS CRC of the bytes read  *)
(* so far, as the reference computes it.                                    *)
CrcMatchesReference == crc = RefCrc(rxFrame)

(* A frame the master builds with WriteCRC passes the receiver's check:     *)
(* the CRC of the frame followed by its CRC bytes is 0, so a slave that     *)
(* echoes the frame, and the master's own Crc.checksum() test, accept it.   *)
WrittenFrameChecks == ComputeCRC(rxFrame \o WriteCRC(rxFrame)) = 0

====
