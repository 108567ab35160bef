-------------------------- MODULE ModbusRegisters --------------------------
(***************************************************************************)
(* What every framer of the library shares: the function codes of         *)
(* Modbus.h, the register operations of class Protocol as request records, *)
(* and what a slave does with each request.  A register value is an        *)
(* element of a small set; the slave side is the environment the masters   *)
(* talk to, not code of the library.                                       *)
(***************************************************************************)
EXTENDS Integers, Sequences

(* FunctionCode values of Modbus.h                                         *)
ReadHoldingRegisters    == 3
ReadInputRegisters      == 4
PresetSingleRegister    == 6
PresetMultipleRegisters == 16
MaskWrite4XRegister     == 22
ReadFCs == {ReadHoldingRegisters, ReadInputRegisters}

(* ExceptionCode of Modbus.h and the EProtocolStdException class each     *)
(* standard code is thrown as (EIllegalFunction ... EMemoryParityError).   *)
StdExceptionClass ==
    << "EIllegalFunction", "EIllegalDataAddress", "EIllegalDataValue",
       "ESlaveDeviceFailure", "EAcknowledge", "ESlaveDeviceBusy",
       "ENegativeAcknowledge", "EMemoryParityError" >>

(* Mutant: the switch without its MemoryParityError case.                  *)
RaiseStandardExceptionNoParity(c) ==
    IF c \in 1..7 THEN [cls |-> StdExceptionClass[c], code |-> c]
    ELSE [cls |-> "EProtocolException", code |-> c]

(* RaiseStandardException: the class of a standard code, and for any other *)
(* value an EProtocolException; both carry the code (GetCode()).           *)
RaiseStandardException(c) ==
    IF c \in DOMAIN StdExceptionClass THEN [cls |-> StdExceptionClass[c], code |-> c]
    ELSE [cls |-> "EProtocolException", code |-> c]

(* The public operations of Protocol, as request records.                  *)
ReadReq(fc, s, a, n) == [fc |-> fc, slave |-> s, addr |-> a, count |-> n,
                         data |-> <<>>, andm |-> 0, orm |-> 0]
PSRReq(s, a, v)      == [fc |-> PresetSingleRegister, slave |-> s, addr |-> a,
                         count |-> 1, data |-> <<v>>, andm |-> 0, orm |-> 0]
PMRReq(s, a, vs)     == [fc |-> PresetMultipleRegisters, slave |-> s,
                         addr |-> a, count |-> Len(vs), data |-> vs,
                         andm |-> 0, orm |-> 0]
MWReq(s, a, am, om)  == [fc |-> MaskWrite4XRegister, slave |-> s, addr |-> a,
                         count |-> 1, data |-> <<>>, andm |-> am, orm |-> om]
NoReq == ReadReq(0, 0, 0, 0)

(* Registers of one slave.                                                 *)
ReadRange(m, a, n) == [i \in 1..n |-> m[a + i - 1]]
Covered(r) == r.addr .. (r.addr + r.count - 1)
(* (cur AND andMask) OR (orMask AND NOT andMask), on one-bit registers.    *)
MaskResult(cur, am, om) == IF am = 1 THEN cur ELSE om

Apply(m, r) ==
    CASE r.fc \in ReadFCs               -> m
      [] r.fc = PresetSingleRegister    -> [m EXCEPT ![r.addr] = r.data[1]]
      [] r.fc = PresetMultipleRegisters ->
            [x \in DOMAIN m |-> IF x \in Covered(r) THEN r.data[x - r.addr + 1]
                                                    ELSE m[x]]
      [] r.fc = MaskWrite4XRegister     ->
            [m EXCEPT ![r.addr] = MaskResult(@, r.andm, r.orm)]


(* What the slave holds once an operation has returned normally: a read    *)
(* returned the slave's registers, a write's values are in place.          *)
Reflects(r, f, m) ==
    CASE r.fc \in ReadFCs               -> f.data = ReadRange(m, r.addr, r.count)
      [] r.fc = PresetSingleRegister    -> m[r.addr] = r.data[1]
      [] r.fc = PresetMultipleRegisters -> ReadRange(m, r.addr, r.count) = r.data
      [] r.fc = MaskWrite4XRegister     -> r.andm = 1 \/ m[r.addr] = r.orm

=============================================================================
