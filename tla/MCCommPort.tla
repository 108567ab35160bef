----------------------------- MODULE MCCommPort -----------------------------
(* Model values for CommPort: two ports, a baud rate the driver refuses,  *)
(* drivers that start with RTS disabled or enabled, and one full DCB       *)
(* passed to SetCommDCBProperties.  The byte I/O of CommPortIO is checked  *)
(* in the same model, on the m_CommOpen that OpenCommPort and              *)
(* CloseCommPort set: the initial state chooses the configuration calls    *)
(* or the I/O calls, so the state space is their sum.                      *)
EXTENDS CommPort

VARIABLES rx, tx, want, wstatus, str, rs, got, timedOut, arrived, ioFaults, part

MCBauds == {9600, 115200, 250000}
MCSupportedBauds == {9600, 115200}

MCDeviceInit ==
    {[baud |-> 9600, bits |-> 8, parity |-> 0, stop |-> 0, rts |-> r, abort |-> FALSE]
        : r \in {0, 1}}

MCDCBProps ==
    {[baud |-> 9600, bits |-> 8, parity |-> 2, stop |-> 2, rts |-> 1, abort |-> TRUE]}

MCSettings == {"baud", "bits", "parity", "stop", "abort"}
MCSettingsAndRts == MCSettings \cup {"rts"}

(* A line carrying \n, \r and a data byte; ReadString with MaxBytes 0,   *)
(* 1 and 2; buffers of distinct bytes, one with a NUL inside.              *)
IO == INSTANCE CommPortIO WITH
        Bytes <- {10, 13, 65}, MaxBytesVals <- {0, 1, 2}, ReadCounts <- {0, 2},
        Bufs <- {<<>>, <<65, 66>>, <<65, 0, 66>>}, MaxArrive <- 3, MaxIoFaults <- 1

ioVars == <<rx, tx, want, wstatus, str, rs, got, timedOut, arrived, ioFaults>>
cpVars == <<commOpen, held, portName, opened, dcb, device, wanted, asked, faults>>

MCInit == Init /\ IO!Init /\ part \in {"config", "io"}

(* The caller's thread opens and closes the port only between its calls.   *)
MCNext ==
    \/ part = "config" /\ Next /\ UNCHANGED <<ioVars, part>>
    \/ part = "io" /\ IO!Idle /\ OpenCommPort /\ UNCHANGED <<ioVars, part>>
    \/ part = "io" /\ IO!Idle /\ CloseCommPort /\ IO!PortClosed /\ UNCHANGED part
    \/ part = "io" /\ IO!Next /\ UNCHANGED <<cpVars, part>>

MCSpec == MCInit /\ [][MCNext]_<<cpVars, ioVars, part>>

WriteReturnsOnlyWhenSent == IO!WriteReturnsOnlyWhenSent

(* CommPortIO: a string ReadString returns from line bytes is those bytes  *)
(* without \r and \n, terminated where the returned count says.            *)
ReadStringKeepsLine == IO!ReadStringKeepsLine
====
