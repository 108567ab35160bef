\* One of the wire encodings, chosen in the initial state.
\* RTUCodec: point counts 1 and 2 with the same words, units and addresses as MBAPCodec.
\* Crc16: every frame of up to four bytes over five byte values.
\* MBAPCodec: big-endian words (258, 65280) whose bytes differ, point counts
\* 1, 2 and 123 (the RTU limit; the TCP DoPresetMultipleRegisters has none), and read
\* replies whose byte count or length is off by one or two bytes.
\* The CRC receive loop stops after MaxLen bytes, so those states have no successor.
\* Exception codes: 0 and 9 just outside the catalog 1..8, 8 its last entry.
SPECIFICATION Spec
CONSTANTS
    ByteVals = {0, 1, 49, 128, 255}
    MaxLen = 4
    Tids = {258, 65535}
    Units = {1, 255}
    RegAddrs = {258, 65280}
    Counts = {1, 2, 123}
    Words = {258, 65280}
    ExcCodes = {0, 2, 8, 9}
    RtuCounts = {1, 2}
INVARIANTS CrcMatchesReference WrittenFrameChecks RtuRequestFollowsLayout RtuAcceptsOnlyIntactAnswer RtuAcceptsIntactAnswer RtuExceptionCarriesSlaveCode RequestFollowsLayout ReadReturnsReplyValues TcpExceptionCarriesServerCode
CHECK_DEADLOCK FALSE
