\* TCP with the default transaction id 0 (expected violation).
CONSTANTS
    Transport = "tcp"
    Slaves = {1}
    Addrs <- MCAddrs
    Values = {0, 1}
    Requests <- MCRequests
    TidOf <- MCTidDefault
    ExcCodes = {2}
    BadLengths = {}
    AllowLate = TRUE
    MaxOps = 2
    MaxFaults = 0
    MaxSessions = 1
SPECIFICATION Spec
INVARIANTS
    ReadDataFitsBuffer
