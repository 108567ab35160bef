\* An exception reply is retried like a timeout (expected violation).
CONSTANTS
    Slaves = {1, 2}
    Addrs <- MCAddrs
    Values = {0, 1}
    Requests <- MCRequests
    RetryCount = 1
    CancelTXEcho = FALSE
    ExcCodes = {2}
    AllowLate = FALSE
    MaxPoints <- MCMaxPoints
    MaxOps = 1
    MaxFaults = 0
SPECIFICATION Spec
INVARIANTS
    SlaveExceptionNotRetried
