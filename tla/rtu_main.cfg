\* Replies arrive before the read times out; the line echoes every TX frame.
CONSTANTS
    Slaves = {1, 2}
    Addrs <- MCAddrs
    Values = {0, 1}
    Requests <- MCRequests
    RetryCount = 1
    CancelTXEcho = TRUE
    ExcCodes = {2}
    AllowLate = FALSE
    MaxPoints <- MCMaxPoints
    MaxOps = 2
    MaxFaults = 2
SPECIFICATION Spec
INVARIANTS
    TypeOK
    RetriesExhaustedBeforeFailure
    EchoNeverTakenAsReply
PROPERTIES
    CompletedOpReflectsSlave
    TransactionRefinement
