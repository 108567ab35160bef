\* UDP, numbered transactions, late, lost and duplicated datagrams.
CONSTANTS
    Transport = "udp"
    Slaves = {1}
    Addrs <- MCAddrs
    Values = {0, 1}
    Requests <- MCRequests
    TidOf <- MCTidFresh
    ExcCodes = {2}
    BadLengths = {0, 1}
    AllowLate = TRUE
    MaxOps = 2
    MaxFaults = 1
    MaxSessions = 1
SPECIFICATION Spec
INVARIANTS
    AcceptedReplyAnswersRequest
PROPERTIES
    CompletedOpReflectsSlave
    TransactionRefinement
