\* TCP under fairness: numbered transactions, late replies, unanswered requests.
CONSTANTS
    Transport = "tcp"
    Slaves = {1}
    Addrs <- MCAddrs
    Values = {0, 1}
    Requests <- MCRequests
    TidOf <- MCTidFresh
    ExcCodes = {2}
    BadLengths = {0, 1}
    AllowLate = TRUE
    MaxOps = 2
    MaxFaults = 1
    MaxSessions = 1
SPECIFICATION FairSpec
INVARIANTS
    ReadDataFitsBuffer
    AcceptedReplyAnswersRequest
PROPERTIES
    EveryOperationReturns
    TransactionRefinement
