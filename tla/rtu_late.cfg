\* Replies may arrive after the read timed out, during a later attempt or operation.
CONSTANTS
    Slaves = {1, 2}
    Addrs <- MCAddrs
    Values = {0, 1}
    Requests <- MCRequests
    RetryCount = 1
    CancelTXEcho = FALSE
    ExcCodes = {2}
    AllowLate = TRUE
    MaxPoints <- MCMaxPoints
    MaxOps = 2
    MaxFaults = 0
SPECIFICATION Spec
INVARIANTS
    AcceptedReplyMatchesRequest
