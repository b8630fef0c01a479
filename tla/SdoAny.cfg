\* The server and the client, each against any sequence of frames; blocks of two segments.
SPECIFICATION Spec
CONSTANTS
    Objects = {"a", "ro", "par"}
    ReadOnly = {"ro"}
    ParObject = "par"
    CO_SSDO_MAX_SEQNO = 2
    Refusals = {TRUE, FALSE}
    InitialOd <- Od
    SsdoFrames <- ServerFrames
    Requests <- Transfers
    Resubmitted = {}
    Dcfs <- ConciseDcfs
    CO_SDO_MAX_SEQNO = 2
    CsdoFrames <- ClientFrames
    MaxRequests = 2
INVARIANTS
    EveryEventHandled CleanBetweenTransfers ServerInBuffers
    ConfirmedOnce ClientInBuffers
