SPECIFICATION DataSpec
CONSTANTS
    HALF = 7
    wsize_b = 3
    NR_RECVFRAME = 4
    MaxSeq = 16
    MaxLoss = 1
    Amsdu <- MCAmsdu
    Bypass <- MCBypass
    bAcceptAddbaReq = TRUE
    Delba = FALSE
    Teardown = FALSE
    RpFrames = {1, 2, 3}
    Msdus <- MCMsdus
    RpModes <- MCModes
    Foreign <- MCForeign
    MaxRpRx = 4
    RxBufs = {1, 2}
    Skbs = {11, 12, 13, 14}
    NoSkb = 0
    PreallocSkb <- MCPrealloc
    MaxUrbErr = 1
    MaxRx = 3
    MaxRxStops = 1
    XpNets <- MCNets
    XpPkts <- MCPkts
    XpCallers = {"c", "d"}
    XpBufs = {1, 2}
    NrXmitFrame = 5
    XmitLow = 4
    XpSeq0 = 4093
    BaAcs = {"be"}
    MaxXpTx = 3
    MaxXpFail = 1
INVARIANTS
    ReorderRight HeldSound
    MsduRight FrameOnce
    RxDataSafe
    TransferWhole NothingStranded AmpduUsed
\* The frames that are sent and received are bounded.
CHECK_DEADLOCK FALSE
