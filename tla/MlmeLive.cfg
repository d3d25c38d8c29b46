SPECIFICATION LiveSpec
CONSTANTS
    b1 = b1
    NoBss = NoBss
    HALF = 8
    wsize_b = 3
    NR_RECVFRAME = 2
    MaxSeq = 3
    MaxLoss = 2
    Amsdu <- MCAmsdu
    Bypass <- MCBypass
    bAcceptAddbaReq = TRUE
    Delba = TRUE
    Teardown = TRUE
INVARIANT NoStuckFrame
PROPERTIES MlmeSettles JoinServed HeldReleased
\* The sender may have sent its last frame.
CHECK_DEADLOCK FALSE
