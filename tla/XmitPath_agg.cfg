SPECIFICATION XpSpec
CONSTANTS
    XpNets <- MCNets
    XpPkts <- MCPkts
    XpCallers = {"c", "d"}
    XpBufs = {1, 2}
    NrXmitFrame = 5
    XmitLow = 4
    XpSeq0 = 4093
    BaAcs = {"be"}
    MaxXpTx = 3
    MaxXpFail = 1
INVARIANT AggInQueue
\* The packets to send are bounded.
CHECK_DEADLOCK FALSE
