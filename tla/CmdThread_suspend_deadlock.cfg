CHECK_DEADLOCK FALSE
SPECIFICATION FairSpec
CONSTANTS
    c1 = c1
    c2 = c2
    p1 = p1
    p2 = p2
    NoCmd = NoCmd
    Cmds <- MCOneCmd
    Callers <- MCOneCaller
    CmdCodes <- AllCmdCodes
    MaxSessions = 1
    MaxSema = 2
    Signals = FALSE
    Unplug = FALSE
PROPERTY StopCompletes
