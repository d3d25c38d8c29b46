SPECIFICATION MgmtSpec
SYMMETRY AddrSymmetry
CONSTANTS
    c1 = c1
    c2 = c2
    p1 = p1
    p2 = p2
    NoCmd = NoCmd
    Cmds <- MCCmds
    Callers <- MCCallers
    CmdCodes <- AllCmdCodes
    MaxSessions = 2
    MaxSema = 3
    Signals = FALSE
    Unplug = FALSE
    Bufs = {1, 2}
    MaxBeacons = 2
    MaxBa = 1
    MgCallers = {"cmd", "ioctl", "rx"}
    OpsOf <- MCOpsOf
    a1 = a1
    a2 = a2
    NoAddr = NoAddr
    ApAddrs <- MCAddrs
    Objs = {1, 2}
    Slots = 2
    MaxNumSta = 2
    NumAcl = 1
    ApSetups <- MCSetups
    AclModes = {2}
    MaxCount = 2
    AsocReqs <- MCAsocReqs
    MaxCalls = 1
    DaemonAids = {2}
INVARIANTS
    StopJoins NoLostWakeup OneOwner HandlerHasHw
    BufsAccounted ContextSound
    StationsSound AbilitiesTold
\* rtl8821au_suspend can deadlock with rtw_ips_enter (run cmd_suspend_deadlock),
\* and the calls of the daemon and the counters of the stations are bounded.
CHECK_DEADLOCK FALSE
