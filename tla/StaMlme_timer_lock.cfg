SPECIFICATION Spec
CONSTANTS
    b1 = b1
    b2 = b2
    NoBss = NoBss
    Bss <- MCOneBss
    REAUTH_LIMIT = 0
    REASSOC_LIMIT = 0
    ch_num = 1
    Smp = TRUE
    Prompt = FALSE
    MaxOps = 2
    MaxDrops = 0
INVARIANT NoDeadLock
CHECK_DEADLOCK FALSE
