SPECIFICATION Spec
CONSTANTS
    b1 = b1
    b2 = b2
    NoBss = NoBss
    Bss <- MCBss
    REAUTH_LIMIT = 0
    REASSOC_LIMIT = 0
    ch_num = 1
    Smp = FALSE
    Prompt = TRUE
    MaxOps = 2
    MaxDrops = 1
PROPERTY JoinApplied
CHECK_DEADLOCK FALSE
