SPECIFICATION StationSpec
SYMMETRY Symmetry
CONSTANTS
    b1 = b1
    b2 = b2
    NoBss = NoBss
    Bss <- MCBss
    REAUTH_LIMIT = 1
    REASSOC_LIMIT = 1
    ch_num = 1
    Smp = FALSE
    Prompt = TRUE
    MaxOps = 4
    MaxDrops = 0
INVARIANTS NoStuckJoin SurveyGuarded NotBoth LinkAgrees
\* Contexts that run in parallel can block each other for good (run
\* sta_timer_lock).
CHECK_DEADLOCK FALSE
