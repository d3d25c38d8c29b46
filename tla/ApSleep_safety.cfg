SYMMETRY Symmetry
SPECIFICATION Spec
CONSTANTS
    s1 = s1
    s2 = s2
    Bmc = Bmc
    Stas <- MCStas
    Kinds <- OneWay
    Acs <- OneAc
    NR_XMITFRAME = 4
    W = 8
    Smp = FALSE
    MaxCmds = 1
INVARIANTS FramesCounted TimTells DozersServed
