SPECIFICATION Spec
CONSTANTS
    s1 = s1
    s2 = s2
    Bmc = Bmc
    Stas <- MCOneSta
    Kinds <- OneWay
    Acs <- OneAc
    NR_XMITFRAME = 2
    W = 8
    Smp = FALSE
    MaxCmds = 2
INVARIANT GroupTold
