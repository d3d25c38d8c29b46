SPECIFICATION ChipSpec
CONSTANTS
    IqChips = {"8812", "8821"}
    Meas = {0, 8}
    MaxRetry = 2
    Proms <- MCProms
    PgRows <- PgTables
    LmtRows <- LmtTables
    TpChannels <- MCTpChannels
    Remnants <- MCRemnants
    TcChips = {"8812", "8821"}
    Boards = {0, 4, 8, 64, 128, 192, 216}
    Paths = {1, 2}
    HwSetups <- MCHwSetups
    MaxUps = 2
    RdChips = {"8812", "8821"}
    RdSwings <- MCSwings
    RdNets <- MCRdNets
    RdScan <- MCRdScan
    RdApCh = {6, 36}
    Registry = 1
    MaxRdQ = 2
    MaxRdOps = 4
    FwChips = {"8812", "8821"}
    FwSizes = {7, 196, 4095, 4096, 4097, 8200, 31000}
    BcnNets <- MCBcnNets
    H2cThreads = {"cmd", "ioctl"}
    MaxH2c = 2
    MaxDl = 2
    KAddrs = {"a", "b"}
    NumSta = 7
    KIds = {2}
    KKeys = {"k", "m"}
    KRoles = {"ap", "sta"}
    KChanges <- MCKChanges
    MaxKCalls = 4
    MaxKQ = 3
INVARIANTS
    IqkRestores PowerRight TablesRight HwRight RadioRight
    ImageWhole MailInOrder ReportRight
    PairwiseProgrammed
\* A calibration, the loading of the tables and the bounded calls come to an
\* end.
CHECK_DEADLOCK FALSE
