\* Safety of the executor: escrow, credit freezes, credit reservations and
\* redemption accounting, with bill ids never reused.
CONSTANTS
    Core = Core
    Supplier = Supplier
    Funder = Funder
    Addr = {Core, Supplier, Funder}
    MiddleAddr = MiddleAddr
    Bills = {b1}
    Credits = {t1}
    Coin = ccny
    None = None
    InitAcc <- MCInitAcc
    RateScale = 100
    OneDaySeconds = 1
    MaxTime = 2
    MaxRepayDate = 1000
    Amounts = {1}
    LoanAmounts = {2}
    CirculationTimes = {1}
    BillRates = {10}
    OverdueRates = {10}
    GracePeriods = {0}
    OverdueLimits = {2}
    DpdtAmounts = {1, 2}
    MaxDpdt = 2
    SplitInputs = {TRUE}
    NeedDpdtInputs = {TRUE}
    CreditAmounts = {2}
    CreditDurations = {3}
    CreditRates = {10}
    TransferSymbols = {b1}
    FreshIdsOnly = TRUE
    CreatorIsBorrower = TRUE
    EmptyCashListFails = FALSE
    Supply = 2
    Repayers = {}
INIT Init
NEXT Next
INVARIANTS
    TypeOK
    EscrowBacked
    CreditFreezeTracksRelease
    UsedCoversPending
    
    IndexTracksStatus
PROPERTY
    LifecycleRefined
