\* createBill sent by an address that names another address as the borrower, and bill ids that may be reused.
CONSTANTS
    Core = Core
    Supplier = Supplier
    Funder = Funder
    Addr = {Core, Supplier, Funder}
    MiddleAddr = MiddleAddr
    Bills = {b1}
    Credits = {t1}
    Coin = ccny
    None = None
    InitAcc <- MCInitAcc
    RateScale = 100
    OneDaySeconds = 1
    MaxTime = 2
    MaxRepayDate = 1000
    Amounts = {1}
    LoanAmounts = {2}
    CirculationTimes = {1}
    BillRates = {10}
    OverdueRates = {10}
    GracePeriods = {0}
    OverdueLimits = {2}
    DpdtAmounts = {1, 2}
    MaxDpdt = 2
    SplitInputs = {TRUE}
    NeedDpdtInputs = {TRUE}
    CreditAmounts = {2}
    CreditDurations = {3}
    CreditRates = {10}
    TransferSymbols = {b1}
    FreshIdsOnly = FALSE
    CreatorIsBorrower = FALSE
    EmptyCashListFails = FALSE
    Supply = 2
    Repayers = {}
INIT Init
NEXT Next
INVARIANT
    IndexTracksStatus
