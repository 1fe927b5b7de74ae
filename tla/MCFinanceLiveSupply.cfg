\* Cash requests under the same fairness, with a bill token supply above the loan.
\* The explored time ends at MaxTime; once every token is frozen in cash requests
\* that RepayBill refuses, nothing is left to do, which is the point of the run.
CONSTANTS
    Core = Core
    Supplier = Supplier
    Funder = Funder
    Addr = {Core, Supplier, Funder}
    MiddleAddr = MiddleAddr
    Bills = {b1}
    Credits = {t1}
    Coin = ccny
    None = None
    InitAcc <- MCInitAcc
    RateScale = 100
    OneDaySeconds = 1
    MaxTime = 2
    MaxRepayDate = 1000
    Amounts = {1}
    LoanAmounts = {2}
    CirculationTimes = {1}
    BillRates = {10}
    OverdueRates = {10}
    GracePeriods = {0}
    OverdueLimits = {2}
    DpdtAmounts = {2}
    MaxDpdt = 1
    SplitInputs = {TRUE}
    NeedDpdtInputs = {TRUE}
    CreditAmounts = {2}
    CreditDurations = {3}
    CreditRates = {10}
    TransferSymbols = {}
    FreshIdsOnly = TRUE
    CreatorIsBorrower = TRUE
    EmptyCashListFails = FALSE
    Supply = 3
    Repayers = {Bank}
SPECIFICATION FairSpec
PROPERTY
    CashRequestsEventuallyPaid
CHECK_DEADLOCK FALSE
