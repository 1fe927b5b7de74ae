\* The interest engine over all combinations of small bill terms.
CONSTANTS
    RateScale = 100
    OneDaySeconds = 1
    Rates = {0, 5, 10}
    OverdueRates = {0, 10}
    GracePeriods = {1, 2}
    OverdueLimits = {1, 3}
    CirculationTimes = {1, 2, 3}
    IssueDates = {0, 1}
    MaxAmount = 6
    MaxOverdueDays = 4
    FinancingRates = {0, 10, 40}
INIT Init
NEXT Next
INVARIANTS
    RepayAmountMonotone
    SplitCashNeverGains
    FinancingValueBounded
