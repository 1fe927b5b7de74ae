--------------------------- MODULE BillRepayMethod ---------------------------
(***************************************************************************)
(* The interest engine of the finance executor (executor/util.go):         *)
(* calcBillValue, BillRepayMethod.CalcIouRepayInfo, GetTokenValue and      *)
(* calcTokenValueForFinancing, as operators.                               *)
(*                                                                         *)
(* The Go code computes in float64 and converts the result to int64.       *)
(* Rates are integers scaled by 1e8 in the code; here they are scaled by   *)
(* RateScale so that the powers fit TLC's 32-bit integers.  A float        *)
(* quotient converted to int64 is modelled as the exact rational quotient  *)
(* truncated towards zero (\div on non-negative operands): the model has   *)
(* the truncation but not the float rounding error.  Time is in the same   *)
(* unit as the code's blocktime; OneDaySeconds is pty.OneDaySeconds.       *)
(***************************************************************************)
EXTENDS Integers

CONSTANTS
    RateScale,       \* the fixed-point scale of a rate (1e8 in the code)
    OneDaySeconds    \* pty.OneDaySeconds

\* A Bill record has one repayment for this instrument (bill.RepayCount = 1).
RepayCount == 1

RECURSIVE Pow(_, _)
Pow(x, n) == IF n <= 0 THEN 1 ELSE x * Pow(x, n - 1)

\* Mutant: the discount applied the wrong way round, as a premium.
CalcBillValueInverted(faceValue, remainDays, billDayRate) ==
    IF billDayRate < 0 THEN 0
    ELSE (faceValue * Pow(RateScale + billDayRate, remainDays))
           \div Pow(RateScale, remainDays)

\* Mutant: the present value rounded up instead of truncated.
CalcBillValueRoundedUp(faceValue, remainDays, billDayRate) ==
    IF billDayRate < 0 THEN 0
    ELSE LET num == faceValue * Pow(RateScale, remainDays)
             den == Pow(RateScale + billDayRate, remainDays)
         IN  (num + den - 1) \div den

\* calcBillValue: faceValue / (1 + rate)^remainDays; a negative rate is an
\* error whose value (0) the caller uses anyway.
CalcBillValue(faceValue, remainDays, billDayRate) ==
    IF billDayRate < 0 THEN 0
    ELSE IF remainDays >= 0
         THEN (faceValue * Pow(RateScale, remainDays))
                \div Pow(RateScale + billDayRate, remainDays)
         ELSE (faceValue * Pow(RateScale + billDayRate, -remainDays))
                \div Pow(RateScale, -remainDays)

(***************************************************************************)
(* CalcIouRepayInfo(bill, timeNow, amount).  The Go function returns nil   *)
(* for a bill that is not Released or is already repaid; here that is a    *)
(* reply with ok = FALSE.  Before the due date the amount is discounted    *)
(* over the remaining days; after it, the face amount is due, plus         *)
(* compound overdue interest over min(overdue days, OverdueLimit) days     *)
(* once the grace period has passed.                                       *)
(***************************************************************************)
CalcIouRepayInfo(bill, timeNow, amount) ==
    LET due        == bill.issueDate + bill.circulationTime
        overDays   == (timeNow - due) \div OneDaySeconds
        calOverDays == IF overDays > bill.overdueLimit
                       THEN bill.overdueLimit ELSE overDays
        days       == (timeNow - bill.issueDate) \div OneDaySeconds
        remainDays == bill.circulationTime \div OneDaySeconds - days
        value      == CalcBillValue(amount, remainDays, bill.rate)
        penalised  == (amount * Pow(RateScale + bill.overdueRate, calOverDays))
                        \div Pow(RateScale, calOverDays)
    IN  IF bill.status # "Released" \/ bill.repayedCount = RepayCount
        THEN [ok |-> FALSE, normal |-> 0, actual |-> 0, overdue |-> FALSE]
        ELSE IF timeNow > due
        THEN [ok |-> TRUE, normal |-> amount, overdue |-> TRUE,
              actual |-> IF overDays < bill.overdueGracePeriod
                         THEN amount ELSE penalised]
        ELSE [ok |-> TRUE, normal |-> value, actual |-> value, overdue |-> FALSE]

\* GetTokenValue: the value of tokenAmount for early cash-out; past the due
\* date the remaining days are 0, so the value is the face amount.
GetTokenValue(tokenAmount, bill, timeNow) ==
    LET days == IF timeNow > bill.issueDate + bill.circulationTime
                THEN bill.circulationTime \div OneDaySeconds
                ELSE (timeNow - bill.issueDate) \div OneDaySeconds
    IN  CalcBillValue(tokenAmount,
                      bill.circulationTime \div OneDaySeconds - days, bill.rate)

\* Mutant: a negative discounted value is not replaced by 0.
CalcTokenValueForFinancingUnclamped(amount, rate, days) ==
    IF rate < 0 \/ amount <= 0 THEN 0
    ELSE (amount * (RateScale - rate * days)) \div RateScale

\* calcTokenValueForFinancing: amount * (1 - rate*days/1e8) with a simple
\* (not compound) discount; 0 for bad parameters or a negative result.
CalcTokenValueForFinancing(amount, rate, days) ==
    IF rate < 0 \/ amount <= 0 \/ RateScale - rate * days <= 0 THEN 0
    ELSE (amount * (RateScale - rate * days)) \div RateScale

=============================================================================
