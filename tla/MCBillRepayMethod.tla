-------------------------- MODULE MCBillRepayMethod --------------------------
(***************************************************************************)
(* The interest engine checked over bounded inputs.  A state is the terms  *)
(* of one Released, unpaid bill; the properties quantify over the amounts  *)
(* and the times at which RepayBill may price a cash request, and over the *)
(* financing parameters.                                                   *)
(***************************************************************************)
EXTENDS BillRepayMethod

CONSTANTS
    Rates, OverdueRates, GracePeriods, OverdueLimits, CirculationTimes,
    IssueDates,
    MaxAmount,       \* the largest cash-request amount tried
    MaxOverdueDays,  \* how far past the due date prices are compared
    FinancingRates   \* credit.Rate values for calcTokenValueForFinancing

VARIABLE terms

Terms == [status : {"Released"}, repayedCount : {0}, rate : Rates,
          overdueRate : OverdueRates, overdueGracePeriod : GracePeriods,
          overdueLimit : OverdueLimits, circulationTime : CirculationTimes,
          issueDate : IssueDates, creditRate : FinancingRates]

Init == terms \in Terms

\* The terms of a bill do not change once it is Released.
Next == UNCHANGED terms

Amount == 1..MaxAmount

\* The block times from issue to MaxOverdueDays past the due date.
Times == terms.issueDate ..
           (terms.issueDate + terms.circulationTime
              + MaxOverdueDays * OneDaySeconds)

Actual(t, a) == CalcIouRepayInfo(terms, t, a).actual

(* What RepayBill pays for a cash request never decreases with the time it *)
(* is priced at: discounted before the due date, the face amount at it,   *)
(* and the face amount with capped overdue interest after the grace period *)
(* (CalcIouRepayInfo and calcBillValue).  Paying late never costs less.   *)
RepayAmountMonotone ==
    \A a \in Amount, t1, t2 \in Times :
        t1 <= t2 => Actual(t1, a) <= Actual(t2, a)

(* Splitting never gains: RepayBill prices every cash request on its own   *)
(* and truncates each price, so two requests of a1 and a2 tokens are never *)
(* paid more together than one request of a1 + a2 tokens.                 *)
SplitCashNeverGains ==
    \A t \in Times, a1, a2 \in Amount :
        a1 + a2 <= MaxAmount =>
            Actual(t, a1) + Actual(t, a2) <= Actual(t, a1 + a2)

\* What confirmFinancing pays at time t for a tokens of the bill, financed
\* on a credit of rate terms.creditRate, over the days left to RepayDate.
FinancingValue(t, a) ==
    CalcTokenValueForFinancing(a, terms.creditRate,
        (terms.issueDate + terms.circulationTime - t) \div OneDaySeconds)

(* The coins confirmFinancing pays for pledged tokens, at any time from    *)
(* issue to the repay date, lie between 0 and their face amount and do not *)
(* decrease as the repay date comes closer (calcTokenValueForFinancing):  *)
(* an early pledge is never paid more than a late one.                    *)
FinancingValueBounded ==
    \A a \in Amount, t1, t2 \in terms.issueDate ..
                              (terms.issueDate + terms.circulationTime) :
        /\ 0 <= FinancingValue(t1, a)
        /\ FinancingValue(t1, a) <= a
        /\ t1 <= t2 => FinancingValue(t1, a) <= FinancingValue(t2, a)

=============================================================================
