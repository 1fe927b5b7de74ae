------------------------------- MODULE Finance -------------------------------
(***************************************************************************)
(* The finance executor (src/plugin/dapp/finance/executor): the Bill      *)
(* store and its state machine, the credit registry, the three             *)
(* freeze-then-confirm handshakes (deliver, split, financing), cash        *)
(* requests and their settlement by RepayBill, and broken-bill reports.    *)
(*                                                                         *)
(* One step is one transaction: its Exec handler (action.go) followed by   *)
(* its ExecLocal handler (exec_local.go).  The executor asks the host to   *)
(* run the two together (ExecutorOrder returns ExecLocalSameTime), and a   *)
(* handler that returns an error leaves the ledger and the stores as they  *)
(* were, so a failing transaction is a stuttering step and every action    *)
(* below is the successful, all-or-nothing, case.                          *)
(*                                                                         *)
(* Identity fields (CreatorIndentity, ...) are declared by the sender in   *)
(* the payload and only compared with constants, so they never stop a      *)
(* sender and are not modelled.  The token symbol of bill b is b.          *)
(***************************************************************************)
EXTENDS Integers, FiniteSets, Sequences, SequencesExt, BagsExt,
        BillRepayMethod

CONSTANTS
    Addr,            \* user addresses
    MiddleAddr,      \* pty.MiddleAddr, where redeemed bill tokens go
    Bills,           \* bill ids (and the symbols of their tokens)
    Credits,         \* credit-token symbols
    Coin,            \* the settlement currency, bill.CoinsSymbol
    None,            \* an absent record
    InitAcc,         \* the ledger at genesis
    MaxTime,         \* the last block time explored
    MaxRepayDate,    \* stands for 0x7FFFFFFFFFFFFFFF, > MaxTime
    Amounts,         \* amounts a transaction may carry
    LoanAmounts, CirculationTimes, BillRates, OverdueRates,
    GracePeriods, OverdueLimits, SplitInputs, NeedDpdtInputs,
                                           \* CreateBill inputs
    DpdtAmounts, MaxDpdt,                  \* CreateBill.DpdtTokens inputs
    CreditAmounts, CreditDurations, CreditRates,  \* AddCreditToken inputs
    TransferSymbols, \* the assets TransferCoins is tried with
    EmptyCashListFails, \* getCashList fails on a bill without cash requests
    FreshIdsOnly,    \* CreateBill is only submitted for an unused id
    CreatorIsBorrower, \* CreateBill's sender (Addr) names itself Borrower
    Repayers         \* accounts whose only transaction is RepayBill

ASSUME FreshIdsOnly \in BOOLEAN /\ CreatorIsBorrower \in BOOLEAN
ASSUME EmptyCashListFails \in BOOLEAN

Accounts == Addr \cup Repayers \cup {MiddleAddr}
Symbols  == Bills \cup Credits \cup {Coin}

\* pty.DefaultOverdueLimit and pty.DefaultOverdueGracePeriod (types/const.go)
DefaultOverdueLimit == 10
DefaultOverdueGracePeriod == 1

VARIABLES
    acc,        \* acc[symbol][addr]: the ledger, [balance, frozen]
    credit,     \* credit[symbol]: the CreditTokenStateDB record, or None
    bill,       \* bill[id]: the Bill record, or None
    pending,    \* bag of live handshake records (deliver, split, finance)
    cashList,   \* cashList[id]: bag of the bill's cash requests
    broken,     \* broken[id]: the bill's broken-table row, or None
    now,        \* the block time
    billIndex   \* billIndex[addr][id]: the BorrowerBill_<addr> table row

vars == <<acc, credit, bill, pending, cashList, broken, now, billIndex>>

-----------------------------------------------------------------------------
(* The asset ledger, as used through executor/account.go.  Each operation  *)
(* needs a positive amount and enough funds; a transfer also needs two     *)
(* different addresses.                                                    *)

getBalance(s, x) == acc[s][x].balance

\* Mutant: the balance is not checked before freezing.
frozenAssetsOkUnchecked(A, s, x, n) == n > 0

frozenAssetsOk(A, s, x, n) == n > 0 /\ A[s][x].balance >= n
frozenAssets(A, s, x, n) ==
    [A EXCEPT ![s][x] = [balance |-> @.balance - n, frozen |-> @.frozen + n]]

activeFrozenAssetsOk(A, s, x, n) == n > 0 /\ A[s][x].frozen >= n
activeFrozenAssets(A, s, x, n) ==
    [A EXCEPT ![s][x] = [balance |-> @.balance + n, frozen |-> @.frozen - n]]

transferAssetsOk(A, s, f, t, n) == n > 0 /\ f # t /\ A[s][f].balance >= n
transferAssets(A, s, f, t, n) ==
    [A EXCEPT ![s][f].balance = @ - n, ![s][t].balance = @ + n]

transferFrozenAssetsOk(A, s, f, t, n) == n > 0 /\ f # t /\ A[s][f].frozen >= n
transferFrozenAssets(A, s, f, t, n) ==
    [A EXCEPT ![s][f].frozen = @ - n, ![s][t].balance = @ + n]

-----------------------------------------------------------------------------
(* Bill records and their dependent-credit list                            *)

\* The sum of the dpdt entries of symbol s.
DpdtTotal(d, s) ==
    MapThenSumSet(LAMBDA i : d[i].amount, {i \in DOMAIN d : d[i].symbol = s})

\* The loop "for _, v := range bill.DpdtTokens { if v.Symbol == s { t = v } }":
\* the index of the LAST entry with symbol s, 0 when there is none.
LastDpdt(d, s) == SelectLastInSeq(d, LAMBDA e : e.symbol = s)

\* The freeze loop of releaseBill (and its inverse in unReleaseBill and
\* RepayBill): every entry in turn, so duplicate symbols add up.
FreezeDpdtOk(A, x, d) ==
    \A s \in Credits : DpdtTotal(d, s) <= A[s][x].balance
FreezeDpdt(A, x, d) ==
    [s \in Symbols |-> IF s \in Credits
                       THEN [A[s] EXCEPT ![x].balance = @ - DpdtTotal(d, s),
                                         ![x].frozen  = @ + DpdtTotal(d, s)]
                       ELSE A[s]]
\* Mutant: only the last entry of each symbol is unfrozen.
ActiveDpdtLastOnly(A, x, d) ==
    [s \in Symbols |-> IF s \in Credits /\ LastDpdt(d, s) # 0
                       THEN [A[s] EXCEPT
                               ![x].balance = @ + d[LastDpdt(d, s)].amount,
                               ![x].frozen  = @ - d[LastDpdt(d, s)].amount]
                       ELSE A[s]]
ActiveDpdtOk(A, x, d) ==
    \A s \in Credits : DpdtTotal(d, s) <= A[s][x].frozen
ActiveDpdt(A, x, d) ==
    [s \in Symbols |-> IF s \in Credits
                       THEN [A[s] EXCEPT ![x].balance = @ + DpdtTotal(d, s),
                                         ![x].frozen  = @ - DpdtTotal(d, s)]
                       ELSE A[s]]

\* The sum over a bag of F(element), each copy counted.
BagTotal(B, F(_)) == MapThenSumSet(LAMBDA e : B[e] * F(e), DOMAIN B)

-----------------------------------------------------------------------------
Init ==
    /\ acc = InitAcc
    /\ credit = [s \in Credits |-> None]
    /\ bill = [b \in Bills |-> None]
    /\ pending = EmptyBag
    /\ cashList = [b \in Bills |-> EmptyBag]
    /\ broken = [b \in Bills |-> None]
    /\ now = 0
    /\ billIndex = [a \in Addr |-> [b \in Bills |-> None]]

\* A new block: time passes, up to the bound of the model.
Tick ==
    /\ now < MaxTime
    /\ now' = now + 1
    /\ UNCHANGED <<acc, credit, bill, pending, cashList, broken, billIndex>>

\* addCreditToken: move the credit tokens to the grantee and (over)write
\* the credit record of the symbol.
AddCreditToken(a, g, s, n, dur, r) ==
    /\ transferAssetsOk(acc, s, a, g, n)
    /\ acc' = transferAssets(acc, s, a, g, n)
    /\ credit' = [credit EXCEPT ![s] = [creditAddr |-> a, granteeAddr |-> g,
                     amount |-> n, rate |-> r, addTime |-> now, duration |-> dur]]
    /\ UNCHANGED <<bill, pending, cashList, broken, now, billIndex>>

\* transferCoins: a plain transfer of any asset, bill tokens included; it
\* does not look at bill.Split or at any handshake.
TransferCoins(a, t, s, n) ==
    /\ transferAssetsOk(acc, s, a, t, n)
    /\ acc' = transferAssets(acc, s, a, t, n)
    /\ UNCHANGED <<credit, bill, pending, cashList, broken, now, billIndex>>

\* ExecLocal_CreateBill: a row IouHolded in the BorrowerBill table of
\* payload.Addr, the sender, whoever the payload names Borrower.  tab.Add of a
\* primary key already present fails, and the handler ignores that error,
\* so an existing row keeps its status.
ExecLocalCreateBill(a, b) ==
    IF billIndex[a][b] = None
    THEN [billIndex EXCEPT ![a][b] = "IouHolded"] ELSE billIndex

\* tab.Update of the row of bill b in a's BorrowerBill table (the
\* ExecLocal of releaseBill, unReleaseBill and a settling RepayBill).  An
\* update of a missing row returns an error to the host (exec_local.go:251);
\* what the host does then is outside this code, and the model assumes the
\* table is left unchanged.
BorrowerBillUpdate(a, b, st) ==
    IF billIndex[a][b] # None
    THEN [billIndex EXCEPT ![a][b] = st] ELSE billIndex

\* ExecLocal_ReleaseBill and ExecLocal_UnReleaseBill: the row of the bill in
\* the releasing (unreleasing) address's table becomes IouFulfilling
\* (IouHolded again).
ExecLocalReleaseBill(a, b) == BorrowerBillUpdate(a, b, "IouFulfilling")
ExecLocalUnReleaseBill(a, b) == BorrowerBillUpdate(a, b, "IouHolded")

\* createBill: write a fresh Created record under the id, whether or not a
\* bill is stored there.  Dpdt entries whose credit is missing, expired or
\* granted to someone else than the borrower are skipped; the kept ones
\* must cover the loan.
CreateBill(b, creator, borrower, loan, circ, r, orate, grace, limit, split, need, list) ==
    LET Valid(e) == /\ credit[e.symbol] # None
                    /\ now <= credit[e.symbol].addTime + credit[e.symbol].duration
                    /\ credit[e.symbol].granteeAddr = borrower
        kept == IF need THEN SelectSeq(list, Valid) ELSE <<>>
    IN
    /\ FreshIdsOnly => bill[b] = None
    /\ need => MapThenSumSet(LAMBDA i : kept[i].amount, DOMAIN kept) >= loan
    /\ bill' = [bill EXCEPT ![b] =
          [status |-> "Created", borrower |-> borrower, loan |-> loan,
           rate |-> r, overdueRate |-> orate, circulationTime |-> circ,
           overdueLimit |-> IF limit # 0 THEN limit ELSE DefaultOverdueLimit,
           overdueGracePeriod |-> IF grace # 0 THEN grace
                                  ELSE DefaultOverdueGracePeriod,
           split |-> split, needDpdt |-> need,
           dpdt |-> [i \in DOMAIN kept |-> [symbol |-> kept[i].symbol,
                                            amount |-> kept[i].amount,
                                            used |-> 0]],
           issueDate |-> 0, repayDate |-> 0, repayedCount |-> 0,
           totalRedeem |-> 0, totalRepay |-> 0]]
    /\ billIndex' = ExecLocalCreateBill(creator, b)
    /\ UNCHANGED <<acc, credit, pending, cashList, broken, now>>

\* releaseBill: the borrower issues a Created bill holding at least the
\* loan in bill tokens, and its dpdt credit is frozen.
ReleaseBill(a, b) ==
    LET bl == bill[b] IN
    /\ bl # None
    /\ a = bl.borrower
    /\ bl.status = "Created"
    /\ getBalance(b, bl.borrower) >= bl.loan
    /\ bl.needDpdt => FreezeDpdtOk(acc, a, bl.dpdt)
    /\ acc' = IF bl.needDpdt THEN FreezeDpdt(acc, a, bl.dpdt) ELSE acc
    /\ bill' = [bill EXCEPT ![b].status = "Released", ![b].issueDate = now,
                            ![b].repayDate = now + bl.circulationTime]
    /\ billIndex' = ExecLocalReleaseBill(a, b)
    /\ UNCHANGED <<credit, pending, cashList, broken, now>>

\* Mutant: the borrower's token balance is not checked.
UnReleaseBillNoBalanceCheck(a, b) ==
    LET bl == bill[b] IN
    /\ bl # None
    /\ a = bl.borrower
    /\ bl.status = "Released"
    /\ bl.needDpdt => ActiveDpdtOk(acc, a, bl.dpdt)
    /\ acc' = IF bl.needDpdt THEN ActiveDpdt(acc, a, bl.dpdt) ELSE acc
    /\ bill' = [bill EXCEPT ![b].status = "Created"]
    /\ billIndex' = ExecLocalUnReleaseBill(a, b)
    /\ UNCHANGED <<credit, pending, cashList, broken, now>>

\* unReleaseBill: back to Created while the borrower still holds the loan
\* in free bill tokens; the dpdt credit is unfrozen.
UnReleaseBill(a, b) ==
    LET bl == bill[b] IN
    /\ bl # None
    /\ a = bl.borrower
    /\ bl.status = "Released"
    /\ getBalance(b, bl.borrower) >= bl.loan
    /\ bl.needDpdt => ActiveDpdtOk(acc, a, bl.dpdt)
    /\ acc' = IF bl.needDpdt THEN ActiveDpdt(acc, a, bl.dpdt) ELSE acc
    /\ bill' = [bill EXCEPT ![b].status = "Created"]
    /\ billIndex' = ExecLocalUnReleaseBill(a, b)
    /\ UNCHANGED <<credit, pending, cashList, broken, now>>

-----------------------------------------------------------------------------
(* The handshakes.  A proposal freezes the proposer's bill tokens and its  *)
(* ExecLocal adds a record keyed by the transaction hash; a cancel or a    *)
(* confirmation releases or moves the frozen tokens and its ExecLocal      *)
(* deletes the record.  Records with equal fields are interchangeable, so  *)
(* the live records form a bag.                                            *)

\* Mutant: the record's proposer and receiver swapped.
HandshakeItemSwapped(kind, b, from, to, n, s) ==
    [kind |-> kind, bill |-> b, from |-> to, to |-> from, amount |-> n,
     symbol |-> s]

HandshakeItem(kind, b, from, to, n, s) ==
    [kind |-> kind, bill |-> b, from |-> from, to |-> to, amount |-> n,
     symbol |-> s]

\* ExecLocal_SplitBill: the split record, keyed by the transaction hash.
SplitItem(a, b, t, n) == HandshakeItem("split", b, a, t, n, None)

\* ExecLocal_ApplyForFinancing: the financing record; the funder that must
\* confirm it is the creditor of symbol s at the time of the application.
ApplyFinancingItem(a, b, s, n) ==
    HandshakeItem("finance", b, a, credit[s].creditAddr, n, s)

\* The ExecLocal of every cancel and confirmation: the record is deleted.
CloseRecord(r) == BagRemove(pending, r)

\* deliverBill + ExecLocal_DeliverBill: a holder offers n
\* tokens of a Released, not yet due bill to t.
DeliverBill(a, b, t, n) ==
    LET bl == bill[b] IN
    /\ bl # None
    /\ bl.issueDate + bl.circulationTime > now
    /\ bl.status = "Released"
    /\ frozenAssetsOk(acc, b, a, n)
    /\ acc' = frozenAssets(acc, b, a, n)
    /\ pending' = BagAdd(pending, HandshakeItem("deliver", b, a, t, n, None))
    /\ UNCHANGED <<credit, bill, cashList, broken, now, billIndex>>

\* unDeliverBill + ExecLocal_UnDeliverBill: the proposer withdraws, at any
\* time and in any bill status.
UnDeliverBill(a, r) ==
    /\ r.kind = "deliver"
    /\ bill[r.bill] # None
    /\ r.from = a
    /\ activeFrozenAssetsOk(acc, r.bill, a, r.amount)
    /\ acc' = activeFrozenAssets(acc, r.bill, a, r.amount)
    /\ pending' = CloseRecord(r)
    /\ UNCHANGED <<credit, bill, cashList, broken, now, billIndex>>

\* confirmDeliverBill + ExecLocal_ConfirmDeliverBill (and the same code in
\* confirmSplitBill): the receiver accepts, taking the frozen tokens, or
\* refuses, unfreezing them, while the bill is Released and not past due.
ConfirmHandshake(kind, a, r, ack) ==
    LET bl == bill[r.bill] IN
    /\ r.kind = kind
    /\ bl # None
    /\ r.to = a
    /\ now <= bl.issueDate + bl.circulationTime
    /\ bl.status = "Released"
    /\ IF ack
       THEN /\ transferFrozenAssetsOk(acc, r.bill, r.from, r.to, r.amount)
            /\ acc' = transferFrozenAssets(acc, r.bill, r.from, r.to, r.amount)
       ELSE /\ activeFrozenAssetsOk(acc, r.bill, r.from, r.amount)
            /\ acc' = activeFrozenAssets(acc, r.bill, r.from, r.amount)
    /\ pending' = CloseRecord(r)
    /\ UNCHANGED <<credit, bill, cashList, broken, now, billIndex>>

ConfirmDeliverBill(a, r, ack) == ConfirmHandshake("deliver", a, r, ack)

\* splitBill + ExecLocal_SplitBill: a holder offers part of a splittable,
\* Released, not yet due bill to t.
SplitBill(a, b, t, n) ==
    LET bl == bill[b] IN
    /\ bl # None
    /\ bl.split
    /\ bl.issueDate + bl.circulationTime > now
    /\ bl.status = "Released"
    /\ frozenAssetsOk(acc, b, a, n)
    /\ acc' = frozenAssets(acc, b, a, n)
    /\ pending' = BagAdd(pending, SplitItem(a, b, t, n))
    /\ UNCHANGED <<credit, bill, cashList, broken, now, billIndex>>

\* unSplitBill + ExecLocal_UnSplitBill
UnSplitBill(a, r) ==
    /\ r.kind = "split"
    /\ bill[r.bill] # None
    /\ r.from = a
    /\ activeFrozenAssetsOk(acc, r.bill, a, r.amount)
    /\ acc' = activeFrozenAssets(acc, r.bill, a, r.amount)
    /\ pending' = CloseRecord(r)
    /\ UNCHANGED <<credit, bill, cashList, broken, now, billIndex>>

\* confirmSplitBill + ExecLocal_ConfirmSplitBill
ConfirmSplitBill(a, r, ack) == ConfirmHandshake("split", a, r, ack)

\* Mutant: the reservations already made are ignored.
UnusedIgnoringUsed(e) == e.amount

\* The credit of a dpdt entry not yet reserved by financing.
Unused(e) == e.amount - e.used

\* applyForFinancing + ExecLocal_ApplyForFinancing: a holder pledges n
\* tokens of bill b to the funder of credit s, reserving n of the credit
\* in the LAST dpdt entry of symbol s.  No bill status or date is checked.
ApplyForFinancing(a, b, s, n) ==
    LET bl == bill[b]
        i  == LastDpdt(bl.dpdt, s)
    IN
    /\ bl # None
    /\ i # 0
    /\ n <= Unused(bl.dpdt[i])
    /\ frozenAssetsOk(acc, b, a, n)
    /\ credit[s] # None
    /\ acc' = frozenAssets(acc, b, a, n)
    /\ bill' = [bill EXCEPT ![b].dpdt[i].used = @ + n]
    /\ pending' = BagAdd(pending, ApplyFinancingItem(a, b, s, n))
    /\ UNCHANGED <<credit, cashList, broken, now, billIndex>>

\* unApplyForFinancing + ExecLocal_UnApplyForFinancing.  The bill whose
\* tokens are unfrozen and whose credit is given back is the id of the
\* cancel payload, not the id stored in the record.
UnApplyForFinancing(a, r, id) ==
    LET bl == bill[id]
        i  == LastDpdt(bl.dpdt, r.symbol)
    IN
    /\ r.kind = "finance"
    /\ bl # None
    /\ r.from = a
    /\ r.amount > 0 => activeFrozenAssetsOk(acc, id, a, r.amount)
    /\ acc' = IF r.amount > 0 THEN activeFrozenAssets(acc, id, a, r.amount)
              ELSE acc
    /\ bill' = IF i # 0 THEN [bill EXCEPT ![id].dpdt[i].used = @ - r.amount]
               ELSE bill
    /\ pending' = CloseRecord(r)
    /\ UNCHANGED <<credit, cashList, broken, now, billIndex>>

\* confirmFinancing + ExecLocal_ConfirmFinancing: the funder pays the
\* discounted value in coins and takes the pledged tokens, or refuses and
\* the tokens and the credit reservation are given back.
ConfirmFinancing(a, r, ack) ==
    LET bl == bill[r.bill]
        cr == credit[r.symbol]
        i  == LastDpdt(bl.dpdt, r.symbol)
        tokenValue == CalcTokenValueForFinancing(r.amount, cr.rate,
                          (bl.repayDate - now) \div OneDaySeconds)
        paid == transferAssets(acc, Coin, a, r.from, tokenValue)
    IN
    /\ r.kind = "finance"
    /\ r.to = a
    /\ cr # None
    /\ bl # None
    /\ now <= cr.addTime + cr.duration
    /\ now <= bl.repayDate
    /\ bl.status = "Released"
    /\ IF ack
       THEN /\ tokenValue # 0
            /\ transferAssetsOk(acc, Coin, a, r.from, tokenValue)
            /\ transferFrozenAssetsOk(paid, r.bill, r.from, a, r.amount)
            /\ acc' = transferFrozenAssets(paid, r.bill, r.from, a, r.amount)
            /\ UNCHANGED bill
       ELSE /\ activeFrozenAssetsOk(acc, r.bill, r.from, r.amount)
            /\ acc' = activeFrozenAssets(acc, r.bill, r.from, r.amount)
            /\ bill' = IF i # 0
                       THEN [bill EXCEPT ![r.bill].dpdt[i].used = @ - r.amount]
                       ELSE bill
    /\ pending' = CloseRecord(r)
    /\ UNCHANGED <<credit, cashList, broken, now, billIndex>>

-----------------------------------------------------------------------------
(* Redemption                                                              *)

\* ExecLocal_CashBill: the cash request filed in the bill's cash list.
CashItem(a, n) == [owner |-> a, amount |-> n, ts |-> now]

\* CashBill + ExecLocal_CashBill: a holder of a Released bill freezes n
\* tokens and files a cash request stamped with the block time.
CashBill(a, b, n) ==
    LET bl == bill[b] IN
    /\ bl # None
    /\ bl.status = "Released"
    /\ getBalance(b, a) >= n
    /\ frozenAssetsOk(acc, b, a, n)
    /\ acc' = frozenAssets(acc, b, a, n)
    /\ cashList' = [cashList EXCEPT ![b] = BagAdd(@, CashItem(a, n))]
    /\ UNCHANGED <<credit, bill, pending, broken, now, billIndex>>

\* Mutant: a request priced at the time it was filed, not at repayment.
RepayValueAtFiling(bl, item) ==
    LET info == CalcIouRepayInfo(bl, item.ts, item.amount)
    IN  IF info.ok THEN info.actual ELSE 0

\* The amount RepayBill pays for a cash request: a request filed after the
\* due date is priced as if it had been filed at the due date.
RepayValue(bl, item) ==
    LET due == bl.issueDate + bl.circulationTime
        cashTime == IF item.ts > due THEN due + now - item.ts ELSE now
        info == CalcIouRepayInfo(bl, cashTime, item.amount)
    IN  IF info.ok THEN info.actual ELSE 0

ExecLocalRepayBillAlwaysFinished(b, creator, paid, cleared) ==
    /\ cashList' = [cashList EXCEPT ![b] = @ (-) paid]
    /\ billIndex' = BorrowerBillUpdate(creator, b, "IouFinished")
    /\ broken' = [broken EXCEPT ![b] = None]

\* ExecLocal_RepayBill: the paid requests leave the cash list; when the
\* arrears are cleared the creator's row becomes IouFinished; the bill's
\* broken record is deleted, whether or not the bill is now settled.
ExecLocalRepayBill(b, creator, paid, cleared) ==
    /\ cashList' = [cashList EXCEPT ![b] = @ (-) paid]
    /\ billIndex' = IF cleared THEN BorrowerBillUpdate(creator, b, "IouFinished")
                   ELSE billIndex
    /\ broken' = [broken EXCEPT ![b] = None]

\* The test "bill.TotalRedeemToken == bill.LoanAmount" after a pass that
\* redeemed `redeem` more tokens.
Settled(bl, redeem) == bl.totalRedeem + redeem = bl.loan

(***************************************************************************)
(* RepayBill + ExecLocal_RepayBill.  Anyone may pay.  Every cash request   *)
(* of the bill with a non-zero value is paid from the payer's coins to its *)
(* owner, and its frozen tokens go to MiddleAddr; a zero-valued request is *)
(* skipped and stays.  When the redeemed tokens reach the loan the bill is *)
(* Blocked and its dpdt credit unfrozen.  The payer's coins are debited    *)
(* request by request, so the loop succeeds iff they cover the sum; a      *)
(* request owned by the payer is a transfer to itself, which fails.       *)
(* ExecLocal deletes the paid requests and the bill's broken record.       *)
(***************************************************************************)
RepayBill(a, b) ==
    LET bl == bill[b]
        cl == cashList[b]
        paid == [e \in {x \in DOMAIN cl : RepayValue(bl, x) > 0} |-> cl[e]]
        Value(e) == RepayValue(bl, e)
        redeem == BagTotal(paid, LAMBDA e : e.amount)
        repay  == BagTotal(paid, Value)
        PaidTo(o) == BagTotal(paid, LAMBDA e : IF e.owner = o THEN Value(e) ELSE 0)
        BurnedFrom(o) ==
            BagTotal(paid, LAMBDA e : IF e.owner = o THEN e.amount ELSE 0)
        settled == Settled(bl, redeem)
        A1 == [acc EXCEPT
                 ![Coin] = [o \in Accounts |->
                     [acc[Coin][o] EXCEPT !.balance =
                         @ + PaidTo(o) - (IF o = a THEN repay ELSE 0)]],
                 ![b] = [o \in Accounts |->
                     [balance |-> acc[b][o].balance
                                  + (IF o = MiddleAddr THEN redeem ELSE 0),
                      frozen  |-> acc[b][o].frozen - BurnedFrom(o)]]]
    IN
    /\ bl # None
    /\ bl.repayedCount # RepayCount
    /\ EmptyCashListFails => cl # EmptyBag
    /\ bl.loan >= bl.totalRedeem + BagTotal(cl, LAMBDA e : e.amount)
    /\ \A e \in DOMAIN paid : e.owner # a
    /\ getBalance(Coin, a) >= repay
    /\ \A o \in Addr : acc[b][o].frozen >= BurnedFrom(o)
    /\ settled /\ bl.needDpdt => ActiveDpdtOk(A1, bl.borrower, bl.dpdt)
    /\ acc' = IF settled /\ bl.needDpdt
              THEN ActiveDpdt(A1, bl.borrower, bl.dpdt) ELSE A1
    /\ bill' = [bill EXCEPT ![b] =
                  [@ EXCEPT !.totalRedeem = @ + redeem,
                            !.totalRepay = @ + repay,
                            !.repayedCount = IF settled THEN RepayCount ELSE @,
                            !.status = IF settled THEN "Blocked" ELSE @,
                            !.repayDate = IF settled THEN MaxRepayDate ELSE @]]
    /\ ExecLocalRepayBill(b, bl.borrower, paid, settled)
    /\ UNCHANGED <<credit, pending, now>>

\* tab.Add of a row to the broken table, whose primary key is the bill id:
\* a row already there is a duplicate key, an error the handler ignores,
\* so the first row stays.
BrokenTableAdd(b, rec) ==
    IF broken[b] = None THEN [broken EXCEPT ![b] = rec] ELSE broken

\* ExecLocal_ReportBroken: the record from the receipt log goes to the
\* broken table.
ExecLocalReportBroken(b, rec) == broken' = BrokenTableAdd(b, rec)

\* Go's integer division, which truncates towards zero.
QuoTrunc(x, d) == IF x >= 0 THEN x \div d ELSE -((-x) \div d)

\* The BrokenRecordStateDB of ReportBroken: the days since bill.RepayDate
\* and the overdue part of what the whole cash list would cost now.
BrokenRecord(bl, cash) ==
    LET info == CalcIouRepayInfo(bl, now, cash) IN
    [overdueDays  |-> QuoTrunc(now - bl.repayDate, OneDaySeconds),
     overdueValue |-> IF info.ok THEN info.actual - info.normal ELSE 0]

\* ReportBroken + ExecLocal_ReportBroken: once the due date is reached
\* anyone may put the bill in the broken table, whatever its status.
ReportBroken(b) ==
    /\ bill[b] # None
    /\ now >= bill[b].issueDate + bill[b].circulationTime
    /\ EmptyCashListFails => cashList[b] # EmptyBag
    /\ ExecLocalReportBroken(b,
           BrokenRecord(bill[b], BagTotal(cashList[b], LAMBDA e : e.amount)))
    /\ UNCHANGED <<acc, credit, bill, pending, cashList, now, billIndex>>

-----------------------------------------------------------------------------
DpdtInputs == [symbol : Credits, amount : DpdtAmounts]

Next ==
    \/ Tick
    \/ \E a, g \in Addr, s \in Credits, n \in CreditAmounts,
          dur \in CreditDurations, r \in CreditRates :
           AddCreditToken(a, g, s, n, dur, r)
    \/ \E a \in Addr, t \in Accounts, s \in TransferSymbols, n \in Amounts :
           TransferCoins(a, t, s, n)
    \/ \E b \in Bills :
         /\ FreshIdsOnly => bill[b] = None
         /\ \E creator, borrower \in Addr, loan \in LoanAmounts,
              circ \in CirculationTimes, r \in BillRates,
              orate \in OverdueRates, grace \in GracePeriods,
              limit \in OverdueLimits, split \in SplitInputs,
              need \in NeedDpdtInputs,
              list \in SeqOf(DpdtInputs, MaxDpdt) :
               /\ CreatorIsBorrower => creator = borrower
               /\ CreateBill(b, creator, borrower, loan, circ, r, orate,
                             grace, limit, split, need, list)
    \/ \E a \in Addr, b \in Bills : ReleaseBill(a, b) \/ UnReleaseBill(a, b)
    \/ \E a, t \in Addr, b \in Bills, n \in Amounts :
           DeliverBill(a, b, t, n) \/ SplitBill(a, b, t, n)
    \/ \E a \in Addr, b \in Bills, s \in Credits, n \in Amounts :
           ApplyForFinancing(a, b, s, n)
    \/ \E a \in Addr, r \in BagToSet(pending) :
           \/ UnDeliverBill(a, r)
           \/ UnSplitBill(a, r)
           \/ \E id \in Bills : UnApplyForFinancing(a, r, id)
           \/ \E ack \in BOOLEAN :
                 \/ ConfirmDeliverBill(a, r, ack)
                 \/ ConfirmSplitBill(a, r, ack)
                 \/ ConfirmFinancing(a, r, ack)
    \/ \E a \in Addr, b \in Bills, n \in Amounts : CashBill(a, b, n)
    \/ \E a \in Addr \cup Repayers, b \in Bills : RepayBill(a, b)
    \/ \E b \in Bills : ReportBroken(b)

Spec == Init /\ [][Next]_vars

\* Blocks keep coming (the host produces them), and the borrower's paying
\* account submits RepayBill for a bill whenever the executor would accept
\* a repayment that changes something.  The second conjunct is an
\* assumption about a user, not something the executor enforces.
FairSpec ==
    /\ Spec
    /\ WF_vars(Tick)
    /\ \A b \in Bills : WF_vars(\E p \in Repayers : RepayBill(p, b))

-----------------------------------------------------------------------------
(* Queries (query.go): read-only views of the stores in the current block. *)

\* The BorrowerBill statuses the handlers write (IouDeleted never is).
IouStatuses == {"IouHolded", "IouFulfilling", "IouFinished"}

(***************************************************************************)
(* Query_BorrowerBillByStatus: the rows of x's BorrowerBill table with the *)
(* status, each read back from the state db; a row whose bill is missing   *)
(* fails the whole query with ErrBillNotFound.                             *)
(***************************************************************************)
Query_BorrowerBillByStatus(x, st) ==
    LET rows == {b \in Bills : billIndex[x][b] = st} IN
    IF \E b \in rows : bill[b] = None THEN "ErrBillNotFound" ELSE rows

-----------------------------------------------------------------------------
(* Properties                                                              *)

BillRec == [status : {"Created", "Released", "Blocked"}, borrower : Addr,
            loan : LoanAmounts, rate : BillRates, overdueRate : OverdueRates,
            circulationTime : CirculationTimes,
            overdueLimit : OverdueLimits \cup {DefaultOverdueLimit},
            overdueGracePeriod : GracePeriods \cup {DefaultOverdueGracePeriod},
            split : BOOLEAN, needDpdt : BOOLEAN,
            dpdt : Seq([symbol : Credits, amount : DpdtAmounts, used : Int]),
            issueDate : 0..MaxTime, repayDate : Nat,
            repayedCount : {0, RepayCount}, totalRedeem : Nat, totalRepay : Nat]

TypeOK ==
    /\ acc \in [Symbols -> [Accounts -> [balance : Nat, frozen : Nat]]]
    /\ \A s \in Credits : credit[s] = None \/
          credit[s] \in [creditAddr : Addr, granteeAddr : Addr,
                         amount : CreditAmounts, rate : CreditRates,
                         addTime : 0..MaxTime, duration : CreditDurations]
    /\ \A b \in Bills : bill[b] = None \/ bill[b] \in BillRec
    /\ IsABag(pending)
    /\ \A r \in BagToSet(pending) :
          r \in [kind : {"deliver", "split", "finance"}, bill : Bills,
                 from : Addr, to : Addr, amount : Amounts,
                 symbol : Credits \cup {None}]
    /\ \A b \in Bills : IsABag(cashList[b]) /\
          BagToSet(cashList[b]) \subseteq
             [owner : Addr, amount : Amounts, ts : 0..MaxTime]
    /\ broken \in [Bills -> {None} \cup
                     [overdueDays : Int, overdueValue : Int]]
    /\ now \in 0..MaxTime
    /\ billIndex \in [Addr -> [Bills -> {None} \cup IouStatuses]]

\* Tokens of bill b that x has on offer or has asked to cash.
Escrowed(b, x) ==
    BagTotal(pending, LAMBDA r : IF r.bill = b /\ r.from = x THEN r.amount ELSE 0)
    + BagTotal(cashList[b], LAMBDA c : IF c.owner = x THEN c.amount ELSE 0)

(* Escrow is exact: the frozen bill tokens of every holder are the sum of  *)
(* its live deliver, split and financing offers and its cash requests.    *)
(* Every propose / cancel / confirm / CashBill / RepayBill step of         *)
(* action.go and the record it adds or deletes in exec_local.go must move  *)
(* the same amount, for the right bill and the right address.             *)
EscrowBacked ==
    \A b \in Bills, x \in Addr : acc[b][x].frozen = Escrowed(b, x)

\* Credit of symbol s that the Released bills of x keep frozen.
CreditLocked(s, x) ==
    MapThenSumSet(LAMBDA b : DpdtTotal(bill[b].dpdt, s),
        {b \in Bills : bill[b] # None /\ bill[b].status = "Released"
                       /\ bill[b].needDpdt /\ bill[b].borrower = x})

(* Dependent credit is frozen exactly while its bill is Released: the      *)
(* freeze loop of releaseBill, the unfreeze loops of unReleaseBill and of  *)
(* a settling RepayBill, over dpdt lists that may repeat a symbol, keep    *)
(* every borrower's frozen credit equal to the dpdt totals of its          *)
(* Released bills, so no credit is stranded or released early.            *)
CreditFreezeTracksRelease ==
    \A s \in Credits, x \in Addr : acc[s][x].frozen = CreditLocked(s, x)

\* Tokens of bill b pledged for financing against credit s and not settled.
PendingFinancing(b, s) ==
    BagTotal(pending, LAMBDA r : IF r.kind = "finance" /\ r.bill = b
                                    /\ r.symbol = s THEN r.amount ELSE 0)

(* Credit reservations cover the live financing requests: the Used field   *)
(* of the entry that applyForFinancing, unApplyForFinancing and            *)
(* confirmFinancing all pick (the last one of the symbol) is at least the  *)
(* amount pledged and not yet confirmed or cancelled, and never more than  *)
(* the entry's amount.                                                     *)
UsedCoversPending ==
    \A b \in Bills, s \in Credits :
        bill[b] # None =>
           LET i == LastDpdt(bill[b].dpdt, s) IN
           IF i = 0 THEN PendingFinancing(b, s) = 0
           ELSE PendingFinancing(b, s) <= bill[b].dpdt[i].used
                /\ bill[b].dpdt[i].used <= bill[b].dpdt[i].amount

IouStatus == [Created |-> "IouHolded", Released |-> "IouFulfilling",
              Blocked |-> "IouFinished"]

(***************************************************************************)
(* The borrower's bill list agrees with the bills: for every address and   *)
(* BorrowerBill status, Query_BorrowerBillByStatus answers exactly the     *)
(* bills that address borrowed whose status in the state db maps to it.   *)
(* The rows are written by four ExecLocal handlers (createBill,            *)
(* releaseBill, unReleaseBill and a settling RepayBill) and must follow   *)
(* the bill through release, unrelease, partial repayments and            *)
(* settlement, with no row left behind under another address.             *)
(***************************************************************************)
IndexTracksStatus ==
    \A x \in Addr, st \in IouStatuses :
        Query_BorrowerBillByStatus(x, st) =
            {b \in Bills : /\ bill[b] # None /\ bill[b].borrower = x
                           /\ IouStatus[bill[b].status] = st}

(* A broken record goes away only with a full repayment: the specification *)
(* has RepayBill clear a bill's BrokenRecord in the step that makes        *)
(* TotalRedeemToken reach the loan; a step that removes the record leaves *)
(* the bill Blocked.                                                       *)
BrokenClearedOnlyBySettlement ==
    [][\A b \in Bills : broken[b] # None /\ broken'[b] = None =>
                           bill'[b].status = "Blocked"]_vars

Lifecycle == INSTANCE BillLifecycle WITH
    Faces    <- LoanAmounts,
    status   <- [b \in Bills |-> IF bill[b] = None THEN "None"
                                 ELSE bill[b].status],
    redeemed <- [b \in Bills |-> IF bill[b] = None THEN 0
                                 ELSE bill[b].totalRedeem],
    face     <- [b \in Bills |-> IF bill[b] = None THEN 0 ELSE bill[b].loan]

(* Refinement of the bill lifecycle: seen through its status, its          *)
(* TotalRedeemToken and its LoanAmount, every bill moves as BillLifecycle *)
(* allows: created once, unreleased only while nothing is redeemed,        *)
(* redeemed only while Released and never beyond the loan, and Blocked    *)
(* for good once the loan is redeemed.                                    *)
LifecycleRefined == Lifecycle!Spec


\* A bill that falls due within the explored time.
DueInHorizon(b) ==
    bill[b] # None /\ bill[b].issueDate + bill[b].circulationTime < MaxTime

(***************************************************************************)
(* Every cash request is eventually paid.  CashBill freezes the holder's   *)
(* tokens and only a RepayBill that pays the request releases them, so a   *)
(* request RepayBill never takes strands the tokens and the holder's       *)
(* claim.  Under FairSpec, once a bill that falls due in the horizon has   *)
(* requests, its cash list is eventually empty.                            *)
(***************************************************************************)
CashRequestsEventuallyPaid ==
    \A b \in Bills :
        (cashList[b] # EmptyBag /\ DueInHorizon(b)) ~> cashList[b] = EmptyBag

=============================================================================
