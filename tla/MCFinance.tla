------------------------------ MODULE MCFinance ------------------------------
(***************************************************************************)
(* Finance instantiated for TLC: a core enterprise that holds the bill     *)
(* token, a supplier, and a funder that holds the credit token; one bill   *)
(* and one credit symbol.  The bill's token supply equals its loan.       *)
(***************************************************************************)
EXTENDS Finance

CONSTANTS Core, Supplier, Funder,
          Supply    \* the bill token's supply, all at the core

\* The genesis ledger: the bill token at the core, the credit token at the
\* funder, coins at the core (to repay) and at the funder (to finance),
\* and enough coins at a paying account to repay every request.
MCInitAcc ==
    [s \in Symbols |-> [x \in Accounts |->
        [balance |->
            CASE s \in Bills   /\ x = Core   -> Supply
              [] s \in Credits /\ x = Funder -> 2
              [] s = Coin      /\ x \in {Core, Funder} -> 2
              [] s = Coin      /\ x \in Repayers -> 4
              [] OTHER -> 0,
         frozen |-> 0]]]

=============================================================================
