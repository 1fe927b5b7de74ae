----------------------------- MODULE Calculator -----------------------------
(***************************************************************************)
(* The calculator executor (src/plugin/dapp/calculator/executor).          *)
(*                                                                         *)
(* CheckTx refuses a division by zero before a transaction is packed.      *)
(* Exec_Add writes the formula "summand+addend=sum" to the state db under  *)
(* the transaction hash; Exec_Sub, Exec_Mul and Exec_Div write nothing.   *)
(* ExecLocal_Add increments the Add count record in the local db; the     *)
(* other ExecLocal handlers write nothing.  Every ExecLocal result goes    *)
(* through addAutoRollBack, which records the values the keys had before, *)
(* so that the host can undo the block when it is rolled back in a chain  *)
(* reorganisation.  Query_CalcCount reads the count record of an action.   *)
(*                                                                         *)
(* A block is a sequence of transactions executed in order.  Rolling back *)
(* the last block returns the state db to its parent and, transaction by  *)
(* transaction in reverse order, writes back the recorded old values of   *)
(* the local db.  The formula text is abstracted to its three numbers;    *)
(* int64 arithmetic is modelled at Width bits, wrapping around.           *)
(***************************************************************************)
EXTENDS Integers, Sequences, SequencesExt, FiniteSets

CONSTANTS
    Hashes,       \* transaction hashes
    Operands,     \* the operand values a payload may carry
    Width,        \* bits of the int64 arithmetic
    MaxHeight,    \* the longest chain explored
    MaxBlockTxs,  \* the most transactions in a block
    None          \* no record under a key

Ops == {"Add", "Sub", "Mul", "Div"}

VARIABLES
    chain,      \* the blocks on the chain, each a sequence of executed txs
    formula,    \* formula[h]: the "<prefix>-<h>-formula" state-db record
    calcCount   \* calcCount[op]: the "<prefix>-CalcCount-<op>" local record

vars == <<chain, formula, calcCount>>

Tx == [hash : Hashes, op : Ops, x : Operands, y : Operands]

\* int64 addition: two's complement, wrapping around at Width bits.
Int64Add(x, y) == ((x + y + 2^(Width - 1)) % 2^Width) - 2^(Width - 1)

\* CheckTx: the only payload refused is a Div with a zero divisor.
CheckTx(t) == t.op = "Div" => t.y # 0

\* Exec_Add stores summand, addend and their int64 sum under the hash; the
\* other Exec handlers return a receipt without KVs.
ExecFormula(f, t) ==
    IF t.op = "Add"
    THEN [f EXCEPT ![t.hash] = [summand |-> t.x, addend |-> t.y,
                                sum |-> Int64Add(t.y, t.x)]]
    ELSE f

\* Mutant: the count written back decremented instead of incremented.
ExecLocalKVDecrement(c, t) ==
    IF t.op = "Add" THEN "Add" :> c["Add"] - 1 ELSE [k \in {} |-> 0]

\* The KVs an ExecLocal handler returns, as a function from count keys to
\* values: ExecLocal_Add reads the Add count and writes it plus one.
ExecLocalKV(c, t) ==
    IF t.op = "Add" THEN "Add" :> c["Add"] + 1 ELSE [k \in {} |-> 0]

\* Mutant: the handler returns its KVs without addAutoRollBack.
addAutoRollBackMissing(c, kv) == [k \in {} |-> 0]

\* addAutoRollBack: the rollback record keeps each written key's old value.
addAutoRollBack(c, kv) == [k \in DOMAIN kv |-> c[k]]

\* One transaction of a block: Exec, then ExecLocal, recording the undo.
ExecTx(st, t) ==
    LET kv == ExecLocalKV(st.count, t) IN
    [formula |-> ExecFormula(st.formula, t),
     count   |-> [k \in Ops |-> IF k \in DOMAIN kv THEN kv[k] ELSE st.count[k]],
     txs     |-> Append(st.txs, [hash |-> t.hash, op |-> t.op,
                                 undo |-> addAutoRollBack(st.count, kv)])]

\* The executed transactions of the blocks on the chain, and their hashes.
Executed == UNION {ToSet(chain[k]) : k \in DOMAIN chain}
OnChain == {t.hash : t \in Executed}

\* ExecDelLocal of one transaction: its recorded old values come back.
DelLocal(c, t) ==
    [k \in Ops |-> IF k \in DOMAIN t.undo THEN t.undo[k] ELSE c[k]]

-----------------------------------------------------------------------------
Init ==
    /\ chain = <<>>
    /\ formula = [h \in Hashes |-> None]
    /\ calcCount = [op \in Ops |-> 0]

\* A block of transactions that passed CheckTx, with hashes new to the
\* chain, is executed in order.
AddBlock(txs) ==
    LET st == FoldLeft(ExecTx, [formula |-> formula, count |-> calcCount,
                                txs |-> <<>>], txs)
    IN
    /\ Len(chain) < MaxHeight
    /\ \A i \in DOMAIN txs : CheckTx(txs[i]) /\ txs[i].hash \notin OnChain
    /\ \A i, j \in DOMAIN txs : i # j => txs[i].hash # txs[j].hash
    /\ chain' = Append(chain, st.txs)
    /\ formula' = st.formula
    /\ calcCount' = st.count

\* The last block is rolled back: the state db returns to the parent block
\* and the local db is undone transaction by transaction, last first.
RollbackBlock ==
    LET blk == Last(chain) IN
    /\ chain # <<>>
    /\ chain' = Front(chain)
    /\ formula' = [h \in Hashes |->
                     IF \E i \in DOMAIN blk : blk[i].hash = h
                     THEN None ELSE formula[h]]
    /\ calcCount' = FoldRight(LAMBDA t, c : DelLocal(c, t), blk, calcCount)

Next ==
    \/ \E n \in 1..MaxBlockTxs : \E txs \in [1..n -> Tx] : AddBlock(txs)
    \/ RollbackBlock

Spec == Init /\ [][Next]_vars

\* Query_CalcCount: the count record of the action named in the request.
Query_CalcCount(op) == calcCount[op]

-----------------------------------------------------------------------------
(* Properties                                                              *)

TypeOK ==
    /\ Len(chain) <= MaxHeight
    /\ \A t \in Executed :
          /\ t.hash \in Hashes /\ t.op \in Ops
          /\ DOMAIN t.undo \subseteq Ops
          /\ t.undo \in [DOMAIN t.undo -> Nat]
    /\ formula \in [Hashes -> {None} \cup
                     [summand : Operands, addend : Operands, sum : Int]]
    /\ calcCount \in [Ops -> Nat]

\* Transactions of action op on the chain.
OnChainOf(op) == {t.hash : t \in {u \in Executed : u.op = op}}

(***************************************************************************)
(* The Add count that Query_CalcCount reports is the number of Add         *)
(* transactions on the chain, and the state db holds a formula for exactly *)
(* those, across blocks of several transactions and rollbacks of them: the *)
(* rollback records addAutoRollBack attaches to ExecLocal_Add's result     *)
(* must undo the increments of a rolled-back block.                        *)
(***************************************************************************)
AddCountMatchesChain ==
    /\ Query_CalcCount("Add") = Cardinality(OnChainOf("Add"))
    /\ {h \in Hashes : formula[h] # None} = OnChainOf("Add")

(***************************************************************************)
(* The formula Exec_Add stores is true: its sum is the summand plus the    *)
(* addend.                                                                 *)
(***************************************************************************)
FormulaHolds ==
    \A h \in Hashes :
        formula[h] # None => formula[h].sum = formula[h].summand + formula[h].addend

=============================================================================
