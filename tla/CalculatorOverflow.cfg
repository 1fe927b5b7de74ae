\* Exec_Add with operands near the top of the int64 range (here 4 bits).
CONSTANTS
    Hashes = {h1, h2}
    Operands = {1, 7}
    Width = 4
    MaxHeight = 1
    MaxBlockTxs = 1
    None = None
INIT Init
NEXT Next
INVARIANT
    FormulaHolds
