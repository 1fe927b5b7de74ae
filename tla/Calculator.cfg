\* The calculator's counts and formulas over up to three blocks of up to two
\* transactions, executed and rolled back.
CONSTANTS
    Hashes = {h1, h2, h3}
    Operands = {0, 1}
    Width = 8
    MaxHeight = 3
    MaxBlockTxs = 2
    None = None
INIT Init
NEXT Next
INVARIANTS
    TypeOK
    AddCountMatchesChain
