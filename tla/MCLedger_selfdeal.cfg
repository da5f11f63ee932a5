CONSTANTS
    a1 = a1
    a2 = a2
    t1 = t1
    t2 = t2
    AccountIds = {a1, a2}
    TokenIds = {t1, t2}
    InitTokenId = t1
    InitSupply = 3
    Amounts = {0, 1, 2}
    Supplies = {1}
    AllowanceInputs <- MCCleanAllowanceInputs
    BalanceBound = 4
SPECIFICATION Spec
SYMMETRY MCSymmetry
INVARIANT NoTokensCreated
