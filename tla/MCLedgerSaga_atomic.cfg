\* The second or third write of transferFrom may fail; the compensation
\* never does.  Does the invocation still apply all of its effects or none?
\* Positive amounts: the counterexample is an ordinary transfer.
CONSTANTS
    a1 = a1
    a2 = a2
    t1 = t1
    t2 = t2
    AccountIds = {a1, a2}
    TokenIds = {t1, t2}
    InitTokenId = t1
    InitSupply = 3
    Amounts = {1, 2}
    Supplies = {1}
    AllowanceInputs <- MCCleanAllowanceInputs
    BalanceBound = 4
    FaultyWrites <- MCTransferFaults
SPECIFICATION Spec
SYMMETRY MCSymmetry

PROPERTY AtomicSpec
