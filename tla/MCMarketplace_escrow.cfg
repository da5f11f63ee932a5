\* Escrow and delivery with well-formed inputs: two businesses, each with
\* its "Account-" account, one category, one contract type id with price 1
\* or 2, FILE or STREAM, any window over two instants, two contract ids.
CONSTANTS
    b1 = b1
    b2 = b2
    ac1 = ac1
    ac2 = ac2
    t1 = t1
    AccountIds = {ac1, ac2}
    TokenIds = {t1}
    InitTokenId = t1
    InitSupply = 2
    Amounts = {1, 2}
    Supplies = {1}
    AllowanceInputs <- MCCleanAllowanceInputs
    BalanceBound = 3
    Businesses = {b1, b2}
    Categories = {c1}
    TypeIds = {ty1}
    ContractIds = {k1, k2}
    AccountOf <- MCAccountOf
    Prices = {1}
    DataTypes = {"FILE", "STREAM"}
    Times = {0, 1}
    ReviewIds = {}
    PersonIds = {}
    DeletableKeys = {}
SPECIFICATION Spec
SYMMETRY MCSymmetry


\* Every write can run out: ids are used up, the supply is minted and the
\* allowances are spent, after which every invocation fails and the store
\* no longer changes.
CHECK_DEADLOCK FALSE
INVARIANT EscrowCoversOpenContracts
