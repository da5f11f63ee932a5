\* deleteDoc of the contract type between proposal and shipment.
CONSTANTS
    b1 = b1
    b2 = b2
    ac1 = ac1
    ac2 = ac2
    t1 = t1
    AccountIds = {ac1, ac2}
    TokenIds = {t1}
    InitTokenId = t1
    InitSupply = 1
    Amounts = {1}
    Supplies = {1}
    AllowanceInputs <- MCCleanAllowanceInputs
    BalanceBound = 2
    Businesses = {b1, b2}
    Categories = {c1}
    TypeIds = {ty1}
    ContractIds = {k1}
    AccountOf <- MCAccountOf
    Prices = {1}
    DataTypes = {"FILE"}
    Times = {0}
    ReviewIds = {r1}
    PersonIds = {p1}
    DeletableKeys = {ty1}
SPECIFICATION Spec
\* See MCMarketplace.cfg: every invocation may come to fail.
CHECK_DEADLOCK FALSE
INVARIANT ContractPaidAgreedPrice
