\* float32 precision (24 significant bits; float64 has 53, beyond TLC's
\* 32-bit integers), on a grid of 2^-27 so that 0.1 keeps all 24 bits.
\* Three accounts: an owner and two spenders.  Amounts 0.1, 0.2, 0.3 and a
\* supply of 1.0.
CONSTANTS
    a1 = a1
    a2 = a2
    a3 = a3
    AccountIds = {a1, a2, a3}
    Tenths = {1, 2, 3}
    SupplyTenths = 10
    BalanceBound = 10
    Precision = 24
    Scale = 27
SPECIFICATION Spec
INVARIANT TotalAllowancesConsistent
