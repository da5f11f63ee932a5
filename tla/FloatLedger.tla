----------------------------- MODULE FloatLedger -----------------------------
(***************************************************************************)
(* The allowance protocol of src/resources/account.go and token.go with    *)
(* the amounts as the code holds them: float64 values, parsed from the     *)
(* decimal strings of the chaincode arguments by strconv.ParseFloat, and   *)
(* every + and - rounded (module BinaryFloat).  Ledger keeps the same      *)
(* operations over exact integers.                                         *)
(*                                                                         *)
(* The accounts and the token exist (createToken and createAccount with an *)
(* empty allowance map have run); every invocation is one atomic step.     *)
(***************************************************************************)
EXTENDS Integers, FiniteSets, Functions, TLC

CONSTANTS
    AccountIds,   \* the stored accounts
    Tenths,       \* the arguments callers pass, as decimal strings "0.n"
    SupplyTenths, \* the token's total supply, as the decimal string of n tenths
    BalanceBound, \* bound on |balance| kept by TLC, in tenths
    Precision, Scale

F == INSTANCE BinaryFloat

VARIABLES
    acct,       \* account id -> [balance, total, allow], floats in grid units
    remaining   \* the token's RemainingSupply

vars == <<acct, remaining>>

\* strconv.ParseFloat of the decimal string "0.n" / of n tenths.
Amount(n) == F!ParseFloat(n, 10)

AllowanceOf(rec, s) == IF s \in DOMAIN rec.allow THEN rec.allow[s] ELSE 0

WithinBound(accts) ==
    \A a \in AccountIds : accts[a].balance <= F!ParseFloat(BalanceBound, 10)

Init ==
    /\ acct = [a \in AccountIds |->
                 [balance |-> 0, total |-> 0, allow |-> [s \in {} |-> 0]]]
    /\ remaining = Amount(SupplyTenths)

\* Token.SetAccountBalance (token.go 76-110): tokens > RemainingSupply is
\* refused; the balance is overwritten and RemainingSupply -= tokens.
SetAccountBalance(a, t) ==
    /\ ~(t > remaining)
    /\ acct' = [acct EXCEPT ![a].balance = t]
    /\ remaining' = F!FSub(remaining, t)

\* Approve (account.go 151-191): Balance < TotalAllowances+tokens is
\* refused; TotalAllowances+tokens, or TotalAllowances-val+tokens when the
\* spender has an entry, evaluated left to right; the entry is replaced.
Approve(o, s, t) ==
    LET rec == acct[o]
    IN  /\ ~(rec.balance < F!FAdd(rec.total, t))
        /\ acct' = [acct EXCEPT ![o].total =
                        IF s \notin DOMAIN rec.allow THEN F!FAdd(rec.total, t)
                        ELSE F!FAdd(F!FSub(rec.total, rec.allow[s]), t),
                                ![o].allow = (s :> t) @@ rec.allow]
        /\ UNCHANGED remaining

\* Account.ReduceAllowance (account.go 265-290): allowance -= tokens and
\* TotalAllowances -= tokens; the entry is deleted only when the rounded
\* difference is exactly 0.
ReduceAllowance(rec, s, t) ==
    IF s \notin DOMAIN rec.allow THEN rec
    ELSE LET left == F!FSub(rec.allow[s], t)
         IN  [rec EXCEPT !.total = F!FSub(@, t),
                         !.allow = IF left = 0
                                   THEN Restrict(@, DOMAIN @ \ {s})
                                   ELSE [@ EXCEPT ![s] = left]]

\* TransferFrom (account.go 215-263): tokens > allowance and
\* tokens > Balance are refused; the source is debited and its allowance
\* reduced, then the destination record read at the start is credited.
TransferFrom(src, dst, t) ==
    LET srcRec == ReduceAllowance([acct[src] EXCEPT !.balance =
                                       F!FSub(@, t)], dst, t)
        dstRec == [acct[dst] EXCEPT !.balance = F!FAdd(@, t)]
    IN  /\ ~(t > AllowanceOf(acct[src], dst))
        /\ ~(t > acct[src].balance)
        /\ acct' = [acct EXCEPT ![src] = srcRec, ![dst] = dstRec]
        /\ WithinBound(acct')
        /\ UNCHANGED remaining

Next ==
    \E a, b \in AccountIds, n \in Tenths :
        \/ SetAccountBalance(a, Amount(n))
        \/ Approve(a, b, Amount(n))
        \/ TransferFrom(a, b, Amount(n))

Spec == Init /\ [][Next]_vars

-----------------------------------------------------------------------------
\* The float sums of the entries of allowance map m, added in every order.
RECURSIVE FloatSums(_, _)
FloatSums(m, S) ==
    IF S = {} THEN {0}
    ELSE UNION {{F!FAdd(x, m[s]) : x \in FloatSums(m, S \ {s})} : s \in S}

(* After every allowance-protocol call, an account's TotalAllowances is    *)
(* the sum of its allowance entries (spec.md 8), read as a float64 sum in  *)
(* any order of addition.  The code keeps the total by its own rounded     *)
(* additions and subtractions in Approve and ReduceAllowance, and deletes  *)
(* an entry only when its rounded remainder is exactly 0.                  *)
TotalAllowancesConsistent ==
    \A a \in DOMAIN acct :
        acct[a].total \in FloatSums(acct[a].allow, DOMAIN acct[a].allow)
=============================================================================
