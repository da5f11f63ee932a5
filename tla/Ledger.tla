------------------------------- MODULE Ledger -------------------------------
(***************************************************************************)
(* The token ledger of the data-marketplace chaincode: Token and Account   *)
(* records and the allowance protocol of src/resources/account.go and      *)
(* src/resources/token.go.                                                 *)
(*                                                                         *)
(* One Fabric invocation is one atomic step: the chaincode's PutState      *)
(* calls are buffered in the transaction's write set, an invocation that   *)
(* returns shim.Error commits nothing, and MVCC validation serialises      *)
(* invocations that touched the same keys.  An operation therefore either  *)
(* applies all of its writes or none, and its error paths are the          *)
(* conjuncts of its guard.  Reads inside an invocation see committed       *)
(* state: a record read before a write of the same key is stale, and the   *)
(* last write of a key wins.                                               *)
(*                                                                         *)
(* Amounts are float64 in the code and integers here: the model keeps the  *)
(* comparisons and arithmetic exactly, and leaves rounding out.            *)
(***************************************************************************)
EXTENDS Integers, FiniteSets, Functions, TLC

CONSTANTS
    AccountIds,      \* ids an Account record may be stored under
    TokenIds,        \* ids a Token record may be stored under
    InitTokenId,     \* the token created by the chaincode's Init
    InitSupply,      \* the total supply passed to Init
    Amounts,         \* amounts callers pass to approve/transferFrom/setAccountBalance
    Supplies,        \* total supplies callers pass to createToken
    AllowanceInputs, \* allowance maps a createAccount JSON argument may carry
    BalanceBound     \* bound on |balance|, |allowance| and |total| kept by TLC

ASSUME InitTokenId \in TokenIds /\ InitSupply \in Nat
ASSUME Amounts \subseteq Int /\ Supplies \subseteq Int /\ BalanceBound \in Nat

VARIABLES
    tokens,  \* token id -> [total, remaining]: the Token records in the store
    acct     \* account id -> [balance, total, allow]: the Account records

ledgerVars == <<tokens, acct>>

(* The Go map Allowances is a function whose domain is the set of spenders *)
(* that have an entry; the empty map and a missing entry are distinct     *)
(* from an entry holding 0.                                                *)
NoAllowances == [s \in {} |-> 0]

\* Account.Allowances[spender], defaulting to 0 as in Allowance/TransferFrom.
AllowanceOf(rec, spender) ==
    IF spender \in DOMAIN rec.allow THEN rec.allow[spender] ELSE 0

\* GetAccountState/GetTokenState succeed: the key holds a record of that
\* docType.  Keys of the other docTypes are outside the two domains.
IsAccount(accts, id) == id \in DOMAIN accts
IsToken(toks, id) == id \in DOMAIN toks

-----------------------------------------------------------------------------
(* Record-level steps of Account: each takes the in-memory Account value   *)
(* and returns it after the method's update.  The write that follows is    *)
(* done by the caller's assignment to acct.                                *)

\* Mutant: RetrieveFunds without its funds check.
CanRetrieveFundsUnchecked(rec, t) == TRUE

\* Account.RetrieveFunds: fails when tokens > balance.
CanRetrieveFunds(rec, t) == ~(t > rec.balance)

\* Mutant: RetrieveFunds with a value receiver, whose debit is lost before
\* ReduceAllowance writes the record.
RetrieveFundsOnCopy(rec, t) == rec

RetrieveFunds(rec, t) == [rec EXCEPT !.balance = @ - t]

\* Account.AddFunds.
AddFunds(rec, t) == [rec EXCEPT !.balance = @ + t]

\* Account.SetBalance: overwrites the balance.
SetBalance(rec, t) == [rec EXCEPT !.balance = t]

\* Mutant: ReduceAllowance that forgets TotalAllowances.
ReduceAllowanceKeepTotal(rec, spender, t) ==
    IF spender \notin DOMAIN rec.allow THEN rec
    ELSE LET left == rec.allow[spender] - t
         IN  [rec EXCEPT
                !.allow = IF left = 0
                          THEN Restrict(@, DOMAIN @ \ {spender})
                          ELSE [@ EXCEPT ![spender] = left]]

\* Account.ReduceAllowance: no entry -> nothing changes and nothing is
\* written; otherwise total and entry drop by tokens and an entry that
\* reaches exactly 0 is deleted.
ReduceAllowance(rec, spender, t) ==
    IF spender \notin DOMAIN rec.allow THEN rec
    ELSE LET left == rec.allow[spender] - t
         IN  [rec EXCEPT
                !.total = @ - t,
                !.allow = IF left = 0
                          THEN Restrict(@, DOMAIN @ \ {spender})
                          ELSE [@ EXCEPT ![spender] = left]]

-----------------------------------------------------------------------------
(* Approve(owner, spender, tokens), account.go 151-191, as a function of   *)
(* the accounts map so that SubmitDataContractProposal can reuse it.       *)

\* Guard: owner exists, has funds for all allowances plus tokens (the code
\* does not subtract the spender's previous allowance), spender exists.
ApproveOk(accts, owner, spender, t) ==
    /\ IsAccount(accts, owner)
    /\ ~(accts[owner].balance < accts[owner].total + t)
    /\ IsAccount(accts, spender)

\* Replace semantics: TotalAllowances moves by tokens - previous.
ApproveResult(accts, owner, spender, t) ==
    LET rec == accts[owner]
        newTotal == IF spender \notin DOMAIN rec.allow
                    THEN rec.total + t
                    ELSE rec.total - rec.allow[spender] + t
    IN  [accts EXCEPT ![owner] =
            [rec EXCEPT !.total = newTotal,
                        !.allow = (spender :> t) @@ @]]

(* TransferFrom(source, destination, tokens), account.go 215-263.  Both    *)
(* records are read first; the source is written by RetrieveFunds and by   *)
(* ReduceAllowance, then the destination record read at the start is       *)
(* written by AddFunds.  When source = destination the last write wins.    *)

TransferFromOk(accts, src, dst, t) ==
    /\ IsAccount(accts, src)
    /\ IsAccount(accts, dst)
    /\ ~(t > AllowanceOf(accts[src], dst))
    /\ CanRetrieveFunds(accts[src], t)

TransferFromResult(accts, src, dst, t) ==
    LET srcRec == ReduceAllowance(RetrieveFunds(accts[src], t), dst, t)
        dstRec == AddFunds(accts[dst], t)
    IN  [accts EXCEPT ![src] = srcRec, ![dst] = dstRec]

\* The bound TLC needs on the numbers an account holds.
WithinBound(accts) ==
    \A a \in DOMAIN accts :
        /\ accts[a].balance \in -BalanceBound..BalanceBound
        /\ accts[a].total \in -BalanceBound..BalanceBound
        /\ \A s \in DOMAIN accts[a].allow :
               accts[a].allow[s] \in -BalanceBound..BalanceBound

-----------------------------------------------------------------------------
(* Operations: one action per chaincode entry point that writes.           *)

Init ==
    /\ tokens = (InitTokenId :> [total |-> InitSupply, remaining |-> InitSupply])
    /\ acct = [a \in {} |-> [balance |-> 0, total |-> 0, allow |-> NoAllowances]]

\* createToken -> NewTokenWithSupply (token.go 21-50): supply >= 0, new id.
\* The "already exists" error of the chaincode wrapper writes nothing.
CreateToken(id, ts) ==
    /\ ~(ts < 0)
    /\ id \notin DOMAIN tokens
    /\ tokens' = tokens @@ (id :> [total |-> ts, remaining |-> ts])
    /\ UNCHANGED acct

\* createAccount -> CreateAccount (account.go 20-57): balance and
\* TotalAllowances are zeroed, the Allowances map of the argument is kept.
CreateAccount(id, allow) ==
    /\ id \notin DOMAIN acct
    /\ acct' = acct @@ (id :> [balance |-> 0, total |-> 0, allow |-> allow])
    /\ UNCHANGED tokens

\* Mutant: SetAccountBalance without the remaining-supply check.
SetAccountBalanceUnchecked(tid, a, t) ==
    /\ tid \in DOMAIN tokens
    /\ a \in DOMAIN acct
    /\ acct' = [acct EXCEPT ![a] = SetBalance(@, t)]
    /\ tokens' = [tokens EXCEPT ![tid].remaining = @ - t]
    /\ WithinBound(acct')

\* setAccountBalance -> Token.SetAccountBalance (token.go 76-110): the
\* account's balance is overwritten, then the token's remaining supply drops.
SetAccountBalance(tid, a, t) ==
    /\ IsToken(tokens, tid)
    /\ ~(t > tokens[tid].remaining)
    /\ IsAccount(acct, a)
    /\ acct' = [acct EXCEPT ![a] = SetBalance(@, t)]
    /\ tokens' = [tokens EXCEPT ![tid].remaining = @ - t]
    /\ WithinBound(acct')

\* approve -> Approve.
Approve(owner, spender, t) ==
    /\ ApproveOk(acct, owner, spender, t)
    /\ acct' = ApproveResult(acct, owner, spender, t)
    /\ WithinBound(acct')
    /\ UNCHANGED tokens

\* transferFrom -> TransferFrom.
TransferFrom(src, dst, t) ==
    /\ TransferFromOk(acct, src, dst, t)
    /\ acct' = TransferFromResult(acct, src, dst, t)
    /\ WithinBound(acct')
    /\ UNCHANGED tokens

Next ==
    \/ \E id \in TokenIds, ts \in Supplies : CreateToken(id, ts)
    \/ \E id \in AccountIds, al \in AllowanceInputs : CreateAccount(id, al)
    \/ \E tid \in TokenIds, a \in AccountIds, t \in Amounts :
           SetAccountBalance(tid, a, t)
    \/ \E o, s \in AccountIds, t \in Amounts : Approve(o, s, t)
    \/ \E src, dst \in AccountIds, t \in Amounts : TransferFrom(src, dst, t)

Spec == Init /\ [][Next]_ledgerVars

-----------------------------------------------------------------------------
(* Properties                                                              *)

TypeOK ==
    /\ DOMAIN tokens \subseteq TokenIds
    /\ \A id \in DOMAIN tokens : tokens[id] \in [total : Nat, remaining : Nat]
    /\ DOMAIN acct \subseteq AccountIds
    /\ \A a \in DOMAIN acct :
           /\ DOMAIN acct[a] = {"balance", "total", "allow"}
           /\ acct[a].balance \in Int /\ acct[a].total \in Int
           /\ DOMAIN acct[a].allow \subseteq AccountIds
           /\ \A s \in DOMAIN acct[a].allow : acct[a].allow[s] \in Int

(* Account.TotalAllowances equals the sum of the Allowances map for every  *)
(* stored account (spec section 8): Approve, ReduceAllowance and           *)
(* CreateAccount must each keep the two in step.                           *)
TotalAllowancesConsistent ==
    \A a \in DOMAIN acct : acct[a].total = SumFunction(acct[a].allow)

(* No stored balance is ever negative (spec section 3): RetrieveFunds'     *)
(* check must hold even after SetAccountBalance lowered a balance below    *)
(* the allowances an earlier Approve had granted.                          *)
NoNegativeBalance ==
    \A a \in DOMAIN acct : acct[a].balance >= 0

\* Tokens held in accounts or still unminted, and tokens ever issued.
LedgerValue ==
    SumFunction([a \in DOMAIN acct |-> acct[a].balance])
      + SumFunction([id \in DOMAIN tokens |-> tokens[id].remaining])
IssuedSupply == SumFunction([id \in DOMAIN tokens |-> tokens[id].total])

\* Some account holds an allowance entry naming itself.
SelfAllowance == \E a \in DOMAIN acct : a \in DOMAIN acct[a].allow

(* No tokens are created (spec section 1): SetAccountBalance moves supply  *)
(* into a balance, TransferFrom moves a balance to another account, so the *)
(* tokens held plus the unminted supply never exceed what was issued.      *)
NoTokensCreated == LedgerValue <= IssuedSupply

(* The same, for ledgers where no account ever approved itself: the only   *)
(* way TransferFrom may create tokens is the stale destination record it   *)
(* writes when source = destination.  A self-allowance entry, once made,   *)
(* is never removed (the stale write restores it), so this is an           *)
(* invariant and not a claim about histories.                              *)
NoTokensCreatedWithoutSelfDealing == ~SelfAllowance => NoTokensCreated

(* Approve replaces the spender's allowance, so the funds check counts    *)
(* the new amount instead of the old one (spec 4.2 and scenario A: with    *)
(* balance 100 and 70 approved to u2, approve(u1, u2, 50) succeeds).       *)
ApproveReplacesAllowance ==
    \A o, s \in DOMAIN acct, t \in Amounts :
        acct[o].balance >= acct[o].total - AllowanceOf(acct[o], s) + t
            => ApproveOk(acct, o, s, t)

=============================================================================
