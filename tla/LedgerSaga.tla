----------------------------- MODULE LedgerSaga -----------------------------
(***************************************************************************)
(* The token ledger without whole-invocation atomicity (spec.md 5 and 9):  *)
(* every PutState of src/resources/account.go and token.go is a step of    *)
(* its own, visible at once, and may fail with a storage error.            *)
(*                                                                         *)
(* Two operations write more than one record:                              *)
(*  - TransferFrom (account.go 215-263): RetrieveFunds writes the source,  *)
(*    ReduceAllowance writes it again, AddFunds writes the destination     *)
(*    record read at the start; a failure of the second or third write     *)
(*    runs source.AddFunds on the in-memory source record as compensation, *)
(*    whose own failure is ignored.                                        *)
(*  - Token.SetAccountBalance (token.go 76-110): the account write, then   *)
(*    the token write, with no undo.                                       *)
(* createToken, createAccount and approve write one record: a failed write *)
(* changes nothing, so they are the atomic actions of Ledger.  So is a     *)
(* failure of the first write of a multi-write operation: the invocation   *)
(* returns an error having changed nothing, a stutter.                     *)
(*                                                                         *)
(* Invocations run one at a time (spec.md 5: strict single writer).  With  *)
(* no failing write the module implements Ledger, under the mapping that   *)
(* shows the store as it was before the running invocation started.        *)
(***************************************************************************)
EXTENDS Integers, FiniteSets, Functions, TLC

CONSTANTS
    AccountIds, TokenIds, InitTokenId, InitSupply, Amounts, Supplies,
    AllowanceInputs, BalanceBound,   \* as in Ledger
    FaultyWrites  \* the PutState sites whose write may fail

\* The PutState sites after the first write of an invocation.
WriteSites == {"reduce", "add", "compensate", "setToken"}
ASSUME FaultyWrites \subseteq WriteSites

VARIABLES
    tokens, acct,  \* the store, as in Ledger
    pc,            \* the step the running invocation is at, or Idle
    loc            \* its local variables and the store it started from

L == INSTANCE Ledger

sagaVars == <<tokens, acct, pc, loc>>

Idle == "idle"

\* A write at site s may fail with a storage error.
CanFail(s) == s \in FaultyWrites

NoRecord == [balance |-> 0, total |-> 0, allow |-> L!NoAllowances]
NoToken == [total |-> 0, remaining |-> 0]

\* Locals of no invocation.  acct0/tokens0 hold the store at the start.
NoLoc ==
    [src |-> Idle, dst |-> Idle, t |-> 0, srcRec |-> NoRecord,
     dstRec |-> NoRecord, tid |-> Idle, tok |-> NoToken,
     acct0 |-> [a \in {} |-> NoRecord], tokens0 |-> [x \in {} |-> NoToken]]

\* The invocation returns, successfully or with an error.
Return == pc' = Idle /\ loc' = NoLoc

-----------------------------------------------------------------------------
Init == L!Init /\ pc = Idle /\ loc = NoLoc

\* createToken, createAccount, approve: one write each.
AtomicOp ==
    /\ pc = Idle
    /\ \/ \E id \in TokenIds, ts \in Supplies : L!CreateToken(id, ts)
       \/ \E id \in AccountIds, al \in AllowanceInputs : L!CreateAccount(id, al)
       \/ \E o, s \in AccountIds, t \in Amounts : L!Approve(o, s, t)
    /\ UNCHANGED <<pc, loc>>

(* TransferFrom, account.go 215-244: both records are read, the allowance  *)
(* and the funds are checked, source.RetrieveFunds writes the source.      *)
(* The bound is the one Ledger puts on the finished transfer.              *)
TransferFromStart(src, dst, t) ==
    /\ L!TransferFromOk(acct, src, dst, t)
    /\ L!WithinBound(L!TransferFromResult(acct, src, dst, t))
    /\ LET srcRec == L!RetrieveFunds(acct[src], t)
       IN  /\ acct' = [acct EXCEPT ![src] = srcRec]
           /\ loc' = [NoLoc EXCEPT !.src = src, !.dst = dst, !.t = t,
                        !.srcRec = srcRec, !.dstRec = acct[dst],
                        !.acct0 = acct, !.tokens0 = tokens]
    /\ pc' = "reduce"
    /\ UNCHANGED tokens

\* The transferFrom entry point: an invocation of its own.
TransferFromRetrieve(src, dst, t) == pc = Idle /\ TransferFromStart(src, dst, t)

(* source.ReduceAllowance, account.go 246-251: ReduceAllowance updates the *)
(* in-memory source (pointer receiver) before its write, so a failed write *)
(* leaves the lowered allowance in the record the compensation writes.     *)
(* With no entry for the destination it writes nothing and cannot fail.    *)
TransferFromReduce ==
    /\ pc = "reduce"
    /\ LET rec == L!ReduceAllowance(loc.srcRec, loc.dst, loc.t)
       IN  /\ loc' = [loc EXCEPT !.srcRec = rec]
           /\ \/ /\ acct' = [acct EXCEPT ![loc.src] = rec]
                 /\ pc' = "add"
              \/ /\ CanFail("reduce")
                 /\ loc.dst \in DOMAIN loc.srcRec.allow
                 /\ pc' = "compensate"
                 /\ UNCHANGED acct
    /\ UNCHANGED tokens

(* destination.AddFunds, account.go 254-259: the destination record read   *)
(* at the start is written, so when source = destination it overwrites the *)
(* two source writes.  A failure moves to the compensation.                *)
TransferFromAdd ==
    /\ pc = "add"
    /\ \/ /\ acct' = [acct EXCEPT ![loc.dst] = L!AddFunds(loc.dstRec, loc.t)]
          /\ Return
       \/ /\ CanFail("add")
          /\ pc' = "compensate"
          /\ UNCHANGED <<acct, loc>>
    /\ UNCHANGED tokens

\* Mutant: the compensation credits the source record as read at the
\* start, before RetrieveFunds debited it.
TransferFromCompensateOnStart ==
    /\ pc = "compensate"
    /\ \/ acct' = [acct EXCEPT ![loc.src] = L!AddFunds(loc.acct0[loc.src], loc.t)]
       \/ CanFail("compensate") /\ UNCHANGED acct
    /\ Return
    /\ UNCHANGED tokens

(* The compensation, account.go 248 and 256: source.AddFunds on the       *)
(* in-memory source record; its error is dropped and TransferFrom          *)
(* returns the error of the failed step.                                   *)
TransferFromCompensate ==
    /\ pc = "compensate"
    /\ \/ acct' = [acct EXCEPT ![loc.src] = L!AddFunds(loc.srcRec, loc.t)]
       \/ CanFail("compensate") /\ UNCHANGED acct
    /\ Return
    /\ UNCHANGED tokens

\* Mutant: SetAccountBalance without the remaining-supply check.
SetAccountBalanceAccountUnchecked(tid, a, t) ==
    /\ pc = Idle
    /\ L!IsToken(tokens, tid)
    /\ L!IsAccount(acct, a)
    /\ acct' = [acct EXCEPT ![a] = L!SetBalance(@, t)]
    /\ L!WithinBound(acct')
    /\ pc' = "setToken"
    /\ loc' = [NoLoc EXCEPT !.tid = tid, !.t = t, !.tok = tokens[tid],
                 !.acct0 = acct, !.tokens0 = tokens]
    /\ UNCHANGED tokens

(* Token.SetAccountBalance, token.go 76-99:  the token is read and its     *)
(* remaining supply checked, the account is read and account.SetBalance    *)
(* writes it.                                                              *)
SetAccountBalanceAccount(tid, a, t) ==
    /\ pc = Idle
    /\ L!IsToken(tokens, tid)
    /\ ~(t > tokens[tid].remaining)
    /\ L!IsAccount(acct, a)
    /\ acct' = [acct EXCEPT ![a] = L!SetBalance(@, t)]
    /\ L!WithinBound(acct')
    /\ pc' = "setToken"
    /\ loc' = [NoLoc EXCEPT !.tid = tid, !.t = t, !.tok = tokens[tid],
                 !.acct0 = acct, !.tokens0 = tokens]
    /\ UNCHANGED tokens

(* token.go 101-109: the token read at the start is written with the       *)
(* remaining supply lowered; a failure is returned, the balance stays.     *)
SetAccountBalanceToken ==
    /\ pc = "setToken"
    /\ \/ tokens' = [tokens EXCEPT ![loc.tid] =
                        [loc.tok EXCEPT !.remaining = @ - loc.t]]
       \/ CanFail("setToken") /\ UNCHANGED tokens
    /\ Return
    /\ UNCHANGED acct

\* The steps of a started invocation.
Running ==
    \/ TransferFromReduce
    \/ TransferFromAdd
    \/ TransferFromCompensate
    \/ SetAccountBalanceToken

Next ==
    \/ AtomicOp
    \/ \E src, dst \in AccountIds, t \in Amounts : TransferFromRetrieve(src, dst, t)
    \/ \E tid \in TokenIds, a \in AccountIds, t \in Amounts :
           SetAccountBalanceAccount(tid, a, t)
    \/ Running

Spec == Init /\ [][Next]_sagaVars

-----------------------------------------------------------------------------
(* Properties                                                              *)

TypeOK ==
    /\ L!TypeOK
    /\ pc \in {Idle, "reduce", "add", "compensate", "setToken"}

(* The store as the atomic ledger sees it: while an invocation runs, the   *)
(* state it started from.                                                  *)
Atomic == INSTANCE Ledger WITH
    tokens <- IF pc = Idle THEN tokens ELSE loc.tokens0,
    acct <- IF pc = Idle THEN acct ELSE loc.acct0

(* Every invocation either applies all of its effects or none (spec.md 6): *)
(* the step-wise TransferFrom and SetAccountBalance, with their            *)
(* compensation, implement the atomic ledger of module Ledger.             *)
AtomicSpec == Atomic!Spec

(* TotalAllowances equals the sum of the allowances in every state, in    *)
(* the middle of a transferFrom too: ReduceAllowance lowers both in the    *)
(* one record it writes.                                                   *)
TotalAllowancesConsistent == L!TotalAllowancesConsistent

(* No stored balance is negative, between the writes of an invocation as  *)
(* well: RetrieveFunds' check is made on the record it debits.            *)
NoNegativeBalance == L!NoNegativeBalance

(* Without a self-allowance no tokens are created, checked between         *)
(* invocations: inside setAccountBalance the balance is written before the *)
(* token's remaining supply (token.go 95-109), so for one step the new     *)
(* balance and the old supply are both counted.                            *)
NoTokensCreatedWithoutSelfDealing ==
    pc = Idle => L!NoTokensCreatedWithoutSelfDealing

(* A compensation that succeeds restores every balance to what it was when *)
(* TransferFrom started (spec.md 4.1): the re-credit must land on the      *)
(* record RetrieveFunds debited, not on a copy read before it.             *)
CompensationRestoresBalances ==
    [][pc = "compensate" /\ pc' = Idle /\ acct' # acct =>
         \A a \in DOMAIN acct' : acct'[a].balance = loc.acct0[a].balance]_sagaVars

=============================================================================
