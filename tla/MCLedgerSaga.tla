---------------------------- MODULE MCLedgerSaga ----------------------------
(* Instantiation of LedgerSaga for TLC; the .cfg files choose the faulty  *)
(* write sites.                                                            *)
EXTENDS LedgerSaga

CONSTANTS a1, a2   \* the account ids, model values

\* createAccount arguments that carry no allowances.
MCCleanAllowanceInputs == {[s \in {} |-> 0]}

\* No write fails; only TransferFrom's second and third write may fail,
\* the compensation never.
MCNoFaults == {}
MCTransferFaults == {"reduce", "add"}

(* With no failing write pc never reaches "compensate" (only a failed     *)
(* reduce or add write leads there), so the fault-free ledger is Next      *)
(* without TransferFromCompensate.                                         *)
MCFaultFreeNext ==
    \/ AtomicOp
    \/ \E src, dst \in AccountIds, t \in Amounts : TransferFromRetrieve(src, dst, t)
    \/ \E tid \in TokenIds, a \in AccountIds, t \in Amounts :
           SetAccountBalanceAccount(tid, a, t)
    \/ TransferFromReduce
    \/ TransferFromAdd
    \/ SetAccountBalanceToken

MCFaultFreeSpec == Init /\ [][MCFaultFreeNext]_sagaVars

MCSymmetry == Permutations(AccountIds)
=============================================================================
