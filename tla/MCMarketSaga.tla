---------------------------- MODULE MCMarketSaga ----------------------------
(* Instantiation of MarketSaga for TLC: two businesses with one ledger     *)
(* account each, one category, one contract type id, one contract id.      *)
EXTENDS MarketSaga

CONSTANTS b1, b2, ac1, ac2   \* business ids and their account ids

MCAccountOf == (b1 :> ac1) @@ (b2 :> ac2)

MCCleanAllowanceInputs == {[s \in {} |-> 0]}

\* Every write after the first of an invocation may fail: the write sites
\* of LedgerSaga (WriteSites there) and of MarketSaga.
MCAllFaults == {"reduce", "add", "compensate", "setToken"} \cup MarketWriteSites

=============================================================================
