---------------------------- MODULE MCMarketplace ----------------------------
(* Instantiation of Marketplace for TLC: two businesses with one ledger    *)
(* account each, one category, one contract type id, two contract ids.    *)
EXTENDS MarketQueries

CONSTANTS b1, b2, ac1, ac2   \* business ids and their account ids

MCAccountOf == (b1 :> ac1) @@ (b2 :> ac2)

MCCleanAllowanceInputs == {[s \in {} |-> 0]}

\* contract ids are interchangeable: nothing but the proposer picks them.
MCSymmetry == Permutations(ContractIds)
=============================================================================
