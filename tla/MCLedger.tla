------------------------------ MODULE MCLedger ------------------------------
(* Instantiation of Ledger for TLC.  The .cfg files give AccountIds and    *)
(* TokenIds as model values and pick the inputs below.                     *)
EXTENDS Ledger

CONSTANTS a1, a2   \* the account ids, model values

\* createAccount arguments that carry no allowances, as the marketplace
\* front end sends them.
MCCleanAllowanceInputs == {[s \in {} |-> 0]}

\* createAccount arguments that may also carry a pre-filled allowance entry.
MCPrefilledAllowanceInputs == MCCleanAllowanceInputs \cup {a2 :> 1}

MCSymmetry == Permutations(AccountIds)
=============================================================================
