------------------------------ MODULE MarketSaga ------------------------------
(***************************************************************************)
(* The marketplace without whole-invocation atomicity (spec.md 5, 6 and    *)
(* 9): the invocations that write more than one record run write by write, *)
(* each PutState visible at once and, at the sites in FaultyWrites, able  *)
(* to fail; an error returned after a write undoes nothing.               *)
(*                                                                         *)
(*  - SubmitDataContractProposal (data_contract.go 36-131): Approve writes *)
(*    the consumer's allowance, and only then are the contract id and the  *)
(*    time window checked and the contract written.                        *)
(*  - SetDataInfoSentToConsumer (data_info.go 21-64): SetFileStatus writes *)
(*    DATASHIPPED, then TransferFrom runs, write by write as in LedgerSaga *)
(*    (this module composes it: the ledger steps are LedgerSaga's own).   *)
(*  - SubmitReview (review.go 21-72): the review, then the provider's      *)
(*    record, then the type's record, with the undo left as a TODO.        *)
(* The other invocations write one record, or only delete, and are the     *)
(* atomic actions of Marketplace.  Invocations run one at a time.          *)
(***************************************************************************)
EXTENDS Integers, FiniteSets, Functions, Bags, BagsExt, TLC

CONSTANTS
    AccountIds, TokenIds, InitTokenId, InitSupply, Amounts, Supplies,
    AllowanceInputs, BalanceBound, Businesses, Categories, TypeIds,
    ContractIds, AccountOf, Prices, DataTypes, Times, ReviewIds, PersonIds,
    DeletableKeys,   \* as in Marketplace
    FaultyWrites     \* PutState sites, of LedgerSaga and below, that may fail

\* The writes after the first of the market invocations.
MarketWriteSites == {"contract", "providerReview", "typeReview", "shipRetrieve"}

VARIABLES
    tokens, acct, businesses, categories, types, contracts, paid, agreed,
    reviews, persons,   \* as in Marketplace
    pc, loc,            \* the running ledger step and its locals, as in LedgerSaga
    mloc                \* the running market invocation: its step and inputs

M == INSTANCE Marketplace
LS == INSTANCE LedgerSaga WITH FaultyWrites <- FaultyWrites \ MarketWriteSites

ASSUME FaultyWrites \subseteq LS!WriteSites \cup MarketWriteSites

mktVars == <<businesses, categories, types, contracts, paid, agreed,
             reviews, persons>>
vars == <<tokens, acct, mktVars, pc, loc, mloc>>

Idle == LS!Idle
NoId == "none"

NoMLoc == [step |-> Idle, k |-> NoId, rid |-> NoId, by |-> NoId, tid |-> NoId,
           ts |-> 0, endTs |-> 0]

\* Locals of a market invocation that starts now.
Begin(step, k) == [NoMLoc EXCEPT !.step = step, !.k = k]

\* The market invocation returns, successfully or with an error.
MReturn == mloc' = NoMLoc

Running == mloc.step # Idle \/ pc # Idle

-----------------------------------------------------------------------------
Init == M!Init /\ pc = Idle /\ loc = LS!NoLoc /\ mloc = NoMLoc

\* The invocations that write one record, or delete, run as one step.
AtomicMarket ==
    /\ ~Running
    /\ \/ \E b \in Businesses : M!CreateBusiness(b)
       \/ \E c \in Categories : M!CreateDataCategory(c)
       \/ \E tid \in TypeIds, p \in Businesses, c \in Categories, pr \in Prices,
             dt \in DataTypes, s, e \in Times :
              M!CreateDataContractType(tid, p, c, pr, dt, s, e)
       \/ \E k \in ContractIds : M!SetDataReceivedByConsumer(k)
       \/ \E p \in PersonIds, b \in Businesses : M!AddPerson(p, b)
       \/ \E d \in DeletableKeys : M!DeleteDoc(d)
       \/ M!CleanUp
    /\ UNCHANGED <<pc, loc, mloc>>

\* The ledger entry points, and the steps of a running TransferFrom; the
\* credit of a shipment's transfer is recorded when its AddFunds lands.
LedgerStep ==
    /\ mloc.step \in {Idle, "transfer"}
    /\ \/ mloc.step = Idle /\ LS!Next
       \/ mloc.step = "transfer" /\ LS!Running
    /\ paid' = IF mloc.step = "transfer" /\ pc = "add" /\ pc' = Idle
               THEN [paid EXCEPT ![mloc.k] = @ + loc.t]
               ELSE paid
    /\ mloc' = IF mloc.step = "transfer" /\ pc' = Idle THEN NoMLoc ELSE mloc
    /\ UNCHANGED <<businesses, categories, types, contracts, agreed,
                   reviews, persons>>

(* SubmitDataContractProposal, data_contract.go 36-64: consumer and type   *)
(* exist, and Approve(consumer account, provider account, price) writes    *)
(* the allowance.  A refused Approve writes nothing.                       *)
ProposeApprove(k, consumer, tid, ts, endTs) ==
    /\ ~Running
    /\ M!ProposalRefsExist(consumer, tid)
    /\ LET ca == AccountOf[consumer]
           pa == AccountOf[types[tid].provider]
       IN  /\ M!L!ApproveOk(acct, ca, pa, types[tid].price)
           /\ acct' = M!L!ApproveResult(acct, ca, pa, types[tid].price)
           /\ M!L!WithinBound(acct')
    /\ mloc' = [Begin("propose", k) EXCEPT !.by = consumer, !.tid = tid,
                  !.ts = ts, !.endTs = endTs]
    /\ UNCHANGED <<tokens, mktVars, pc, loc>>

(* data_contract.go 66-130: the contract id must be new and the times in   *)
(* the type's window; a refusal returns after the Approve write.  Then the *)
(* contract is written, and that write may fail.                           *)
ProposeSave ==
    /\ mloc.step = "propose"
    /\ LET ty == types[mloc.tid]
           ok == /\ mloc.k \notin DOMAIN contracts
                 /\ M!InWindow(mloc.ts, ty)
                 /\ ty.dataType = "STREAM" => M!InWindow(mloc.endTs, ty)
       IN  \/ ~ok /\ UNCHANGED <<contracts, agreed>>
           \/ /\ ok
              /\ contracts' = contracts @@
                   (mloc.k :> [consumer |-> mloc.by, provider |-> ty.provider,
                               type |-> mloc.tid,
                               status |-> IF ty.dataType = "FILE"
                                          THEN M!PROPOSAL ELSE M!NoFileStatus,
                               end |-> IF ty.dataType \in {"FILE", "STREAM"}
                                       THEN mloc.endTs ELSE M!ZeroTime])
              /\ agreed' = [agreed EXCEPT ![mloc.k] = ty.price]
           \/ ok /\ "contract" \in FaultyWrites /\ UNCHANGED <<contracts, agreed>>
    /\ MReturn
    /\ UNCHANGED <<tokens, acct, businesses, categories, types, paid,
                   reviews, persons, pc, loc>>

\* Mutant: shipment without the PROPOSAL status check.
ShipStatusAnyStatus(k) ==
    /\ ~Running
    /\ M!IsDataContract(k)
    /\ LET c == contracts[k]
           ca == AccountOf[c.consumer]
           pa == AccountOf[c.provider]
           price == M!ShipmentPrice(c.type)
       IN  M!L!TransferFromOk(acct, ca, pa, price) =>
               M!L!WithinBound(M!L!TransferFromResult(acct, ca, pa, price))
    /\ contracts' = [contracts EXCEPT ![k] = M!SetFileStatus(@, M!DATASHIPPED)]
    /\ mloc' = Begin("ship", k)
    /\ UNCHANGED <<tokens, acct, businesses, categories, types, paid, agreed,
                   reviews, persons, pc, loc>>

(* SetDataInfoSentToConsumer, data_info.go 21-43: the contract must be     *)
(* PROPOSAL; SetFileStatus writes DATASHIPPED.  The bound is the one       *)
(* Marketplace puts on the transfer that follows.                          *)
ShipStatus(k) ==
    /\ ~Running
    /\ M!IsDataContract(k)
    /\ contracts[k].status = M!PROPOSAL
    /\ LET c == contracts[k]
           ca == AccountOf[c.consumer]
           pa == AccountOf[c.provider]
           price == M!ShipmentPrice(c.type)
       IN  M!L!TransferFromOk(acct, ca, pa, price) =>
               M!L!WithinBound(M!L!TransferFromResult(acct, ca, pa, price))
    /\ contracts' = [contracts EXCEPT ![k] = M!SetFileStatus(@, M!DATASHIPPED)]
    /\ mloc' = Begin("ship", k)
    /\ UNCHANGED <<tokens, acct, businesses, categories, types, paid, agreed,
                   reviews, persons, pc, loc>>

(* data_info.go 45-63: the type is re-read for the price (a failed read    *)
(* gives 0) and TransferFrom starts.  Its refusal, or a failure of its     *)
(* first write (RetrieveFunds' PutState, account.go 332, site              *)
(* "shipRetrieve"), returns an error with the contract already DATASHIPPED.*)
ShipTransfer ==
    /\ mloc.step = "ship"
    /\ LET c == contracts[mloc.k]
           ca == AccountOf[c.consumer]
           pa == AccountOf[c.provider]
           price == M!ShipmentPrice(c.type)
       IN  \/ /\ LS!TransferFromStart(ca, pa, price)
              /\ mloc' = [mloc EXCEPT !.step = "transfer"]
           \/ /\ \/ ~M!L!TransferFromOk(acct, ca, pa, price)
                 \/ "shipRetrieve" \in FaultyWrites
              /\ MReturn
              /\ UNCHANGED <<acct, pc, loc>>
    /\ UNCHANGED <<tokens, mktVars>>

\* Mutant: the error of the review's PutState ignored, as data_info.go 56
\* ignores its read error: the invocation goes on without the review.
ReviewSaveErrorIgnored(rid, reviewer, k) ==
    /\ ~Running
    /\ M!ReviewRefsExist(reviewer, k)
    /\ rid \notin DOMAIN reviews
    /\ \/ reviews' = reviews @@ (rid :> [contract |-> k, reviewer |-> reviewer])
       \/ UNCHANGED reviews
    /\ mloc' = [Begin("reviewProvider", k) EXCEPT !.rid = rid, !.by = reviewer,
                  !.tid = contracts[k].type]
    /\ UNCHANGED <<tokens, acct, businesses, categories, types, contracts,
                   paid, agreed, persons, pc, loc>>

(* SubmitReview, review.go 21-53: the references exist and the id is new;  *)
(* the review is written.                                                  *)
ReviewSave(rid, reviewer, k) ==
    /\ ~Running
    /\ M!ReviewRefsExist(reviewer, k)
    /\ rid \notin DOMAIN reviews
    /\ reviews' = reviews @@ (rid :> [contract |-> k, reviewer |-> reviewer])
    /\ mloc' = [Begin("reviewProvider", k) EXCEPT !.rid = rid, !.by = reviewer,
                  !.tid = contracts[k].type]
    /\ UNCHANGED <<tokens, acct, businesses, categories, types, contracts,
                   paid, agreed, persons, pc, loc>>

(* review.go 55-61: provider.AddReview writes the provider read by the     *)
(* checks; a failure returns, the review stays.                            *)
ReviewProvider ==
    /\ mloc.step = "reviewProvider"
    /\ \/ /\ businesses' = [businesses EXCEPT ![types[mloc.tid].provider] =
                               M!BusinessAddReview(@, mloc.rid)]
          /\ mloc' = [mloc EXCEPT !.step = "reviewType"]
       \/ "providerReview" \in FaultyWrites /\ MReturn /\ UNCHANGED businesses
    /\ UNCHANGED <<tokens, acct, categories, types, contracts, paid, agreed,
                   reviews, persons, pc, loc>>

(* review.go 63-71: dataContractType.AddReview writes the type; a failure  *)
(* returns, the review and the provider's entry stay.                      *)
ReviewType ==
    /\ mloc.step = "reviewType"
    /\ \/ types' = [types EXCEPT ![mloc.tid] = M!TypeAddReview(@, mloc.rid)]
       \/ "typeReview" \in FaultyWrites /\ UNCHANGED types
    /\ MReturn
    /\ UNCHANGED <<tokens, acct, businesses, categories, contracts, paid,
                   agreed, reviews, persons, pc, loc>>

Next ==
    \/ AtomicMarket
    \/ LedgerStep
    \/ \E k \in ContractIds, b \in Businesses, tid \in TypeIds, ts, et \in Times :
           ProposeApprove(k, b, tid, ts, et)
    \/ ProposeSave
    \/ \E k \in ContractIds : ShipStatus(k)
    \/ ShipTransfer
    \/ \E r \in ReviewIds, b \in Businesses, k \in ContractIds :
           ReviewSave(r, b, k)
    \/ ReviewProvider
    \/ ReviewType

Spec == Init /\ [][Next]_vars

-----------------------------------------------------------------------------
(* Properties                                                              *)

TypeOK ==
    /\ M!TypeOK
    /\ LS!TypeOK
    /\ mloc.step \in {Idle, "propose", "ship", "transfer", "reviewProvider",
                      "reviewType"}

(* A compensation of TransferFrom that succeeds restores every balance,   *)
(* also when the TransferFrom is the payment of a shipment (LedgerSaga).  *)
CompensationRestoresBalances == LS!CompensationRestoresBalances

(* A contract that has been paid for is shipped or received and was paid   *)
(* exactly its escrowed price, once: with the status written before the    *)
(* transfer, no failing write and no refused transfer lets a shipment be   *)
(* paid for an unshipped contract or paid a second time.                   *)
ShipmentPaidOnce ==
    \A k \in DOMAIN contracts :
        paid[k] # 0 =>
            /\ paid[k] = agreed[k]
            /\ contracts[k].status \in {M!DATASHIPPED, M!DATARECEIVED}

\* The review ids in the Reviews lists of businesses and contract types.
ListedReviews ==
    UNION {BagToSet(businesses[b].reviews) : b \in DOMAIN businesses}
      \cup UNION {BagToSet(types[t].reviews) : t \in DOMAIN types}

(* Every review a business or a contract type lists is a stored review:    *)
(* SubmitReview writes the review before either list, so a failure of a   *)
(* later write leaves a review missing from a list, never a list entry     *)
(* without its review.                                                     *)
ListedReviewsStored == ListedReviews \subseteq DOMAIN reviews

=============================================================================
