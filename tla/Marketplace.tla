----------------------------- MODULE Marketplace -----------------------------
(***************************************************************************)
(* The delivery-gated escrow of the data-marketplace chaincode: contract   *)
(* types, data-contract proposals (src/resources/data_contract.go) and the *)
(* FILE delivery state machine (src/resources/data_info.go), composed with *)
(* the token ledger of module Ledger through INSTANCE.                     *)
(*                                                                         *)
(* As in Ledger, one chaincode invocation is one atomic step: its checks   *)
(* are the guard and all of its PutState writes happen together.          *)
(* Business, category and contract-type records are kept only as far as   *)
(* the escrow and the review lists read them; the administrative purge     *)
(* (src/resources/clean_up.go) may delete any of them.                     *)
(***************************************************************************)
EXTENDS Integers, FiniteSets, FiniteSetsExt, Functions, Bags, BagsExt, TLC

CONSTANTS
    AccountIds, TokenIds, InitTokenId, InitSupply, Amounts, Supplies,
    AllowanceInputs, BalanceBound,   \* as in Ledger
    Businesses,   \* business ids
    Categories,   \* data category ids
    TypeIds,      \* data contract type ids
    ContractIds,  \* data contract ids chosen by the proposer
    AccountOf,    \* business id -> its ledger account id, "Account-" + id
    Prices,       \* PriceType.Amount of the contract types callers create
    DataTypes,    \* DataType values of the contract types callers create
    Times,        \* timestamps: contract-type windows, proposal times
    ReviewIds,    \* review ids
    PersonIds,    \* person ids
    DeletableKeys \* keys callers pass to deleteDoc

ASSUME AccountOf \in [Businesses -> AccountIds] /\ IsInjective(AccountOf)
ASSUME Times \subseteq Nat
ASSUME DataTypes \subseteq {"FILE", "STREAM", "FILEQUERYABLE", "STREAMQUERYABLE"}

VARIABLES
    tokens, acct,  \* the ledger, see Ledger
    businesses,    \* business id -> [reviews, persons]: its lists, as bags of ids
    categories,    \* ids of stored DataCategory records
    types,         \* type id -> [provider, price, dataType, start, end, reviews]
    contracts,     \* contract id -> [consumer, provider, type, status, end]
    paid,          \* history: contract id -> tokens TransferFrom moved for it
    agreed,        \* history: contract id -> price its proposal escrowed
    reviews,       \* review id -> [contract, reviewer]
    persons        \* person id -> its business id

L == INSTANCE Ledger

catalogVars == <<businesses, categories, types, reviews, persons>>
dealVars == <<contracts, paid, agreed>>
mktVars == <<catalogVars, dealVars>>
vars == <<tokens, acct, catalogVars, dealVars>>

\* Extras.FileStatus values; a contract that is not FILE keeps "".
PROPOSAL == "PROPOSAL"
DATASHIPPED == "DATASHIPPED"
DATARECEIVED == "DATARECEIVED"
NoFileStatus == ""

\* The zero time.Time, earlier than every timestamp a caller passes.
ZeroTime == 0

\* time.Time After/Before checks of the window: start <= t <= end.
InWindow(t, ty) == ~(t > ty.end) /\ ~(t < ty.start)

\* GetBusinessState, GetDataContractTypeState (via
\* GetDataContractTypeStructState) and GetDataContractState: the key holds a
\* record of the docType; ids of different kinds never collide here.
IsBusiness(b) == b \in DOMAIN businesses
IsDataContractType(tid) == tid \in DOMAIN types
IsDataContract(k) == k \in DOMAIN contracts

\* DataContract.SetFileStatus: the status is overwritten and the contract put.
SetFileStatus(rec, status) == [rec EXCEPT !.status = status]

\* The price SetDataInfoSentToConsumer transfers: the type is re-read and a
\* failed read is ignored, leaving the zero DataContractType (Amount 0).
ShipmentPrice(tid) == IF IsDataContractType(tid) THEN types[tid].price ELSE 0

\* Every key of the shared state, whatever its docType.
StoredKeys ==
    DOMAIN tokens \cup DOMAIN acct \cup DOMAIN businesses \cup categories
      \cup DOMAIN types \cup DOMAIN contracts \cup DOMAIN reviews
      \cup DOMAIN persons

\* f without the key d (DelState of a key f does not hold changes nothing).
Without(f, d) == Restrict(f, DOMAIN f \ {d})

-----------------------------------------------------------------------------
Init ==
    /\ L!Init
    /\ businesses = [b \in {} |-> [reviews |-> EmptyBag, persons |-> EmptyBag]]
    /\ reviews = [r \in {} |-> [contract |-> {}]]
    /\ persons = [p \in {} |-> {}]
    /\ categories = {}
    /\ types = [t \in {} |-> [provider |-> {}]]
    /\ contracts = [k \in {} |-> [consumer |-> {}]]
    /\ paid = [k \in ContractIds |-> 0]
    /\ agreed = [k \in ContractIds |-> 0]

\* The ledger's own entry points (createToken, createAccount,
\* setAccountBalance, approve, transferFrom).
LedgerOp == L!Next /\ UNCHANGED mktVars

\* createBusiness -> CreateBusiness (business.go 26-62).
\* Score and NumberOfReviews are reset; the Reviews list is the caller's,
\* which well-formed callers leave empty.
CreateBusiness(b) ==
    /\ b \notin DOMAIN businesses
    /\ businesses' = businesses @@ (b :> [reviews |-> EmptyBag, persons |-> EmptyBag])
    /\ UNCHANGED <<tokens, acct, categories, types, reviews, persons, dealVars>>

\* createDataCategory -> CreateDataCategory (data_category.go 19-53).
CreateDataCategory(c) ==
    /\ c \notin categories
    /\ categories' = categories \cup {c}
    /\ UNCHANGED <<tokens, acct, businesses, types, reviews, persons, dealVars>>

\* createDataContractType -> CreateDataContractType (data_contract_type.go
\* 37-76, checkAttributes 139-172): category and provider must exist, the
\* id must be new.  The window is stored as given, empty windows included.
\* DataContractType.checkAttributes: the category and the provider exist.
TypeRefsExist(provider, c) == c \in categories /\ IsBusiness(provider)

CreateDataContractType(tid, provider, c, price, dt, start, end) ==
    /\ TypeRefsExist(provider, c)
    /\ tid \notin DOMAIN types
    /\ types' = types @@ (tid :> [provider |-> provider, price |-> price,
                                  dataType |-> dt, start |-> start, end |-> end,
                                  reviews |-> EmptyBag])
    /\ UNCHANGED <<tokens, acct, businesses, categories, reviews, persons,
                   dealVars>>

(* submitDataContractProposal -> SubmitDataContractProposal                *)
(* (data_contract.go 36-131): the consumer business and the type must      *)
(* exist; Approve(consumer account, provider account, price) must succeed; *)
(* the contract id must be new; the timestamp, and for STREAM the end      *)
(* time, must lie in the type's window.  Then the approval and the new     *)
(* contract are written together.                                          *)
\* DataContractProposal.checkAndGetAttributes: consumer and type exist.
ProposalRefsExist(consumer, tid) ==
    IsBusiness(consumer) /\ IsDataContractType(tid)

SubmitDataContractProposal(k, consumer, tid, ts, endTs) ==
    /\ ProposalRefsExist(consumer, tid)
    /\ LET ty == types[tid]
           ca == AccountOf[consumer]
           pa == AccountOf[ty.provider]
       IN  /\ L!ApproveOk(acct, ca, pa, ty.price)
           /\ k \notin DOMAIN contracts
           /\ InWindow(ts, ty)
           /\ ty.dataType = "STREAM" => InWindow(endTs, ty)
           /\ acct' = L!ApproveResult(acct, ca, pa, ty.price)
           /\ L!WithinBound(acct')
           /\ contracts' = contracts @@
                 (k :> [consumer |-> consumer, provider |-> ty.provider,
                        type |-> tid,
                        status |-> IF ty.dataType = "FILE" THEN PROPOSAL
                                   ELSE NoFileStatus,
                        end |-> IF ty.dataType \in {"FILE", "STREAM"}
                                THEN endTs ELSE ZeroTime])
           /\ agreed' = [agreed EXCEPT ![k] = ty.price]
    /\ UNCHANGED <<tokens, paid, catalogVars>>

\* Mutant: shipment without the PROPOSAL status check.
SetDataInfoSentToConsumerAnyStatus(k) ==
    /\ IsDataContract(k)
    /\ LET c == contracts[k]
           ca == AccountOf[c.consumer]
           pa == AccountOf[c.provider]
           price == ShipmentPrice(c.type)
       IN  /\ L!TransferFromOk(acct, ca, pa, price)
           /\ acct' = L!TransferFromResult(acct, ca, pa, price)
           /\ L!WithinBound(acct')
           /\ contracts' = [contracts EXCEPT ![k] = SetFileStatus(@, DATASHIPPED)]
           /\ paid' = [paid EXCEPT ![k] = @ + price]
    /\ UNCHANGED <<tokens, agreed, catalogVars>>

(* setDataInfoSentToConsumer -> SetDataInfoSentToConsumer (data_info.go    *)
(* 21-64): the contract must be PROPOSAL; it is set to DATASHIPPED (with *)
(* the hash) and TransferFrom(consumer account, provider account, price)   *)
(* must succeed, or the whole invocation fails.                            *)
SetDataInfoSentToConsumer(k) ==
    /\ IsDataContract(k)
    /\ contracts[k].status = PROPOSAL
    /\ LET c == contracts[k]
           ca == AccountOf[c.consumer]
           pa == AccountOf[c.provider]
           price == ShipmentPrice(c.type)
       IN  /\ L!TransferFromOk(acct, ca, pa, price)
           /\ acct' = L!TransferFromResult(acct, ca, pa, price)
           /\ L!WithinBound(acct')
           /\ contracts' = [contracts EXCEPT ![k] = SetFileStatus(@, DATASHIPPED)]
           /\ paid' = [paid EXCEPT ![k] = @ + price]
    /\ UNCHANGED <<tokens, agreed, catalogVars>>

\* setDataReceivedByConsumer -> SetDataReceivedByConsumer (data_info.go
\* 66-90): the contract must be DATASHIPPED.
SetDataReceivedByConsumer(k) ==
    /\ IsDataContract(k)
    /\ contracts[k].status = DATASHIPPED
    /\ contracts' = [contracts EXCEPT ![k] = SetFileStatus(@, DATARECEIVED)]
    /\ UNCHANGED <<tokens, acct, paid, agreed, catalogVars>>

(* submitReview -> SubmitReview (review.go 21-72, checkAndGetAttributes   *)
(* 122-182): the reviewer business, the contract, the contract's type and *)
(* the type's provider must exist and the review id must be new.  The     *)
(* review is stored and appended to the Reviews of the type's provider     *)
(* (Business.AddReview) and of the type (DataContractType.AddReview);     *)
(* scores are left out.  Nothing ties the reviewer to the contract.        *)
\* Review.checkAndGetAttributes: the reviewer, the contract, its type and
\* the type's provider exist.
ReviewRefsExist(reviewer, k) ==
    /\ IsBusiness(reviewer)
    /\ IsDataContract(k)
    /\ IsDataContractType(contracts[k].type)
    /\ IsBusiness(types[contracts[k].type].provider)

\* Business.AddReview and DataContractType.AddReview append the review.
BusinessAddReview(rec, rid) == [rec EXCEPT !.reviews = BagAdd(@, rid)]
TypeAddReview(rec, rid) == [rec EXCEPT !.reviews = BagAdd(@, rid)]

\* Mutant: the review credited to the reviewer instead of the provider.
SubmitReviewToReviewer(rid, reviewer, k) ==
    /\ ReviewRefsExist(reviewer, k)
    /\ rid \notin DOMAIN reviews
    /\ LET tid == contracts[k].type
       IN  /\ reviews' = reviews @@ (rid :> [contract |-> k, reviewer |-> reviewer])
           /\ businesses' = [businesses EXCEPT
                                ![reviewer] = BusinessAddReview(@, rid)]
           /\ types' = [types EXCEPT ![tid] = TypeAddReview(@, rid)]
    /\ UNCHANGED <<tokens, acct, categories, persons, dealVars>>

SubmitReview(rid, reviewer, k) ==
    /\ ReviewRefsExist(reviewer, k)
    /\ rid \notin DOMAIN reviews
    /\ LET tid == contracts[k].type
           provider == types[tid].provider
       IN  /\ reviews' = reviews @@ (rid :> [contract |-> k, reviewer |-> reviewer])
           /\ businesses' = [businesses EXCEPT
                                ![provider] = BusinessAddReview(@, rid)]
           /\ types' = [types EXCEPT ![tid] = TypeAddReview(@, rid)]
    /\ UNCHANGED <<tokens, acct, categories, persons, dealVars>>

\* Business.AddPerson appends the person.
BusinessAddPerson(rec, pid) == [rec EXCEPT !.persons = BagAdd(@, pid)]

\* addPerson -> AddPerson (person.go 23-65, checkAndGetAttributes 115-138,
\* Business.AddPerson business.go 142-156): the business must exist and the
\* person id be new; the person is stored and appended to the business.
\* Person.checkAndGetAttributes: the person's business exists.
PersonRefsExist(b) == IsBusiness(b)

AddPerson(pid, b) ==
    /\ PersonRefsExist(b)
    /\ pid \notin DOMAIN persons
    /\ persons' = persons @@ (pid :> b)
    /\ businesses' = [businesses EXCEPT ![b] = BusinessAddPerson(@, pid)]
    /\ UNCHANGED <<tokens, acct, categories, types, reviews, dealVars>>

(* deleteDoc -> DeleteDoc (clean_up.go 25-40): any caller, no CheckAuth,   *)
(* deletes the key whatever record it holds.  A contract's history is     *)
(* reset with it, so that a contract later stored under the same id starts *)
(* afresh.                                                                 *)
DeleteDoc(d) ==
    /\ d \in StoredKeys
    /\ tokens' = Without(tokens, d)
    /\ acct' = Without(acct, d)
    /\ businesses' = Without(businesses, d)
    /\ categories' = categories \ {d}
    /\ types' = Without(types, d)
    /\ contracts' = Without(contracts, d)
    /\ paid' = [k \in ContractIds |-> IF k = d THEN 0 ELSE paid[k]]
    /\ agreed' = [k \in ContractIds |-> IF k = d THEN 0 ELSE agreed[k]]
    /\ reviews' = Without(reviews, d)
    /\ persons' = Without(persons, d)

(* cleanUp -> CleanUp (clean_up.go 11-23, deleteState 42-63): for each     *)
(* docType, every record a rich query returns is deleted, the Token        *)
(* records included.                                                       *)
CleanUp ==
    /\ StoredKeys # {}
    /\ tokens' = [x \in {} |-> tokens[x]]
    /\ acct' = [a \in {} |-> acct[a]]
    /\ businesses' = [b \in {} |-> businesses[b]]
    /\ categories' = {}
    /\ types' = [t \in {} |-> types[t]]
    /\ contracts' = [k \in {} |-> contracts[k]]
    /\ paid' = [k \in ContractIds |-> 0]
    /\ agreed' = [k \in ContractIds |-> 0]
    /\ reviews' = [r \in {} |-> reviews[r]]
    /\ persons' = [p \in {} |-> persons[p]]

Next ==
    \/ LedgerOp
    \/ \E b \in Businesses : CreateBusiness(b)
    \/ \E c \in Categories : CreateDataCategory(c)
    \/ \E tid \in TypeIds, p \in Businesses, c \in Categories, pr \in Prices,
          dt \in DataTypes, s, e \in Times :
           CreateDataContractType(tid, p, c, pr, dt, s, e)
    \/ \E k \in ContractIds, b \in Businesses, tid \in TypeIds, ts, et \in Times :
           SubmitDataContractProposal(k, b, tid, ts, et)
    \/ \E k \in ContractIds : SetDataInfoSentToConsumer(k)
    \/ \E k \in ContractIds : SetDataReceivedByConsumer(k)
    \/ \E r \in ReviewIds, b \in Businesses, k \in ContractIds :
           SubmitReview(r, b, k)
    \/ \E p \in PersonIds, b \in Businesses : AddPerson(p, b)
    \/ \E d \in DeletableKeys : DeleteDoc(d)
    \/ CleanUp

Spec == Init /\ [][Next]_vars

-----------------------------------------------------------------------------
(* Properties                                                              *)

TypeOK ==
    /\ L!TypeOK
    /\ DOMAIN businesses \subseteq Businesses
    /\ \A b \in DOMAIN businesses :
           IsABag(businesses[b].reviews) /\ IsABag(businesses[b].persons)
    /\ reviews \in [DOMAIN reviews -> [contract : ContractIds, reviewer : Businesses]]
    /\ DOMAIN reviews \subseteq ReviewIds
    /\ persons \in [DOMAIN persons -> Businesses]
    /\ DOMAIN persons \subseteq PersonIds
    /\ categories \subseteq Categories
    /\ DOMAIN types \subseteq TypeIds
    /\ \A tid \in DOMAIN types :
           /\ types[tid].provider \in Businesses
           /\ types[tid].price \in Prices
           /\ types[tid].dataType \in DataTypes
           /\ {types[tid].start, types[tid].end} \subseteq Times
           /\ IsABag(types[tid].reviews)
    /\ DOMAIN contracts \subseteq ContractIds
    /\ \A k \in DOMAIN contracts :
           contracts[k] \in [consumer : Businesses, provider : Businesses,
                             type : TypeIds, end : Times \cup {ZeroTime},
                             status : {PROPOSAL, DATASHIPPED, DATARECEIVED,
                                       NoFileStatus}]
    /\ paid \in [ContractIds -> Int]
    /\ agreed \in [ContractIds -> Int]

\* A FILE contract whose data is not shipped yet.
Open(k) == contracts[k].status = PROPOSAL

(* Delivery-gated payment (spec 2 and 4.4): a contract not yet shipped    *)
(* has moved no tokens, and a shipped or received one has moved exactly   *)
(* the price its proposal escrowed, once.  Shipment re-reads the contract *)
(* type for the price, so this fails if shipping is possible twice, if     *)
(* receipt can skip shipping, if shipping can succeed without the          *)
(* transfer, or if the type has changed since the proposal.                *)
ContractPaidAgreedPrice ==
    \A k \in DOMAIN contracts :
        paid[k] = IF contracts[k].status \in {DATASHIPPED, DATARECEIVED}
                  THEN agreed[k]
                  ELSE 0

(* A review is credited to the provider of the contract it reviews.       *)
(* SubmitReview does not read the contract's own ProviderID: it follows    *)
(* the contract's type to the type's provider, so this fails once a type  *)
(* id can come to name a type of another provider.                         *)
ReviewCreditedToProvider ==
    \A b \in DOMAIN businesses :
        \A r \in BagToSet(businesses[b].reviews) \cap DOMAIN reviews :
            reviews[r].contract \in DOMAIN contracts =>
                contracts[reviews[r].contract].provider = b

\* Sum of the prices of the open contracts from consumer to provider.
OpenObligation(consumer, provider) ==
    MapThenSumSet(LAMBDA k : ShipmentPrice(contracts[k].type),
                  {k \in DOMAIN contracts :
                       /\ Open(k)
                       /\ contracts[k].consumer = consumer
                       /\ contracts[k].provider = provider})

(* Escrow (spec 2 and 4.3): the consumer's allowance to the provider       *)
(* covers the price of every contract between them still awaiting          *)
(* shipment, so each later shipment's TransferFrom can succeed.            *)
EscrowCoversOpenContracts ==
    \A c, p \in DOMAIN businesses :
        OpenObligation(c, p) > 0 =>
            /\ AccountOf[c] \in DOMAIN acct
            /\ L!AllowanceOf(acct[AccountOf[c]], AccountOf[p])
                   >= OpenObligation(c, p)

=============================================================================
