# TLA+ models of the data-marketplace chaincode

This directory holds TLA+ models of the Hyperledger Fabric chaincode in
`src/`, the TLC configurations that check them, and the record of what the
checks show (`PROJECT.json`).

## The system

The chaincode (`src/data_marketplace_chaincode.go`) routes named invocations
to handlers in `src/resources/`. Every record sits in one key-value store,
keyed by its id, and carries a `docType` discriminator.

| Part | Source | State it keeps | Operations that write |
|---|---|---|---|
| Token ledger | `account.go`, `token.go` | Token `{TotalTokensSupply, RemainingSupply}`; Account `{Balance, TotalAllowances, Allowances}` | `createToken` (also `Init`), `createAccount`, `setAccountBalance`, `approve`, `transferFrom` |
| Proposal validator | `data_contract.go` | DataContract `{Provider, Consumer, DataContractType, Extras.FileStatus}` | `submitDataContractProposal` (calls `Approve`) |
| Contract lifecycle | `data_info.go` | `Extras.FileStatus` PROPOSAL → DATASHIPPED → DATARECEIVED | `setDataInfoSentToConsumer` (calls `TransferFrom`), `setDataReceivedByConsumer` |
| Catalog | `business.go`, `data_category.go`, `data_contract_type.go` | Business, DataCategory, DataContractType (provider, price, data type, time window) | `createBusiness`, `createDataCategory`, `createDataContractType` |
| Reviews, persons | `review.go`, `person.go` | Review, Person; scores and person lists on Business and DataContractType | `submitReview`, `addPerson` |
| Administrative purge | `clean_up.go` | none of its own | `deleteDoc`, `cleanUp` |
| Queries | `queries.go` | none (CouchDB rich queries) | none |
| Authentication | `utils/authorization.go` | none (JWS verification over HTTP) | none |

How the parts interact:

- The escrow of a data contract is an allowance. `SubmitDataContractProposal`
  calls `Approve(consumer account, provider account, price)`, where a
  business's account id is `"<Account docType>-<business id>"`
  (`GetAccountIDFromToken` returns its argument unchanged).
- `SetDataInfoSentToConsumer` writes DATASHIPPED first. It then re-reads the
  contract type and calls `TransferFrom(consumer account, provider account,
  price)`.
- The ledger entry points `approve` and `transferFrom` act directly on the
  same accounts.

## Execution model

One chaincode invocation is one atomic TLA+ step. This follows from Fabric:

- PutState writes are buffered in the transaction's write set.
- An invocation that returns `shim.Error` is not committed.
- MVCC validation rejects a transaction whose reads were overwritten, so
  committed invocations are serialisable.

Inside an invocation, GetState returns the committed value, never the
invocation's own earlier writes. A record read before a write of the same key
is therefore stale, and the last PutState of a key wins. The models keep this
exactly: it is what makes a self-transfer create tokens.

The specification (`spec.md` 5 and 9) asks that the core not rely on
whole-invocation atomicity. `LedgerSaga` drops that assumption for the two
ledger operations that write more than one record: there every PutState is a
step of its own, visible at once, and may fail. `MarketSaga` does the same
for the marketplace invocations that write more than once: the proposal, the
shipment and the review.

Amounts are `float64` in the code. `Ledger`, `LedgerSaga`, `Marketplace` and
`MarketSaga` keep them as integers: comparisons and arithmetic are as the code
writes them, and rounding is left out. `FloatLedger` repeats the allowance
protocol with the rounding kept (module `BinaryFloat`).

## Modules

- `Ledger.tla` models the token ledger.
  - Variables: `tokens` (id ↦ [total, remaining]) and `acct` (id ↦ [balance,
    total, allow]).
  - The record methods (`RetrieveFunds`, `AddFunds`, `SetBalance`,
    `ReduceAllowance`) are operators on one Account value.
  - `Approve` and `TransferFrom` are split into a guard (`...Ok`, the code's
    early returns) and a result (`...Result`, the writes in code order). They
    are functions of the accounts map so that `Marketplace` can reuse them
    inside its own actions.
  - Actions: `CreateToken`, `CreateAccount`, `SetAccountBalance`, `Approve`,
    `TransferFrom`.
- `Marketplace.tla` composes the ledger (`L == INSTANCE Ledger`) with the
  catalog, the proposal validator and the lifecycle.
  - Actions: `LedgerOp` (any ledger entry point), `CreateBusiness`,
    `CreateDataCategory`, `CreateDataContractType`,
    `SubmitDataContractProposal`, `SetDataInfoSentToConsumer`,
    `SetDataReceivedByConsumer`, `SubmitReview`, `AddPerson`, `DeleteDoc`,
    `CleanUp`.
  - The reference checks of the code (`checkAttributes`,
    `checkAndGetAttributes`) are the operators `TypeRefsExist`,
    `ProposalRefsExist` and `ReviewRefsExist`. The appends to a business's or a
    type's review and person lists are bags of ids (`BusinessAddReview`,
    `TypeAddReview`, `BusinessAddPerson`). Scores are left out.
  - `DeleteDoc(d)` removes key `d` from whichever map holds it. `CleanUp`
    empties every map, tokens and accounts included.
  - The history variables are `paid`, the tokens each contract's shipment
    moved, and `agreed`, the price its proposal escrowed.
- `LedgerSaga.tla` models the ledger write by write (`account.go` 213-263,
  `token.go` 76-110).
  - Variables: the store of `Ledger`, plus `pc` (the step the running
    invocation is at, or `idle`) and `loc` (its local variables and the store
    it started from).
  - `TransferFrom` is `TransferFromRetrieve` (read both records, check, write
    the debited source), `TransferFromReduce` (`ReduceAllowance` writes the
    source again), `TransferFromAdd` (the destination record read at the start
    is credited and written) and `TransferFromCompensate` (`source.AddFunds`
    on the in-memory source after a failed write; its own error is dropped).
  - `ReduceAllowance` has a pointer receiver: it lowers the in-memory
    allowance before its write, so a failed write still leaves the lowered
    allowance in the record that the compensation writes. The model keeps
    this in `loc.srcRec`.
  - `SetAccountBalance` is `SetAccountBalanceAccount` then
    `SetAccountBalanceToken`, with no undo.
  - `FaultyWrites` names the write sites that may fail. A failure of the
    first write of an invocation changes nothing, so it is a stutter.
    `createToken`, `createAccount` and `approve` write one record and stay
    atomic (`AtomicOp`).
  - Refinement: `Atomic == INSTANCE Ledger WITH tokens <- ..., acct <- ...`
    maps a state to the store as it was before the running invocation
    started. `AtomicSpec == Atomic!Spec` is checked, in `saga_atomic`, with
    failing writes. With none, the write-by-write steps are the `Ledger`
    operators applied in sequence, so the refinement would hold by
    construction and no pass run checks it.
- `MarketQueries.tla` extends `Marketplace` with the dashboard queries of
  `queries.go`.
  - `ContractDoc(k)` is the stored JSON of contract `k`, as a function from
    field path to value, holding the paths that the selectors name.
  - `Eq`, `Gte` and `Lt` are CouchDB selector conditions: a condition on a
    missing field fails. A query is the set of stored contracts whose document
    its selector matches, as `stub.GetQueryResult` returns it.
  - Each query is a set of contract ids: `DataSetsToUpload`,
    `SoldShippedNotDownloaded`, `SoldAndDownloaded` for the provider, and
    `PurchasedNotUploaded`, `PurchasedUploadedNotDownloaded`,
    `PurchasedDownloaded` for the consumer. `today` ranges over `Times`.
  - Contracts keep their stored end date (`end`): FILE and STREAM
    contracts store the proposal's end date, and other contracts the zero
    time.
- `MarketSaga.tla` composes `Marketplace` (`M`) with `LedgerSaga` (`LS`).
  The two share the store and the ledger's `pc` and `loc`.
  - `mloc` is the running marketplace invocation: its step, and its inputs. `Running` holds while a market
    or ledger invocation is between writes, and no other invocation may
    start then.
  - `SubmitDataContractProposal` is `ProposeApprove` (the `Approve` write,
    which comes before every check of the proposal) and `ProposeSave` (the
    duplicate-id and window checks, then the contract write or its failure).
  - `SetDataInfoSentToConsumer` is `ShipStatus` (DATASHIPPED written) and
    `ShipTransfer`. The latter either starts `LedgerSaga`'s `TransferFrom`
    steps, or returns the refusal with the status left written.
  - `SubmitReview` is `ReviewSave`, `ReviewProvider` and `ReviewType`. Each
    of the last two writes may fail and end the invocation, because the code's
    undo is a TODO.
  - The other invocations stay atomic (`AtomicMarket`), and so do the ledger
    entry points through `LedgerStep`.
  - `FaultyWrites` names the failing write sites of both modules. Inside a
    shipment the `TransferFrom`'s first write (`RetrieveFunds`) follows the
    DATASHIPPED write, so its failure is a site of its own, `shipRetrieve`:
    the invocation returns an error with the contract shipped.
- `BinaryFloat.tla` is binary floating point as Go computes it. An integer
  `v` stands for `v * 2^-Scale`. `Round(n, den)` rounds `n/den` to
  `Precision` significant bits, ties to even. `FAdd`, `FSub` and
  `ParseFloat(num, den)` (`strconv.ParseFloat` of the decimal `num/den`) are
  the exact result, rounded. float64 has 53 bits. TLC's integers are 32 bits
  wide, so the runs use 24 bits (float32) on a grid of `2^-27`. The
  decimals 0.1 to 0.3 are then inexact in the same way as in float64.
- `FloatLedger.tla` is `Token.SetAccountBalance`, `Approve` and
  `TransferFrom` (with `ReduceAllowance`) over such floats. It has the same
  guards, the same order of operations and the same stale destination
  record as `Ledger`. `ReduceAllowance` deletes an entry only when the
  rounded remainder is exactly 0, as `account.go:277` does.
- `MCLedger.tla`, `MCLedgerSaga.tla`, `MCMarketSaga.tla` and
  `MCMarketplace.tla` (which extends
  `MarketQueries`) give the model values, the input
  sets and the symmetry sets for TLC.

Error paths that write nothing are left out, because a failed invocation
commits nothing. These are wrong argument counts, JSON errors and docType
mismatches. Their conditions are the guards of the actions.

## Runs

| Run | Config | Expect | What it shows |
|---|---|---|---|
| ledger_selfdeal | `MCLedger_selfdeal.cfg` | violation | `approve(a,a,1); transferFrom(a,a,1)` raises a's balance by 1 (`NoTokensCreated`). |
| ledger_approve | `MCLedger_approve.cfg` | violation | Re-approving the same amount to the same spender is refused when the balance equals the allowance (spec scenario A says it succeeds). |
| market | `MCMarketplace.cfg` | pass | Two businesses with accounts, FILE and STREAM types, two contracts, interleaved with direct ledger calls. Every shipped or received contract has moved exactly the price its proposal escrowed, and an unshipped one nothing (`ContractPaidAgreedPrice`). Every FILE contract is in exactly one list of its provider's dashboard and one of its consumer's, for every date (`FileContractsListedOnce`). |
| market_dashboard | `MCMarketplace_dashboard.cfg` | violation | A proposed STREAM contract is in none of its provider's lists (`EveryContractListed`). The selectors' date branches name `extras.streamEndDateTime`, but the contract stores `extras.endDateTime` (`queries.go:477`). |
| market_escrow | `MCMarketplace_escrow.cfg` | violation | Two proposals between the same pair leave one price reserved for two open contracts. |
| market_admin | `MCMarketplace_admin.cfg` | pass | Adds reviews, persons, `deleteDoc` of a token, an account, a business, the category and the contract, and `cleanUp`. Payments still match the escrow, and every review is credited to its contract's provider (`ReviewCreditedToProvider`). |
| market_typedelete | `MCMarketplace_typedelete.cfg` | violation | `deleteDoc` of the contract type between proposal and shipment. Shipment ignores the lookup error and transfers price 0, and the contract becomes DATASHIPPED unpaid (`data_info.go:56`). |
| market_review | `MCMarketplace_review.cfg` | violation | The type id is deleted and recreated by the other business. A review of the old contract is credited to the new provider (`review.go:169`). |
| saga | `MCLedgerSaga.cfg` | pass | Well-formed inputs (amounts 0..2, empty allowance maps at creation) and no failing write. The run's specification is `MCFaultFreeSpec`, which is `Spec` without `TransferFromCompensate`. With no failing write that step is never enabled; the compensation is exercised in `market_saga`. Between any two writes, `TotalAllowances` equals the sum of the allowances and no balance is negative. Between invocations, without a self-allowance, no tokens are created. |
| market_saga | `MCMarketSaga.cfg` | pass | Proposal, shipment with its `TransferFrom`, and review run write by write, and every write after the first may fail. A paid contract is shipped or received and was paid its escrowed price once (`ShipmentPaidOnce`). Every review a business or type lists is stored (`ListedReviewsStored`). A compensation that succeeds restores every balance to its value at the start of `transferFrom` (`CompensationRestoresBalances`). |
| float_total | `MCFloatLedger.cfg` | violation | With amounts rounded as binary floats, `TotalAllowances` is not a float sum of the entries in any order (`TotalAllowancesConsistent`). The sequence: a1's balance 0.1, `approve(a1,a1,0.1)`, balance 0.3, `approve(a1,a2,0.2)`, `transferFrom(a1,a2,0.1)`. The entries are then 0.1 and 0.1, but the total is one unit in the last place above their sum. In float64 the same calls leave a total of 0.20000000000000004 (`account.go:275`). |
| saga_atomic | `MCLedgerSaga_atomic.cfg` | violation | The allowance or destination write fails and the compensation succeeds. `transferFrom` returns an error, yet the source's allowance stays consumed: the operation was neither applied nor undone (`account.go:248`). |

### Known input behaviours

Two behaviours of the entry points are recorded here rather than as runs:

- `ParseFloat` accepts negative amounts, so `setAccountBalance(a, -1)`
  stores a negative balance. TLC shows this in one step when `Amounts`
  includes −1.
- `createAccount` stores a caller-supplied `allowances` map while setting
  `TotalAllowances` to 0, which breaks `TotalAllowancesConsistent` in one
  step.

The pass runs use well-formed inputs: non-negative amounts and empty
allowance maps.

### Bounds

- The ledger runs use two accounts and two tokens, so that self- and
  cross-account transfers and a second mint source both occur. Amounts 0..2
  and a bound of 4 on every number let an allowance exceed a balance after
  `setAccountBalance` lowers it.
- The marketplace run uses one type id and two contract ids. That is the least
  that lets two contracts share a consumer–provider pair, and lets FILE and
  STREAM contracts coexist. Ledger amounts are {1}, the one price, so a direct
  `approve` or `transferFrom` can replace or drain an escrow exactly.
- The admin runs use one contract id, one review id and one person id. The
  review and person ids are not deletable: `SubmitReview` and `AddPerson`
  append to the business's list, and `deleteDoc` leaves the list alone. Delete
  and resubmit the same id, and the list grows without bound. That is a real
  behaviour of the code (hazard listed), but it only repeats states the single
  submission already reaches. Types are not deletable in `market_admin`. The
  two violation runs show why that deletion breaks both properties.
- `float_total` uses three accounts, the amounts 0.1, 0.2 and 0.3, and a
  supply and balance bound of 1.0, with 24-bit floats. Three accounts let
  one owner hold two entries and a third account act. The drift needs an
  inexact sum (0.1 + 0.2) followed by a subtraction, and appears at depth 5.
- The saga runs keep the ledger instance. `saga_atomic` uses amounts 1..2,
  so that the counterexample moves a non-zero amount.
- `market_saga` has every write site faulty, so it is the largest state
  space. It uses two businesses with accounts, one token of supply 1,
  amounts and prices {1}, a bound of 2, one type, one contract, one review
  and one person, FILE contracts only, and `Times = {0}`. This is the least
  that lets a direct `transferFrom`, run between invocations, drain the
  escrow a shipment then finds spent, and
  lets a review's two list writes fail separately. STREAM adds no write
  site. Review ids are not deletable, so a review deleted after being
  listed, which would violate `ListedReviewsStored` in one step
  (`clean_up.go:34`), is not checked. The run takes about one minute.
- The dashboards are checked for every `today` in `Times = {0, 1}`. A FILE
  contract whose window ends at 0 is then both before and past its end date,
  which is the case where a date branch on the stored end field would list it
  twice.
- Symmetry is taken only over sets whose elements the model never
  distinguishes: accounts in `MCLedger`, contract ids in `MCMarketplace`.

### Deadlock and fairness

- `MCMarketplace.cfg` and the `MCMarketSaga` configs set `CHECK_DEADLOCK FALSE`. With bounded ids and a
  bounded supply, the store legitimately reaches states where every
  invocation fails (all ids used, supply minted, allowances spent). The real
  chaincode then also rejects every call.
- No liveness is claimed. Clients are never obliged to call anything, so no
  fairness is justified for them. The only steps the code itself must take
  are the writes of a running `transferFrom` or `setAccountBalance`. These
  run within one invocation, and the invocation returns once its last write
  is done or has failed. The path from a started invocation back to `idle`
  is acyclic and at most three steps long. A liveness property that it ends
  would hold by the shape of the model and say nothing about the code.

## Not modelled yet

- Review scores, person roles, names and addresses: no property reads them.
- Caller authentication. Every entry point is treated as callable by anyone.
  `deleteDoc`, `cleanUp` and the ledger entry points really are, because
  they check no identity.
- The catalog listings, popularity rankings, per-type queries and
  pagination of `queries.go`. They are read-only, and no property tells them
  apart. Dates are compared as integers, not as the RFC 3339 strings the
  selectors compare.
- `cleanUp` and `deleteDoc` write by write. `MarketSaga` keeps them atomic.
- Events.
- Float rounding in `Marketplace` and the sagas. `FloatLedger` keeps it
  only for the allowance protocol. TLC's 32-bit integers cannot hold a
  53-bit mantissa, so the float runs use 24 bits.

## Plan

1. (done) `Ledger` with its invariants and violation runs.
2. (done) `Marketplace`: escrow and delivery composed with the ledger.
3. (done) `DeleteDoc`/`CleanUp`, reviews and persons as Marketplace actions.
   Next: the caller's identity as an input of the entry points that check
   it.
4. (done) `LedgerSaga`: `TransferFrom` and `SetAccountBalance` as sequences
   of PutState steps that may fail, with the code's compensations. It refines
   `Ledger` when no step fails.
4b. (done) `MarketSaga`: proposal, shipment and review write by write,
   composed with `LedgerSaga`. With no failing write, shipment can still return an error
   after writing DATASHIPPED (see `market_escrow`).
4a. (done) `MarketQueries`: the dashboard selectors over the contracts.
5. An abstract escrow specification (reserved vs. released amounts per pair)
   refined by `Marketplace`.
6. (done) Float rounding of amounts in the allowance protocol
   (`FloatLedger`).
