---------------------------- MODULE MarketQueries ----------------------------
(***************************************************************************)
(* The dashboard queries of src/resources/queries.go over the state of     *)
(* Marketplace.  Each query is a CouchDB rich query: a selector over the   *)
(* JSON documents in the store, run by getQueryResultForQueryString.  A    *)
(* query is modelled as the set of stored data-contract ids whose document *)
(* the selector matches.                                                   *)
(*                                                                         *)
(* Only data-contract documents carry "consumer" and "extras.fileStatus";  *)
(* the selectors below without a docType condition ask for one of those    *)
(* or for "provider" together with extras fields a contract type does not  *)
(* have, so no other docType can match and only contracts are enumerated.  *)
(* Pagination (the ...WithPagination variants) returns a page of the same  *)
(* set and is left out.  Dates are compared as the timestamps they encode. *)
(***************************************************************************)
EXTENDS Marketplace

\* The docType of a DataContract document (a Java-style class name).
DATA_CONTRACT_DOCTYPE == "DataContract"

(* The JSON document of a stored DataContract as field path -> value, for  *)
(* the paths a selector names (json tags of DataContract and of            *)
(* ContractExtras).  FileStatus and EndDateTime carry no omitempty, so     *)
(* both fields are present in every contract, "" and the zero time         *)
(* included.                                                               *)
ContractDoc(k) ==
    ("docType" :> DATA_CONTRACT_DOCTYPE) @@
    ("provider" :> contracts[k].provider) @@
    ("consumer" :> contracts[k].consumer) @@
    ("dataContractType" :> contracts[k].type) @@
    ("extras.fileStatus" :> contracts[k].status) @@
    ("extras.endDateTime" :> contracts[k].end)

\* Selector conditions: a condition on a field the document lacks fails.
Eq(doc, f, v) == f \in DOMAIN doc /\ doc[f] = v
Gte(doc, f, v) == f \in DOMAIN doc /\ doc[f] >= v
Lt(doc, f, v) == f \in DOMAIN doc /\ doc[f] < v

(* stub.GetQueryResult returns every stored document the selector        *)
(* matches: each query below is {k \in DOMAIN contracts : selector}.       *)

ByDocTypeAndProviderAndFileStatus(p, s) ==
    {k \in DOMAIN contracts :
        LET d == ContractDoc(k) IN
        /\ Eq(d, "docType", DATA_CONTRACT_DOCTYPE)
        /\ Eq(d, "provider", p)
        /\ Eq(d, "extras.fileStatus", s)}

ByDocTypeAndConsumerAndFileStatus(c, s) ==
    {k \in DOMAIN contracts :
        LET d == ContractDoc(k) IN
        /\ Eq(d, "docType", DATA_CONTRACT_DOCTYPE)
        /\ Eq(d, "consumer", c)
        /\ Eq(d, "extras.fileStatus", s)}

DataSetsToUpload(p) == ByDocTypeAndProviderAndFileStatus(p, PROPOSAL)

SoldShippedNotDownloaded(p, today) ==
    {k \in DOMAIN contracts :
        LET d == ContractDoc(k) IN
        /\ Eq(d, "provider", p)
        /\ \/ Eq(d, "extras.fileStatus", DATASHIPPED)
           \/ Gte(d, "extras.streamEndDateTime", today)}

\* Mutant: the stream branch on the field the contract does store.
SoldAndDownloadedByEndDate(p, today) ==
    {k \in DOMAIN contracts :
        LET d == ContractDoc(k) IN
        /\ Eq(d, "provider", p)
        /\ \/ Eq(d, "extras.fileStatus", DATARECEIVED)
           \/ Lt(d, "extras.endDateTime", today)}

SoldAndDownloaded(p, today) ==
    {k \in DOMAIN contracts :
        LET d == ContractDoc(k) IN
        /\ Eq(d, "provider", p)
        /\ \/ Eq(d, "extras.fileStatus", DATARECEIVED)
           \/ Lt(d, "extras.streamEndDateTime", today)}

PurchasedNotUploaded(c) == ByDocTypeAndConsumerAndFileStatus(c, PROPOSAL)

PurchasedUploadedNotDownloaded(c, today) ==
    {k \in DOMAIN contracts :
        LET d == ContractDoc(k) IN
        /\ Eq(d, "consumer", c)
        /\ \/ Eq(d, "extras.fileStatus", DATASHIPPED)
           \/ Gte(d, "extras.streamEndDateTime", today)}

PurchasedDownloaded(c, today) ==
    {k \in DOMAIN contracts :
        LET d == ContractDoc(k) IN
        /\ Eq(d, "consumer", c)
        /\ \/ Eq(d, "extras.fileStatus", DATARECEIVED)
           \/ Lt(d, "extras.streamEndDateTime", today)}

\* A provider's dashboard: to upload, shipped and not downloaded, done.
ProviderLists(p, today) ==
    <<DataSetsToUpload(p), SoldShippedNotDownloaded(p, today),
      SoldAndDownloaded(p, today)>>

\* A consumer's dashboard: awaiting upload, uploaded, downloaded.
ConsumerLists(c, today) ==
    <<PurchasedNotUploaded(c), PurchasedUploadedNotDownloaded(c, today),
      PurchasedDownloaded(c, today)>>

-----------------------------------------------------------------------------
(* Properties                                                              *)

\* The lists of ls that hold contract k.
ListsHolding(k, ls) == {i \in DOMAIN ls : k \in ls[i]}

(* Every FILE contract appears in exactly one list of its provider's and   *)
(* one of its consumer's dashboard, whatever day the caller passes: the    *)
(* status branches of the selectors partition the FILE lifecycle, and the  *)
(* date branches must not pull a contract into a second list.              *)
FileContractsListedOnce ==
    \A k \in DOMAIN contracts, today \in Times :
        contracts[k].status # NoFileStatus =>
            /\ Cardinality(ListsHolding(k, ProviderLists(contracts[k].provider, today))) = 1
            /\ Cardinality(ListsHolding(k, ConsumerLists(contracts[k].consumer, today))) = 1

(* Every stored contract, STREAM contracts included, appears in some list  *)
(* of its provider's dashboard: the date branches of SoldShippedNot-       *)
(* Downloaded and SoldAndDownloaded are there to list streams before and   *)
(* after their end date.                                                   *)
EveryContractListed ==
    \A k \in DOMAIN contracts, today \in Times :
        ListsHolding(k, ProviderLists(contracts[k].provider, today)) # {}

=============================================================================
