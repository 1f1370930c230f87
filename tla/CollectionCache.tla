-------------------------- MODULE CollectionCache --------------------------
(***************************************************************************)
(* The two numbers of a collection that clients read through Redis:        *)
(* total_mints and supply (api/src/dataloaders/collection.rs).  A loader   *)
(* that finds no entry counts rows and sets the entry, without expiry; a   *)
(* mutation that adds rows deletes the entry after its commit              *)
(* (api/src/mutations/mint.rs), or does not.  switch_collection_submitted  *)
(* (events.rs) moves a row from one collection to another, an import of a  *)
(* collection that the hub has (mutations/collection.rs) deletes its rows, *)
(* and index_collection and index_mint (events.rs) insert them again under *)
(* the id that the collection had.                                         *)
(***************************************************************************)
EXTENDS Naturals, FiniteSets

CONSTANTS
  Collections,
  Kind,       \* what a collection belongs to at first: an "edition" or "open" drop or "none"
  Supply,     \* collections.supply, of edition drops
  Mints,      \* ids of mints (a bound)
  Clients,    \* requests in progress at the same time
  Ops,        \* the requests that are made
  NoValue,    \* no entry in Redis
  Missing,    \* a loader that returns nothing for its key
  NoCollection

AddOps == {"mint_edition", "mint_to_collection", "queue_mint_to_drop"}
TakeOps == {"mint_queued", "mint_random_queued_to_drop", "mint_random_queued_to_drop_batched"}
LoadOps == {"total_mints", "supply"}
ImportOps == {"import_solana_collection", "index_mint"}
AllOps == AddOps \cup TakeOps \cup LoadOps \cup ImportOps \cup {"switch_collection", "error"}

ASSUME KindAssumption == Kind \in [Collections -> {"edition", "open", "none"}]
ASSUME SupplyAssumption == Supply \in Nat
ASSUME OpsAssumption == Ops \subseteq AllOps
ASSUME MintsAssumption == IsFiniteSet(Mints)
ASSUME NoValueAssumption == NoValue \notin Nat /\ Missing \notin Nat
ASSUME NoCollectionAssumption == NoCollection \notin Collections

VARIABLES
  kind,    \* collections and drops: what a collection belongs to now
  mint,    \* collection_mints: the collection, and whether the row is queued
  cache,   \* Redis: the entries of a collection
  client,  \* requests in progress
  missed,  \* ghost: what happened to an entry's number since it was counted
  unseen   \* ghost: the same for the number that a loader is about to set

vars == <<kind, mint, cache, client, missed, unseen>>

\* What can happen to a number: a step that changes the count, a deletion of the entry
\* while a loader is about to set it, and the end of a request that owes a deletion.
Event == AllOps \cup {"deleted"}

Kinds == {"edition", "open", "none", "deleted", "imported"}

\* `been` is a ghost: the collections the mint has been in.
Row == [collection: Collections \cup {NoCollection}, queued: BOOLEAN,
        been: SUBSET Collections]
Absent == [collection |-> NoCollection, queued |-> FALSE, been |-> {}]

Value == Nat \cup {NoValue}

Client == [op: AllOps \cup {"none"}, pc: {"idle", "load", "set", "delete", "answered"},
           collection: Collections \cup {NoCollection}, value: Value \cup {Missing}]

Idle == [op |-> "none", pc |-> "idle", collection |-> NoCollection, value |-> NoValue]

Of(k) == {m \in Mints : mint[m].collection = k}

\* Fault: the loader of total_mints counts queued rows as well.
CountAll(entry, k) == Cardinality(Of(k))

\* What the loaders count, now: for total_mints the rows that are not queued,
\* for supply all rows.
Count(entry, k) ==
  IF entry = "total_mints" THEN Cardinality({m \in Of(k) : ~mint[m].queued})
                           ELSE Cardinality(Of(k))

\* Fault: queueing deletes the entry that minting deletes.
DeletesTotal(op) == IF op = "mint_random_queued_to_drop_batched" THEN {} ELSE {"total_mints"}

\* The entry a mutation deletes; the batch deletes none.
Deletes(op) ==
  IF op = "queue_mint_to_drop" THEN {"supply"}
  ELSE IF op = "mint_random_queued_to_drop_batched" THEN {}
  ELSE {"total_mints"}

TypeOK ==
  /\ kind \in [Collections -> Kinds]
  /\ mint \in [Mints -> Row]
  /\ cache \in [Collections -> [LoadOps -> Value]]
  /\ client \in [Clients -> Client]
  /\ missed \in [Collections -> [LoadOps -> SUBSET Event]]
  /\ unseen \in [Clients -> SUBSET Event]

Init ==
  /\ kind = Kind
  /\ mint = [m \in Mints |-> Absent]
  /\ cache = [k \in Collections |-> [entry \in LoadOps |-> NoValue]]
  /\ client = [c \in Clients |-> Idle]
  /\ missed = [k \in Collections |-> [entry \in LoadOps |-> {}]]
  /\ unseen = [c \in Clients |-> {}]

-----------------------------------------------------------------------------
(* The record of what happens to the numbers.  It is the same for all      *)
(* steps: nothing in it depends on which entries a step deletes.           *)

\* The number that c is about to set is of k's entry.
About(c, k, entry) ==
  client[c].pc = "set" /\ client[c].op = entry /\ client[c].collection = k

\* An event is noted with the numbers of the places that it concerns.
Note(event, places) ==
  /\ missed' = [k \in Collections |-> [entry \in LoadOps |->
       IF cache[k][entry] # NoValue /\ <<k, entry>> \in places
       THEN missed[k][entry] \cup {event} ELSE missed[k][entry]]]
  /\ unseen' = [c \in Clients |->
       IF \E k \in Collections, entry \in LoadOps :
            About(c, k, entry) /\ <<k, entry>> \in places
       THEN unseen[c] \cup {event} ELSE unseen[c]]

\* A step that changes rows is noted wherever it changes a count.
NoteCounts(op) ==
  Note(op, {p \in Collections \X LoadOps : Count(p[2], p[1])' # Count(p[2], p[1])})

-----------------------------------------------------------------------------
(* The mutations: a commit, then the deletion of an entry.                 *)

AfterCommit(c, op, k) ==
  /\ client' = [client EXCEPT ![c] =
       IF Deletes(op) = {} THEN Idle
       ELSE [op |-> op, pc |-> "delete", collection |-> k, value |-> NoValue]]
  /\ NoteCounts(op)

\* Only the mints of drops are editions or queued; any collection can be
\* minted to.
Add(c, op, k, m) ==
  /\ op \in Ops \cap AddOps
  /\ client[c].pc = "idle"
  /\ IF op = "mint_to_collection" THEN kind[k] # "deleted" ELSE kind[k] \in {"edition", "open"}
  /\ mint[m] = Absent
  /\ mint' = [mint EXCEPT ![m] = [collection |-> k, queued |-> op = "queue_mint_to_drop",
                                 been |-> {k}]]
  /\ AfterCommit(c, op, k)
  /\ UNCHANGED <<kind, cache>>

\* A mint of the queue is minted.
TakeQueued(c, op, m) ==
  /\ op \in Ops \cap TakeOps
  /\ client[c].pc = "idle"
  /\ mint[m].collection # NoCollection /\ mint[m].queued
  /\ mint' = [mint EXCEPT ![m].queued = FALSE]
  /\ AfterCommit(c, op, mint[m].collection)
  /\ UNCHANGED <<kind, cache>>

\* The entries that a request is about to delete.
Places(c) == {client[c].collection} \X Deletes(client[c].op)

\* The redis_conn.del of the mutation.
Delete(c) ==
  /\ client[c].pc = "delete"
  /\ cache' = [cache EXCEPT ![client[c].collection] =
       [entry \in LoadOps |-> IF entry \in Deletes(client[c].op) THEN NoValue ELSE @[entry]]]
  /\ client' = [client EXCEPT ![c] = Idle]
  /\ missed' = [k \in Collections |-> [entry \in LoadOps |->
       IF <<k, entry>> \in Places(c) THEN {} ELSE missed[k][entry]]]
  /\ unseen' = [d \in Clients |->
       IF \E k \in Collections, entry \in LoadOps :
            About(d, k, entry) /\ <<k, entry>> \in Places(c)
       THEN unseen[d] \cup {"deleted"} ELSE unseen[d]]
  /\ UNCHANGED <<kind, mint>>

\* The mint of a collection is moved to a collection without a drop.
SwitchCollection(m, k) ==
  /\ "switch_collection" \in Ops
  /\ kind[k] \in {"none", "imported"}
  /\ mint[m].collection \notin {NoCollection, k}
  /\ ~mint[m].queued
  /\ mint' = [mint EXCEPT ![m].collection = k, ![m].been = @ \cup {k}]
  /\ NoteCounts("switch_collection")
  /\ UNCHANGED <<kind, cache, client>>

-----------------------------------------------------------------------------
(* Imports.  No step of theirs deletes an entry.                           *)

\* The mutation deletes a collection that the hub has, with its mints and its drop.
ImportCollection(k) ==
  /\ "import_solana_collection" \in Ops
  /\ kind[k] # "deleted"
  /\ kind' = [kind EXCEPT ![k] = "deleted"]
  /\ mint' = [m \in Mints |-> IF m \in Of(k) THEN [mint[m] EXCEPT !.collection = NoCollection]
                                              ELSE mint[m]]
  /\ NoteCounts("import_solana_collection")
  /\ UNCHANGED <<cache, client>>

\* index_collection inserts it under the id that it had.
IndexCollection(k) ==
  /\ kind[k] = "deleted"
  /\ kind' = [kind EXCEPT ![k] = "imported"]
  /\ UNCHANGED <<mint, cache, client, missed, unseen>>

IndexMint(k, m) ==
  /\ "index_mint" \in Ops
  /\ kind[k] = "imported"
  /\ mint[m] = Absent
  /\ mint' = [mint EXCEPT ![m] = [collection |-> k, queued |-> FALSE, been |-> {k}]]
  /\ NoteCounts("index_mint")
  /\ UNCHANGED <<kind, cache, client>>

-----------------------------------------------------------------------------
(* The loaders.                                                            *)

Answer(c, op, k, value) ==
  client' = [client EXCEPT ![c] = [op |-> op, pc |-> "answered", collection |-> k, value |-> value]]

\* An entry is returned as it is.  For supply without one the kind of drop is
\* looked up by an inner join: a collection without a drop is not among its
\* results, and an edition drop's supply is a column.
Read(c, op, k) ==
  /\ op \in Ops \cap LoadOps
  /\ client[c].pc = "idle"
  /\ IF cache[k][op] # NoValue THEN Answer(c, op, k, cache[k][op])
     ELSE IF op = "supply" /\ kind[k] = "edition" THEN Answer(c, op, k, Supply)
     ELSE IF op = "supply" /\ kind[k] # "open" THEN Answer(c, op, k, Missing)
     ELSE client' = [client EXCEPT ![c] = [op |-> op, pc |-> "load", collection |-> k,
                                           value |-> NoValue]]
  /\ UNCHANGED <<kind, mint, cache, missed, unseen>>

Load(c) ==
  /\ client[c].pc = "load"
  /\ client' = [client EXCEPT ![c].pc = "set",
                              ![c].value = Count(client[c].op, client[c].collection)]
  /\ UNCHANGED <<kind, mint, cache, missed, unseen>>

\* The entry is set to what was counted, whatever has happened since.
Set(c) ==
  /\ client[c].pc = "set"
  /\ cache' = [cache EXCEPT ![client[c].collection][client[c].op] = client[c].value]
  /\ client' = [client EXCEPT ![c].pc = "answered"]
  /\ missed' = [missed EXCEPT ![client[c].collection][client[c].op] = unseen[c]]
  /\ unseen' = [unseen EXCEPT ![c] = {}]
  /\ UNCHANGED <<kind, mint>>

Answered(c) ==
  /\ client[c].pc = "answered"
  /\ client' = [client EXCEPT ![c] = Idle]
  /\ UNCHANGED <<kind, mint, cache, missed, unseen>>

\* Redis, the database or the caller is gone between two calls.
LoaderFails(c) ==
  /\ "error" \in Ops
  /\ client[c].pc \in {"load", "set"}
  /\ client' = [client EXCEPT ![c] = Idle]
  /\ unseen' = [unseen EXCEPT ![c] = {}]
  /\ UNCHANGED <<kind, mint, cache, missed>>

\* The deletion is left out; a mutation is not repeated.
DeleteFails(c) ==
  /\ "error" \in Ops
  /\ client[c].pc = "delete"
  /\ client' = [client EXCEPT ![c] = Idle]
  /\ Note("error", Places(c))
  /\ UNCHANGED <<kind, mint, cache>>

-----------------------------------------------------------------------------
Request(c) ==
  \/ \E op \in AddOps, k \in Collections, m \in Mints : Add(c, op, k, m)
  \/ \E op \in TakeOps, m \in Mints : TakeQueued(c, op, m)
  \/ \E op \in LoadOps, k \in Collections : Read(c, op, k)
  \/ Delete(c) \/ Load(c) \/ Set(c) \/ Answered(c) \/ LoaderFails(c) \/ DeleteFails(c)

Next ==
  \/ \E c \in Clients : Request(c)
  \/ \E m \in Mints, k \in Collections : SwitchCollection(m, k) \/ IndexMint(k, m)
  \/ \E k \in Collections : ImportCollection(k) \/ IndexCollection(k)

Spec == Init /\ [][Next]_vars

-----------------------------------------------------------------------------
(* Properties.                                                             *)

\* However mints, switches and loads interleave and wherever they stop, a
\* number that is shown may be old but is never ahead of the mints that the
\* collection has had (dataloaders/collection.rs and the mutations' deletions).
NeverAhead ==
  \A k \in Collections, entry \in LoadOps :
    cache[k][entry] # NoValue =>
      cache[k][entry] <=
        Cardinality({m \in Mints : k \in mint[m].been
                                  /\ (entry = "total_mints" => ~mint[m].queued)})

\* A mutation has committed and is about to delete the entry.
Owed(k, entry) ==
  \E c \in Clients : /\ client[c].pc = "delete" /\ client[c].collection = k
                     /\ entry \in Deletes(client[c].op)

\* The steps that change a count and delete no entry for it: the batch, the switch, the two
\* of an import, and mints that were never queued, which count in an open drop's supply.
Silent(entry) ==
  {"mint_random_queued_to_drop_batched", "switch_collection", "import_solana_collection",
   "index_mint"}
    \cup (IF entry = "supply" THEN {"mint_edition", "mint_to_collection"} ELSE {})

\* A number that is not the current one (docs of Collection.totalMints: "The current number of
\* NFTs minted from the collection") is about to be deleted by a mutation, or one of these
\* has happened since it was counted: a silent step, a deletion before the loader set it, or
\* the end of a request that was to delete it.  All other steps that change a count delete
\* the entry after their commit, and no interleaving of theirs leaves it wrong.
Current ==
  \A k \in Collections, entry \in LoadOps :
    \/ cache[k][entry] \in {NoValue, Count(entry, k)}
    \/ Owed(k, entry)
    \/ missed[k][entry] \cap (Silent(entry) \cup {"deleted", "error"}) # {}

\* What the docs say: between requests each entry is the current number.
NeverStale ==
  (\A c \in Clients : client[c].pc \in {"idle", "answered"}) =>
    \A k \in Collections, entry \in LoadOps : cache[k][entry] \in {NoValue, Count(entry, k)}

\* Every collection has a supply to show, be it null (docs of
\* Collection.supply: "The total supply of the collection").
SupplyIsShown == \A c \in Clients : client[c].value # Missing
=============================================================================
