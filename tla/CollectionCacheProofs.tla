----------------------- MODULE CollectionCacheProofs -----------------------
(***************************************************************************)
(* Proofs about CollectionCache, for any finite set of mints and any       *)
(* number of requests: the entries in Redis have their type, no number     *)
(* that is shown is ahead of the mints a collection has had, and an entry  *)
(* is wrong only after the events that Current lists.                      *)
(***************************************************************************)
EXTENDS CollectionCache, FiniteSetTheorems, TLAPS

USE KindAssumption, SupplyAssumption, OpsAssumption, NoValueAssumption, NoCollectionAssumption

-----------------------------------------------------------------------------
(* The inductive invariant.                                                *)

\* The mints a number may count: those that have ever been in the collection.
Ever(entry, k) ==
  {m \in Mints : k \in mint[m].been /\ (entry = "total_mints" => ~mint[m].queued)}

\* A mint has been in the collection it is in.
RowOK ==
  \A m \in Mints :
    mint[m].collection # NoCollection => mint[m].collection \in mint[m].been

\* What a request in progress is about; what a loader has counted is not ahead either,
\* although mints come and go between its count and its write.
RequestOK(c) ==
  LET r == client[c]
  IN  /\ r.pc \in {"load", "set"} => r.op \in LoadOps /\ r.collection \in Collections
      /\ r.pc = "delete" => r.collection \in Collections
      /\ r.pc = "set" => r.value \in Nat /\ r.value <= Cardinality(Ever(r.op, r.collection))

CInv == TypeOK /\ RowOK /\ (\A c \in Clients : RequestOK(c)) /\ NeverAhead

-----------------------------------------------------------------------------
(* Counting.                                                               *)

\* Every set of mints has a number, and a larger set no smaller one.
LEMMA MintsCount ==
  ASSUME NEW S \in SUBSET Mints, NEW T \in SUBSET S
  PROVE  /\ Cardinality(S) \in Nat /\ Cardinality(T) \in Nat
         /\ Cardinality(T) <= Cardinality(S)
<1>1. IsFiniteSet(S)
  BY MintsAssumption, FS_Subset
<1>2. IsFiniteSet(T) /\ Cardinality(T) <= Cardinality(S)
  BY <1>1, FS_Subset
<1> QED BY <1>1, <1>2, FS_CardinalityType

\* What a loader counts are mints that have been in the collection.
LEMMA CountWithinEver ==
  ASSUME TypeOK, RowOK, NEW entry \in LoadOps, NEW k \in Collections
  PROVE  /\ Count(entry, k) \in Nat /\ Cardinality(Ever(entry, k)) \in Nat
         /\ Count(entry, k) <= Cardinality(Ever(entry, k))
<1>1. Ever(entry, k) \in SUBSET Mints
  BY DEF Ever
<1>2. \A m \in Of(k) : m \in Mints /\ k \in mint[m].been
  BY DEF Of, RowOK
<1>3. CASE entry = "total_mints"
  <2>1. {m \in Of(k) : ~mint[m].queued} \in SUBSET Ever(entry, k)
    BY <1>2 DEF Ever
  <2> QED BY <1>1, <1>3, <2>1, MintsCount DEF Count
<1>4. CASE entry # "total_mints"
  <2>1. Of(k) \in SUBSET Ever(entry, k)
    BY <1>2, <1>4 DEF Ever
  <2> QED BY <1>1, <1>4, <2>1, MintsCount DEF Count
<1> QED BY <1>3, <1>4

\* No step takes a mint out of those that a collection has had, and a mint leaves the queue
\* for good.
Grows ==
  \A m \in Mints :
    /\ mint[m].been \subseteq mint'[m].been
    /\ mint[m].been # {} /\ ~mint[m].queued => ~mint'[m].queued

LEMMA EverGrows ==
  ASSUME Grows, NEW entry, NEW k
  PROVE  /\ Cardinality(Ever(entry, k)) \in Nat /\ Cardinality(Ever(entry, k)') \in Nat
         /\ Cardinality(Ever(entry, k)) <= Cardinality(Ever(entry, k)')
<1>1. Ever(entry, k)' \in SUBSET Mints
  BY DEF Ever
<1>2. Ever(entry, k) \in SUBSET Ever(entry, k)'
  BY DEF Ever, Grows
<1> QED BY <1>1, <1>2, MintsCount

-----------------------------------------------------------------------------
\* What is noted keeps the ghosts' types.
LEMMA NoteType ==
  ASSUME TypeOK, NEW event \in Event, NEW places, Note(event, places)
  PROVE  /\ missed' \in [Collections -> [LoadOps -> SUBSET Event]]
         /\ unseen' \in [Clients -> SUBSET Event]
<1>1. \A k \in Collections, entry \in LoadOps : missed[k][entry] \cup {event} \in SUBSET Event
  BY DEF TypeOK
<1>2. \A c \in Clients : unseen[c] \cup {event} \in SUBSET Event
  BY DEF TypeOK
<1> QED BY <1>1, <1>2 DEF Note, TypeOK

LEMMA NoteCountsType ==
  ASSUME TypeOK, NEW op \in Event, NoteCounts(op)
  PROVE  /\ missed' \in [Collections -> [LoadOps -> SUBSET Event]]
         /\ unseen' \in [Clients -> SUBSET Event]
  BY NoteType DEF NoteCounts

LEMMA InitCInv == Init => CInv
<1> SUFFICES ASSUME Init PROVE CInv
  OBVIOUS
<1>1. TypeOK
  BY DEF Init, TypeOK, Row, Absent, Value, Client, Idle, Kinds
<1>2. RowOK
  BY DEF Init, RowOK, Absent
<1>3. \A c \in Clients : RequestOK(c)
  BY DEF Init, RequestOK, Idle
<1>4. NeverAhead
  BY DEF Init, NeverAhead
<1> QED BY <1>1, <1>2, <1>3, <1>4 DEF CInv

\* Nothing gets ahead by a step that leaves some requests alone, and each entry as it is or
\* deletes it.
LEMMA NotAheadFrame ==
  ASSUME CInv, Grows, NEW S \in SUBSET Clients,
         \A k \in Collections, entry \in LoadOps :
           cache'[k][entry] \in {cache[k][entry], NoValue},
         \A e \in S : client'[e] = client[e]
  PROVE  (\A e \in S : RequestOK(e)') /\ NeverAhead'
<1>1. ASSUME NEW e \in S PROVE RequestOK(e)'
  <2>1. RequestOK(e) /\ client'[e] = client[e]
    BY DEF CInv
  <2>2. PICK op, k : op = client[e].op /\ k = client[e].collection
    OBVIOUS
  <2>3. client[e].pc = "set" => client[e].value <= Cardinality(Ever(op, k))
    BY <2>1, <2>2 DEF RequestOK
  <2>4. client[e].pc = "set" => client[e].value <= Cardinality(Ever(op, k)')
    BY <2>1, <2>3, EverGrows DEF RequestOK
  <2>5. client'[e].op = op /\ client'[e].collection = k
    BY <2>1, <2>2
  <2>6. client'[e].pc = "set" =>
          client'[e].value <= Cardinality(Ever(client[e].op, client[e].collection)')
    BY <2>1, <2>4, <2>5 DEF Ever
  <2> QED BY <2>1, <2>6 DEF RequestOK
<1>2. NeverAhead'
  <2> SUFFICES ASSUME NEW k \in Collections, NEW entry \in LoadOps, cache'[k][entry] # NoValue
               PROVE  cache'[k][entry] <= Cardinality(Ever(entry, k)')
    BY DEF NeverAhead, Ever
  <2>1. /\ cache'[k][entry] = cache[k][entry]
        /\ cache[k][entry] \in Nat /\ cache[k][entry] <= Cardinality(Ever(entry, k))
    BY DEF CInv, NeverAhead, Ever, TypeOK, Value
  <2> QED BY <2>1, EverGrows
<1> QED BY <1>1, <1>2

\* After its commit a mutation is over, or about to delete an entry of its collection.
LEMMA AfterCommitOK ==
  ASSUME CInv, NEW c \in Clients, NEW op \in AddOps \cup TakeOps, NEW k \in Collections,
         AfterCommit(c, op, k)
  PROVE  /\ client' \in [Clients -> Client] /\ missed' \in [Collections -> [LoadOps -> SUBSET Event]]
         /\ unseen' \in [Clients -> SUBSET Event]
         /\ \A e \in Clients \ {c} : client'[e] = client[e]
         /\ client'[c] = IF Deletes(op) = {} THEN Idle
              ELSE [op |-> op, pc |-> "delete", collection |-> k, value |-> NoValue]
         /\ RequestOK(c)'
<1>1. TypeOK
  BY DEF CInv
<1>2. op \in Event
  BY DEF Event, AllOps
<1>3. /\ missed' \in [Collections -> [LoadOps -> SUBSET Event]]
      /\ unseen' \in [Clients -> SUBSET Event]
  BY <1>1, <1>2, NoteCountsType DEF AfterCommit
<1>4. /\ Idle \in Client
      /\ [op |-> op, pc |-> "delete", collection |-> k, value |-> NoValue] \in Client
  BY DEF Idle, Client, Value, AllOps
<1>5. client' \in [Clients -> Client]
  BY <1>1, <1>4 DEF AfterCommit, TypeOK
<1>6. /\ \A e \in Clients \ {c} : client'[e] = client[e]
      /\ client'[c] = IF Deletes(op) = {} THEN Idle
           ELSE [op |-> op, pc |-> "delete", collection |-> k, value |-> NoValue]
  BY <1>1 DEF AfterCommit, TypeOK
<1>7. RequestOK(c)'
  BY <1>6 DEF RequestOK, Idle
<1> QED BY <1>3, <1>5, <1>6, <1>7

LEMMA AddCInv ==
  ASSUME CInv, NEW c \in Clients, NEW op \in AddOps, NEW k \in Collections, NEW m \in Mints,
         Add(c, op, k, m)
  PROVE  CInv'
<1>0. TypeOK /\ RowOK /\ mint[m] = Absent /\ cache' = cache /\ kind' = kind
  BY DEF CInv, Add
<1>1. /\ mint'[m] = [collection |-> k, queued |-> op = "queue_mint_to_drop", been |-> {k}]
      /\ \A i \in Mints \ {m} : mint'[i] = mint[i]
  BY <1>0 DEF Add, TypeOK
<1>2. Grows
  BY <1>0, <1>1 DEF Grows, Absent
<1>3. RowOK'
  BY <1>0, <1>1 DEF RowOK
<1>4. /\ client' \in [Clients -> Client]
      /\ missed' \in [Collections -> [LoadOps -> SUBSET Event]]
      /\ unseen' \in [Clients -> SUBSET Event]
      /\ \A e \in Clients \ {c} : client'[e] = client[e]
      /\ RequestOK(c)'
  BY AfterCommitOK DEF Add
<1>5. TypeOK'
  <2>1. [collection |-> k, queued |-> op = "queue_mint_to_drop", been |-> {k}] \in Row
    BY DEF Row
  <2>2. mint' \in [Mints -> Row]
    BY <1>0, <2>1 DEF Add, TypeOK
  <2> QED BY <1>0, <1>4, <2>2 DEF TypeOK
<1>6. (\A e \in Clients : RequestOK(e)') /\ NeverAhead'
  BY <1>0, <1>2, <1>4, NotAheadFrame
<1> QED BY <1>3, <1>5, <1>6 DEF CInv

LEMMA TakeQueuedCInv ==
  ASSUME CInv, NEW c \in Clients, NEW op \in TakeOps, NEW m \in Mints, TakeQueued(c, op, m)
  PROVE  CInv'
<1>0. TypeOK /\ RowOK /\ mint[m].queued /\ cache' = cache /\ kind' = kind
  BY DEF CInv, TakeQueued
<1>1. /\ mint'[m].collection = mint[m].collection /\ mint'[m].been = mint[m].been
      /\ mint'[m].queued = FALSE
      /\ \A i \in Mints \ {m} : mint'[i] = mint[i]
      /\ mint' \in [Mints -> Row]
  BY <1>0 DEF TakeQueued, TypeOK, Row
<1>2. mint[m].collection \in Collections
  BY <1>0 DEF TakeQueued, TypeOK, Row
<1>3. Grows
  BY <1>0, <1>1 DEF Grows
<1>4. RowOK'
  BY <1>0, <1>1, <1>2 DEF RowOK
<1>5. /\ client' \in [Clients -> Client]
      /\ missed' \in [Collections -> [LoadOps -> SUBSET Event]]
      /\ unseen' \in [Clients -> SUBSET Event]
      /\ \A e \in Clients \ {c} : client'[e] = client[e]
      /\ RequestOK(c)'
  BY <1>2, AfterCommitOK DEF TakeQueued
<1>6. TypeOK'
  BY <1>0, <1>1, <1>5 DEF TypeOK
<1>7. (\A e \in Clients : RequestOK(e)') /\ NeverAhead'
  BY <1>0, <1>3, <1>5, NotAheadFrame
<1> QED BY <1>4, <1>6, <1>7 DEF CInv

LEMMA SwitchCInv ==
  ASSUME CInv, NEW m \in Mints, NEW k \in Collections, SwitchCollection(m, k)
  PROVE  CInv'
<1>0. TypeOK /\ RowOK /\ ~mint[m].queued /\ UNCHANGED <<kind, cache, client>>
  BY DEF CInv, SwitchCollection
<1>1. /\ mint'[m].collection = k /\ mint'[m].been = mint[m].been \cup {k}
      /\ mint'[m].queued = mint[m].queued
      /\ \A i \in Mints \ {m} : mint'[i] = mint[i]
      /\ mint' \in [Mints -> Row]
  <2> DEFINE r == [mint[m] EXCEPT !.collection = k, !.been = mint[m].been \cup {k}]
  <2>1. mint[m] \in Row
    BY <1>0 DEF TypeOK
  <2>2. /\ r.collection = k /\ r.been = mint[m].been \cup {k} /\ r.queued = mint[m].queued
        /\ r \in Row
    BY <2>1 DEF Row
  <2>3. mint' = [mint EXCEPT ![m] = r]
    BY DEF SwitchCollection
  <2> HIDE DEF r
  <2> QED BY <1>0, <2>2, <2>3 DEF TypeOK
<1>2. Grows
  BY <1>0, <1>1 DEF Grows
<1>3. RowOK'
  BY <1>0, <1>1 DEF RowOK
<1>4. mint[m].collection \in Collections
  <2>1. mint[m] \in Row
    BY <1>0 DEF TypeOK
  <2> QED BY <2>1 DEF SwitchCollection, Row
<1>5. /\ missed' \in [Collections -> [LoadOps -> SUBSET Event]]
      /\ unseen' \in [Clients -> SUBSET Event]
  <2>1. "switch_collection" \in Event
    BY DEF Event, AllOps
  <2> QED BY <1>0, <2>1, NoteCountsType DEF SwitchCollection
<1>6. TypeOK'
  BY <1>0, <1>1, <1>5 DEF TypeOK
<1>7. (\A e \in Clients : RequestOK(e)') /\ NeverAhead'
  BY <1>0, <1>2, NotAheadFrame
<1> QED BY <1>3, <1>6, <1>7 DEF CInv

LEMMA ImportCInv ==
  ASSUME CInv, NEW k \in Collections, ImportCollection(k)
  PROVE  CInv'
<1>0. TypeOK /\ RowOK /\ UNCHANGED <<cache, client>>
  BY DEF CInv, ImportCollection
<1>1. \A m \in Mints :
        /\ mint'[m].been = mint[m].been /\ mint'[m].queued = mint[m].queued
        /\ mint'[m].collection \in {mint[m].collection, NoCollection}
        /\ mint'[m] \in Row
  <2> SUFFICES ASSUME NEW m \in Mints
               PROVE  /\ mint'[m].been = mint[m].been /\ mint'[m].queued = mint[m].queued
                      /\ mint'[m].collection \in {mint[m].collection, NoCollection}
                      /\ mint'[m] \in Row
    OBVIOUS
  <2>1. mint[m] \in Row
    BY <1>0 DEF TypeOK
  <2>2. \/ mint'[m] = mint[m]
        \/ mint'[m] = [mint[m] EXCEPT !.collection = NoCollection]
    BY DEF ImportCollection
  <2> QED BY <2>1, <2>2 DEF Row
<1>2. mint' \in [Mints -> Row]
  BY <1>1 DEF ImportCollection
<1>3. Grows
  BY <1>1 DEF Grows
<1>4. RowOK'
  BY <1>0, <1>1 DEF RowOK
<1>5. /\ missed' \in [Collections -> [LoadOps -> SUBSET Event]]
      /\ unseen' \in [Clients -> SUBSET Event]
  <2>1. "import_solana_collection" \in Event
    BY DEF Event, AllOps, ImportOps
  <2> QED BY <1>0, <2>1, NoteCountsType DEF ImportCollection
<1>6. TypeOK'
  BY <1>0, <1>2, <1>5 DEF TypeOK, ImportCollection, Kinds
<1>7. (\A e \in Clients : RequestOK(e)') /\ NeverAhead'
  BY <1>0, <1>3, NotAheadFrame
<1> QED BY <1>4, <1>6, <1>7 DEF CInv

LEMMA IndexCollectionCInv ==
  ASSUME CInv, NEW k \in Collections, IndexCollection(k)
  PROVE  CInv'
<1>0. TypeOK /\ RowOK /\ UNCHANGED <<mint, cache, client, missed, unseen>>
  BY DEF CInv, IndexCollection
<1>1. TypeOK' /\ RowOK' /\ Grows
  BY <1>0 DEF TypeOK, RowOK, Grows, IndexCollection, Kinds
<1>2. (\A e \in Clients : RequestOK(e)') /\ NeverAhead'
  BY <1>0, <1>1, NotAheadFrame
<1> QED BY <1>1, <1>2 DEF CInv

LEMMA IndexMintCInv ==
  ASSUME CInv, NEW k \in Collections, NEW m \in Mints, IndexMint(k, m)
  PROVE  CInv'
<1>0. TypeOK /\ RowOK /\ mint[m] = Absent /\ UNCHANGED <<kind, cache, client>>
  BY DEF CInv, IndexMint
<1>1. /\ mint'[m] = [collection |-> k, queued |-> FALSE, been |-> {k}]
      /\ \A i \in Mints \ {m} : mint'[i] = mint[i]
      /\ mint' \in [Mints -> Row]
  <2>1. [collection |-> k, queued |-> FALSE, been |-> {k}] \in Row
    BY DEF Row
  <2> QED BY <1>0, <2>1 DEF IndexMint, TypeOK
<1>2. Grows
  BY <1>0, <1>1 DEF Grows, Absent
<1>3. RowOK'
  BY <1>0, <1>1 DEF RowOK
<1>4. /\ missed' \in [Collections -> [LoadOps -> SUBSET Event]]
      /\ unseen' \in [Clients -> SUBSET Event]
  <2>1. "index_mint" \in Event
    BY DEF Event, AllOps, ImportOps
  <2> QED BY <1>0, <2>1, NoteCountsType DEF IndexMint
<1>5. TypeOK'
  BY <1>0, <1>1, <1>4 DEF TypeOK
<1>6. (\A e \in Clients : RequestOK(e)') /\ NeverAhead'
  BY <1>0, <1>2, NotAheadFrame
<1> QED BY <1>3, <1>5, <1>6 DEF CInv

LEMMA DeleteCInv ==
  ASSUME CInv, NEW c \in Clients, Delete(c)
  PROVE  CInv'
<1>0. TypeOK /\ RowOK /\ mint' = mint /\ client' = [client EXCEPT ![c] = Idle]
  BY DEF CInv, Delete
<1>1. client'[c] = Idle /\ \A e \in Clients \ {c} : client'[e] = client[e]
  BY <1>0 DEF TypeOK
<1>2. client[c].collection \in Collections
  BY DEF CInv, RequestOK, Delete
<1>3. \A k \in Collections, entry \in LoadOps :
        cache'[k][entry] \in {cache[k][entry], NoValue}
  BY <1>0, <1>2 DEF Delete, TypeOK
<1>4. cache' \in [Collections -> [LoadOps -> Value]]
  BY <1>0, <1>2 DEF Delete, TypeOK, Value
<1>5. TypeOK'
  <2>1. Idle \in Client
    BY DEF Idle, Client, Value
  <2>2. client' \in [Clients -> Client]
    BY <1>0, <2>1 DEF TypeOK
  <2>3. missed' \in [Collections -> [LoadOps -> SUBSET Event]]
    BY <1>0 DEF Delete, TypeOK
  <2>4. \A d \in Clients : unseen[d] \cup {"deleted"} \in SUBSET Event
    BY <1>0 DEF TypeOK, Event
  <2>5. unseen' \in [Clients -> SUBSET Event]
    BY <1>0, <2>4 DEF Delete, TypeOK
  <2> QED BY <1>0, <1>4, <2>2, <2>3, <2>5 DEF TypeOK, Delete
<1>6. RowOK' /\ Grows
  BY <1>0 DEF RowOK, Grows
<1>7. RequestOK(c)'
  BY <1>1 DEF RequestOK, Idle
<1>8. (\A e \in Clients \ {c} : RequestOK(e)') /\ NeverAhead'
  BY <1>1, <1>3, <1>6, NotAheadFrame
<1> QED BY <1>5, <1>6, <1>7, <1>8 DEF CInv

\* A step of a loader, or the end of a request, that leaves the rows and the entries alone.
LEMMA QuietCInv ==
  ASSUME CInv, NEW c \in Clients, NEW r \in Client,
         client' = [client EXCEPT ![c] = r], UNCHANGED <<kind, mint, cache>>,
         missed' \in [Collections -> [LoadOps -> SUBSET Event]],
         unseen' \in [Clients -> SUBSET Event], r.pc # "delete",
         r.pc \in {"load", "set"} => r.op \in LoadOps /\ r.collection \in Collections,
         r.pc = "set" => r.value = Count(r.op, r.collection)
  PROVE  CInv'
<1>0. TypeOK /\ RowOK
  BY DEF CInv
<1>1. client'[c] = r /\ \A e \in Clients \ {c} : client'[e] = client[e]
  BY <1>0 DEF TypeOK
<1>2. TypeOK' /\ RowOK' /\ Grows
  BY <1>0 DEF TypeOK, RowOK, Grows
<1>3. RequestOK(c)'
  <2>1. r.pc = "set" => /\ r.value \in Nat
                        /\ r.value <= Cardinality(Ever(r.op, r.collection))
    BY <1>0, CountWithinEver
  <2>2. Ever(r.op, r.collection)' = Ever(r.op, r.collection)
    BY DEF Ever
  <2> QED BY <1>1, <2>1, <2>2 DEF RequestOK, Ever
<1>4. (\A e \in Clients \ {c} : RequestOK(e)') /\ NeverAhead'
  BY <1>1, <1>2, NotAheadFrame
<1> QED BY <1>2, <1>3, <1>4 DEF CInv

LEMMA ReadCInv ==
  ASSUME CInv, NEW c \in Clients, NEW op \in LoadOps, NEW k \in Collections, Read(c, op, k)
  PROVE  CInv'
<1>0. TypeOK /\ UNCHANGED <<kind, mint, cache, missed, unseen>>
  BY DEF CInv, Read
<1> DEFINE Noted == /\ missed' \in [Collections -> [LoadOps -> SUBSET Event]]
                    /\ unseen' \in [Clients -> SUBSET Event]
<1>4. Noted
  BY <1>0 DEF TypeOK
<1>1. ASSUME NEW value \in Value \cup {Missing}, Answer(c, op, k, value) PROVE CInv'
  <2> DEFINE r == [op |-> op, pc |-> "answered", collection |-> k, value |-> value]
  <2>1. r \in Client
    BY DEF Client, AllOps
  <2>2. client' = [client EXCEPT ![c] = r]
    BY <1>1 DEF Answer
  <2> QED BY <1>0, <1>4, <2>1, <2>2, QuietCInv
<1>2. ASSUME client' = [client EXCEPT ![c] = [op |-> op, pc |-> "load", collection |-> k,
                                              value |-> NoValue]]
      PROVE  CInv'
  <2> DEFINE r == [op |-> op, pc |-> "load", collection |-> k, value |-> NoValue]
  <2>1. r \in Client
    BY DEF Client, AllOps, Value
  <2> QED BY <1>0, <1>2, <1>4, <2>1, QuietCInv
<1>3. cache[k][op] \in Value /\ Supply \in Value
  BY <1>0 DEF TypeOK, Value
<1> QED BY <1>1, <1>2, <1>3 DEF Read

LEMMA LoadCInv ==
  ASSUME CInv, NEW c \in Clients, Load(c)
  PROVE  CInv'
<1> DEFINE n == Count(client[c].op, client[c].collection)
           r == [client[c] EXCEPT !.pc = "set", !.value = n]
<1>0. /\ TypeOK /\ RowOK /\ UNCHANGED <<kind, mint, cache, missed, unseen>>
      /\ client[c].op \in LoadOps /\ client[c].collection \in Collections
  BY DEF CInv, RequestOK, Load
<1>1. n \in Nat
  BY <1>0, CountWithinEver
<1> HIDE DEF n
<1>2. client[c] \in Client
  BY <1>0 DEF TypeOK
<1>3. /\ r \in Client /\ r.pc = "set" /\ r.value = n /\ r.op = client[c].op
      /\ r.collection = client[c].collection
  BY <1>1, <1>2 DEF Client, Value
<1>4. /\ client' = [client EXCEPT ![c] = r]
      /\ missed' \in [Collections -> [LoadOps -> SUBSET Event]]
      /\ unseen' \in [Clients -> SUBSET Event]
  BY <1>0 DEF Load, TypeOK, n
<1>5. r.value = Count(r.op, r.collection)
  BY <1>3 DEF n
<1> HIDE DEF r
<1> QED BY <1>0, <1>3, <1>4, <1>5, QuietCInv

LEMMA EndCInv ==
  ASSUME CInv, NEW c \in Clients, Answered(c) \/ LoaderFails(c) \/ DeleteFails(c)
  PROVE  CInv'
<1>0. TypeOK /\ client' = [client EXCEPT ![c] = Idle] /\ UNCHANGED <<kind, mint, cache>>
  BY DEF CInv, Answered, LoaderFails, DeleteFails
<1>1. Idle \in Client /\ Idle.pc = "idle"
  BY DEF Idle, Client, Value
<1>2. /\ missed' \in [Collections -> [LoadOps -> SUBSET Event]]
      /\ unseen' \in [Clients -> SUBSET Event]
  <2>1. CASE Answered(c) \/ LoaderFails(c)
    BY <1>0, <2>1 DEF TypeOK, Answered, LoaderFails
  <2>2. CASE DeleteFails(c)
    <3>1. "error" \in Event
      BY DEF Event, AllOps
    <3> QED BY <1>0, <2>2, <3>1, NoteType DEF DeleteFails
  <2> QED BY <2>1, <2>2
<1> QED BY <1>0, <1>1, <1>2, QuietCInv

LEMMA SetCInv ==
  ASSUME CInv, NEW c \in Clients, Set(c)
  PROVE  CInv'
<1> DEFINE k == client[c].collection
           op == client[c].op
           value == client[c].value
<1>0. /\ TypeOK /\ RowOK /\ mint' = mint /\ client[c].pc = "set"
      /\ k \in Collections /\ op \in LoadOps
      /\ value \in Nat /\ value <= Cardinality(Ever(op, k))
  BY DEF CInv, RequestOK, Set
<1>1. /\ \A e \in Clients \ {c} : client'[e] = client[e]
      /\ client'[c].pc = "answered" /\ client' \in [Clients -> Client]
  <2>1. client[c] \in Client
    BY <1>0 DEF TypeOK
  <2>2. [client[c] EXCEPT !.pc = "answered"] \in Client
    BY <2>1 DEF Client
  <2>3. [client[c] EXCEPT !.pc = "answered"].pc = "answered"
    BY <2>1 DEF Client
  <2> QED BY <1>0, <2>2, <2>3 DEF Set, TypeOK
<1>2. /\ cache'[k][op] = value
      /\ \A j \in Collections, entry \in LoadOps :
           j # k \/ entry # op => cache'[j][entry] = cache[j][entry]
      /\ cache' \in [Collections -> [LoadOps -> Value]]
  BY <1>0 DEF Set, TypeOK, Value
<1>3. TypeOK'
  <2>1. missed' \in [Collections -> [LoadOps -> SUBSET Event]]
    BY <1>0 DEF Set, TypeOK
  <2>2. unseen' \in [Clients -> SUBSET Event]
    BY <1>0 DEF Set, TypeOK
  <2> QED BY <1>0, <1>1, <1>2, <2>1, <2>2 DEF TypeOK, Set
<1>4. RowOK' /\ Grows
  BY <1>0 DEF RowOK, Grows
<1>5. ASSUME NEW e \in Clients PROVE RequestOK(e)'
  <2>1. CASE e = c
    BY <1>1, <2>1 DEF RequestOK
  <2>2. CASE e # c
    BY <1>0, <1>1, <2>2 DEF CInv, RequestOK, Ever
  <2> QED BY <2>1, <2>2
<1>6. NeverAhead'
  <2> SUFFICES ASSUME NEW j \in Collections, NEW entry \in LoadOps, cache'[j][entry] # NoValue
               PROVE  cache'[j][entry] <= Cardinality(Ever(entry, j)')
    BY DEF NeverAhead, Ever
  <2>1. Ever(entry, j)' = Ever(entry, j)
    BY <1>0 DEF Ever
  <2>2. CASE j = k /\ entry = op
    BY <1>0, <1>2, <2>1, <2>2
  <2>3. CASE j # k \/ entry # op
    <3>1. cache'[j][entry] = cache[j][entry]
      BY <1>2, <2>3
    <3>2. cache[j][entry] <= Cardinality(Ever(entry, j))
      BY <3>1 DEF CInv, NeverAhead, Ever
    <3> QED BY <2>1, <3>1, <3>2
  <2> QED BY <2>2, <2>3
<1> QED BY <1>3, <1>4, <1>5, <1>6 DEF CInv

LEMMA NextCInv == CInv /\ [Next]_vars => CInv'
<1> SUFFICES ASSUME CInv, [Next]_vars PROVE CInv'
  OBVIOUS
<1>1. ASSUME NEW c \in Clients, Request(c) PROVE CInv'
  BY <1>1, AddCInv, TakeQueuedCInv, ReadCInv, DeleteCInv, LoadCInv, SetCInv, EndCInv DEF Request
<1>2. ASSUME NEW m \in Mints, NEW k \in Collections, SwitchCollection(m, k) \/ IndexMint(k, m)
      PROVE  CInv'
  BY <1>2, SwitchCInv, IndexMintCInv
<1>4. ASSUME NEW k \in Collections, ImportCollection(k) \/ IndexCollection(k)
      PROVE  CInv'
  BY <1>4, ImportCInv, IndexCollectionCInv
<1>3. CASE UNCHANGED vars
  BY <1>3 DEF vars, CInv, TypeOK, RowOK, RequestOK, NeverAhead, Ever
<1> QED BY <1>1, <1>2, <1>3, <1>4 DEF Next

LEMMA SpecCInv == Spec => []CInv
  BY InitCInv, NextCInv, PTL DEF Spec

\* Every reachable state of the rows, the entries in Redis and the requests has its type.
THEOREM CacheTypeCorrect == Spec => []TypeOK
<1>1. CInv => TypeOK
  BY DEF CInv
<1> QED BY <1>1, SpecCInv, PTL

\* However mutations, switches and loads interleave and wherever they stop, no number that
\* clients are shown is ahead of the mints the collection has had
\* (dataloaders/collection.rs and the deletions in mutations/mint.rs).
THEOREM NumbersAreNotAhead == Spec => []NeverAhead
<1>1. CInv => NeverAhead
  BY DEF CInv
<1> QED BY <1>1, SpecCInv, PTL

-----------------------------------------------------------------------------
(* Current.                                                                *)

\* The events that leave an entry wrong with nobody to delete it.
Excuses(entry) == Silent(entry) \cup {"deleted", "error"}

\* An entry is right, or will be deleted, or an excuse was noted for it.
EntryFine(k, entry) ==
  \/ cache[k][entry] \in {NoValue, Count(entry, k)}
  \/ Owed(k, entry)
  \/ missed[k][entry] \cap Excuses(entry) # {}

\* The same for the number that a loader is about to set.
LoaderFine(c, k, entry) ==
  About(c, k, entry) =>
    \/ client[c].value = Count(entry, k)
    \/ Owed(k, entry)
    \/ unseen[c] \cap Excuses(entry) # {}

Fine(k, entry) == EntryFine(k, entry) /\ \A c \in Clients : LoaderFine(c, k, entry)

\* The next state keeps what is cached, and what loaders are about to set.
LoadersStay == \A c \in Clients : client'[c].pc = "set" => client'[c] = client[c]

\* Where a number stays as it is, its count, its debtors and its notes do, it stays fine.
LEMMA FineFrame ==
  ASSUME NEW k \in Collections, NEW entry \in LoadOps, Fine(k, entry), LoadersStay,
         cache'[k][entry] = cache[k][entry], Count(entry, k)' = Count(entry, k),
         Owed(k, entry) => Owed(k, entry)',
         missed[k][entry] \subseteq missed'[k][entry],
         \A c \in Clients : client'[c].pc = "set" => unseen[c] \subseteq unseen'[c]
  PROVE  Fine(k, entry)'
<1>1. EntryFine(k, entry)'
  BY DEF Fine, EntryFine
<1>2. ASSUME NEW c \in Clients, About(c, k, entry)'
      PROVE  \/ client'[c].value = Count(entry, k)'
             \/ Owed(k, entry)'
             \/ unseen'[c] \cap Excuses(entry) # {}
  <2>1. client'[c] = client[c] /\ unseen[c] \subseteq unseen'[c]
    BY <1>2 DEF About, LoadersStay
  <2>2. About(c, k, entry)
    BY <1>2, <2>1 DEF About
  <2>3. \/ client[c].value = Count(entry, k)
        \/ Owed(k, entry)
        \/ unseen[c] \cap Excuses(entry) # {}
    BY <2>2 DEF Fine, LoaderFine
  <2> QED BY <2>1, <2>3
<1>3. ASSUME NEW c \in Clients PROVE LoaderFine(c, k, entry)'
  BY <1>2 DEF LoaderFine
<1> QED BY <1>1, <1>3 DEF Fine

\* A deletion that is due after the step makes a number fine.
LEMMA FineIfOwed ==
  ASSUME NEW k \in Collections, NEW entry \in LoadOps, Owed(k, entry)'
  PROVE  Fine(k, entry)'
  BY DEF Fine, EntryFine, LoaderFine

\* So does an excuse that the step notes for it.
LEMMA FineIfNoted ==
  ASSUME TypeOK, NEW k \in Collections, NEW entry \in LoadOps, LoadersStay, cache' = cache,
         NEW event \in Excuses(entry), NEW places, <<k, entry>> \in places, Note(event, places)
  PROVE  Fine(k, entry)'
<1>1. EntryFine(k, entry)'
  <2>1. cache[k][entry] # NoValue => event \in missed'[k][entry]
    BY DEF Note
  <2> QED BY <2>1 DEF EntryFine
<1>2. ASSUME NEW c \in Clients, About(c, k, entry)'
      PROVE  unseen'[c] \cap Excuses(entry) # {}
  <2>1. About(c, k, entry)
    BY <1>2 DEF About, LoadersStay
  <2>2. event \in unseen'[c]
    BY <2>1 DEF Note
  <2> QED BY <2>2
<1>3. ASSUME NEW c \in Clients PROVE LoaderFine(c, k, entry)'
  BY <1>2 DEF LoaderFine
<1> QED BY <1>1, <1>3 DEF Fine

\* Notes are added, never removed, by a step that notes its changes of the counts.
LEMMA NotesGrow ==
  ASSUME TypeOK, NEW event, NEW places, Note(event, places)
  PROVE  /\ \A k \in Collections, entry \in LoadOps : missed[k][entry] \subseteq missed'[k][entry]
         /\ \A c \in Clients : unseen[c] \subseteq unseen'[c]
  BY DEF Note

\* A step that changes rows leaves a number fine: it leaves its count, owes the deletion of
\* the entry, or is one of the silent steps, which is noted.
LEMMA CommitFine ==
  ASSUME TypeOK, NEW k \in Collections, NEW entry \in LoadOps, Fine(k, entry), LoadersStay,
         cache' = cache, NEW op, NoteCounts(op),
         \A c \in Clients : client[c].pc = "delete" => client'[c] = client[c],
         \/ Count(entry, k)' = Count(entry, k)
         \/ Owed(k, entry)'
         \/ op \in Silent(entry)
  PROVE  Fine(k, entry)'
<1> DEFINE places == {p \in Collections \X LoadOps : Count(p[2], p[1])' # Count(p[2], p[1])}
<1>1. Note(op, places)
  BY DEF NoteCounts
<1>2. Count(entry, k)' # Count(entry, k) => <<k, entry>> \in places
  OBVIOUS
<1>3. Owed(k, entry) => Owed(k, entry)'
  BY DEF Owed
<1> HIDE DEF places
<1>4. CASE Count(entry, k)' = Count(entry, k)
  BY <1>1, <1>3, <1>4, NotesGrow, FineFrame
<1>5. CASE Owed(k, entry)'
  BY <1>5, FineIfOwed
<1>6. CASE Count(entry, k)' # Count(entry, k) /\ op \in Silent(entry)
  BY <1>1, <1>2, <1>6, FineIfNoted DEF Excuses
<1> QED BY <1>4, <1>5, <1>6

\* What a number counts depends on the rows of its own collection only.
LEMMA SameCount ==
  ASSUME NEW k, NEW entry,
         \A m \in Mints : mint'[m].collection = k <=> mint[m].collection = k,
         \A m \in Mints : mint[m].collection = k /\ entry = "total_mints" =>
                            mint'[m].queued = mint[m].queued
  PROVE  Count(entry, k)' = Count(entry, k)
<1>1. Of(k)' = Of(k)
  BY DEF Of
<1>2. entry = "total_mints" =>
        {m \in Of(k) : ~mint[m].queued}' = {m \in Of(k) : ~mint[m].queued}
  BY <1>1 DEF Of
<1> QED BY <1>1, <1>2 DEF Count

LEMMA AddFine ==
  ASSUME CInv, NEW c \in Clients, NEW op \in AddOps, NEW j \in Collections, NEW m \in Mints,
         Add(c, op, j, m),
         NEW k \in Collections, NEW entry \in LoadOps, Fine(k, entry)
  PROVE  Fine(k, entry)'
<1>0. /\ TypeOK /\ mint[m] = Absent /\ cache' = cache /\ client[c].pc = "idle"
      /\ NoteCounts(op)
  BY DEF CInv, Add, AfterCommit
<1>1. /\ mint'[m] = [collection |-> j, queued |-> op = "queue_mint_to_drop", been |-> {j}]
      /\ \A i \in Mints \ {m} : mint'[i] = mint[i]
  BY <1>0 DEF Add, TypeOK
<1>2. /\ client'[c] = IF Deletes(op) = {} THEN Idle
           ELSE [op |-> op, pc |-> "delete", collection |-> j, value |-> NoValue]
      /\ \A e \in Clients \ {c} : client'[e] = client[e]
  BY AfterCommitOK DEF Add
<1>3. /\ LoadersStay
      /\ \A e \in Clients : client[e].pc = "delete" => client'[e] = client[e]
  BY <1>0, <1>2 DEF LoadersStay, Idle
<1>4. CASE k = j /\ entry \in Deletes(op)
  <2>1. Owed(k, entry)'
    BY <1>2, <1>4 DEF Owed
  <2> QED BY <2>1, FineIfOwed
<1>5. CASE op \in Silent(entry)
  BY <1>0, <1>3, <1>5, CommitFine
<1>6. CASE k # j \/ (op = "queue_mint_to_drop" /\ entry = "total_mints")
  <2>1. Count(entry, k)' = Count(entry, k)
    <3>1. CASE k # j
      BY <1>0, <1>1, <3>1, SameCount DEF Absent
    <3>2. CASE k = j /\ op = "queue_mint_to_drop" /\ entry = "total_mints"
      <4>0. (op = "queue_mint_to_drop") = TRUE
        BY <3>2
      <4>1. mint'[m].queued = TRUE /\ mint[m].collection # k
        <5>1. mint'[m] = [collection |-> j, queued |-> TRUE, been |-> {j}]
          BY Zenon, <1>1, <4>0
        <5>2. mint[m].collection = NoCollection
          BY <1>0 DEF Absent
        <5> QED BY <5>1, <5>2
      <4>2. \A i \in Mints : mint'[i].collection = k /\ ~mint'[i].queued <=>
                             mint[i].collection = k /\ ~mint[i].queued
        BY <1>1, <4>1
      <4>3. {i \in Of(k) : ~mint[i].queued}' = {i \in Of(k) : ~mint[i].queued}
        BY <4>2 DEF Of
      <4> QED BY <3>2, <4>3 DEF Count
    <3> QED BY <1>6, <3>1, <3>2
  <2> QED BY <1>0, <1>3, <2>1, CommitFine
<1> QED BY <1>4, <1>5, <1>6 DEF AddOps, LoadOps, Silent, Deletes

LEMMA TakeQueuedFine ==
  ASSUME CInv, NEW c \in Clients, NEW op \in TakeOps, NEW m \in Mints, TakeQueued(c, op, m),
         NEW k \in Collections, NEW entry \in LoadOps, Fine(k, entry)
  PROVE  Fine(k, entry)'
<1> DEFINE j == mint[m].collection
<1>0. /\ TypeOK /\ mint[m].queued /\ cache' = cache /\ client[c].pc = "idle"
      /\ NoteCounts(op)
  BY DEF CInv, TakeQueued, AfterCommit
<1>1. /\ mint'[m].collection = mint[m].collection
      /\ \A i \in Mints \ {m} : mint'[i] = mint[i]
  BY <1>0 DEF TakeQueued, TypeOK, Row
<1>2. j \in Collections
  BY <1>0 DEF TakeQueued, TypeOK, Row
<1>3. /\ client'[c] = IF Deletes(op) = {} THEN Idle
           ELSE [op |-> op, pc |-> "delete", collection |-> j, value |-> NoValue]
      /\ \A e \in Clients \ {c} : client'[e] = client[e]
  BY <1>2, AfterCommitOK DEF TakeQueued
<1>4. /\ LoadersStay
      /\ \A e \in Clients : client[e].pc = "delete" => client'[e] = client[e]
  BY <1>0, <1>3 DEF LoadersStay, Idle
<1>5. CASE k = j /\ entry \in Deletes(op)
  <2>1. Owed(k, entry)'
    BY <1>3, <1>5 DEF Owed
  <2> QED BY <2>1, FineIfOwed
<1>6. CASE op \in Silent(entry)
  BY <1>0, <1>4, <1>6, CommitFine
<1>7. CASE k # j \/ entry = "supply"
  <2>1. Count(entry, k)' = Count(entry, k)
    BY <1>1, <1>7, SameCount
  <2> QED BY <1>0, <1>4, <2>1, CommitFine
<1> QED BY <1>5, <1>6, <1>7 DEF TakeOps, LoadOps, Silent, Deletes

\* A switch and the steps of an import are silent, whatever they do to the rows.
LEMMA SilentFine ==
  ASSUME CInv, UNCHANGED <<cache, client>>, NEW op, NoteCounts(op),
         op \in {"switch_collection", "import_solana_collection", "index_mint"},
         NEW k \in Collections, NEW entry \in LoadOps, Fine(k, entry)
  PROVE  Fine(k, entry)'
<1>1. TypeOK /\ op \in Silent(entry) /\ LoadersStay
  BY DEF CInv, Silent, LoadersStay
<1> QED BY <1>1, CommitFine

LEMMA DeleteFine ==
  ASSUME CInv, NEW c \in Clients, Delete(c),
         NEW k \in Collections, NEW entry \in LoadOps, Fine(k, entry)
  PROVE  Fine(k, entry)'
<1>0. /\ TypeOK /\ client[c].pc = "delete" /\ client[c].collection \in Collections
      /\ mint' = mint
  BY DEF CInv, RequestOK, Delete
<1>1. client'[c] = Idle /\ \A e \in Clients \ {c} : client'[e] = client[e]
  BY <1>0 DEF Delete, TypeOK
<1>2. LoadersStay
  BY <1>1 DEF LoadersStay, Idle
<1>3. Count(entry, k)' = Count(entry, k)
  BY <1>0 DEF Count, Of
<1>4. <<k, entry>> \in Places(c) <=>
        k = client[c].collection /\ entry \in Deletes(client[c].op)
  BY DEF Places
<1>5. CASE <<k, entry>> \in Places(c)
  <2>1. cache'[k][entry] = NoValue
    BY <1>0, <1>4, <1>5 DEF Delete, TypeOK
  <2>2. ASSUME NEW d \in Clients, About(d, k, entry)'
        PROVE  unseen'[d] \cap Excuses(entry) # {}
    <3>1. About(d, k, entry)
      BY <1>2, <2>2 DEF About, LoadersStay
    <3>2. "deleted" \in unseen'[d]
      BY <1>5, <3>1 DEF Delete
    <3> QED BY <3>2 DEF Excuses
  <2>3. ASSUME NEW d \in Clients PROVE LoaderFine(d, k, entry)'
    BY <2>2 DEF LoaderFine
  <2> QED BY <2>1, <2>3 DEF Fine, EntryFine
<1>6. CASE <<k, entry>> \notin Places(c)
  <2>1. cache'[k][entry] = cache[k][entry]
    BY <1>0, <1>4, <1>6 DEF Delete, TypeOK
  <2>2. Owed(k, entry) => Owed(k, entry)'
    BY <1>1, <1>4, <1>6 DEF Owed
  <2>3. /\ missed'[k][entry] = missed[k][entry]
        /\ \A d \in Clients : unseen[d] \subseteq unseen'[d]
    BY <1>6 DEF Delete
  <2> QED BY <1>2, <1>3, <2>1, <2>2, <2>3, FineFrame
<1> QED BY <1>5, <1>6

LEMMA SetFine ==
  ASSUME CInv, NEW c \in Clients, Set(c),
         NEW k \in Collections, NEW entry \in LoadOps, Fine(k, entry)
  PROVE  Fine(k, entry)'
<1>0. TypeOK /\ client[c].pc = "set" /\ mint' = mint
  BY DEF CInv, Set
<1>1. /\ \A e \in Clients \ {c} : client'[e] = client[e]
      /\ client'[c].pc = "answered"
  <2>1. client[c] \in Client
    BY <1>0 DEF TypeOK
  <2>2. [client[c] EXCEPT !.pc = "answered"].pc = "answered"
    BY <2>1 DEF Client
  <2> QED BY <1>0, <2>2 DEF Set, TypeOK
<1>2. LoadersStay
  BY <1>1 DEF LoadersStay
<1>3. Count(entry, k)' = Count(entry, k)
  BY <1>0 DEF Count, Of
<1>4. Owed(k, entry) => Owed(k, entry)'
  BY <1>0, <1>1 DEF Owed
<1>5. \A d \in Clients : client'[d].pc = "set" => unseen[d] \subseteq unseen'[d]
  BY <1>0, <1>1 DEF Set, TypeOK
<1>6. CASE About(c, k, entry)
  <2>1. cache'[k][entry] = client[c].value /\ missed'[k][entry] = unseen[c]
    BY <1>0, <1>6 DEF About, Set, TypeOK
  <2>2. \/ client[c].value = Count(entry, k)
        \/ Owed(k, entry)
        \/ unseen[c] \cap Excuses(entry) # {}
    BY <1>6 DEF Fine, LoaderFine
  <2>3. EntryFine(k, entry)'
    BY <1>3, <1>4, <2>1, <2>2 DEF EntryFine
  <2>4. ASSUME NEW d \in Clients, About(d, k, entry)'
        PROVE  \/ client'[d].value = Count(entry, k)'
               \/ Owed(k, entry)'
               \/ unseen'[d] \cap Excuses(entry) # {}
    <3>1. client'[d] = client[d] /\ unseen[d] \subseteq unseen'[d]
      BY <1>2, <1>5, <2>4 DEF About, LoadersStay
    <3>2. About(d, k, entry)
      BY <2>4, <3>1 DEF About
    <3>3. \/ client[d].value = Count(entry, k)
          \/ Owed(k, entry)
          \/ unseen[d] \cap Excuses(entry) # {}
      BY <3>2 DEF Fine, LoaderFine
    <3> QED BY <1>3, <1>4, <3>1, <3>3
  <2>5. ASSUME NEW d \in Clients PROVE LoaderFine(d, k, entry)'
    BY <2>4 DEF LoaderFine
  <2> QED BY <2>3, <2>5 DEF Fine
<1>7. CASE ~About(c, k, entry)
  <2>1. k # client[c].collection \/ entry # client[c].op
    BY <1>0, <1>7 DEF About
  <2>2. cache'[k][entry] = cache[k][entry] /\ missed'[k][entry] = missed[k][entry]
    BY <1>0, <2>1 DEF Set, TypeOK
  <2> QED BY <1>2, <1>3, <1>4, <1>5, <2>2, FineFrame
<1> QED BY <1>6, <1>7

LEMMA LoadFine ==
  ASSUME CInv, NEW c \in Clients, Load(c),
         NEW k \in Collections, NEW entry \in LoadOps, Fine(k, entry)
  PROVE  Fine(k, entry)'
<1>0. TypeOK /\ client[c].pc = "load" /\ UNCHANGED <<kind, mint, cache, missed, unseen>>
  BY DEF CInv, Load
<1>1. Count(entry, k)' = Count(entry, k)
  BY <1>0 DEF Count, Of
<1>2. \A e \in Clients \ {c} : client'[e] = client[e]
  BY DEF Load, CInv, TypeOK
<1>3. Owed(k, entry) => Owed(k, entry)'
  BY <1>0, <1>2 DEF Owed
<1>4. client[c] \in Client
  BY <1>0 DEF TypeOK
<1> DEFINE n == Count(client[c].op, client[c].collection)
<1>5. client'[c] = [client[c] EXCEPT !.pc = "set", !.value = n]
  BY <1>0 DEF Load, TypeOK
<1> HIDE DEF n
<1>6. /\ client'[c].op = client[c].op /\ client'[c].collection = client[c].collection
      /\ client'[c].value = n
  BY <1>4, <1>5 DEF Client
<1>7. EntryFine(k, entry)'
  BY <1>0, <1>1, <1>3 DEF Fine, EntryFine
<1>8. ASSUME NEW d \in Clients, About(d, k, entry)'
      PROVE  \/ client'[d].value = Count(entry, k)'
             \/ Owed(k, entry)'
             \/ unseen'[d] \cap Excuses(entry) # {}
  <2>1. CASE d = c
    <3>1. k = client[c].collection /\ entry = client[c].op
      BY <1>6, <1>8, <2>1 DEF About
    <3>2. n = Count(entry, k)
      BY <3>1 DEF n
    <3> QED BY <1>1, <1>6, <2>1, <3>2
  <2>2. CASE d # c
    <3>1. client'[d] = client[d]
      BY <1>2, <2>2
    <3>2. About(d, k, entry)
      BY <1>8, <3>1 DEF About
    <3>3. \/ client[d].value = Count(entry, k)
          \/ Owed(k, entry)
          \/ unseen[d] \cap Excuses(entry) # {}
      BY <3>2 DEF Fine, LoaderFine
    <3> QED BY <1>0, <1>1, <1>3, <3>1, <3>3
  <2> QED BY <2>1, <2>2
<1>9. ASSUME NEW d \in Clients PROVE LoaderFine(d, k, entry)'
  BY <1>8 DEF LoaderFine
<1> QED BY <1>7, <1>9 DEF Fine

\* Reading an entry, the end of an answer and a loader that stops change no number.
LEMMA QuietFine ==
  ASSUME CInv, NEW c \in Clients,
         \/ \E op \in LoadOps, j \in Collections : Read(c, op, j)
         \/ Answered(c) \/ LoaderFails(c),
         NEW k \in Collections, NEW entry \in LoadOps, Fine(k, entry)
  PROVE  Fine(k, entry)'
<1>0. TypeOK /\ client[c].pc # "delete" /\ UNCHANGED <<kind, mint, cache, missed>>
  BY DEF CInv, Read, Answered, LoaderFails
<1>1. Count(entry, k)' = Count(entry, k)
  BY <1>0 DEF Count, Of
<1>2. \A e \in Clients \ {c} : client'[e] = client[e] /\ unseen'[e] = unseen[e]
  BY <1>0 DEF Read, Answer, Answered, LoaderFails, TypeOK
<1>3. client'[c].pc # "set"
  BY <1>0 DEF Read, Answer, Answered, LoaderFails, TypeOK, Idle
<1>4. Owed(k, entry) => Owed(k, entry)'
  BY <1>0, <1>2 DEF Owed
<1>5. LoadersStay /\ \A d \in Clients : client'[d].pc = "set" => unseen[d] \subseteq unseen'[d]
  BY <1>2, <1>3 DEF LoadersStay
<1> QED BY <1>0, <1>1, <1>4, <1>5, FineFrame

\* A request that ends without its deletion is noted where the deletion was due.
LEMMA DeleteFailsFine ==
  ASSUME CInv, NEW c \in Clients, DeleteFails(c),
         NEW k \in Collections, NEW entry \in LoadOps, Fine(k, entry)
  PROVE  Fine(k, entry)'
<1>0. TypeOK /\ mint' = mint /\ cache' = cache /\ Note("error", Places(c))
  BY DEF CInv, DeleteFails
<1>1. client'[c] = Idle /\ \A e \in Clients \ {c} : client'[e] = client[e]
  BY <1>0 DEF DeleteFails, TypeOK
<1>2. LoadersStay
  BY <1>1 DEF LoadersStay, Idle
<1>3. CASE <<k, entry>> \in Places(c)
  <2>1. "error" \in Excuses(entry)
    BY DEF Excuses
  <2> QED BY <1>0, <1>2, <1>3, <2>1, FineIfNoted
<1>4. CASE <<k, entry>> \notin Places(c)
  <2>1. Count(entry, k)' = Count(entry, k)
    BY <1>0 DEF Count, Of
  <2>2. Owed(k, entry) => Owed(k, entry)'
    BY <1>1, <1>4 DEF Owed, Places
  <2>3. /\ missed[k][entry] \subseteq missed'[k][entry]
        /\ \A d \in Clients : unseen[d] \subseteq unseen'[d]
    BY <1>0, NotesGrow
  <2> QED BY <1>0, <1>2, <2>1, <2>2, <2>3, FineFrame
<1> QED BY <1>3, <1>4

\* A number that is not the current one (the docs of Collection.totalMints) is about to be
\* deleted, or one of the events that Current names has happened since it was counted: the
\* ghosts note every step that changes a count, so no other step and no interleaving leaves
\* an entry wrong for good.
THEOREM StaleIsExplained == Spec => []Current
<1> DEFINE AllFine == \A k \in Collections, entry \in LoadOps : Fine(k, entry)
<1>1. AllFine => Current
  BY DEF Current, Fine, EntryFine, Excuses
<1>2. Init => AllFine
  <2> SUFFICES ASSUME Init, NEW k \in Collections, NEW entry \in LoadOps PROVE Fine(k, entry)
    OBVIOUS
  <2>1. EntryFine(k, entry)
    BY DEF Init, EntryFine
  <2>2. \A c \in Clients : ~About(c, k, entry)
    BY DEF Init, About, Idle
  <2> QED BY <2>1, <2>2 DEF Fine, LoaderFine
<1>3. CInv /\ AllFine /\ [Next]_vars => AllFine'
  <2> SUFFICES ASSUME CInv, AllFine, [Next]_vars, NEW k \in Collections, NEW entry \in LoadOps
               PROVE  Fine(k, entry)'
    OBVIOUS
  <2>0. Fine(k, entry)
    OBVIOUS
  <2> HIDE DEF AllFine
  <2>1. ASSUME NEW c \in Clients, Request(c) PROVE Fine(k, entry)'
    BY <2>0, <2>1, AddFine, TakeQueuedFine, QuietFine, DeleteFine, LoadFine, SetFine,
       DeleteFailsFine DEF Request
  <2>2. ASSUME NEW m \in Mints, NEW j \in Collections, SwitchCollection(m, j) \/ IndexMint(j, m)
        PROVE  Fine(k, entry)'
    <3>1. CASE SwitchCollection(m, j)
      BY <2>0, <3>1, SilentFine DEF SwitchCollection
    <3>2. CASE IndexMint(j, m)
      BY <2>0, <3>2, SilentFine DEF IndexMint
    <3> QED BY <2>2, <3>1, <3>2
  <2>3. ASSUME NEW j \in Collections, ImportCollection(j) PROVE Fine(k, entry)'
    BY <2>0, <2>3, SilentFine DEF ImportCollection
  <2>4. ASSUME NEW j \in Collections, IndexCollection(j) PROVE Fine(k, entry)'
    BY <2>0, <2>4 DEF IndexCollection, Fine, EntryFine, LoaderFine, About, Owed, Count, Of
  <2>5. CASE UNCHANGED vars
    BY <2>0, <2>5 DEF vars, Fine, EntryFine, LoaderFine, About, Owed, Count, Of
  <2> QED BY <2>1, <2>2, <2>3, <2>4, <2>5 DEF Next
<1> HIDE DEF AllFine
<1> QED BY <1>1, <1>2, <1>3, SpecCInv, PTL DEF Spec
=============================================================================
