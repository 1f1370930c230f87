------------------------------- MODULE Import -------------------------------
(***************************************************************************)
(* The import of Solana collections: import_solana_collection              *)
(* (api/src/mutations/collection.rs) and the handlers index_collection and *)
(* index_mint (events.rs) of what the Solana indexer finds.                *)
(*                                                                         *)
(* The mutation deletes what an earlier import left, in one transaction,   *)
(* and announces the import.  The indexer answers with one message for     *)
(* the collection and one for each of its mints, in any order.  A handler  *)
(* inserts row after row without a transaction; when an insert is refused  *)
(* the consumer starts the handler over.                                   *)
(***************************************************************************)
EXTENDS Naturals

CONSTANTS
  Projects, Addresses,  \* who has collections, and the collections on the chain
  Imported,             \* the pairs of them that requests import
  Assets,               \* the mints of a collection on the chain
  Certificate,          \* stands for the collection among the indexer's messages
  Sparse,               \* assets (or the collection) without attributes and files
  Own,                  \* collections that Hub created itself
  Home,                 \* their projects and addresses
  MaxImports,           \* imports that can be announced (a bound)
  Clients,              \* requests in progress at the same time
  NoId, NoPair

Pairs == Projects \X Addresses
Announcements == 1..MaxImports
Things == Assets \cup {Certificate}
Messages == Announcements \X Things
\* A new id is named by what it is made for: that of a collection by the import which does
\* not find one, that of a mint by the import and the asset the indexer reports.
Ids == Own \cup (Announcements \X {Certificate})
MintIds == Announcements \X Assets
Owners == Ids \cup MintIds

ASSUME CertificateAssumption == Certificate \notin Assets
ASSUME IdAssumption == Own \cap Messages = {}
ASSUME PairAssumption == Home \in [Own -> Pairs] /\ Imported \subseteq Pairs
\* A collection that Hub creates gets an address of its own on the chain.
ASSUME HomeAssumption == \A j, k \in Own : Home[j] = Home[k] => j = k
ASSUME MissingAssumption == NoId \notin Ids /\ NoPair \notin Pairs
ASSUME ImportsAssumption == MaxImports \in Nat

VARIABLES
  about,         \* project and address of the collection an id was given to
  row,           \* collections and collection_mints, and whether their creators are inserted
  json,          \* metadata_jsons by the id of their owner, and whether attributes and files are inserted
  drop,          \* collections with a row in drops
  announcement,  \* StartedImportingSolanaCollection: the id sent along
  delivery,      \* the indexer's messages, and the next insert of their handler
  client,        \* GraphQL requests in progress
  raced          \* ghost: collections imported again before the import before was over

vars == <<about, row, json, drop, announcement, delivery, client, raced>>

Delivery == {"unsent", "waiting", "json", "creators", "details", "again", "acked"}
Client == [pc: {"idle", "read", "replace", "send"}, for: Pairs \cup {NoPair},
           id: Ids \cup {NoId}, seen: SUBSET MintIds]
Idle == [pc |-> "idle", for |-> NoPair, id |-> NoId, seen |-> {}]

\* Collections that Hub created are there with their drop, or not at all.
TypeOK ==
  /\ about \in [Ids -> Pairs \cup {NoPair}]
  /\ row \in [Owners -> {"absent", "bare", "credited"}]
  /\ json \in [Owners -> {"absent", "bare", "complete"}]
  /\ drop \in SUBSET Ids
  /\ announcement \in [Announcements -> Ids \cup {NoId}]
  /\ delivery \in [Messages -> Delivery]
  /\ client \in [Clients -> Client]
  /\ raced \in SUBSET Pairs

Init ==
  /\ about = [k \in Ids |-> IF k \in Own THEN Home[k] ELSE NoPair]
  /\ drop \in SUBSET Own
  /\ row = [o \in Owners |-> IF o \in drop THEN "credited" ELSE "absent"]
  /\ json = [o \in Owners |-> IF o \in drop THEN "complete" ELSE "absent"]
  /\ announcement = [n \in Announcements |-> NoId]
  /\ delivery = [m \in Messages |-> "unsent"]
  /\ client = [c \in Clients |-> Idle]
  /\ raced = {}

-----------------------------------------------------------------------------
\* The mutation.

IsFor(n, pair) == announcement[n] # NoId /\ about[announcement[n]] = pair

Unfinished(pair) ==
  \/ \E c \in Clients : client[c].for = pair
  \/ \E n \in Announcements : IsFor(n, pair) /\ \E x \in Things : delivery[<<n, x>>] # "acked"

\* Fault: the collection is looked up by its address alone.
FoundByAddress(pair) == {k \in Ids : row[k] # "absent" /\ about[k][2] = pair[2]}

Found(pair) == {k \in Ids : row[k] # "absent" /\ about[k] = pair}

ImportSolanaCollection(c, pair) ==
  /\ client[c] = Idle
  /\ \E n \in Announcements : announcement[n] = NoId  \* bound
  /\ \/ \E k \in Found(pair) :
          client' = [client EXCEPT ![c] = [pc |-> "read", for |-> pair, id |-> k, seen |-> {}]]
     \/ /\ Found(pair) = {}
        /\ client' = [client EXCEPT ![c] = [pc |-> "send", for |-> pair, id |-> NoId, seen |-> {}]]
  /\ raced' = IF Unfinished(pair) THEN raced \cup {pair} ELSE raced
  /\ UNCHANGED <<about, row, json, drop, announcement, delivery>>

MintsOf(k) == {m \in MintIds : announcement[m[1]] = k}

ReadMints(c) ==
  /\ client[c].pc = "read"
  /\ client' = [client EXCEPT ![c].pc = "replace",
                              ![c].seen = {m \in MintsOf(client[c].id) : row[m] # "absent"}]
  /\ UNCHANGED <<about, row, json, drop, announcement, delivery, raced>>

\* Fault: the metadata of the mints is left.
DeletedCollection(c) == {client[c].id}

\* The row of the collection takes its creators, its drop and its mints with it, and a mint
\* its creators.  A metadata_jsons row has no foreign key: those of the collection and of
\* the mints that were read are deleted one by one, with their attributes and files.
Deleted(c) == {client[c].id} \cup client[c].seen

\* Fault: only the metadata is deleted, to be inserted again.
ReplaceMetadata(c) ==
  /\ client[c].pc = "replace"
  /\ json' = [o \in Owners |-> IF o \in Deleted(c) THEN "absent" ELSE json[o]]
  /\ client' = [client EXCEPT ![c].pc = "send"]
  /\ UNCHANGED <<about, row, drop, announcement, delivery, raced>>

Replace(c) ==
  /\ client[c].pc = "replace"
  /\ row' = [o \in Owners |->
               IF o = client[c].id \/ o \in MintsOf(client[c].id) THEN "absent" ELSE row[o]]
  /\ json' = [o \in Owners |-> IF o \in Deleted(c) THEN "absent" ELSE json[o]]
  /\ drop' = drop \ {client[c].id}
  /\ client' = [client EXCEPT ![c].pc = "send"]
  /\ UNCHANGED <<about, announcement, delivery, raced>>

\* The id of the collection that was found, or a new one.
Announce(c) ==
  /\ client[c].pc = "send"
  /\ \E n \in Announcements :
       /\ announcement[n] = NoId /\ \A i \in 1..(n - 1) : announcement[i] # NoId
       /\ LET k == IF client[c].id = NoId THEN <<n, Certificate>> ELSE client[c].id
          IN  /\ about' = [about EXCEPT ![k] = client[c].for]
              /\ announcement' = [announcement EXCEPT ![n] = k]
  /\ client' = [client EXCEPT ![c] = Idle]
  /\ UNCHANGED <<row, json, drop, delivery, raced>>

GiveUp(c) ==
  /\ client[c] # Idle
  /\ client' = [client EXCEPT ![c] = Idle]
  /\ UNCHANGED <<about, row, json, drop, announcement, delivery, raced>>

-----------------------------------------------------------------------------
\* The indexer, and the handlers of its messages.

Index(n) ==
  /\ announcement[n] # NoId
  /\ \A x \in Things : delivery[<<n, x>>] = "unsent"
  /\ delivery' = [m \in Messages |-> IF m[1] = n THEN "waiting" ELSE delivery[m]]
  /\ UNCHANGED <<about, row, json, drop, announcement, client, raced>>

\* The id that the handler of a message inserts.
Owner(m) == IF m[2] = Certificate THEN announcement[m[1]] ELSE m

Begins(m) == delivery[m] \in {"waiting", "again"}
Goes(m, next) == delivery' = [delivery EXCEPT ![m] = next]

InsertCollection(m) ==
  /\ m[2] = Certificate /\ Begins(m)
  /\ row[Owner(m)] = "absent"
  /\ row' = [row EXCEPT ![Owner(m)] = "bare"]
  /\ Goes(m, "json")
  /\ UNCHANGED <<about, json, drop, announcement, client, raced>>

\* Fault: a mint whose collection is not known is skipped.
SkipMint(m) ==
  /\ m[2] # Certificate /\ Begins(m)
  /\ row[m] = "absent"
  /\ IF row[announcement[m[1]]] # "absent"
     THEN row' = [row EXCEPT ![m] = "bare"] /\ Goes(m, "json")
     ELSE Goes(m, "acked") /\ UNCHANGED row
  /\ UNCHANGED <<about, json, drop, announcement, client, raced>>

\* The mint's collection has to be there (foreign key).
InsertMint(m) ==
  /\ m[2] # Certificate /\ Begins(m)
  /\ row[m] = "absent" /\ row[announcement[m[1]]] # "absent"
  /\ row' = [row EXCEPT ![m] = "bare"]
  /\ Goes(m, "json")
  /\ UNCHANGED <<about, json, drop, announcement, client, raced>>

InsertJson(m) ==
  /\ delivery[m] = "json"
  /\ json[Owner(m)] = "absent"
  /\ json' = [json EXCEPT ![Owner(m)] = "bare"]
  /\ Goes(m, "creators")
  /\ UNCHANGED <<about, row, drop, announcement, client, raced>>

InsertCreators(m) ==
  /\ delivery[m] = "creators"
  /\ row[Owner(m)] = "bare"
  /\ row' = [row EXCEPT ![Owner(m)] = "credited"]
  /\ Goes(m, "details")
  /\ UNCHANGED <<about, json, drop, announcement, client, raced>>

\* index_attributes and index_files; without any nothing can be refused.
InsertDetails(m) ==
  /\ delivery[m] = "details"
  /\ \/ m[2] \in Sparse /\ UNCHANGED json
     \/ /\ m[2] \notin Sparse /\ json[Owner(m)] # "absent"
        /\ json' = [json EXCEPT ![Owner(m)] = "complete"]
  /\ Goes(m, "acked")
  /\ UNCHANGED <<about, row, drop, announcement, client, raced>>

\* Fault: a handler that fails after its first insert is not started over.
HandlerGivesUp(m) ==
  /\ delivery[m] \in {"json", "creators", "details"}
  /\ Goes(m, "acked")
  /\ UNCHANGED <<about, row, json, drop, announcement, client, raced>>

\* An insert is refused, or the database fails; or all is inserted and the acknowledgement is
\* lost.
HandlerFails(m) ==
  /\ \/ delivery[m] \in {"json", "creators", "details"} /\ UNCHANGED json
     \/ delivery[m] = "details" /\ json' = [json EXCEPT ![Owner(m)] = "complete"]
        /\ json[Owner(m)] # "absent"
  /\ Goes(m, "again")
  /\ UNCHANGED <<about, row, drop, announcement, client, raced>>

Handle(m) ==
  \/ InsertCollection(m) \/ InsertMint(m) \/ InsertJson(m)
  \/ InsertCreators(m) \/ InsertDetails(m)

Request(c) ==
  \/ \E pair \in Imported : ImportSolanaCollection(c, pair)
  \/ ReadMints(c) \/ Replace(c) \/ Announce(c) \/ GiveUp(c)

Next ==
  \/ \E c \in Clients : Request(c)
  \/ \E n \in Announcements : Index(n)
  \/ \E m \in Messages : Handle(m) \/ HandlerFails(m)

Spec == Init /\ [][Next]_vars

\* The indexer answers, and the consumer goes on with what it has received.
Fairness ==
  /\ \A n \in Announcements : WF_vars(Index(n))
  /\ \A m \in Messages : WF_vars(Handle(m))

FairSpec == Spec /\ Fairness

-----------------------------------------------------------------------------
IsSparse(o) == IF o \in Ids THEN Certificate \in Sparse ELSE o[2] \in Sparse

Whole(o) ==
  /\ row[o] = "credited"
  /\ json[o] = "complete" \/ (json[o] = "bare" /\ IsSparse(o))

Half(o) == row[o] # "absent" /\ ~Whole(o)
Open(m) == delivery[m] \notin {"unsent", "acked"}

\* A collection or a mint of which only a part is inserted is not acknowledged: it stays an
\* error that is seen, whatever imports and deliveries run at the same time.
HalfImportedIsOpen ==
  /\ \A k \in Ids : Half(k) => \E n \in Announcements : announcement[n] = k /\ Open(<<n, Certificate>>)
  /\ \A m \in MintIds : Half(m) => Open(m)

\* Unless an import is repeated before it is over, a project has one row for a collection on
\* the chain and one for each of its mints.
ImportedOnce ==
  \A pair \in Pairs \ raced :
    /\ \A j, k \in Found(pair) : j = k
    /\ \A m, i \in MintIds :
         /\ row[m] # "absent" /\ row[i] # "absent" /\ m[2] = i[2]
         /\ IsFor(m[1], pair) /\ IsFor(i[1], pair)
         => m = i

\* Unless an import is repeated before it is over, a deleted collection leaves no metadata
\* behind, at which the next import with the same id would fail for good.
NoLeftovers ==
  \A pair \in Pairs \ raced :
    /\ \A k \in Ids : about[k] = pair /\ json[k] # "absent" => row[k] # "absent"
    /\ \A m \in MintIds :
         IsFor(m[1], pair) /\ json[m] # "absent" => row[m] # "absent"

\* A collection disappears only when its own project imports it again.
OtherProjectsStay ==
  [][\A k \in Ids : row[k] # "absent" /\ row'[k] = "absent" =>
       \E c \in Clients : client[c].pc = "replace" /\ client[c].for = about[k]]_vars

\* What was deleted for an import is announced.  (The request may end in between.)
DeletedIsAnnounced ==
  [][\A c \in Clients : client[c].pc = "send" /\ client[c].id # NoId /\ client'[c] = Idle =>
       announcement' # announcement]_vars

\* A collection that Hub created keeps its drop.  (An import of its address deletes it, with
\* the histories of its mints.)
DropsStay == [][drop \subseteq drop']_vars

\* An import that is not repeated, and none of whose handlers is interrupted, completes,
\* although the mints' messages may arrive before the collection's.
ImportCompletes ==
  \A n \in Announcements :
    announcement[n] # NoId /\ delivery[<<n, Certificate>>] = "unsent" ~>
      \/ \E pair \in raced : IsFor(n, pair)
      \/ \E x \in Things : delivery[<<n, x>>] = "again"
      \/ announcement[n] # NoId /\ \A x \in Things : Whole(Owner(<<n, x>>))
=============================================================================
