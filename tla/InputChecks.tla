---------------------------- MODULE InputChecks ----------------------------
(***************************************************************************)
(* What the mutations check of their input before they charge for it, and  *)
(* what comes of it in the database.                                       *)
(*                                                                         *)
(* create_collection and patch_collection (api/src/mutations/              *)
(* collection.rs), create_drop and patch_drop (drop.rs), mint_to_collection*)
(* and update_mint (mint.rs), with the functions validate_* and            *)
(* fetch_owner; and the wallets that the treasury service reports          *)
(* (events.rs).  A request reads and checks, asks for a deduction of       *)
(* credits (not for a patch), and stores in a transaction.  Transactions   *)
(* are READ COMMITTED: a DELETE deletes the rows committed when it starts. *)
(***************************************************************************)
EXTENDS Integers, Sequences

CONSTANTS
  Rows,         \* ids for collections and mints (a bound)
  Clients,      \* requests in progress at the same time
  Addresses,
  WellFormed,   \* the addresses of each chain
  Normal,       \* what an address is in lower case, if it is an EVM address
  Treasury,     \* chains and wallets of the one project
  Inputs,       \* what requests ask for
  Largest,      \* the largest number a column holds (i16 and i64)
  NoValue

Chains == {"solana", "polygon", "ethereum"}
Creator == [address: Addresses, verified: BOOLEAN, share: 0..255]
Json == {"fine", "no_url", "long"}  \* long: a name over 32 or a symbol over 10 characters

Input == [chain: Chains, creators: Seq(Creator) \cup {NoValue}, json: Json \cup {NoValue},
          type: {"edition", "open"}, supply: Nat \cup {NoValue}, price: Nat \cup {NoValue},
          fee: Nat \cup {NoValue}, end: {"past", "future", NoValue}, compressed: BOOLEAN]

ASSUME InputsAssumption == Inputs \subseteq Input
ASSUME AddressAssumption ==
  /\ WellFormed \in [Chains -> SUBSET Addresses]
  /\ Normal \in [Addresses -> Addresses]
  /\ \A chain \in Chains : \A a \in WellFormed[chain] : Normal[a] \in WellFormed[chain]
  /\ \A a \in WellFormed["solana"] : Normal[a] = a
ASSUME TreasuryAssumption == Treasury \subseteq Chains \X Addresses
ASSUME LargestAssumption == Largest \in Nat

VARIABLES
  wallets,  \* project_wallets of the project
  stored,   \* collections with their drops and creators, collection_mints with theirs
  client,   \* GraphQL requests in progress
  raced     \* ghost: rows whose creators two transactions replaced at the same time

vars == <<wallets, stored, client, raced>>

Row == [kind: {"collection", "drop", "mint"}, chain: Chains, created: BOOLEAN,
        creators: SUBSET Creator, compressed: BOOLEAN]
Ops == {"create_collection", "create_drop", "mint_to_collection", "update_mint",
        "patch_collection", "patch_drop"}
Client == [pc: {"deduct", "insert", "delete", "replace", "refused"}, op: Ops, chain: Chains,
           row: Rows \cup {NoValue}, input: Inputs, seen: SUBSET Creator]

ASSUME NoValueAssumption ==
  NoValue \notin Rows \cup Seq(Creator) \cup Nat \cup Json \cup Row \cup Client

TypeOK ==
  /\ wallets \in SUBSET (Chains \X Addresses)
  /\ stored \in [Rows -> Row \cup {NoValue}]
  /\ client \in [Clients -> Client \cup {NoValue}]
  /\ raced \in SUBSET Rows

Init ==
  /\ wallets = {}
  /\ stored = [k \in Rows |-> NoValue]
  /\ client = [c \in Clients |-> NoValue]
  /\ raced = {}

-----------------------------------------------------------------------------
(* The functions validate_* and fetch_owner.                               *)

\* Iterator::sum::<u8>, which wraps around in a release build.
RoyaltyShare(creators) ==
  LET sum[n \in 0..Len(creators)] ==
        IF n = 0 THEN 0 ELSE (sum[n - 1] + creators[n].share) % 256
  IN  sum[Len(creators)]

ValidCreators(chain, creators) ==
  /\ RoyaltyShare(creators) = 100
  /\ chain = "solana" => Len(creators) <= 5
  /\ chain = "polygon" => Len(creators) = 1
  /\ chain # "ethereum"
  /\ \A n \in DOMAIN creators : creators[n].address \in WellFormed[chain]

\* Fault: only the first creator is looked at.
ValidVerificationOfFirst(chain, owner, creators) ==
  chain = "solana" /\ creators # <<>> /\ creators[1].verified => creators[1].address = owner

\* On Solana only the owner of the project can be verified.
ValidVerification(chain, owner, creators) ==
  chain = "solana" =>
    \A n \in DOMAIN creators : creators[n].verified => creators[n].address = owner

ValidJson(chain, json) == json # "no_url" /\ (chain = "solana" => json # "long")

\* create_drop converts the supply, CreateDropInput::validate does the rest.
ValidDrop(i) ==
  /\ i.type = "edition" /\ i.supply # NoValue => i.supply # 0 /\ i.supply <= Largest
  /\ i.end # "past"
  /\ i.chain = "polygon" => i.supply # NoValue

\* Creators and json are required, except of a patch, which checks what it is given.
Valid(chain, owner, i) ==
  /\ i.creators # NoValue =>
       ValidCreators(chain, i.creators) /\ ValidVerification(chain, owner, i.creators)
  /\ i.json # NoValue => ValidJson(chain, i.json)

Complete(i) == i.creators # NoValue /\ i.json # NoValue

\* fetch_owner takes one of the project's wallets on the chain; with none the request fails.
Owners(chain) == {a \in Addresses : <<chain, a>> \in wallets}

-----------------------------------------------------------------------------
(* Reading and checking.  A request that fails a check is answered at once *)
(* and has changed nothing: it is not a step.                              *)

Begin(c, op, k, chain, i, pc) ==
  /\ client[c] = NoValue
  /\ \E owner \in Owners(chain) : Valid(chain, owner, i)
  /\ client' = [client EXCEPT ![c] =
       [pc |-> pc, op |-> op, chain |-> chain, row |-> k, input |-> i, seen |-> {}]]
  /\ UNCHANGED <<wallets, stored, raced>>

CreateCollection(c) ==
  \E i \in Inputs : Complete(i) /\ Begin(c, "create_collection", NoValue, i.chain, i, "deduct")

CreateDrop(c) ==
  \E i \in Inputs :
    /\ Complete(i) /\ ValidDrop(i)
    /\ Begin(c, "create_drop", NoValue, i.chain, i, "deduct")

IsCollection(k) == stored[k] # NoValue /\ stored[k].kind # "mint"

CanMint(k, i) ==
  /\ Complete(i)
  /\ IsCollection(k) /\ stored[k].created
  /\ i.compressed => stored[k].chain = "solana"

\* Fault: the input is checked when the credits are already deducted.
MintToCollectionChargesFirst(c) ==
  /\ client[c] = NoValue
  /\ \E k \in Rows, i \in Inputs :
       /\ CanMint(k, i)
       /\ client' = [client EXCEPT ![c] =
            [pc |-> IF \E owner \in Owners(stored[k].chain) : Valid(stored[k].chain, owner, i)
                    THEN "insert" ELSE "refused",
             op |-> "mint_to_collection", chain |-> stored[k].chain, row |-> k, input |-> i,
             seen |-> {}]]
  /\ UNCHANGED <<wallets, stored, raced>>

MintToCollection(c) ==
  \E k \in Rows, i \in Inputs :
    CanMint(k, i) /\ Begin(c, "mint_to_collection", k, stored[k].chain, i, "deduct")

UpdateMint(c) ==
  \E k \in Rows, i \in Inputs :
    /\ Complete(i)
    /\ stored[k] # NoValue /\ stored[k].kind = "mint"
    /\ stored[k].created /\ ~stored[k].compressed
    /\ Begin(c, "update_mint", k, stored[k].chain, i, "deduct")

PatchCollection(c) ==
  \E k \in Rows, i \in Inputs :
    IsCollection(k) /\ Begin(c, "patch_collection", k, stored[k].chain, i, "delete")

PatchDrop(c) ==
  \E k \in Rows, i \in Inputs :
    /\ stored[k] # NoValue /\ stored[k].kind = "drop"
    /\ i.end # "past"
    /\ Begin(c, "patch_drop", k, stored[k].chain, i, "delete")

-----------------------------------------------------------------------------
(* Charging and storing.                                                   *)

Deduct(c) ==
  /\ client[c] # NoValue /\ client[c].pc = "deduct"
  /\ client' = [client EXCEPT ![c].pc =
       IF client[c].op = "update_mint" THEN "delete" ELSE "insert"]
  /\ UNCHANGED <<wallets, stored, raced>>

Fits(value) == value # NoValue => value <= Largest

\* The primary keys of collection_creators and mint_creators hold the address.
GivenTwice(creators) ==
  \E m, n \in DOMAIN creators : m # n /\ creators[m].address = creators[n].address

Done(c) == client' = [client EXCEPT ![c] = NoValue]

\* Refused although it was charged.
Refuse(c) == client' = [client EXCEPT ![c].pc = "refused"]

\* Inserted one by one: before_save puts an EVM address in lower case.
Lowered(creators) == {[creators[n] EXCEPT !.address = Normal[@]] : n \in DOMAIN creators}

Insert(c, op, kind, fits) ==
  LET i == client[c].input IN
  /\ client[c] # NoValue /\ client[c].pc = "insert" /\ client[c].op = op
  /\ IF fits /\ ~GivenTwice(i.creators)
     THEN \E k \in Rows :
            /\ stored[k] = NoValue
            /\ stored' = [stored EXCEPT ![k] =
                 [kind |-> kind, chain |-> client[c].chain, created |-> FALSE,
                  creators |-> Lowered(i.creators),
                  compressed |-> kind = "mint" /\ i.compressed]]
            /\ Done(c)
     ELSE stored' = stored /\ Refuse(c)
  /\ UNCHANGED <<wallets, raced>>

InsertCollection(c) == Insert(c, "create_collection", "collection", TRUE)

InsertDrop(c) ==
  Insert(c, "create_drop", "drop", Fits(client[c].input.fee) /\ Fits(client[c].input.price))

InsertMint(c) == Insert(c, "mint_to_collection", "mint", Fits(client[c].input.fee))

Replacing(d, k) == client[d] # NoValue /\ client[d].pc = "replace" /\ client[d].row = k

\* patch_drop begins with an UPDATE of the collection if it is given a fee.
HoldsCollection(d) == client[d].op = "patch_drop" /\ client[d].input.fee # NoValue

\* Fault: the creators there were are left.
DeleteCreatorsOfNone(c) ==
  /\ client[c] # NoValue /\ client[c].pc = "delete"
  /\ client' = [client EXCEPT ![c].pc = "replace"]
  /\ UNCHANGED <<wallets, stored, raced>>

\* DELETE of the creators of a row, in a transaction of its own.  Two of them delete the
\* same creators: the second waits for the first, and does not see what that inserts.
DeleteCreators(c) ==
  LET k == client[c].row
      given == client[c].input.creators # NoValue
      others == {d \in Clients \ {c} : Replacing(d, k)}
  IN
  /\ client[c] # NoValue /\ client[c].pc = "delete"
  /\ HoldsCollection(c) => \A d \in others : ~HoldsCollection(d)
  /\ client' = [client EXCEPT
       ![c].pc = "replace",
       ![c].seen = IF given THEN stored[k].creators ELSE {}]
  /\ raced' = IF given /\ (\E d \in others : client[d].input.creators # NoValue)
              THEN raced \cup {k} ELSE raced
  /\ UNCHANGED <<wallets, stored>>

\* What is inserted: insert_many runs no before_save.
Given(i) == IF i.creators = NoValue THEN {} ELSE {i.creators[n] : n \in DOMAIN i.creators}
Left(c) == stored[client[c].row].creators \ client[c].seen

\* The primary key refuses an address that is there already.
Clashes(c) ==
  LET i == client[c].input IN
  \/ i.creators # NoValue /\ GivenTwice(i.creators)
  \/ \E old \in Left(c), new \in Given(i) : old.address = new.address

\* A patch fails, as it does on Polygon when it would have to send (patch_collection);
\* update_mint stores 0 for a fee that does not fit.
PatchFits(c) ==
  LET i == client[c].input IN
  /\ client[c].op = "patch_drop" => Fits(i.fee) /\ Fits(i.price)
  /\ client[c].op = "patch_collection" => client[c].chain = "solana" \/ i.json # NoValue

ReplaceCreators(c) ==
  LET k == client[c].row
      i == client[c].input
  IN
  /\ client[c] # NoValue /\ client[c].pc = "replace"
  /\ IF PatchFits(c) /\ ~Clashes(c)
     THEN /\ stored' = [stored EXCEPT ![k].creators = Left(c) \cup Given(i)]
          /\ Done(c)
     ELSE /\ stored' = stored
          /\ IF client[c].op = "update_mint" THEN Refuse(c) ELSE Done(c)
  /\ UNCHANGED <<wallets, raced>>

\* The request is answered, an error of the credits service or of the database ends it
\* (a transaction is rolled back), or it is lost in a crash.
End(c) ==
  /\ client[c] # NoValue
  /\ Done(c)
  /\ UNCHANGED <<wallets, stored, raced>>

-----------------------------------------------------------------------------

\* The answer of the chain, processed in Creation and MintLifecycle.
BecomesCreated(k) ==
  /\ stored[k] # NoValue /\ ~stored[k].created
  /\ stored' = [stored EXCEPT ![k].created = TRUE]
  /\ UNCHANGED <<wallets, client, raced>>

\* An event delivered again adds a row that says the same.
ProjectWalletCreated ==
  /\ \E w \in Treasury : wallets' = wallets \cup {<<w[1], Normal[w[2]]>>}
  /\ UNCHANGED <<stored, client, raced>>

Next ==
  \/ \E c \in Clients :
       \/ CreateCollection(c) \/ CreateDrop(c) \/ MintToCollection(c) \/ UpdateMint(c)
       \/ PatchCollection(c) \/ PatchDrop(c)
       \/ Deduct(c) \/ InsertCollection(c) \/ InsertDrop(c) \/ InsertMint(c)
       \/ DeleteCreators(c) \/ ReplaceCreators(c) \/ End(c)
  \/ \E k \in Rows : BecomesCreated(k)
  \/ ProjectWalletCreated

Spec == Init /\ [][Next]_vars

-----------------------------------------------------------------------------
(* Properties.                                                             *)

\* The checks before the deduction leave little to fail after it: a request that was charged
\* is refused for a fee or a price too large for its column, an address
\* given twice, or creators that another request replaced at the same time, and for nothing
\* else (create_collection, create_drop, mint_to_collection, update_mint).
ChargedIsStored ==
  \A c \in Clients :
    LET i == client[c].input IN
    client[c] # NoValue /\ client[c].pc = "refused" =>
        \/ ~Fits(i.fee) \/ ~Fits(i.price)
        \/ GivenTwice(i.creators)
        \/ client[c].row \in raced

\* Whatever was created, updated and patched, in any order, a creator of a collection or a mint
\* on Solana that is stored as verified is a wallet of the project
\* (validate_solana_creator_verification).
VerifiedIsOurs ==
  \A k \in Rows :
    stored[k] # NoValue /\ stored[k].chain = "solana" =>
      \A r \in stored[k].creators : r.verified => <<"solana", r.address>> \in wallets

\* The creators of a row are those of one accepted request: they share 100 percent (as u8
\* counts), and there is one on Polygon.  The exception are rows whose creators two requests
\* replaced at the same time: they may keep those of both (patch_collection, patch_drop,
\* update_mint).
CreatorsAreOneRequests ==
  \A k \in Rows :
    stored[k] # NoValue /\ k \notin raced =>
      \E i \in Inputs :
        /\ i.creators # NoValue
        /\ ValidCreators(stored[k].chain, i.creators) /\ ~GivenTwice(i.creators)
        /\ stored[k].creators = Given(i) \/ stored[k].creators = Lowered(i.creators)
=============================================================================
