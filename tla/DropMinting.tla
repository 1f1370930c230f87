---------------------------- MODULE DropMinting ----------------------------
(***************************************************************************)
(* When a drop may be minted, and which edition a mint gets.               *)
(*                                                                         *)
(* One drop and its collection: the creator pauses, resumes, shuts down    *)
(* and patches it (api/src/mutations/drop.rs), clients mint its editions   *)
(* or queue mints for it and take them from the queue                      *)
(* (api/src/mutations/mint.rs), while time passes.  mint_edition checks    *)
(* the drop, counts the mints and inserts its own in three statements that *)
(* no transaction joins.  Two operations that are not meant for drops      *)
(* change the count it takes: mint_to_collection, which accepts the        *)
(* collection of a drop, and switch_collection, which takes a mint out of  *)
(* it.  What happens to a mint once it is inserted is MintLifecycle's      *)
(* subject.                                                                *)
(***************************************************************************)
EXTENDS Integers, FiniteSets

CONSTANTS
  Mints,      \* ids of mints the drop can get (a bound)
  Clients,    \* concurrent requests for mints
  Supplies,   \* supplies a collection is created with
  MaxTime,    \* the clock stops here (a bound)
  Ops,        \* the requests that are made
  NoSupply,   \* the supply of a collection without one
  NoTime,     \* a start or end time that is not set
  NoMint

AllOps == {"mint_edition", "queue_mint_to_drop", "mint_queued", "pause_drop",
           "resume_drop", "shutdown_drop", "patch_drop", "mint_to_collection",
           "switch_collection"}

ASSUME MaxTimeAssumption == MaxTime \in Nat
ASSUME SuppliesAssumption == Supplies \subseteq (Nat \ {0}) \cup {NoSupply}
ASSUME NoSupplyAssumption == NoSupply \notin Int
ASSUME NoTimeAssumption == NoTime \notin Int
ASSUME NoMintAssumption == NoMint \notin Mints
ASSUME OpsAssumption == Ops \subseteq AllOps
ASSUME MintsAssumption == IsFiniteSet(Mints)

VARIABLES
  drop,       \* the row in drops, with the creation status of the collection's
  supply,     \* collections.supply
  mint,       \* collection_mints: what each row of the collection has been so far
  client,     \* the requests for mints, between two of their statements
  now,        \* Utc::now()
  overlapped  \* ghost: a request for a mint began before another was over

vars == <<drop, supply, mint, client, now, overlapped>>

-----------------------------------------------------------------------------
(* Rows and requests.                                                      *)

Time == 0 .. MaxTime

CreationStatus == {"pending", "created", "failed"}

Drop == [type: {"edition", "open"}, creation: CreationStatus, collection: CreationStatus,
         start: Time \cup {NoTime}, end: Time \cup {NoTime},
         paused: BOOLEAN, shutdown: BOOLEAN]

\* Statuses other than queued (pending, created, failed) count alike here: "minted".
\* A mint that is "switched" is one of another collection.
Row == [status: {"absent", "queued", "minted", "switched"}, edition: Int]

Absent == [status |-> "absent", edition |-> -1]

\* The column's default, which mints of the queue and of mint_to_collection keep.
DefaultEdition == -1

Client == [pc: {"idle", "admitted", "counted", "taken", "accepted"}, edition: Int,
           mint: Mints \cup {NoMint}]

Idle == [pc |-> "idle", edition |-> -1, mint |-> NoMint]

Rows(status) == {m \in Mints : mint[m].status = status}

\* collection_mints::Entity::filter_by_collection(..).count
TotalMints == Cardinality(Rows("minted"))

-----------------------------------------------------------------------------
(* The two readings of a drop's state.                                     *)

\* Fault: the start is not looked at.
CheckDropStatusStarted(d, t) ==
  /\ d.creation = "created" /\ ~d.paused /\ ~d.shutdown
  /\ d.end # NoTime => d.end > t

\* What mint_edition accepts.
CheckDropStatus(d, t) ==
  /\ d.creation = "created"
  /\ ~d.paused
  /\ ~d.shutdown
  /\ d.start # NoTime => d.start <= t
  /\ d.end # NoTime => d.end > t

\* Fault: the supply is compared with the edition before the last one.
SoldOutLate(total) == supply # NoSupply /\ supply + 1 = total

SoldOut(total) == supply # NoSupply /\ supply = total

\* What the field `status` of a drop shows when its two loaders answer `total` and
\* `shown`, numbers that they may have had in their caches.
Status(d, t, total, shown) ==
  CASE d.paused -> "paused"
    [] ~d.paused /\ d.shutdown -> "shutdown"
    [] OTHER ->
       CASE d.creation = "pending" -> "creating"
         [] d.creation = "failed" -> "failed"
         [] OTHER ->
            IF d.start # NoTime /\ t < d.start THEN "scheduled"
            ELSE IF d.end # NoTime /\ t > d.end THEN "expired"
            ELSE IF shown # NoSupply /\ shown = total /\ total > 0 THEN "minted"
            ELSE "minting"

\* The supply that its loader computes: of an open drop the number of its mints.
ShownSupply ==
  IF drop.type = "edition" THEN supply ELSE Cardinality(Rows("queued") \cup Rows("minted"))

-----------------------------------------------------------------------------
TypeOK ==
  /\ drop \in Drop
  /\ supply \in Supplies
  /\ mint \in [Mints -> Row]
  /\ client \in [Clients -> Client]
  /\ now \in Time
  /\ overlapped \in BOOLEAN

\* A drop as create_drop leaves it: any start, an end in the future, and no supply
\* if it is open.
Init ==
  /\ drop \in {d \in Drop : /\ d.creation = "pending" /\ d.collection = "pending"
                            /\ ~d.paused /\ ~d.shutdown
                            /\ d.end # NoTime => d.end > 0}
  /\ supply \in Supplies
  /\ drop.type = "open" => supply = NoSupply
  /\ mint = [m \in Mints |-> Absent]
  /\ client = [c \in Clients |-> Idle]
  /\ now = 0
  /\ overlapped = FALSE

Tick ==
  /\ now < MaxTime
  /\ now' = now + 1
  /\ UNCHANGED <<drop, supply, mint, client, overlapped>>

-----------------------------------------------------------------------------
(* The drop's row.  Each mutation reads the row and writes the columns it  *)
(* has set, so what other requests wrote to other columns in between stays.*)

\* The blockchain's answer to the creation of the drop.
DropCreated ==
  /\ drop.creation = "pending"
  /\ \E result \in {"created", "failed"} :
       drop' = [drop EXCEPT !.creation = result, !.collection = result]
  /\ UNCHANGED <<supply, mint, client, now, overlapped>>

\* The retry of a failed creation.
RetryDrop ==
  /\ drop.creation = "failed"
  /\ drop' = [drop EXCEPT !.creation = "pending"]
  /\ UNCHANGED <<supply, mint, client, now, overlapped>>

\* retry_collection takes the failed collection of a drop as well, and the answer,
\* if it is a success, is recorded in the collection only.
CollectionCreated ==
  /\ drop.collection = "failed"
  /\ drop' = [drop EXCEPT !.collection = "created"]
  /\ UNCHANGED <<supply, mint, client, now, overlapped>>

PauseDrop ==
  /\ "pause_drop" \in Ops
  /\ drop' = [drop EXCEPT !.paused = TRUE]
  /\ UNCHANGED <<supply, mint, client, now, overlapped>>

\* Fault: resuming clears every stop.
ResumeDropEntirely ==
  /\ "resume_drop" \in Ops
  /\ drop' = [drop EXCEPT !.paused = FALSE, !.shutdown = FALSE]
  /\ UNCHANGED <<supply, mint, client, now, overlapped>>

ResumeDrop ==
  /\ "resume_drop" \in Ops
  /\ drop' = [drop EXCEPT !.paused = FALSE]
  /\ UNCHANGED <<supply, mint, client, now, overlapped>>

ShutdownDrop ==
  /\ "shutdown_drop" \in Ops
  /\ drop' = [drop EXCEPT !.shutdown = TRUE]
  /\ UNCHANGED <<supply, mint, client, now, overlapped>>

\* A start that is not given becomes now, an end that is not given is cleared.
PatchDrop ==
  /\ "patch_drop" \in Ops
  /\ \E start \in Time, end \in {t \in Time : t > now} \cup {NoTime} :
       drop' = [drop EXCEPT !.start = start, !.end = end]
  /\ UNCHANGED <<supply, mint, client, now, overlapped>>

-----------------------------------------------------------------------------
(* mint_edition.                                                           *)

Begin(c, begun) ==
  /\ client[c] = Idle
  /\ client' = [client EXCEPT ![c] = begun]
  /\ overlapped' = (overlapped \/ \E d \in Clients : client[d] # Idle)

\* Reads the drop and the collection and checks the drop.
MintEdition(c) ==
  /\ "mint_edition" \in Ops
  /\ CheckDropStatus(drop, now)
  /\ Begin(c, [Idle EXCEPT !.pc = "admitted"])
  /\ UNCHANGED <<drop, supply, mint, now>>

\* Fault: the number of mints is taken for the next edition, but for the first.
CountMintsOffByOne(c) ==
  /\ client[c].pc = "admitted"
  /\ client' = [client EXCEPT ![c] =
       IF SoldOut(TotalMints) THEN Idle
       ELSE [pc |-> "counted", mint |-> NoMint,
             edition |-> IF TotalMints = 0 THEN 1 ELSE TotalMints]]
  /\ UNCHANGED <<drop, supply, mint, now, overlapped>>

\* The next edition, or no more of them.
CountMints(c) ==
  /\ client[c].pc = "admitted"
  /\ client' = [client EXCEPT ![c] =
       IF SoldOut(TotalMints) THEN Idle
       ELSE [pc |-> "counted", edition |-> TotalMints + 1, mint |-> NoMint]]
  /\ UNCHANGED <<drop, supply, mint, now, overlapped>>

\* Inserts the mint, outside of the transaction that follows.
InsertEdition(c, m) ==
  /\ client[c].pc = "counted"
  /\ mint[m].status = "absent"
  /\ mint' = [mint EXCEPT ![m] = [status |-> "minted", edition |-> client[c].edition]]
  /\ client' = [client EXCEPT ![c] = Idle]
  /\ UNCHANGED <<drop, supply, now, overlapped>>

\* An error (no owner, no credits, the database) ends the request.
GiveUp(c) ==
  /\ client[c].pc # "idle"
  /\ client' = [client EXCEPT ![c] = Idle]
  /\ UNCHANGED <<drop, supply, mint, now, overlapped>>

-----------------------------------------------------------------------------
(* The queue of a drop.                                                    *)

QueueMintToDrop(m) ==
  /\ "queue_mint_to_drop" \in Ops
  /\ mint[m].status = "absent"
  /\ mint' = [mint EXCEPT ![m] = [status |-> "queued", edition |-> DefaultEdition]]
  /\ UNCHANGED <<drop, supply, client, now, overlapped>>

\* Reads a queued mint, the one asked for or a random one; the drop is read
\* too, and not checked.
MintQueued(c, m) ==
  /\ "mint_queued" \in Ops
  /\ mint[m].status = "queued"
  /\ Begin(c, [pc |-> "taken", edition |-> -1, mint |-> m])
  /\ UNCHANGED <<drop, supply, mint, now>>

\* The update leaves the collection as it is, so a mint that another request took
\* as well and that was switched since stays where it is.
CommitQueuedMint(c) ==
  /\ client[c].pc = "taken"
  /\ mint' = [mint EXCEPT ![client[c].mint].status = IF @ = "switched" THEN @ ELSE "minted"]
  /\ client' = [client EXCEPT ![c] = Idle]
  /\ UNCHANGED <<drop, supply, now, overlapped>>

-----------------------------------------------------------------------------
(* The operations that are not meant for drops.                            *)

\* mint_to_collection looks at the collection's creation status: neither at the
\* drop nor at the supply.
MintToCollection(c) ==
  /\ "mint_to_collection" \in Ops
  /\ drop.collection = "created"
  /\ Begin(c, [Idle EXCEPT !.pc = "accepted"])
  /\ UNCHANGED <<drop, supply, mint, now>>

CommitMintToCollection(c, m) ==
  /\ client[c].pc = "accepted"
  /\ mint[m].status = "absent"
  /\ mint' = [mint EXCEPT ![m] = [status |-> "minted", edition |-> DefaultEdition]]
  /\ client' = [client EXCEPT ![c] = Idle]
  /\ UNCHANGED <<drop, supply, now, overlapped>>

\* The success of a switch, which takes a mint to a collection without a drop.
SwitchCollection(m) ==
  /\ "switch_collection" \in Ops
  /\ mint[m].status = "minted"
  /\ mint' = [mint EXCEPT ![m].status = "switched"]
  /\ UNCHANGED <<drop, supply, client, now, overlapped>>

-----------------------------------------------------------------------------
DropNext ==
  \/ DropCreated \/ RetryDrop \/ CollectionCreated
  \/ PauseDrop \/ ResumeDrop \/ ShutdownDrop \/ PatchDrop

EditionNext(c) ==
  MintEdition(c) \/ CountMints(c) \/ (\E m \in Mints : InsertEdition(c, m)) \/ GiveUp(c)

QueueNext ==
  \/ \E m \in Mints : QueueMintToDrop(m)
  \/ \E c \in Clients : (\E m \in Mints : MintQueued(c, m)) \/ CommitQueuedMint(c)

CollectionNext ==
  \/ \E m \in Mints : SwitchCollection(m)
  \/ \E c \in Clients :
       MintToCollection(c) \/ \E m \in Mints : CommitMintToCollection(c, m)

Next ==
  Tick \/ DropNext \/ QueueNext \/ CollectionNext \/ \E c \in Clients : EditionNext(c)

Spec == Init /\ [][Next]_vars

-----------------------------------------------------------------------------
(* Properties.                                                             *)

Minted == Rows("minted")
Admitted == {c \in Clients : client[c].pc \in {"admitted", "counted"}}
Counted == {c \in Clients : client[c].pc = "counted"}

\* What the field `status` shows and what mint_edition checks of a drop agree
\* whatever the loaders answer, the instant of the end excepted; and for an edition
\* drop whose count is current it shows MINTED just when mint_edition says that the
\* collection is sold out (objects/drop.rs, status; mint.rs, check_drop_status and
\* the comparison of the supply).
StatusAgrees ==
  \A total, shown \in Supplies \cup (0 .. Cardinality(Mints)) :
    LET status == Status(drop, now, total, shown) IN
    /\ status \in {"minting", "minted"} /\ drop.end # now <=> CheckDropStatus(drop, now)
    /\ status \in {"minting", "minted"} /\ drop.type = "edition"
         /\ total = TotalMints /\ shown = supply
         => (status = "minted" <=> SoldOut(TotalMints))

\* A drop that is shown as MINTED has no editions left (DropStatus::Minted, "the
\* minting process for the collection is complete").
MintedIsComplete ==
  Status(drop, now, TotalMints, ShownSupply) = "minted" => SoldOut(TotalMints)

\* All mints that the collection ever had.
Ever == Rows("minted") \cup Rows("switched")

\* No edition number is above the number of mints that the collection ever had, or
\* that a request is about to add, however many requests run at once and whatever
\* else changes the count they take (mint.rs, `edition`).
EditionWithinTotal ==
  /\ \A m \in Ever : mint[m].edition <= Cardinality(Ever)
  /\ \A c \in Counted : client[c].edition <= Cardinality(Ever) + 1

\* Two mints of a collection have different edition numbers (docs of
\* CollectionMint.edition: "The unique edition number of the NFT").
EditionsUnique ==
  \A m, n \in Minted :
    mint[m].edition = mint[n].edition => m = n \/ mint[m].edition = DefaultEdition

\* While no request for a mint begins before the one before it is over, and no mint
\* is switched to another collection, every edition number is given once.
NoneSwitched == Rows("switched") = {}
UniqueInTurn == ~overlapped /\ NoneSwitched => EditionsUnique

\* Every mint is an edition: none came from the queue or from mint_to_collection,
\* which take no account of the supply.
AllNumbered ==
  \A m \in Mints : mint[m].status # "absent" => mint[m].edition # DefaultEdition

\* Then a collection has no more mints than its supply, either (mint.rs,
\* "Collection is sold out").
NotOversold ==
  ~overlapped /\ AllNumbered /\ supply # NoSupply => TotalMints <= supply

\* And once as many are minted as the supply allows, not one is minted any more
\* and no request is left that has a number, as long as none is switched.
SoldOutIsFinal ==
  [][~overlapped' /\ AllNumbered' /\ NoneSwitched' /\ supply # NoSupply
       /\ TotalMints >= supply
       => TotalMints' = supply' /\ Counted' = {}]_vars

\* A drop that is shut down stays so, whatever is done to it, and admits no
\* request that was not admitted before (DropStatus::Shutdown: "permanently
\* shut down and can no longer be minted").
ShutdownIsFinal ==
  [][drop.shutdown => drop'.shutdown /\ Admitted' \subseteq Admitted]_vars

\* No request begins to mint while the drop is paused or shut down
\* (DropStatus::Paused: "cannot be minted at the moment").
Minting == {c \in Clients : client[c].pc # "idle"}
StoppedIsNotMinted ==
  [][drop.paused \/ drop.shutdown => Minting' \subseteq Minting]_vars

=============
