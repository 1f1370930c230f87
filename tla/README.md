# hub-nfts in TLA+

This directory holds TLA+ models of `holaplex/hub-nfts`, the service of Holaplex
Hub that creates drops and collections and mints NFTs on Solana and Polygon, the
TLC configurations that check them, and proofs that TLAPS checks. Paths below are
relative to the root of the repository (`api/src/...`); line numbers are those of
the modelled commit.

## 1. The system

One server process (`api/src/main.rs`) runs

* a GraphQL server whose **mutations** (`api/src/mutations/`) run concurrently, one
  task per HTTP request;
* a Kafka consumer whose **event processor** (`api/src/events.rs`) records what the
  other Hub services answer;
* a **background worker** (`api/src/background_worker/`) that uploads metadata JSON
  and then submits drops, collections and mints.

`hub-nfts retry-jobs` is a second process that processes failed jobs again.

They share a Postgres database (through SeaORM, READ COMMITTED, no row locks and no
version columns anywhere), Redis (the job list and two caches), and they talk to the
credits service (deductions), the uploads service and, through Kafka, to
`hub-nfts-solana`, `hub-nfts-polygon` and the treasury.

| component | state | operations | what makes it correct |
|---|---|---|---|
| mints (`mutations/mint.rs`, handlers in `events.rs`) | `collection_mints`, `mint_histories`, deductions | mint_edition, mint_to_collection, queue_mint_to_drop, mint_queued, mint_random_queued_to_drop(_batched), retry_*; drop_minted, minted_to_collection | nothing is submitted unpaid, only what is on the chain is shown as created, charges are confirmed only for mints on the chain, every answer is recorded |
| job queue (`background_worker/`) | `job_trackings`, a Redis list | enqueue, dequeue, the worker loop, retry-jobs | a job runs once, rows tell the truth, an accepted task is not lost |
| drops (`mutations/drop.rs`, `objects/drop.rs`) | `drops`, `collections` | create, retry, patch, pause, resume, shutdown, drop_created; the computed status | mints are accepted only while the drop is minting; supply and edition numbers |
| collections (`mutations/collection.rs`) | `collections`, creators | create, retry, patch, switch; collection_created | as for drops |
| import (`import_solana_collection`, `index_*` in `events.rs`) | the rows of a collection on the chain, its mints, their metadata and creators | import_solana_collection; index_collection, index_mint | a collection is there once and whole, or its import is an error that is seen |
| input validation (`validate_*`), wallets | `project_wallets`, creators | the checks of every mutation with input; project_wallet_created | nothing is charged that is refused afterwards; who is shown as verified is; creators are those somebody asked for |
| metadata (`objects/metadata_json.rs`, the upload task) | `metadata_jsons`, attributes, files | save, the `After` of each caller | the uri of a row is that of its content |
| mint updates (`update_mint`, `retry_update_mint`, `mint_updated`) | `update_histories` | | the last update wins, charges |
| ownership (`mutations/transfer.rs`, `events.rs`) | `collection_mints.owner`, `nft_transfers` | transfer_asset, mint_transferred, update_mint_owner, update_polygon_mints_owner, switch_collection | the owner shown is the owner on the chain |
| caches (`dataloaders/collection.rs`) | two Redis keys per collection | load, del | what is cached is what the database counts |

The hard parts are common to all of them: a request is a sequence of calls to the
database, the credits service, Redis and Kafka with no transaction around them; it can
stop between any two; rows read at its start are used at its end; results arrive late,
more than once, or while the next request for the same row is under way.

`PROJECT.json` lists these hazards one by one, each at the line where it bites, with
the properties that would notice it going wrong.

## 2. Modules

| module | what it is | used by |
|---|---|---|
| `MintLifecycle` | a mint from request to recorded result | `MCMintLifecycle`, `MintLifecycleProofs` |
| `MintPromise` | what minting promises an organisation; abstract | instantiated by `MintLifecycle` |
| `DropMinting` | when a drop may be minted, editions and supply | `MCDropMinting`, `DropMintingProofs` |
| `Creation` | creation and retries of drops and collections | `MCCreation`, `CreationProofs` |
| `CreationPromise` | in what order others see a creation come about; abstract | instantiated by `Creation` |
| `JobQueue` | the job queue, the worker, `retry-jobs` | `MCJobQueue`, `JobQueueProofs` |
| `TaskPromise` | what the queue promises who enqueues; abstract | instantiated by `JobQueue` |
| `AssetChanges` | what is done to mints and collections that exist: updates, patches, transfers, switches, changes of ownership | `MCAssetChanges`, `AssetChangesProofs` |
| `CollectionCache` | cached counts of a collection | `MCCollectionCache`, `CollectionCacheProofs` |
| `Import` | the import of collections from Solana, with the indexer's messages | `MCImport`, `ImportProofs` |
| `InputChecks` | what is checked before a charge, what the database refuses after it, and creators under overlapping transactions | `MCInputChecks`, `InputChecksProofs` |

The `MC` modules add sets of operations and the symmetry of ids for TLC. A
mutation's first action is mapped to the whole of the mutation where its later steps are
shared with others; a shared step is mapped to one of the mutations that take it. Operators
commented `Fault:` are mutated forms of the definition that follows them: with such a
fault put in the definition's place TLC finds the property violated that
`PROJECT.json` pairs it with. They are not part of any specification.

### How the modules read the code

A GraphQL request is a record in `client`: the mutation (`op`), the point it has
reached (`pc`) and the values it read and carries along. Every `.await` on the
database, the credits service, Redis or Kafka ends an action, so anything can happen
between two of them. A database transaction is one action, placed at its `commit`;
statements that run on the connection although a transaction is open
(`mint_edition`'s insert, mint.rs:134) are actions of their own. `GiveUp` (or `Fail`)
is every early return between two actions: a `?`, a check that the module leaves out,
a lost process. What has been written by then stays.

An event handler is a record in `handler`, one per result. Results are delivered until
the handler returns `Ok` (`Acknowledge`); `HandlerFails` makes it start over
(main.rs:104-114). Redelivery after a later result is thereby included.

The upload task runs as a job: `SaveUri`, then `SubmitFromJob`, either of which may
happen again as long as the job is open. That is what `TaskPromise` allows and what
`JobQueue` is shown to keep, which is how the two levels fit together.

**MintLifecycle.** `mint`, `history` are the rows of `collection_mints` and
`mint_histories`; `charge` the credits service's deductions; `submission` the requests
that reach the blockchain services, with the outcome (`Execute`, external). Operations:
all eight mutations of `mutations/mint.rs` that create, retry, queue and take mints,
and both handlers. History rows are chosen by `\E`, as the handlers take the first the
database returns. Editions, supply, pause and shutdown are left to `DropMinting`.

**DropMinting.** One drop with its row, the collection's supply, the rows of its mints
and a clock. `Status` is `objects/drop.rs` `status`, `CheckDropStatus` is
`check_drop_status`: two implementations of one notion, compared by `StatusAgrees`. The
first gets the count and the supply from cached loaders, so `Status` takes both as
parameters and `StatusAgrees` is for whatever they answer; `ShownSupply` is what the supply's loader
counts for an open drop. `patch_drop` sets the start (to now if none is given) and the end
(to none). Statuses pending, created and failed count alike, so mints are queued or "minted"
here. Two operations that are not meant for drops belong to the module because they change
the count that `mint_edition` takes: `mint_to_collection` accepts a drop's collection
(mint.rs:440-491) and looks at no supply, and `switch_collection` takes a mint out of it
(events.rs:915; the row is then "switched"). `overlapped` is a ghost: two requests
for mints were under way at the same time. What is promised about numbers and supply is said
with the condition it needs: that none overlapped (`~overlapped`), that no mint was switched away
(`NoneSwitched`), that each mint came from `mint_edition` (`AllNumbered`). `StatusAgrees` and
`ShutdownIsFinal` need none. An import of the collection's address, which deletes the
drop, is in `Import`.

**Creation.** A drop is a collection in `DropCollections` with a second row.
`told` holds the `NftEvents` announcements. `kind` of a submission says which of the
two handlers gets the result, so `retry_collection` on a drop's collection is covered.
`SubmittedOnce` names the collections that neither a retry nor a repeated job submitted a
second time; those are the ones whose two rows must end as was announced. `CreationPromise`
leaves out requests, jobs and deliveries: a charge, a submission, its execution, the confirmed
charge, the announcement, the address shown and the opened drop each need the one before.

**JobQueue.** `tracking` is `job_trackings`; `queue` the Redis list; `loop` the worker
loop; `run` the spawned task of each job; `tool` a running `retry-jobs`. `Faults`
says which calls can fail: `enqueue` (LPUSH, or the insert), `dequeue`, `read`
(the first read of a spawned task), `update` (of a row), `crash` (of a process).

**AssetChanges.** One mint and some collections. A row's `content`, `creators` and `fee`
are named by the request that set them, its `uri` by the request whose job made it, so a
property can say whose content a uri belongs to. Creators are a set, as they are rows of their own: `DeleteCreators` and the insert at
the commit are the two statements that replace them, and under READ COMMITTED a transaction does not delete
what another inserted after its DELETE began (`found` holds what it saw). So two overlapping replacements
leave the creators of both, which the later job submits. `before` is a ghost: the versions a
request found in place when it committed, hence "older than the request". `patch` is a patch without new
metadata, which is sent at once, `patch_metadata` one with; both can be of a drop's
collection or of another. A patch with metadata has deleted the row when it enqueues its
job, so `SaveUri` waits for it (`Locked`). The job enqueues itself again when it
fails, so a job is open until it submits. `owners` is the chain's history of the mint's owners,
`notice` the event of each change, `transfers` the rows the events leave.
What is charged is a function of the request, so deductions are named by it.

**CollectionCache.** `cache` has a collection's two keys; a loader is a request in the
steps read, count and set; a mutation commits and then deletes an entry
(`Deletes`). A mint can be switched to another collection, and an import deletes a collection
with its mints and its drop and inserts it again under the same id (`ImportCollection`,
`IndexCollection`, `IndexMint`); none of these deletes an entry. Three ghosts serve the
properties only: `been`, the collections a mint was ever in; `missed`, the events since an
entry's number was counted; and `unseen`, the same for a number that a loader has still to
set. The first kind of event is found mechanically: `NoteCounts` compares the
counts before and after a step that changes rows and notes it wherever they differ, whatever the step deletes. The others
are a deletion while a loader is about to set the entry, and the end of a request
that had a deletion to make. `Current` lists the events that excuse an entry, and TLC finds it violated if
any one of the eight is taken off the list.

**Import.** `row` and `json` say how much of a collection or a mint is inserted: each
`insert` of a handler is an action, an `absent` row is one its primary key or foreign key
refuses. A message goes through its handler's inserts in order and starts over after an
error (`HandlerFails`), where it meets what it inserted before. `ImportSolanaCollection`,
`ReadMints`, `Replace` (one transaction) and `Announce` are the mutation; the indexer (`Index`) is
external and sends its messages in any order. `announcement` holds the id that is sent along,
which is the one found in the database: this is why leftovers block the next import. An id is named by the import that made
it, so a new id never meets an old one. Collections that Hub created itself (`Own`) may be
there with their drop. The creators on the chain are taken to be valid and not empty, and a
request begins only while an announcement is left (a bound).

**InputChecks.** One project, with the wallets the treasury has reported so far. A request
that fails a check before its deduction has changed nothing and is no step. An input keeps
what the checks look at; fee, price and supply are numbers compared with `Largest`, which
stands for the largest value of their column. Shares keep their width: `RoyaltyShare` is a
sum modulo 256. `DeleteCreators` and `ReplaceCreators` are the two statements of the
transactions of `update_mint`, `patch_collection` and `patch_drop`: under READ COMMITTED the
second of two such DELETEs waits for the first transaction and then does not see what it
inserted, which `seen` and `Left` express. `raced` is a ghost with the rows to which this
happened. EVM addresses are put in lower case by `before_save`, which `insert_many` does not
run: `Lowered` and `Given` are the two ways of inserting. Left out: that `update_mint`
refuses editions of a drop (mint.rs:598), the uri of an image that is there but wrong in form, and
customers' wallets, which no mutation reads.

## 3. Runs

Twelve runs; ten must pass, two find a disagreement with the code's own words.

| run | what it asks | bounds |
|---|---|---|
| `mint_race` | what is shown, charged and acknowledged is borne out by the chain and the charges, and `MintPromise` is kept, with two racing requests of every kind | 2 mints, 2 requests, 2 deductions, 2 submissions, batches of up to 2 (2.75 million states) |
| `mint_live` | every submission of a mint with a history row is answered, and its success recorded for good: as CREATED, unless a retry or a repeated upload job submitted the mint | 1 request at a time, of all eight mutations, jobs that repeat; 1 mint, 2 deductions, 2 submissions (190 000 states) |
| `queue_race` | violation: `OneHistoryPerMint` | 1 mint, 2 requests |
| `drop` | status and check agree whatever the caches answer, a shutdown is final; while no requests overlap and no mint is switched away numbers are unique; while none overlap and each mint is an edition the supply is kept, and final once it is reached | 1 drop of either type, 3 mints, 2 requests of all kinds, times 0 to 2, supplies 1, 2, none (2.4 million states) |
| `drop_editions` | violation: `EditionsUnique` | 2 mints, 2 requests |
| `creation_retries` | what is shown and announced is on the chain and paid, an acknowledged success is recorded, `CreationPromise` is kept, and what was announced is shown in the end | 1 drop, 2 requests of every kind, 2 submissions, with fairness (370 000 states) |
| `jobs_faults` | no job runs twice, `TaskPromise` is kept | 2 tasks, 4 job ids, all faults |
| `jobs_live` | an accepted task is carried, and processed in the end | 2 tasks, 3 job ids, failing tasks and updates |
| `changes` | updates are whole, rows get a uri, charges and histories tell what happened, owner and collection follow the chain | 2 requests of six kinds, 2 collections, 2 submissions, 2 wallets, one of them managed, 1 change of ownership, up to 2 copies of its row (4.35 million states) |
| `cache` | entries are never ahead, and stale only after the events listed | 2 collections, an edition drop and an open drop, each of which an import makes a collection without one; 2 mints, 2 requests, all errors (2.8 million states) |
| `import` | half an import is an error that is seen, another project's rows stay, an import that is not repeated too early leaves one row of each and no remains, and completes | 2 projects with one collection each that Hub made at the address, 1 asset, 2 imports, failures anywhere, with fairness (160 000 states) |
| `checks` | charged requests are refused late only for what the database finds; who is verified is a wallet; creators are those of one accepted request | 2 rows, 2 requests of six kinds, 9 inputs at the edges of what is accepted, `Largest` 2 (1.1 million states) |

Why these bounds are enough. The races of this code have two parties: one reads, the
other writes, the first acts on what it read; so two requests, or a request and a
delivery. Two submissions of one mint let results arrive out of order; two mints let a
charge or a signature go to the wrong one, and a batch stop in the middle. Three times
put the clock before, at and after both ends of a drop. Four job ids are two tasks of
which each fails once while the other is under way. Ids (`Deductions`, `Submissions`,
`Jobs`, `Mints`) run out in each model where the code's do not; a step that needs an
id is then disabled, which cuts behaviours short but adds none. The theorems in section 4 hold
without any bound. `mint_race` leaves out `mint_queued` and
`mint_random_queued_to_drop`, which differ from a batch of one only in how the mint is
named; `mint_live` has them. `mint_live` has one mint, because liveness costs TLC most: that
charges and signatures go to the right one of several is the business of `mint_race`.
`MCCache_requests.cfg` has a `VIEW`: of the two ghosts with events TLC tells apart only
whether they excuse their number (`MCView`), since steps add to them, copy or empty them and `Current` asks for
nothing else.

In `import` the second import can begin at
any point of the first or after it, one asset is enough for a mint's message to come before
or after its collection's. In `checks` every input is there for one check: a fee and a
price at and above `Largest`, shares that sum to 100 and to 356 (which is stored), an address given twice, a
verified creator that is not the owner, a second creator on Polygon.

Type invariants are theorems (section 4) and are not repeated in the runs.

Deadlock is not checked (`CHECK_DEADLOCK FALSE`): requests are optional and ids run
out, so the models may stop.

### Fairness

`mint_live` and `creation_retries` assume that the blockchain services answer
(`WF(Execute)`), that the event processor goes on with what it has begun
(`WF(Progress)`), and that its errors pass: `<>[][no HandlerFails]`. The consumer
retries a failed event with a back-off for as long as it runs (main.rs:104-114), so
this is what "the database and the credits service come back" means. No fairness is assumed of
requests: any mutation may stop where it is. `jobs_live` assumes that the tokio runtime polls the loop and the spawned
tasks and that a task's errors pass; nothing is assumed of `retry-jobs`.
Errors of `dequeue` and crashes are excluded there: the loop ends for good with the
first (worker.rs:64), and the queue does lose tasks then. `import` assumes that the
indexer answers (`WF(Index)`) and that the consumer goes on with what it received
(`WF(Handle)`); failing handlers are not excluded, `ImportCompletes` names them instead, since
a handler that failed once after its first insert never succeeds.

### Which faults lose a task

`AcceptedIsCarried` has the premise `Recoverable`. Alone, failing updates of rows or
failing enqueues lose no accepted task: a failed row is left for `retry-jobs`, a
missing one is not accepted. Together they do (the row stays "processing" and the
re-enqueue fails), and each of these does alone: an error in `dequeue` after the pop,
in the first read of a spawned task, or a crash while a job is running. Setting
`Faults` to such a set and dropping the premise shows each.

## 4. Proofs

All proofs are checked by TLAPS to the last leaf, for every value of the constants;
they rest on the constants' named assumptions only (operations among those known, null
values outside the sets they complete, finite sets of mints where mints are counted, and in
`Import` that each collection Hub created has an address of its own on the chain).

Every invariant and every action property that a passing run checks is also a theorem; what the
runs alone show is liveness.

* **MintLifecycleProofs.** `TypeCorrect`, `OnlyMintedIsShown` (`CreatedIsOnChain`),
  `HistoryIsOfChain` (`HistoryIsOnChain`), `OnlyMintedIsCharged` (`ConfirmedIsOnChain`),
  `ChargesAreFair` (`SubmissionsPaid`), `QueueIsUntouched`. None of these is inductive: what a handler writes depends on what
  it read some steps earlier, and what a request submits on the deduction it holds.
  `IInv` says what each holder of stale values still knows. The ideas are: a deduction that
  was ever assigned to a mint stays with it (`Paid`); a mint that has left the queue
  never returns (`Taken`); no two requests hold the same deduction and none holds one
  already submitted by a request (`HeldOK`); a handler past its read has the history
  row and the deduction of its own submission's mint (`HandlerOK`). One lemma per
  action shows that it is preserved.
  `LifecycleKeepsPromise`: every step of `MintLifecycle` maps to a step of `MintPromise` or
  to a stutter. `MintPromise` may take a status back (`Hide`), because the code does.
  `AcknowledgedSuccessIsRecorded` (`AcknowledgedIsRecorded`) and `CreatedMintIsPaid`
  (`CreatedIsConfirmed`) need more than `IInv`. The first says that the mint and one of its
  history rows have *a* signature of an executed transaction of the mint and that *a* deduction
  of it is confirmed, not that they are those of the result acknowledged last: a mint that was
  submitted twice has two results, and either may be the one recorded. `RecordedOK` says what the handler of a
  success has left behind by the point it has reached, `FreshRow` that a history row is
  inserted only where none is, so that nothing recorded is replaced. The deduction a handler
  read may no longer be the one the mint's row names: `NamedOK` says that then two requests
  have taken the mint from the queue, which is just what `CreatedIsConfirmed` excepts.
  `HistoryIsUnique` and `HistoryIsUniqueAlone` (`OneHistoryPerMint`) say when the
  history row is one: as long as each request that takes a queued mint finds it still queued
  (`TakesFindQueued`), and in particular when requests do not overlap at all; then the
  deduction that a created mint's row names is the confirmed one without exception
  (`CreatedMintIsPaidByItsRow`). With the run
  `queue_race`, in which it is two, this says that the check and the take in
  mint.rs:1010-1086 are the one place where a second row can come from.
* **JobQueueProofs.** `QueueTypeCorrect`, `RowsAreTrue`, `JobsRunOnce`,
  `NothingAcceptedIsLost`, `QueueKeepsPromise`. `JInv` says that a job is in at most one of
  three places (an enqueue in progress, the list, the loop's hands), is queued and
  unspawned while it is, and never queued afterwards. `Kept` adds who carries an
  accepted task.
* **DropMintingProofs.** `DropTypeCorrect`, `StatusAndCheckAgree`, `ShutdownStays`,
  `EditionsStayWithinTotal`, `EditionsUniqueInTurn` (`UniqueInTurn`), `InTurnNotOversold`
  (`NotOversold`) and `InTurnSoldOut` (`SoldOutIsFinal`), for any number of requests of every kind,
  mints of `mint_to_collection` and switches included; the last three under their conditions. The
  strengthening says that until two requests overlap at most one client has one, and that the
  number it counted is still the next one when it is inserted (`CountedIsNext`): a switch
  lowers the count between the two, which is why it is among the conditions.
* **CreationProofs.** `CreationTypeCorrect`, `ShownIsOnChain` (`ShownIsBacked`),
  `ShownIsPaid` (`PaidIfShown`), `ToldIsTrue` (`ToldIsOnChain`),
  `AcknowledgedSuccessIsRecorded` (`AcknowledgedIsRecorded`). `CInv`
  adds what each delivery has done by the point it has reached (`Handled`). The last needs
  `DInv`: a collection that has been submitted, or has a job, is not created a second time
  (`CreatedOnce`), and a `retry_drop` that has still to write PENDING has submitted the drop
  once more (`RetriedBy`), so neither takes back what was written of a drop submitted once.
  `CreationKeepsPromise`: every step of `Creation` maps to a step of `CreationPromise` or to a
  stutter. A step of the promise needs what the step before it left (`Show` that the services
  were told, `Open` that there is an address), and in `Creation` it is the handler's place
  that tells so; `ToldFirst` adds the one link that `DInv` lacks. The rows may be taken back
  (`Hide`, `Close`), because a failure reported late and `retry_drop` do so; a second
  `Commit` would take back more, and `CreatedOnce` excludes it.
* **AssetChangesProofs.** `TypeCorrect`, and every property of the run `changes`:
  `PaidOnChain`, `CreatedIsPaid`, `ResultsAreRecorded`, `CollectionIsOnChain`,
  `OwnerIsFromChain`, `UpdatesAreWhole`, `UriIsOwed`. The invariant has three parts.
  `Shape` says what a request's mutation and progress tell about its history, deduction, job
  and submission; types hold only with it (a handler looks up the request of a
  submission). `Charged` says what a delivery has done by the point it has reached, and
  that a request has one switch at most, so that no other delivery takes back what was
  written. `Rows` says that a row's versions were committed for that row, that a creator which a commit replaced is never again among the row's
  (`FoundOK`, `Replaced`; what an overlapping transaction inserted may be), that whatever a
  commit finds in place was committed before it (so the relation "older" has no cycles), and that
  the job of a patch that holds the row is waiting: without the last part a job could
  save its uri first and the commit could remove it for good.

* **ImportProofs.** `ImportTypeCorrect`, `HalfImportIsOpen` (`HalfImportedIsOpen`),
  `OthersStay` (`OtherProjectsStay`), for any number of projects, requests and imports at
  the same time. A handler knows only how far it got, and what it inserted may be deleted
  meanwhile by another import; `Answered` says, for every row, which message still has to
  bring what the row lacks. `NamesGiven` and `Kept` say that an id belongs to one project
  and address for good, so a request that found it deletes nothing of anybody else.
  `UndisturbedImportsOnce` (`ImportedOnce`) and `UndisturbedLeavesNothing` (`NoLeftovers`)
  are about the pairs outside `raced`, those whose imports were not repeated before they were
  over. `UInv` says of such a pair that one thing at a time happens to it, a request or the
  handlers of one announcement (`Alone`); that all that is there is of the announcement being
  handled, that a request which is to send finds nothing left, and that one which is to
  replace has read every mint there is (`FromOne`); and that no handler is about to insert
  metadata whose row is gone (`Clean`). Nobody else's import disturbs this, since a row is
  deleted by its own pair's only.
* **CollectionCacheProofs.** `CacheTypeCorrect`, `NumbersAreNotAhead`
  (`NeverAhead`), `StaleIsExplained` (`Current`), for any finite set of mints and any
  collections and requests. A number that was counted stays within what the collection has
  ever had, because `been` only grows and mints do not return to the queue; `RequestOK` says this of a
  loader's number that is still to be set. `Current` is not inductive: what a loader is about to set may be old as well
  (`LoaderFine`). `Fine` says of both numbers that they are current, or owed a deletion, or
  have an excuse noted, and is preserved step by step: a commit that changes a count leaves a request that owes the
  deletion, or is a silent one, which is noted (`CommitFine`).
* **InputChecksProofs.** `ChecksTypeCorrect`, `RefusedLate` (`ChargedIsStored`),
  `VerifiedAreOurs` (`VerifiedIsOurs`), `CreatorsOfOneRequest` (`CreatorsAreOneRequests`),
  for all inputs. What was checked against the wallets stays true because wallets are only
  added. `Apart` says that two transactions that both replace a row's creators have put it among
  `raced`; for all other rows what a transaction did not see is nothing, and it leaves just
  its own creators.

Only model-checked: liveness (`SubmissionAnswered`, `SuccessIsReported`, `ToldIsShown`,
`AcceptedIsProcessed`, `ImportCompletes`), because the prover can show nothing that needs
fairness or ENABLED.

## 5. Where the code disagrees with its own words

* `queue_race`: two requests read the same queued mint and both take it: two
  deductions, two history rows, two submissions (mint.rs:1010-1086).
* `drop_editions`: two concurrent `mint_edition` get the same edition number
  (mint.rs:96-134); on the last mint of a supply the drop is oversold, and since the
  supply is compared with `==` (mint.rs:102) it is unlimited from then on.

## 6. Further disagreements

These are stated as properties in the modules and have no run in `PROJECT.json`. To
see one, put the property in place of those of the run named.

| property | run | counterexample |
|---|---|---|
| `SubmissionAnswered` (MintLifecycle), without `HasHistory` | `mint_live` | an edition whose request stopped after its first insert (mint.rs:134) has no history row; `retry_mint_edition` submits it, and the handler of the result fails on each delivery (events.rs:708) |
| `CreatedIsNotRetried` (MintLifecycle) | `mint_race` | `retry_mint_edition` checks the status, deducts, sends, and then writes PENDING (mint.rs:399) over a mint that was created meanwhile |
| `CreatedIsNotRetried` (Creation) | `creation_retries` | the same in `retry_drop` (drop.rs:292) |
| `OnlyFailedIsRetried` (Creation) | `creation_retries`, with 3 submissions and no drop | two retries of a failed collection pass the check of collection.rs:183 and both are submitted |
| `SoldOutIsFinal` (DropMinting), without `~overlapped` | `drop_editions`, with a supply of 1 and 3 mints | the comparison with `==` described above |
| `UniqueInTurn` (DropMinting), without `NoneSwitched` | `drop` | a switch takes a mint out of the drop's collection, the count goes down and `mint_edition` gives the number of a mint that is there (mint.rs:96) |
| `NotOversold` (DropMinting), without `AllNumbered` | `drop` | `mint_to_collection` (and the queue) add mints to a drop's collection and look at no supply (mint.rs:440-491) |
| `MintedIsComplete` (DropMinting) | `drop` | the supply shown of an open drop is the number of its mints (dataloaders/collection.rs:178-216), so with none queued it is shown MINTED while `mint_edition` accepts |
| `ToldIsShown` (Creation), without `SubmittedOnce` | `creation_retries` | `retry_drop` sends, the answer is announced and written, and then the mutation writes PENDING (drop.rs:292-294): the drop stays so though other services were told COMPLETED |
| `StoppedIsNotMinted` (DropMinting) | `drop` | a queued mint is minted while the drop is paused or shut down (mint.rs:1017), and `mint_to_collection` mints to its collection, although `objects/drop.rs:227-229` says it cannot be |
| `SettledUri` (AssetChanges) | `changes` | two uploads of one row end in the other order, and the row keeps the uri of the older content |
| `UriIsCommitted`, `PatchIsWhole` (AssetChanges) | `changes` | `patch_drop` enqueues before it commits (drop.rs:504): the job reads the rows before the patch, and runs although the patch is rolled back |
| `UpdateIsAlone` (AssetChanges) | `changes` | of two overlapping `update_mint` the later commit leaves the creators of the earlier (mint.rs:656-665), and its job submits both |
| `FeeIsSubmitted` (AssetChanges) | `changes` | `UpdateMint::after` sends the collection's fee (upload task, line 401), not the one that `update_mint` stored |
| `RetryIsOfSubmitted` (AssetChanges) | `changes` | `retry_update_mint` retries an update whose job is still open |
| `CreatedIsNotRetried` (AssetChanges) | `changes` | the same as above in `retry_update_mint` (mint.rs:723) |
| `OwnerSettles` (AssetChanges) | `changes`, with `MaxMoves = 2` | the events of two changes are handled in the other order, or the older one again |
| `TransferIsRecordedOnce`, `SenderWasOwner` (AssetChanges) | `changes`, the latter with `MaxMoves = 2` | a delivery that fails after the insert inserts again; on Polygon the sender is the owner in the row, which need not be the sender on the chain |
| `NeverStale` (CollectionCache) | `cache` | a loader counts, a mint commits and deletes the entry, the loader sets its old count, which nothing expires; also: the batch (mint.rs:1305-1491), a switch (events.rs:915) and an import (collection.rs:301, events.rs:440) delete no entry |
| `SupplyIsShown` (CollectionCache) | `cache` | the inner join of dataloaders/collection.rs:173 finds no collection without a drop, and the field `supply` is an error |
| `DeletedIsAnnounced` (Import) | `import` | the deletion is committed (collection.rs:303), then the message is sent (collection.rs:306): an error between leaves the project without its collection |
| `DropsStay` (Import) | `import` | importing the address of a collection that Hub created deletes its drop and the histories of its mints |
| `ImportedOnce`, `NoLeftovers` (Import), without `raced` | `import` | an import that is asked for again before the first is over makes a second collection, mints that nobody deletes, or metadata without an owner, at which the next import fails |
| `ImportCompletes` (Import), without `"again"` | `import` | a handler that failed after its first insert meets its own row on every delivery (events.rs:361) |
| `CreatorsAreOneRequests` (InputChecks), without `raced` | `checks` | two patches of one row: it keeps the creators of both |

Some more belong to `InputChecks` and are part of its definitions:

* Shares are summed in a `u8` (collection.rs:677). The Dockerfile builds with `--release`,
  where the sum wraps: creators with 200 and 156 percent are accepted. A debug build
  panics.
* A fee above what its column holds is an error after the deduction, except in
  `update_mint`, which stores 0 (mint.rs:668).
* "Name must be less than 32 characters" (collection.rs:763) is said of names above 32.
* The comment of `CreateCollectionInput::validate` (collection.rs:629-633) lists checks of the
  supply and the end time; the input has neither.
* The patches insert with `insert_many`, which stores an EVM address as it was
  given, while the mutations that create store it in lower case.

## 7. Not modelled, and the plan

In this order:

1. Liveness of `AssetChanges` (an update that is charged is answered), with an abstract
   specification of what an update promises, as `MintPromise` is for mints.
2. `MintToCollection::after`, which takes the collection's fee for a mint's, with fees
   in `MintLifecycle`.
3. The blockchain as a part of a mint in `MintLifecycle`: the results that `process` does
   not route (events.rs:307), and the queued mints that are taken and then sent nowhere on
   Polygon (mint.rs:1114).

Left out for good: the GraphQL objects, queries and dataloaders that only read, the
builders of Kafka messages (`blockchains/`), the uploads client, HTTP, metrics and
health checks, customers' wallets (inserted, and read by queries only) and the migrations, which are
schema. The models use the schema's defaults and keys.
