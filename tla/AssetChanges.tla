---------------------------- MODULE AssetChanges ----------------------------
(***************************************************************************)
(* What is done to a mint and to collections that exist already:           *)
(* update_mint, retry_update_mint (api/src/mutations/mint.rs),             *)
(* transfer_asset (mutations/transfer.rs), switch_collection and           *)
(* patch_collection (mutations/collection.rs), patch_drop                  *)
(* (mutations/drop.rs), the upload jobs of updates and patches             *)
(* (background_worker/tasks/metadata_json_upload_task.rs), and the         *)
(* handlers of their results and of changes of ownership (events.rs).      *)
(*                                                                         *)
(* Contents, creators and fees are told apart by the request that set      *)
(* them; the uri of an upload by the request whose job made it.  Optional  *)
(* inputs of a request are given, but for the metadata of a patch.  The    *)
(* mint is created, of no edition and not compressed, and the collections  *)
(* belong to one project, so the checks of these facts let everyone pass.  *)
(***************************************************************************)
EXTENDS Naturals, Sequences

CONSTANTS
  Requests,     \* GraphQL requests; each names the row, deduction and job it makes
  Submissions,  \* requests the blockchain services can receive (a bound)
  Collections,  \* collections the mint can be in
  Wallets,
  HubWallets,   \* those in customer_wallets
  MaxMoves,     \* changes of ownership on the chain (a bound)
  MaxCopies,    \* repeated rows in nft_transfers for one change (a bound)
  Ops,          \* the mutations that are called
  Mint,         \* the metadata_jsons row, creators and fee of the mint
  First,        \* the version of an asset before all requests
  NoUri, NoAsset, NoRequest, NoWallet, NoData

Patches == {"patch", "patch_metadata"}
AllOps == {"update_mint", "retry_update_mint", "transfer_asset", "switch_collection"}
            \cup Patches

ASSUME OpsAssumption == Ops \subseteq AllOps
ASSUME BoundsAssumption == MaxMoves \in Nat /\ MaxCopies \in Nat
ASSUME HubAssumption == HubWallets \subseteq Wallets
ASSUME MintAssumption == Mint \notin Collections
ASSUME FirstAssumption == First \notin Requests
ASSUME NoUriAssumption == NoUri \notin Requests \cup {First}

VARIABLES
  blockchain,  \* collections.blockchain, the same for all of them
  asset,       \* rows of metadata_jsons, *_creators and seller_fee_basis_points
  mint,        \* collection_mints: owner and collection
  history,     \* update_histories, switch_collection_histories, transfer_charges
  charge,      \* the request's deduction
  request,     \* GraphQL requests
  job,         \* upload tasks
  submission,  \* what the blockchain services were asked to do, and the outcome
  handler,     \* one delivery of a submission's result
  owners,      \* the chain's history of the mint's owners
  notice,      \* the event about a change of ownership
  transfers,   \* nft_transfers: the senders of the rows about a change
  before       \* ghost: the versions a request found in place when it committed

vars == <<blockchain, asset, mint, history, charge, request, job, submission, handler,
          owners, notice, transfers, before>>

Assets == Collections \cup {Mint}
Version == Requests \cup {First}
\* The creators are a set of rows: those of overlapping requests stay together.
Asset == [content: Version, uri: Version \cup {NoUri}, creators: SUBSET Version, fee: Version]
Status == {"absent", "pending", "created", "failed"}
Request == [op: AllOps \cup {"none"},
            pc: {"idle", "deduct", "delete", "commit", "enqueue", "record", "send", "reset",
                 "transaction", "done", "stopped"},
            asset: Assets \cup {NoAsset},       \* what it changes, or switches to
            of: Requests \cup {NoRequest},      \* the update that is retried
            from: Wallets \cup {NoWallet}, to: Wallets \cup {NoWallet},
            seen: Version, uri: Version \cup {NoUri},  \* the row a patch read
            found: SUBSET Version]              \* the creators that its DELETE removes
Job == [pc: {"none", "queued", "read", "saved", "done"},
        content: Version, creators: SUBSET Version, fee: Version]
Data == [content: Version, uri: Version \cup {NoUri}, creators: SUBSET Version, fee: Version]
Submission == [kind: {"unused", "update", "retry", "patch", "transfer", "switch"},
               request: Requests \cup {NoRequest}, data: Data \cup {NoData},
               outcome: {"waiting", "success", "failure"}]
Delivery == {"waiting", "moved", "confirmed", "written", "acked"}
Moves == 1..MaxMoves
Notice == [pc: {"waiting", "read", "owned", "recorded", "acked"},
           sender: Wallets \cup {NoWallet}]

Idle == [op |-> "none", pc |-> "idle", asset |-> NoAsset, of |-> NoRequest,
         from |-> NoWallet, to |-> NoWallet, seen |-> First, uri |-> NoUri, found |-> {}]
Unsent == [kind |-> "unused", request |-> NoRequest, data |-> NoData, outcome |-> "waiting"]

TypeOK ==
  /\ blockchain \in {"solana", "polygon"}
  /\ asset \in [Assets -> Asset]
  /\ mint \in [owner: Wallets, collection: Collections]
  /\ history \in [Requests -> Status]
  /\ charge \in [Requests -> {"none", "pending", "confirmed"}]
  /\ request \in [Requests -> Request]
  /\ job \in [Requests -> Job]
  /\ submission \in [Submissions -> Submission]
  /\ handler \in [Submissions -> Delivery]
  /\ owners \in Seq(Wallets) /\ Len(owners) \in 1..(MaxMoves + 1)
  /\ notice \in [Moves -> Notice]
  /\ transfers \in [Moves -> Seq(Wallets)]
  /\ before \in [Requests -> SUBSET Version]

Init ==
  /\ blockchain \in {"solana", "polygon"}
  /\ asset = [a \in Assets |-> [content |-> First, uri |-> First, creators |-> {First},
                                fee |-> First]]
  /\ mint \in [owner: Wallets, collection: Collections]
  /\ history = [r \in Requests |-> "absent"]
  /\ charge = [r \in Requests |-> "none"]
  /\ request = [r \in Requests |-> Idle]
  /\ job = [r \in Requests |-> [pc |-> "none", content |-> First, creators |-> {First},
                                fee |-> First]]
  /\ submission = [s \in Submissions |-> Unsent]
  /\ handler = [s \in Submissions |-> "waiting"]
  /\ owners = <<mint.owner>>
  /\ notice = [i \in Moves |-> [pc |-> "waiting", sender |-> NoWallet]]
  /\ transfers = [i \in Moves |-> <<>>]
  /\ before = [r \in Requests |-> {}]


\* A request that has been accepted: its first checks passed.
Begin(r, op, fields) ==
  /\ op \in Ops
  /\ request[r] = Idle
  /\ request' = [request EXCEPT ![r] = fields]

\* A message to hub-nfts-solana or hub-nfts-polygon.
Submit(s, kind, r, data) ==
  /\ submission[s] = Unsent
  /\ submission' = [submission EXCEPT ![s] = [kind |-> kind, request |-> r, data |-> data,
                                              outcome |-> "waiting"]]

-----------------------------------------------------------------------------
(* The steps that update_mint, transfer_asset and switch_collection share. *)

Deduct(r) ==
  /\ request[r].pc = "deduct"
  /\ charge' = [charge EXCEPT ![r] = "pending"]
  /\ request' = [request EXCEPT ![r].pc =
                   IF request[r].op = "update_mint" THEN "delete" ELSE "record"]
  /\ UNCHANGED <<blockchain, asset, mint, history, job, submission, handler, owners,
                 notice, transfers, before>>

\* Any early return after the first checks.  An open transaction is rolled back.
GiveUp(r) ==
  /\ request[r].pc \notin {"idle", "done", "stopped"}
  /\ request' = [request EXCEPT ![r].pc = "stopped"]
  /\ UNCHANGED <<blockchain, asset, mint, history, charge, job, submission, handler, owners,
                 notice, transfers, before>>

-----------------------------------------------------------------------------
(* update_mint and patches: the rows, and the job that uploads the content.*)

Older(v) == IF v = First THEN {First} ELSE before[v] \cup {v}

\* What is in place when a request's own rows go in.
InPlace(a) ==
  UNION {Older(v) : v \in {asset[a].content, asset[a].fee} \cup asset[a].creators}

\* In READ COMMITTED the DELETE removes the creators that were there when it started, and
\* none that another transaction, which it may have waited for, has inserted since.
DeleteCreators(r) ==
  /\ request[r].pc = "delete"
  /\ request' = [request EXCEPT
       ![r].found = asset[request[r].asset].creators,
       ![r].pc = IF request[r].op = "update_mint" THEN "commit" ELSE "transaction"]
  /\ UNCHANGED <<blockchain, asset, mint, history, charge, job, submission, handler, owners,
                 notice, transfers, before>>

\* The request's creators are inserted beside what its DELETE has left.
Creators(r) == (asset[request[r].asset].creators \ request[r].found) \cup {r}

\* MetadataJsonInput::save: new content, and no uri until it is uploaded.
Save(r) == [content |-> r, uri |-> NoUri, creators |-> Creators(r), fee |-> r]

NewJob(r) == [job EXCEPT ![r].pc = "queued"]

BeginUpdate(r) ==
  /\ Begin(r, "update_mint", [Idle EXCEPT !.op = "update_mint", !.pc = "deduct",
                                          !.asset = Mint])
  /\ UNCHANGED <<blockchain, asset, mint, history, charge, job, submission, handler, owners,
                 notice, transfers, before>>

CommitUpdate(r) ==
  /\ request[r].pc = "commit" /\ request[r].op = "update_mint"
  /\ history' = [history EXCEPT ![r] = "pending"]
  /\ asset' = [asset EXCEPT ![Mint] = Save(r)]
  /\ before' = [before EXCEPT ![r] = InPlace(Mint)]
  /\ request' = [request EXCEPT ![r].pc = "enqueue"]
  /\ UNCHANGED <<blockchain, mint, charge, job, submission, handler, owners, notice,
                 transfers>>

\* Fault: the job is enqueued inside the transaction, as patches do it.
EnqueueUpdateEarly(r) ==
  /\ request[r].pc = "commit" /\ request[r].op = "update_mint"
  /\ job' = NewJob(r)
  /\ UNCHANGED <<blockchain, asset, mint, history, charge, request, submission, handler,
                 owners, notice, transfers, before>>

EnqueueUpdate(r) ==
  /\ request[r].pc = "enqueue"
  /\ job' = NewJob(r)
  /\ request' = [request EXCEPT ![r].pc = "done"]
  /\ UNCHANGED <<blockchain, asset, mint, history, charge, submission, handler, owners,
                 notice, transfers, before>>

\* A transaction that has deleted the metadata_jsons row keeps other writers of the
\* row waiting until it ends.
Locked(a) ==
  \E r \in Requests : /\ request[r].op = "patch_metadata" /\ request[r].asset = a
                      /\ request[r].pc = "commit"

BeginPatch(r, op, k) ==
  /\ Begin(r, op, [Idle EXCEPT !.op = op, !.pc = "delete", !.asset = k,
                               !.seen = asset[k].content, !.uri = asset[k].uri])
  /\ UNCHANGED <<blockchain, asset, mint, history, charge, job, submission, handler, owners,
                 notice, transfers, before>>

\* The row is replaced and the job is in the queue before the transaction is committed.
EnqueuePatch(r) ==
  /\ request[r].pc = "transaction" /\ request[r].op = "patch_metadata"
  /\ ~Locked(request[r].asset)
  /\ job' = NewJob(r)
  /\ request' = [request EXCEPT ![r].pc = "commit"]
  /\ UNCHANGED <<blockchain, asset, mint, history, charge, submission, handler, owners,
                 notice, transfers, before>>

\* Without new metadata the change is sent at once, with the metadata that was read.
SendPatch(r, s) ==
  /\ request[r].pc = "transaction" /\ request[r].op = "patch"
  /\ request[r].uri # NoUri
  /\ Submit(s, "patch", r, [content |-> request[r].seen, uri |-> request[r].uri,
                            creators |-> {r}, fee |-> r])
  /\ request' = [request EXCEPT ![r].pc = "commit"]
  /\ UNCHANGED <<blockchain, asset, mint, history, charge, job, handler, owners, notice,
                 transfers, before>>

CommitPatch(r) ==
  LET k == request[r].asset
  IN
  /\ request[r].pc = "commit" /\ request[r].op \in Patches
  /\ asset' = [asset EXCEPT ![k] = IF request[r].op = "patch_metadata" THEN Save(r)
                                   ELSE [@ EXCEPT !.creators = Creators(r), !.fee = r]]
  /\ before' = [before EXCEPT ![r] = InPlace(k)]
  /\ request' = [request EXCEPT ![r].pc = "done"]
  /\ UNCHANGED <<blockchain, mint, history, charge, job, submission, handler, owners,
                 notice, transfers>>

-----------------------------------------------------------------------------
(* The upload job.  It uploads the content of its own request and then runs*)
(* UpdateMint::after, PatchCollection::after or PatchDrop::after.          *)

\* For a mint, too, the fee is that of the collection.
ReadRows(r) ==
  LET a == request[r].asset
      k == IF a = Mint THEN mint.collection ELSE a
  IN
  /\ job[r].pc = "queued"
  /\ job' = [job EXCEPT ![r].pc = "read", ![r].creators = asset[a].creators,
                        ![r].fee = asset[k].fee]
  /\ UNCHANGED <<blockchain, asset, mint, history, charge, request, submission, handler,
                 owners, notice, transfers, before>>

\* The update sets the uri and returns the row as it is then.
SaveUri(r) ==
  LET a == request[r].asset
  IN
  /\ job[r].pc = "read"
  /\ ~Locked(a)
  /\ asset' = [asset EXCEPT ![a].uri = r]
  /\ job' = [job EXCEPT ![r].pc = "saved", ![r].content = asset[a].content]
  /\ UNCHANGED <<blockchain, mint, history, charge, request, submission, handler, owners,
                 notice, transfers, before>>

\* The job is completed, or, if that fails, queued again.
SubmitFromJob(r, s) ==
  /\ job[r].pc = "saved"
  /\ request[r].asset = Mint => blockchain = "solana"
  /\ Submit(s, IF request[r].asset = Mint THEN "update" ELSE "patch", r,
            [content |-> job[r].content, uri |-> r, creators |-> job[r].creators,
             fee |-> job[r].fee])
  /\ \E pc \in {"done", "queued"} : job' = [job EXCEPT ![r].pc = pc]
  /\ UNCHANGED <<blockchain, asset, mint, history, charge, request, handler, owners, notice,
                 transfers, before>>

\* Fault: a job that fails is not queued again.
JobFailsForGood(r) ==
  /\ job[r].pc \in {"read", "saved"}
  /\ job' = [job EXCEPT ![r].pc = "done"]
  /\ UNCHANGED <<blockchain, asset, mint, history, charge, request, submission, handler,
                 owners, notice, transfers, before>>

JobFails(r) ==
  /\ job[r].pc \in {"read", "saved"}
  /\ job' = [job EXCEPT ![r].pc = "queued"]
  /\ UNCHANGED <<blockchain, asset, mint, history, charge, request, submission, handler,
                 owners, notice, transfers, before>>

-----------------------------------------------------------------------------
(* retry_update_mint: free of charge.                                      *)

BeginRetry(r, u) ==
  /\ request[u].op = "update_mint" /\ history[u] \in {"pending", "failed"}
  /\ Begin(r, "retry_update_mint", [Idle EXCEPT !.op = "retry_update_mint",
                                                !.pc = "reset", !.of = u])
  /\ UNCHANGED <<blockchain, asset, mint, history, charge, job, submission, handler, owners,
                 notice, transfers, before>>

ResetToPending(r) ==
  /\ request[r].pc = "reset"
  /\ history' = [history EXCEPT ![request[r].of] = "pending"]
  /\ request' = [request EXCEPT ![r].pc = "send"]
  /\ UNCHANGED <<blockchain, asset, mint, charge, job, submission, handler, owners, notice,
                 transfers, before>>

SendRetry(r, s) ==
  /\ request[r].pc = "send" /\ request[r].op = "retry_update_mint"
  /\ blockchain = "solana"
  /\ Submit(s, "retry", request[r].of, NoData)
  /\ request' = [request EXCEPT ![r].pc = "done"]
  /\ UNCHANGED <<blockchain, asset, mint, history, charge, job, handler, owners, notice,
                 transfers, before>>

-----------------------------------------------------------------------------
(* transfer_asset and switch_collection.                                   *)

BeginTransfer(r, w) ==
  /\ mint.owner \in HubWallets
  /\ Begin(r, "transfer_asset", [Idle EXCEPT !.op = "transfer_asset", !.pc = "deduct",
                                             !.from = mint.owner, !.to = w])
  /\ UNCHANGED <<blockchain, asset, mint, history, charge, job, submission, handler, owners,
                 notice, transfers, before>>

BeginSwitch(r, k) ==
  /\ k # mint.collection
  /\ Begin(r, "switch_collection", [Idle EXCEPT !.op = "switch_collection", !.pc = "deduct",
                                                !.asset = k])
  /\ UNCHANGED <<blockchain, asset, mint, history, charge, job, submission, handler, owners,
                 notice, transfers, before>>

\* Only after the deduction does switch_collection look at the blockchain.
Record(r) ==
  /\ request[r].pc = "record"
  /\ request[r].op = "switch_collection" => blockchain = "solana"
  /\ history' = [history EXCEPT ![r] = "pending"]
  /\ request' = [request EXCEPT ![r].pc = "send"]
  /\ UNCHANGED <<blockchain, asset, mint, charge, job, submission, handler, owners, notice,
                 transfers, before>>

\* Fault: the mint's owner is set when the transfer is sent.
SendAndOwn(r, s) ==
  /\ request[r].pc = "send" /\ request[r].op \in {"transfer_asset", "switch_collection"}
  /\ Submit(s, IF request[r].op = "transfer_asset" THEN "transfer" ELSE "switch", r, NoData)
  /\ mint' = IF request[r].op = "transfer_asset" THEN [mint EXCEPT !.owner = request[r].to]
             ELSE mint
  /\ request' = [request EXCEPT ![r].pc = "done"]
  /\ UNCHANGED <<blockchain, asset, history, charge, job, handler, owners, notice, transfers,
                 before>>

Send(r, s) ==
  /\ request[r].pc = "send" /\ request[r].op \in {"transfer_asset", "switch_collection"}
  /\ Submit(s, IF request[r].op = "transfer_asset" THEN "transfer" ELSE "switch", r, NoData)
  /\ request' = [request EXCEPT ![r].pc = "done"]
  /\ UNCHANGED <<blockchain, asset, mint, history, charge, job, handler, owners, notice,
                 transfers, before>>

-----------------------------------------------------------------------------
(* The blockchain services, external.  A transfer needs its sender to be   *)
(* the owner, a retry an update that it can repeat.                        *)

Owner == owners[Len(owners)]

Updates(r) == {s \in Submissions : submission[s].kind = "update" /\ submission[s].request = r}

Execute(s) ==
  LET r == submission[s].request
      IsTransfer == submission[s].kind = "transfer"
  IN
  /\ submission[s].kind \notin {"unused", "patch"} /\ submission[s].outcome = "waiting"
  /\ \/ /\ IsTransfer => Owner = request[r].from /\ Len(owners) <= MaxMoves
        /\ submission[s].kind = "retry" => Updates(r) # {}
        /\ submission' = [submission EXCEPT ![s].outcome = "success"]
        /\ owners' = IF IsTransfer THEN Append(owners, request[r].to) ELSE owners
     \/ /\ submission' = [submission EXCEPT ![s].outcome = "failure"]
        /\ UNCHANGED owners
  /\ UNCHANGED <<blockchain, asset, mint, history, charge, request, job, handler, notice,
                 transfers, before>>

\* A sale or transfer that hub-nfts has no part in.
Move(w) ==
  /\ Len(owners) <= MaxMoves
  /\ w # Owner
  /\ owners' = Append(owners, w)
  /\ UNCHANGED <<blockchain, asset, mint, history, charge, request, job, submission, handler,
                 notice, transfers, before>>

-----------------------------------------------------------------------------
(* mint_updated, mint_transferred and switch_collection_submitted.         *)

Result(s, outcome) ==
  submission[s].kind \notin {"unused", "patch"} /\ submission[s].outcome = outcome

\* Fault: the mint is moved whatever the result.
SwitchMintAnyhow(s) ==
  /\ submission[s].kind = "switch" /\ submission[s].outcome # "waiting"
  /\ handler[s] = "waiting"
  /\ mint' = [mint EXCEPT !.collection = request[submission[s].request].asset]
  /\ handler' = [handler EXCEPT ![s] = "moved"]
  /\ UNCHANGED <<blockchain, asset, history, charge, request, job, submission, owners,
                 notice, transfers, before>>

\* A switch moves the mint before it confirms the deduction.
SwitchMint(s) ==
  /\ Result(s, "success") /\ submission[s].kind = "switch"
  /\ handler[s] = "waiting"
  /\ mint' = [mint EXCEPT !.collection = request[submission[s].request].asset]
  /\ handler' = [handler EXCEPT ![s] = "moved"]
  /\ UNCHANGED <<blockchain, asset, history, charge, request, job, submission, owners,
                 notice, transfers, before>>

\* Fault: a failed result confirms the deduction as well.
ConfirmAnyDeduction(s) ==
  /\ submission[s].kind \notin {"unused", "patch"} /\ submission[s].outcome # "waiting"
  /\ handler[s] = IF submission[s].kind = "switch" THEN "moved" ELSE "waiting"
  /\ charge' = [charge EXCEPT ![submission[s].request] = "confirmed"]
  /\ handler' = [handler EXCEPT ![s] = "confirmed"]
  /\ UNCHANGED <<blockchain, asset, mint, history, request, job, submission, owners, notice,
                 transfers, before>>

ConfirmDeduction(s) ==
  /\ Result(s, "success")
  /\ handler[s] = IF submission[s].kind = "switch" THEN "moved" ELSE "waiting"
  /\ charge' = [charge EXCEPT ![submission[s].request] = "confirmed"]
  /\ handler' = [handler EXCEPT ![s] = "confirmed"]
  /\ UNCHANGED <<blockchain, asset, mint, history, request, job, submission, owners, notice,
                 transfers, before>>

WriteHistory(s) ==
  /\ submission[s].kind # "transfer"
  /\ \/ /\ Result(s, "success") /\ handler[s] = "confirmed"
        /\ history' = [history EXCEPT ![submission[s].request] = "created"]
     \/ /\ Result(s, "failure") /\ handler[s] = "waiting"
        /\ history' = [history EXCEPT ![submission[s].request] = "failed"]
  /\ handler' = [handler EXCEPT ![s] = "written"]
  /\ UNCHANGED <<blockchain, asset, mint, charge, request, job, submission, owners, notice,
                 transfers, before>>

\* Fault: the handler returns when the deduction is confirmed.
AcknowledgeConfirmed(s) ==
  /\ handler[s] \in {"confirmed", "written"}
  /\ handler' = [handler EXCEPT ![s] = "acked"]
  /\ UNCHANGED <<blockchain, asset, mint, history, charge, request, job, submission, owners,
                 notice, transfers, before>>

Acknowledge(s) ==
  /\ \/ handler[s] = "written"
     \/ submission[s].kind = "transfer" /\ handler[s] = "confirmed"
     \/ submission[s].kind = "transfer" /\ Result(s, "failure") /\ handler[s] = "waiting"
  /\ handler' = [handler EXCEPT ![s] = "acked"]
  /\ UNCHANGED <<blockchain, asset, mint, history, charge, request, job, submission, owners,
                 notice, transfers, before>>

HandlerFails(s) ==
  /\ handler[s] \in {"moved", "confirmed", "written"}
  /\ handler' = [handler EXCEPT ![s] = "waiting"]
  /\ UNCHANGED <<blockchain, asset, mint, history, charge, request, job, submission, owners,
                 notice, transfers, before>>

-----------------------------------------------------------------------------
(* update_mint_owner and update_polygon_mints_owner.                       *)

Changed(i) == i < Len(owners)

\* On Solana the row of the mint, then the row of the transfer.
SetOwner(i) ==
  /\ blockchain = "solana" /\ Changed(i) /\ notice[i].pc = "waiting"
  /\ mint' = [mint EXCEPT !.owner = owners[i + 1]]
  /\ notice' = [notice EXCEPT ![i].pc = "owned"]
  /\ UNCHANGED <<blockchain, asset, history, charge, request, job, submission, handler,
                 owners, transfers, before>>

InsertTransfer(i) ==
  /\ notice[i].pc = "owned"
  /\ transfers' = [transfers EXCEPT ![i] = Append(@, owners[i])]
  /\ notice' = [notice EXCEPT ![i].pc = "recorded"]
  /\ UNCHANGED <<blockchain, asset, mint, history, charge, request, job, submission, handler,
                 owners, before>>

\* On Polygon both in a transaction; the sender is the owner it found before.
ReadOwner(i) ==
  /\ blockchain = "polygon" /\ Changed(i) /\ notice[i].pc = "waiting"
  /\ notice' = [notice EXCEPT ![i] = [pc |-> "read", sender |-> mint.owner]]
  /\ UNCHANGED <<blockchain, asset, mint, history, charge, request, job, submission, handler,
                 owners, transfers, before>>

WriteOwner(i) ==
  /\ notice[i].pc = "read"
  /\ mint' = [mint EXCEPT !.owner = owners[i + 1]]
  /\ transfers' = [transfers EXCEPT ![i] = Append(@, notice[i].sender)]
  /\ notice' = [notice EXCEPT ![i] = [pc |-> "recorded", sender |-> NoWallet]]
  /\ UNCHANGED <<blockchain, asset, history, charge, request, job, submission, handler,
                 owners, before>>

NoticeDone(i) ==
  /\ notice[i].pc = "recorded"
  /\ notice' = [notice EXCEPT ![i].pc = "acked"]
  /\ UNCHANGED <<blockchain, asset, mint, history, charge, request, job, submission, handler,
                 owners, transfers, before>>

NoticeFails(i) ==
  /\ notice[i].pc \in {"read", "owned", "recorded"}
  /\ Len(transfers[i]) < MaxCopies
  /\ notice' = [notice EXCEPT ![i] = [pc |-> "waiting", sender |-> NoWallet]]
  /\ UNCHANGED <<blockchain, asset, mint, history, charge, request, job, submission, handler,
                 owners, transfers, before>>

-----------------------------------------------------------------------------

RequestStep(r) ==
  \/ Deduct(r) \/ GiveUp(r)
  \/ BeginUpdate(r) \/ DeleteCreators(r) \/ CommitUpdate(r) \/ EnqueueUpdate(r)
  \/ \E op \in Patches, k \in Collections : BeginPatch(r, op, k)
  \/ EnqueuePatch(r) \/ CommitPatch(r)
  \/ \E u \in Requests : BeginRetry(r, u)
  \/ ResetToPending(r)
  \/ \E w \in Wallets : BeginTransfer(r, w)
  \/ \E k \in Collections : BeginSwitch(r, k)
  \/ Record(r)
  \/ \E s \in Submissions : SendPatch(r, s) \/ SendRetry(r, s) \/ Send(r, s)

JobStep(r) == ReadRows(r) \/ SaveUri(r) \/ \E s \in Submissions : SubmitFromJob(r, s)

HandlerStep(s) == SwitchMint(s) \/ ConfirmDeduction(s) \/ WriteHistory(s) \/ Acknowledge(s)

NoticeStep(i) ==
  SetOwner(i) \/ InsertTransfer(i) \/ ReadOwner(i) \/ WriteOwner(i) \/ NoticeDone(i)

Next ==
  \/ \E r \in Requests : RequestStep(r) \/ JobStep(r) \/ JobFails(r)
  \/ \E s \in Submissions : Execute(s) \/ HandlerStep(s) \/ HandlerFails(s)
  \/ \E w \in Wallets : Move(w)
  \/ \E i \in Moves : NoticeStep(i) \/ NoticeFails(i)

Spec == Init /\ [][Next]_vars

-----------------------------------------------------------------------------
(* Properties.                                                             *)

\* What an update submits is not older than the update: its content is its own or that of
\* an update committed later, none of the creators that it replaced is among those it
\* submits, and they are not all older than it, because update_mint enqueues the job after
\* its commit (mint.rs:673-683).
UpdateIsWhole ==
  \A s \in Submissions : submission[s].kind = "update" =>
    LET data == submission[s].data
        r == submission[s].request
    IN /\ data.content \notin before[r]
       /\ data.creators \cap request[r].found = {}
       /\ ~(data.creators \subseteq before[r])

\* A row without uri is owed one: the job of its content is still to save it, or has not
\* been enqueued, and then the request that has to do so is an update (a patch enqueues
\* first; its job waits for the transaction).
NoUriIsOpen ==
  \A a \in Assets : asset[a].uri = NoUri =>
    LET r == asset[a].content
    IN /\ r # First
       /\ \/ job[r].pc \in {"queued", "read"}
          \/ job[r].pc = "none" /\ a = Mint /\ request[r].pc \in {"enqueue", "stopped"}

Succeeded(r, kinds) ==
  \E s \in Submissions : /\ submission[s].request = r /\ submission[s].kind \in kinds
                         /\ submission[s].outcome = "success"

\* A deduction is confirmed only for what happened on the chain, whichever handler
\* confirms it and however often a failed delivery is repeated.
ConfirmedIsOnChain ==
  \A r \in Requests : charge[r] = "confirmed" =>
    Succeeded(r, {"update", "retry", "transfer", "switch"})

\* An update or a switch that is shown as created is paid for: the handlers confirm the
\* deduction before they write the status (events.rs:879-887, 913-927).
CreatedIsConfirmed == \A r \in Requests : history[r] = "created" => charge[r] = "confirmed"

\* Nothing of a result that was acknowledged is missing, whichever step of the handler
\* failed before: a success is charged, and a switch has its outcome in its history.
AcknowledgedIsRecorded ==
  \A s \in Submissions : handler[s] = "acked" =>
    LET r == submission[s].request
        success == submission[s].outcome = "success"
    IN /\ success => charge[r] = "confirmed"
       /\ submission[s].kind = "switch" =>
            history[r] = IF success THEN "created" ELSE "failed"

\* A mint moves only to a collection that a switch put it in on the chain.
CollectionFollowsChain ==
  [][mint'.collection # mint.collection =>
       \E r \in Requests : request[r].asset = mint'.collection /\ Succeeded(r, {"switch"})]_vars

\* The owner shown is one that the chain has had: transfer_asset leaves the owner to the
\* events about changes of ownership.
OwnerWasOnChain == \E i \in 1..Len(owners) : owners[i] = mint.owner

-----------------------------------------------------------------------------
(* Properties one would want and the code does not have: TLC finds each of *)
(* them violated (README, section 6).                                      *)

\* Once no job is open the uri is that of the last content.
SettledUri ==
  \A a \in Assets :
    (\A r \in Requests : request[r].asset = a => job[r].pc \in {"none", "done"})
      => asset[a].uri \in {NoUri, asset[a].content}

\* A uri that is shown is of content that was committed.
UriIsCommitted ==
  \A a \in Assets : asset[a].uri \in Requests => before[asset[a].uri] # {}

\* What the job of a patch submits is not older than the patch.
PatchIsWhole ==
  \A s \in Submissions : submission[s].kind = "patch" =>
    submission[s].data.creators \cap before[submission[s].request] = {}

\* No creator that an update submits is older than the update.  Of two updates that
\* overlap, the later commit leaves the creators of the earlier (mint.rs:656-665).
UpdateIsAlone ==
  \A s \in Submissions : submission[s].kind = "update" =>
    submission[s].data.creators \cap before[submission[s].request] = {}

\* An update submits the fee that it set ("The optional seller fee basis points" of
\* UpdateMintInput).
FeeIsSubmitted ==
  \A s \in Submissions : submission[s].kind = "update" =>
    submission[s].data.fee \notin before[submission[s].request]

\* A retry repeats an update that has been submitted.
RetryIsOfSubmitted ==
  \A s \in Submissions : submission[s].kind = "retry" => Updates(submission[s].request) # {}

\* An update that is created stays so ("Mint already updated" refuses a retry).
CreatedIsNotRetried ==
  [][\A r \in Requests : history[r] = "created" => history'[r] = "created"]_vars

\* Once all events are acknowledged the owner shown is the owner.
OwnerSettles ==
  (\A i \in Moves : Changed(i) => notice[i].pc = "acked") => mint.owner = Owner

\* A change of ownership has one row, and it names the sender ("A record of a transfer").
TransferIsRecordedOnce == \A i \in Moves : Len(transfers[i]) <= 1
SenderWasOwner == \A i \in Moves : \A n \in DOMAIN transfers[i] : transfers[i][n] = owners[i]

=============================================================================
