------------------------- MODULE AssetChangesProofs -------------------------
(***************************************************************************)
(* Proofs about AssetChanges, for any sets of requests, collections and    *)
(* wallets: what updates submit is whole, a row without uri is owed one,   *)
(* charges and histories tell what happened on the chain, and the owner    *)
(* shown was an owner.                                                     *)
(***************************************************************************)
EXTENDS AssetChanges, TLAPS

USE OpsAssumption, BoundsAssumption, HubAssumption, MintAssumption, FirstAssumption,
    NoUriAssumption

-----------------------------------------------------------------------------
(* The inductive invariant.  Shape says what a request's kind and progress *)
(* tell about it and about what was made for it.                           *)

Fresh(r) == request[r].pc \in {"idle", "deduct"}
Committed(r) == before[r] # {}

RequestOK(r) ==
  /\ request[r].pc = "idle" => request[r].op = "none"
  /\ request[r].op = "none" => request[r].pc = "idle"
  /\ request[r].op = "update_mint" =>
       /\ request[r].asset = Mint
       /\ request[r].pc \in {"deduct", "delete", "commit", "enqueue", "done", "stopped"}
  /\ request[r].op \in Patches =>
       /\ request[r].asset \in Collections
       /\ request[r].pc \in {"delete", "transaction", "commit", "done", "stopped"}
  /\ request[r].op = "retry_update_mint" =>
       /\ request[r].pc \in {"reset", "send", "done", "stopped"}
       /\ request[r].of \in Requests
       /\ request[request[r].of].op = "update_mint"
       /\ request[request[r].of].pc \in {"enqueue", "done", "stopped"}
  /\ request[r].op \in {"transfer_asset", "switch_collection"} =>
       request[r].pc \in {"deduct", "record", "send", "done", "stopped"}
  /\ request[r].op = "transfer_asset" => request[r].to \in Wallets
  /\ request[r].op = "switch_collection" => request[r].asset \in Collections

HistoryOK(r) == history[r] # "absent" =>
  /\ request[r].op \in {"update_mint", "transfer_asset", "switch_collection"}
  /\ request[r].pc \in {"enqueue", "send", "done", "stopped"}

ChargeOK(r) == charge[r] # "none" => ~Fresh(r)

JobOK(r) == job[r].pc # "none" =>
  \/ request[r].op = "patch_metadata" /\ request[r].pc \in {"commit", "done", "stopped"}
  \/ request[r].op = "update_mint" /\ request[r].pc = "done"

CommitOK(r) ==
  /\ Committed(r) =>
       \/ request[r].op = "update_mint" /\ request[r].pc \in {"enqueue", "done", "stopped"}
       \/ request[r].op \in Patches /\ request[r].pc = "done"
  /\ request[r].op = "update_mint" /\ request[r].pc \in {"enqueue", "done"} => Committed(r)

SubmissionOK(s) ==
  LET r == submission[s].request
  IN
  /\ submission[s].kind = "unused" => submission[s].outcome = "waiting"
  /\ submission[s].kind # "unused" => r \in Requests
  /\ submission[s].kind = "update" => request[r].op = "update_mint" /\ request[r].pc = "done"
  /\ submission[s].kind = "retry" =>
       request[r].op = "update_mint" /\ request[r].pc \in {"enqueue", "done", "stopped"}
  /\ submission[s].kind = "transfer" =>
       request[r].op = "transfer_asset" /\ request[r].pc = "done"
  /\ submission[s].kind = "switch" =>
       request[r].op = "switch_collection" /\ request[r].pc = "done"

NoticeOK(i) ==
  /\ notice[i].pc \in {"read", "owned"} => i < Len(owners)
  /\ notice[i].pc = "read" => notice[i].sender \in Wallets

Shape ==
  /\ \A r \in Requests : RequestOK(r) /\ HistoryOK(r) /\ ChargeOK(r) /\ JobOK(r) /\ CommitOK(r)
  /\ \A s \in Submissions : SubmissionOK(s)
  /\ \A i \in Moves : NoticeOK(i)

\* What a delivery has done by the point that it has reached.
HandlerOK(s) ==
  LET r == submission[s].request
  IN
  /\ handler[s] # "waiting" =>
       submission[s].kind \notin {"unused", "patch"} /\ submission[s].outcome # "waiting"
  /\ handler[s] \in {"moved", "confirmed"} => submission[s].outcome = "success"
  /\ handler[s] \in {"confirmed", "written", "acked"} /\ submission[s].outcome = "success" =>
       charge[r] = "confirmed"
  /\ handler[s] \in {"written", "acked"} /\ submission[s].kind = "switch" =>
       history[r] = IF submission[s].outcome = "success" THEN "created" ELSE "failed"

OneSwitch == \A s, t \in Submissions :
  /\ submission[s].kind = "switch" /\ submission[t].kind = "switch"
  /\ submission[s].request = submission[t].request
  => s = t

Charged ==
  /\ \A s \in Submissions : HandlerOK(s)
  /\ OneSwitch /\ ConfirmedIsOnChain /\ CreatedIsConfirmed

\* The versions of a row were committed, for this row.
VersionOK(a) ==
  \A v \in {asset[a].content, asset[a].fee} \cup asset[a].creators :
    v = First \/ (v \in Requests /\ Committed(v) /\ request[v].asset = a)

\* What is older than a request is not newer.
BeforeOK(r) ==
  /\ r \notin before[r]
  /\ \A v \in before[r] : v = First \/ (v \in Requests /\ Committed(v))

\* A DELETE removes creators that were committed.
FoundOK(r) ==
  /\ r \notin request[r].found
  /\ \A v \in request[r].found : v = First \/ (v \in Requests /\ Committed(v))

\* None of the creators that the request has replaced, and not only older ones.
Replaced(r, creators) ==
  creators \cap request[r].found = {} /\ ~(creators \subseteq before[r])

\* Once an update is committed nothing older comes back, and its job finds nothing older.
UpdateOK(r) == request[r].op = "update_mint" =>
  /\ Committed(r) => /\ asset[Mint].content \notin before[r]
                     /\ Replaced(r, asset[Mint].creators)
  /\ job[r].pc \in {"read", "saved"} => Replaced(r, job[r].creators)
  /\ job[r].pc = "saved" => job[r].content \notin before[r]

\* While a patch holds the row its job waits.
PatchOK(r) == request[r].op = "patch_metadata" /\ request[r].pc = "commit" =>
  job[r].pc \in {"queued", "read"}

Rows ==
  /\ \A a \in Assets : VersionOK(a)
  /\ \A r \in Requests : BeforeOK(r) /\ FoundOK(r) /\ UpdateOK(r) /\ PatchOK(r)
  /\ NoUriIsOpen /\ UpdateIsWhole

-----------------------------------------------------------------------------
(* Types.                                                                  *)

LEMMA InitTypeOK == Init => TypeOK
<1> SUFFICES ASSUME Init PROVE TypeOK
  OBVIOUS
<1>1. /\ asset \in [Assets -> Asset] /\ mint \in [owner: Wallets, collection: Collections]
      /\ job \in [Requests -> Job]
  BY DEF Init, Asset, Job, Version
<1>2. request \in [Requests -> Request] /\ submission \in [Submissions -> Submission]
  BY DEF Init, Request, Submission, Idle, Unsent, Version
<1>3. owners \in Seq(Wallets) /\ Len(owners) \in 1..(MaxMoves + 1)
  BY <1>1 DEF Init
<1>4. /\ transfers \in [Moves -> Seq(Wallets)] /\ before \in [Requests -> SUBSET Version]
      /\ notice \in [Moves -> Notice]
  BY DEF Init, Notice
<1> QED BY <1>1, <1>2, <1>3, <1>4 DEF Init, TypeOK, Status, Delivery

LEMMA SubmitType ==
  ASSUME TypeOK, NEW s \in Submissions, NEW r \in Requests,
         NEW kind \in {"update", "retry", "patch", "transfer", "switch"},
         NEW data \in Data \cup {NoData}, Submit(s, kind, r, data)
  PROVE  submission' \in [Submissions -> Submission]
BY DEF TypeOK, Submit, Submission

Pc == {"idle", "deduct", "delete", "commit", "enqueue", "record", "send", "reset", "transaction",
       "done", "stopped"}

LEMMA PcType ==
  ASSUME TypeOK, NEW r \in Requests, NEW pc \in Pc
  PROVE  [request EXCEPT ![r].pc = pc] \in [Requests -> Request]
<1>1. request[r] \in Request
  BY DEF TypeOK
<1>2. [request[r] EXCEPT !.pc = pc] \in Request
  BY <1>1 DEF Request, Pc
<1> QED BY <1>2 DEF TypeOK

JobPc == {"none", "queued", "read", "saved", "done"}

LEMMA JobPcType ==
  ASSUME TypeOK, NEW r \in Requests, NEW pc \in JobPc
  PROVE  [job EXCEPT ![r].pc = pc] \in [Requests -> Job]
<1>1. job[r] \in Job
  BY DEF TypeOK
<1>2. [job[r] EXCEPT !.pc = pc] \in Job
  BY <1>1 DEF Job, JobPc
<1> QED BY <1>2 DEF TypeOK

LEMMA RowType ==
  ASSUME TypeOK, NEW a \in Assets, NEW row \in Asset
  PROVE  [asset EXCEPT ![a] = row] \in [Assets -> Asset]
BY DEF TypeOK

LEMMA InPlaceType ==
  ASSUME TypeOK, NEW a \in Assets
  PROVE  InPlace(a) \in SUBSET Version
BY DEF TypeOK, InPlace, Older, Asset, Version

LEMMA RequestType ==
  ASSUME TypeOK, NEW r \in Requests,
         request[r].op = "retry_update_mint" => request[r].of \in Requests,
         request[r].op \in Patches => request[r].asset \in Collections,
         request[r].op = "update_mint" => request[r].asset = Mint,
         request[r].pc = "delete" => request[r].asset \in Assets,
         RequestStep(r)
  PROVE  TypeOK'
<1>1. CASE Deduct(r)
  <2>1. request' \in [Requests -> Request]
    BY <1>1, PcType DEF Deduct, Pc
  <2>2. charge' \in [Requests -> {"none", "pending", "confirmed"}]
    BY <1>1 DEF Deduct, TypeOK
  <2> QED BY <1>1, <2>1, <2>2 DEF Deduct, TypeOK
<1>2. CASE GiveUp(r)
  <2>1. request' \in [Requests -> Request]
    BY <1>2, PcType DEF GiveUp, Pc
  <2> QED BY <1>2, <2>1 DEF GiveUp, TypeOK
<1>3. CASE BeginUpdate(r)
  <2>1. [Idle EXCEPT !.op = "update_mint", !.pc = "deduct", !.asset = Mint] \in Request
    BY DEF Idle, Request, AllOps, Assets, Version
  <2> QED BY <1>3, <2>1 DEF BeginUpdate, Begin, TypeOK
<1>14. CASE DeleteCreators(r)
  <2>1. request[r].asset \in Assets
    BY <1>14 DEF DeleteCreators
  <2>2. asset[request[r].asset] \in Asset
    BY <2>1 DEF TypeOK
  <2>3. PICK found \in SUBSET Version, pc \in {"commit", "transaction"} :
          request' = [request EXCEPT ![r].found = found, ![r].pc = pc]
    BY <1>14, <2>2 DEF DeleteCreators, Asset
  <2>4. request[r] \in Request
    BY DEF TypeOK
  <2>5. [request[r] EXCEPT !.found = found, !.pc = pc] \in Request
    BY <2>4 DEF Request
  <2>6. request' \in [Requests -> Request]
    BY <2>3, <2>5 DEF TypeOK
  <2> QED BY <1>14, <2>6 DEF DeleteCreators, TypeOK
<1>15. ASSUME request[r].asset \in Assets PROVE Creators(r) \in SUBSET Version
  <2>1. asset[request[r].asset] \in Asset
    BY <1>15 DEF TypeOK
  <2> QED BY <2>1 DEF Creators, Asset, Version
<1>4. CASE CommitUpdate(r)
  <2>1. Save(r) \in Asset /\ Mint \in Assets
    <3>1. Mint \in Assets /\ request[r].asset = Mint
      BY <1>4 DEF CommitUpdate, Assets
    <3> QED BY <1>15, <3>1 DEF Save, Asset, Version
  <2>2. asset' \in [Assets -> Asset] /\ before' \in [Requests -> SUBSET Version]
    BY <1>4, <2>1, RowType, InPlaceType DEF CommitUpdate, TypeOK
  <2>3. request' \in [Requests -> Request]
    BY <1>4, PcType DEF CommitUpdate, Pc
  <2>4. history' \in [Requests -> Status]
    BY <1>4 DEF CommitUpdate, Status, TypeOK
  <2> QED BY <1>4, <2>2, <2>3, <2>4 DEF CommitUpdate, TypeOK
<1>5. CASE EnqueueUpdate(r) \/ EnqueuePatch(r)
  <2>1. request' \in [Requests -> Request]
    <3>1. [request EXCEPT ![r].pc = "done"] \in [Requests -> Request]
      BY PcType DEF Pc
    <3>2. [request EXCEPT ![r].pc = "commit"] \in [Requests -> Request]
      BY PcType DEF Pc
    <3> QED BY <1>5, <3>1, <3>2 DEF EnqueueUpdate, EnqueuePatch
  <2>2. job' \in [Requests -> Job]
    <3>1. [job EXCEPT ![r].pc = "queued"] \in [Requests -> Job]
      BY JobPcType DEF JobPc
    <3> QED BY <1>5, <3>1 DEF EnqueueUpdate, EnqueuePatch, NewJob
  <2> QED BY <1>5, <2>1, <2>2 DEF EnqueueUpdate, EnqueuePatch, TypeOK
<1>6. ASSUME NEW op \in Patches, NEW k \in Collections, BeginPatch(r, op, k)
      PROVE  TypeOK'
  <2>3. k \in Assets /\ asset[k] \in Asset
    BY DEF TypeOK, Assets
  <2>1. asset[k].content \in Version /\ asset[k].uri \in Version \cup {NoUri}
    BY <2>3 DEF Asset
  <2>2. [Idle EXCEPT !.op = op, !.pc = "delete", !.asset = k,
                     !.seen = asset[k].content, !.uri = asset[k].uri] \in Request
    BY <2>1 DEF Idle, Request, AllOps, Patches, Assets
  <2> QED BY <1>6, <2>2 DEF BeginPatch, Begin, TypeOK
<1>7. CASE CommitPatch(r)
  <2> DEFINE k == request[r].asset
  <2>1. k \in Assets /\ r \in Version
    BY <1>7 DEF CommitPatch, Assets, Version
  <2>5. asset[k] \in Asset
    BY <2>1 DEF TypeOK
  <2>6. Creators(r) \in SUBSET Version
    BY <1>15, <2>1
  <2>2. Save(r) \in Asset /\ [asset[k] EXCEPT !.creators = Creators(r), !.fee = r] \in Asset
    BY <2>1, <2>5, <2>6 DEF Save, Asset
  <2>3. asset' \in [Assets -> Asset] /\ before' \in [Requests -> SUBSET Version]
    BY <1>7, <2>1, <2>2, RowType, InPlaceType DEF CommitPatch, TypeOK
  <2>4. request' \in [Requests -> Request]
    BY <1>7, PcType DEF CommitPatch, Pc
  <2> QED BY <1>7, <2>3, <2>4 DEF CommitPatch, TypeOK
<1>8. ASSUME NEW u \in Requests, BeginRetry(r, u)
      PROVE  TypeOK'
  <2>1. [Idle EXCEPT !.op = "retry_update_mint", !.pc = "reset", !.of = u] \in Request
    BY DEF Idle, Request, AllOps, Version
  <2> QED BY <1>8, <2>1 DEF BeginRetry, Begin, TypeOK
<1>9. CASE ResetToPending(r) \/ Record(r)
  <2>1. request' \in [Requests -> Request]
    <3>1. [request EXCEPT ![r].pc = "send"] \in [Requests -> Request]
      BY PcType DEF Pc
    <3> QED BY <1>9, <3>1 DEF ResetToPending, Record
  <2>2. history' \in [Requests -> Status]
    BY <1>9 DEF ResetToPending, Record, Status, TypeOK
  <2> QED BY <1>9, <2>1, <2>2 DEF ResetToPending, Record, TypeOK
<1>10. ASSUME NEW w \in Wallets, BeginTransfer(r, w)
      PROVE  TypeOK'
  <2>1. mint.owner \in Wallets
    BY DEF TypeOK
  <2>2. [Idle EXCEPT !.op = "transfer_asset", !.pc = "deduct", !.from = mint.owner, !.to = w]
          \in Request
    BY <2>1 DEF Idle, Request, AllOps, Version
  <2> QED BY <1>10, <2>2 DEF BeginTransfer, Begin, TypeOK
<1>11. ASSUME NEW k \in Collections, BeginSwitch(r, k)
       PROVE  TypeOK'
  <2>1. [Idle EXCEPT !.op = "switch_collection", !.pc = "deduct", !.asset = k] \in Request
    BY DEF Idle, Request, AllOps, Assets, Version
  <2> QED BY <1>11, <2>1 DEF BeginSwitch, Begin, TypeOK
<1>12. ASSUME NEW s \in Submissions, SendPatch(r, s)
       PROVE  TypeOK'
  <2>5. request[r] \in Request
    BY DEF TypeOK
  <2>1. request[r].seen \in Version /\ request[r].uri \in Version \cup {NoUri} /\ r \in Version
    BY <2>5 DEF Request, Version
  <2>2. [content |-> request[r].seen, uri |-> request[r].uri, creators |-> {r},
         fee |-> r] \in Data
    BY <2>1 DEF Data
  <2>3. submission' \in [Submissions -> Submission]
    BY <1>12, <2>2, SubmitType DEF SendPatch
  <2>4. request' \in [Requests -> Request]
    BY <1>12, PcType DEF SendPatch, Pc
  <2> QED BY <1>12, <2>3, <2>4 DEF SendPatch, TypeOK
<1>13. ASSUME NEW s \in Submissions, SendRetry(r, s) \/ Send(r, s)
       PROVE  TypeOK'
  <2>1. submission' \in [Submissions -> Submission]
    BY <1>13, SubmitType DEF SendRetry, Send
  <2>2. request' \in [Requests -> Request]
    <3>1. [request EXCEPT ![r].pc = "done"] \in [Requests -> Request]
      BY PcType DEF Pc
    <3> QED BY <1>13, <3>1 DEF SendRetry, Send
  <2> QED BY <1>13, <2>1, <2>2 DEF SendRetry, Send, TypeOK
<1> QED BY <1>1, <1>2, <1>3, <1>4, <1>5, <1>6, <1>7, <1>8, <1>9, <1>10, <1>11, <1>12, <1>13,
          <1>14 DEF RequestStep

LEMMA JobType ==
  ASSUME TypeOK, NEW r \in Requests, job[r].pc # "none" => request[r].asset \in Assets,
         JobStep(r) \/ JobFails(r)
  PROVE  TypeOK'
<1> DEFINE a == request[r].asset
<1>1. CASE ReadRows(r)
  <2> DEFINE k == IF a = Mint THEN mint.collection ELSE a
  <2>1. a \in Assets /\ k \in Assets
    BY <1>1 DEF ReadRows, TypeOK, Assets
  <2>5. asset[a] \in Asset /\ asset[k] \in Asset /\ job[r] \in Job
    BY <2>1 DEF TypeOK
  <2>2. asset[a].creators \in SUBSET Version /\ asset[k].fee \in Version
    BY <2>5 DEF Asset
  <2>3. [job[r] EXCEPT !.pc = "read", !.creators = asset[a].creators, !.fee = asset[k].fee] \in Job
    BY <2>2, <2>5 DEF Job
  <2>4. job' \in [Requests -> Job]
    BY <1>1, <2>3 DEF ReadRows, TypeOK
  <2> QED BY <1>1, <2>4 DEF ReadRows, TypeOK
<1>2. CASE SaveUri(r)
  <2>1. a \in Assets
    BY <1>2 DEF SaveUri
  <2>5. asset[a] \in Asset /\ job[r] \in Job
    BY <2>1 DEF TypeOK
  <2>2. [asset[a] EXCEPT !.uri = r] \in Asset /\ asset[a].content \in Version
    BY <2>5 DEF Asset, Version
  <2>3. [job[r] EXCEPT !.pc = "saved", !.content = asset[a].content] \in Job
    BY <2>2, <2>5 DEF Job
  <2>4. asset' \in [Assets -> Asset]
    BY <1>2, <2>1, <2>2 DEF SaveUri, TypeOK
  <2>6. job' \in [Requests -> Job]
    BY <1>2, <2>3 DEF SaveUri, TypeOK
  <2> QED BY <1>2, <2>4, <2>6 DEF SaveUri, TypeOK
<1>3. ASSUME NEW s \in Submissions, SubmitFromJob(r, s)
      PROVE  TypeOK'
  <2>5. job[r] \in Job
    BY DEF TypeOK
  <2>1. /\ job[r].content \in Version /\ job[r].fee \in Version
        /\ job[r].creators \in SUBSET Version
    BY <2>5 DEF Job
  <2>2. [content |-> job[r].content, uri |-> r, creators |-> job[r].creators,
         fee |-> job[r].fee] \in Data
    BY <2>1 DEF Data, Version
  <2>3. submission' \in [Submissions -> Submission]
    BY <1>3, <2>2, SubmitType DEF SubmitFromJob
  <2>4. job' \in [Requests -> Job]
    <3>1. PICK pc \in {"done", "queued"} : job' = [job EXCEPT ![r].pc = pc]
      BY <1>3 DEF SubmitFromJob
    <3>2. pc \in JobPc
      BY DEF JobPc
    <3> QED BY <3>1, <3>2, JobPcType
  <2> QED BY <1>3, <2>3, <2>4 DEF SubmitFromJob, TypeOK
<1>4. CASE JobFails(r)
  <2>1. job' \in [Requests -> Job]
    BY <1>4, JobPcType DEF JobFails, JobPc
  <2> QED BY <1>4, <2>1 DEF JobFails, TypeOK
<1> QED BY <1>1, <1>2, <1>3, <1>4 DEF JobStep

LEMMA OwnersType ==
  ASSUME TypeOK, NEW w \in Wallets, Len(owners) <= MaxMoves, owners' = Append(owners, w)
  PROVE  /\ owners' \in Seq(Wallets) /\ Len(owners') \in 1..(MaxMoves + 1)
         /\ Len(owners') = Len(owners) + 1
         /\ \A i \in 1..Len(owners) : owners'[i] = owners[i]
BY DEF TypeOK

LEMMA ServiceType ==
  ASSUME TypeOK, NEW s \in Submissions,
         Execute(s) => (submission[s].kind = "transfer" =>
                          request[submission[s].request].to \in Wallets),
         Execute(s) \/ \E w \in Wallets : Move(w)
  PROVE  TypeOK'
<1>1. CASE \E w \in Wallets : Move(w)
  <2>1. PICK w \in Wallets : Move(w)
    BY <1>1
  <2>2. owners' \in Seq(Wallets) /\ Len(owners') \in 1..(MaxMoves + 1)
    BY <2>1, OwnersType DEF Move
  <2> QED BY <2>1, <2>2 DEF Move, TypeOK
<1>2. CASE Execute(s)
  <2>1. ASSUME NEW outcome \in {"success", "failure"}
        PROVE  [submission EXCEPT ![s].outcome = outcome] \in [Submissions -> Submission]
    <3>1. submission[s] \in Submission
      BY DEF TypeOK
    <3>2. [submission[s] EXCEPT !.outcome = outcome] \in Submission
      BY <3>1 DEF Submission
    <3> QED BY <3>2 DEF TypeOK
  <2>2. submission' \in [Submissions -> Submission]
    BY <1>2, <2>1 DEF Execute
  <2>3. owners' \in Seq(Wallets) /\ Len(owners') \in 1..(MaxMoves + 1)
    <3>1. CASE owners' = owners
      BY <3>1 DEF TypeOK
    <3>2. CASE owners' # owners
      <4>1. /\ owners' = Append(owners, request[submission[s].request].to)
            /\ Len(owners) <= MaxMoves /\ request[submission[s].request].to \in Wallets
        BY <1>2, <3>2 DEF Execute
      <4> QED BY <4>1, OwnersType
    <3> QED BY <3>1, <3>2
  <2> QED BY <1>2, <2>2, <2>3 DEF Execute, TypeOK
<1> QED BY <1>1, <1>2

LEMMA HandlerType ==
  ASSUME TypeOK, NEW s \in Submissions, submission[s].kind # "unused" =>
           /\ submission[s].request \in Requests
           /\ submission[s].kind = "switch" => request[submission[s].request].asset \in Collections,
         HandlerStep(s) \/ HandlerFails(s)
  PROVE  TypeOK'
<1>1. handler' \in [Submissions -> Delivery]
  <2>1. PICK next \in Delivery : handler' = [handler EXCEPT ![s] = next]
    BY DEF HandlerStep, HandlerFails, SwitchMint, ConfirmDeduction, WriteHistory, Acknowledge,
           Delivery
  <2> QED BY <2>1 DEF TypeOK
<1>2. mint' \in [owner: Wallets, collection: Collections]
  BY DEF HandlerStep, HandlerFails, SwitchMint, ConfirmDeduction, WriteHistory, Acknowledge,
         TypeOK, Result
<1>3. charge' \in [Requests -> {"none", "pending", "confirmed"}]
  BY DEF HandlerStep, HandlerFails, SwitchMint, ConfirmDeduction, WriteHistory, Acknowledge,
         TypeOK
<1>4. history' \in [Requests -> Status]
  BY DEF HandlerStep, HandlerFails, SwitchMint, ConfirmDeduction, WriteHistory, Acknowledge,
         TypeOK, Status
<1>5. UNCHANGED <<blockchain, asset, request, job, submission, owners, notice, transfers, before>>
  BY DEF HandlerStep, HandlerFails, SwitchMint, ConfirmDeduction, WriteHistory, Acknowledge
<1> QED BY <1>1, <1>2, <1>3, <1>4, <1>5 DEF TypeOK

LEMMA NoticeType ==
  ASSUME TypeOK, NEW i \in Moves,
         notice[i].pc \in {"read", "owned"} => i < Len(owners),
         notice[i].pc = "read" => notice[i].sender \in Wallets,
         NoticeStep(i) \/ NoticeFails(i)
  PROVE  TypeOK'
<1>0. i < Len(owners) => owners[i] \in Wallets /\ owners[i + 1] \in Wallets
  BY DEF TypeOK, Moves
<1>1. ASSUME NEW pc \in {"waiting", "read", "owned", "recorded", "acked"}
      PROVE  [notice EXCEPT ![i].pc = pc] \in [Moves -> Notice]
  <2>1. notice[i] \in Notice
    BY DEF TypeOK
  <2>2. [notice[i] EXCEPT !.pc = pc] \in Notice
    BY <2>1 DEF Notice
  <2> QED BY <2>2 DEF TypeOK
<1>2. ASSUME NEW w \in Wallets
      PROVE  /\ [mint EXCEPT !.owner = w] \in [owner: Wallets, collection: Collections]
             /\ [transfers EXCEPT ![i] = Append(transfers[i], w)] \in [Moves -> Seq(Wallets)]
  <2>1. [mint EXCEPT !.owner = w] \in [owner: Wallets, collection: Collections]
    BY DEF TypeOK
  <2>2. transfers[i] \in Seq(Wallets)
    BY DEF TypeOK
  <2>3. Append(transfers[i], w) \in Seq(Wallets)
    BY <2>2
  <2>4. [transfers EXCEPT ![i] = Append(transfers[i], w)] \in [Moves -> Seq(Wallets)]
    BY <2>3 DEF TypeOK
  <2> QED BY <2>1, <2>4
<1>3. CASE SetOwner(i)
  BY <1>0, <1>1, <1>2, <1>3 DEF SetOwner, Changed, TypeOK
<1>4. CASE InsertTransfer(i)
  BY <1>0, <1>1, <1>2, <1>4 DEF InsertTransfer, TypeOK
<1>5. CASE ReadOwner(i)
  BY <1>5 DEF ReadOwner, Notice, TypeOK
<1>6. CASE WriteOwner(i)
  <2>1. notice' \in [Moves -> Notice]
    BY <1>6 DEF WriteOwner, Notice, TypeOK
  <2> QED BY <1>0, <1>2, <1>6, <2>1 DEF WriteOwner, TypeOK
<1>7. CASE NoticeDone(i)
  BY <1>1, <1>7 DEF NoticeDone, TypeOK
<1>8. CASE NoticeFails(i)
  BY <1>8 DEF NoticeFails, Notice, TypeOK
<1> QED BY <1>3, <1>4, <1>5, <1>6, <1>7, <1>8 DEF NoticeStep

-----------------------------------------------------------------------------
(* Shape is preserved.                                                     *)

LEMMA InitShape == Init => Shape
BY DEF Init, Shape, Idle, Unsent, RequestOK, HistoryOK, ChargeOK, JobOK, CommitOK, Committed,
       SubmissionOK, NoticeOK, Patches

LEMMA Advance ==
  ASSUME TypeOK, NEW r \in Requests, NEW pc, request' = [request EXCEPT ![r].pc = pc]
  PROVE  /\ request'[r].pc = pc
         /\ request'[r].op = request[r].op /\ request'[r].asset = request[r].asset
         /\ request'[r].of = request[r].of /\ request'[r].to = request[r].to
         /\ request'[r].found = request[r].found
         /\ \A q \in Requests \ {r} : request'[q] = request[q]
<1>1. request[r] \in Request
  BY DEF TypeOK
<1>2. request'[r] = [request[r] EXCEPT !.pc = pc]
  BY DEF TypeOK
<1> QED BY <1>1, <1>2 DEF Request, TypeOK

LEMMA AdvanceFound ==
  ASSUME TypeOK, NEW r \in Requests, DeleteCreators(r)
  PROVE  /\ request'[r].pc = IF request[r].op = "update_mint" THEN "commit" ELSE "transaction"
         /\ request'[r].op = request[r].op /\ request'[r].asset = request[r].asset
         /\ request'[r].of = request[r].of /\ request'[r].to = request[r].to
         /\ request'[r].found = asset[request[r].asset].creators
         /\ \A q \in Requests \ {r} : request'[q] = request[q]
<1> DEFINE found == asset[request[r].asset].creators
           pc == IF request[r].op = "update_mint" THEN "commit" ELSE "transaction"
<1>1. request[r] \in Request
  BY DEF TypeOK
<1>2. request' = [request EXCEPT ![r].found = found, ![r].pc = pc]
  BY DEF DeleteCreators
<1> HIDE DEF found, pc
<1>3. request'[r] = [request[r] EXCEPT !.found = found, !.pc = pc]
  BY <1>2 DEF TypeOK
<1>4. \A q \in Requests \ {r} : request'[q] = request[q]
  BY <1>2 DEF TypeOK
<1> QED BY <1>1, <1>3, <1>4 DEF Request, found, pc

\* A request that has not ended takes a step that concerns it alone.
LEMMA RequestFrame ==
  ASSUME Shape, NEW r \in Requests, request[r].pc \notin {"done", "stopped"},
         \A q \in Requests \ {r} :
           /\ request'[q] = request[q] /\ charge'[q] = charge[q]
           /\ job'[q] = job[q] /\ before'[q] = before[q]
           /\ history'[q] = history[q] \/ HistoryOK(q)',
         ~Fresh(r) => request'[r].op = request[r].op /\ request'[r].pc \notin {"idle", "deduct"},
         request[r].pc = "enqueue" => request'[r].pc \in {"done", "stopped"},
         RequestOK(r)', HistoryOK(r)', ChargeOK(r)', JobOK(r)', CommitOK(r)',
         \A s \in Submissions : submission'[s] = submission[s] \/ SubmissionOK(s)',
         UNCHANGED <<owners, notice>>
  PROVE  Shape'
<1>1. ASSUME NEW q \in Requests \ {r}
      PROVE  RequestOK(q)' /\ HistoryOK(q)' /\ ChargeOK(q)' /\ JobOK(q)' /\ CommitOK(q)'
  <2>1. RequestOK(q) /\ HistoryOK(q) /\ ChargeOK(q) /\ JobOK(q) /\ CommitOK(q)
    BY DEF Shape
  <2>2. request'[q] = request[q]
    OBVIOUS
  <2>3. request[q].op = "retry_update_mint" =>
          /\ request[q].of \in Requests
          /\ request'[request[q].of].op = "update_mint"
          /\ request'[request[q].of].pc \in {"enqueue", "done", "stopped"}
    <3>1. CASE request[q].of = r
      BY <2>1, <3>1 DEF RequestOK, Fresh
    <3>2. CASE request[q].of # r
      BY <2>1, <3>2 DEF RequestOK, Fresh
    <3> QED BY <3>1, <3>2
  <2>4. RequestOK(q)'
    BY <2>1, <2>2, <2>3 DEF RequestOK, Fresh
  <2>5. HistoryOK(q)' /\ ChargeOK(q)' /\ JobOK(q)' /\ CommitOK(q)'
    BY <2>1, <2>2 DEF HistoryOK, ChargeOK, JobOK, CommitOK, Committed, Fresh
  <2> QED BY <2>4, <2>5
<1>2. ASSUME NEW s \in Submissions PROVE SubmissionOK(s)'
  <2>1. SubmissionOK(s)
    BY DEF Shape
  <2>2. SUFFICES ASSUME submission'[s] = submission[s] PROVE SubmissionOK(s)'
    OBVIOUS
  <2>3. CASE submission[s].request = r
    BY <2>1, <2>2, <2>3 DEF SubmissionOK, Fresh
  <2>4. CASE submission[s].request # r
    BY <2>1, <2>2, <2>4 DEF SubmissionOK, Fresh
  <2> QED BY <2>3, <2>4
<1>3. \A i \in Moves : NoticeOK(i)'
  BY DEF Shape, NoticeOK
<1> QED BY <1>1, <1>2, <1>3 DEF Shape

LEMMA BeginShape ==
  ASSUME TypeOK, Shape, NEW r \in Requests, NEW op, NEW fields, Begin(r, op, fields),
         RequestOK(r)', fields.op # "none", fields.pc \notin {"done", "enqueue"},
         UNCHANGED <<history, charge, job, before, submission, owners, notice>>
  PROVE  Shape'
<1>1. /\ request[r] = Idle /\ request'[r] = fields
      /\ \A q \in Requests \ {r} : request'[q] = request[q]
  BY DEF Begin, TypeOK
<1>2. request[r].pc = "idle" /\ request[r].op = "none" /\ Fresh(r)
  BY <1>1 DEF Idle, Fresh
<1>3. history[r] = "absent" /\ charge[r] = "none" /\ job[r].pc = "none" /\ ~Committed(r)
  BY <1>2 DEF Shape, HistoryOK, ChargeOK, JobOK, CommitOK, Patches
<1>4. HistoryOK(r)' /\ ChargeOK(r)' /\ JobOK(r)' /\ CommitOK(r)'
  BY <1>1, <1>3 DEF HistoryOK, ChargeOK, JobOK, CommitOK, Committed
<1> QED BY <1>1, <1>2, <1>4, RequestFrame

LEMMA RequestShape ==
  ASSUME TypeOK, Shape, NEW r \in Requests, RequestStep(r)
  PROVE  Shape'
<1>0. RequestOK(r) /\ HistoryOK(r) /\ ChargeOK(r) /\ JobOK(r) /\ CommitOK(r)
  BY DEF Shape
<1> USE DEF Patches
<1>1. CASE Deduct(r)
  <2>1. request[r].op \in {"update_mint", "transfer_asset", "switch_collection"}
    BY <1>0, <1>1 DEF Deduct, RequestOK, TypeOK, Request, AllOps
  <2>2. PICK pc \in {"delete", "record"} :
          /\ request' = [request EXCEPT ![r].pc = pc]
          /\ pc = IF request[r].op = "update_mint" THEN "delete" ELSE "record"
    BY <1>1 DEF Deduct
  <2>3. history[r] = "absent" /\ job[r].pc = "none" /\ ~Committed(r)
    BY <1>0, <1>1 DEF Deduct, HistoryOK, JobOK, CommitOK
  <2>4. \A q \in Requests \ {r} : charge'[q] = charge[q]
    BY <1>1 DEF Deduct, TypeOK
  <2>5. RequestOK(r)'
    BY <1>0, <2>1, <2>2, Advance DEF RequestOK
  <2>6. HistoryOK(r)' /\ ChargeOK(r)' /\ JobOK(r)' /\ CommitOK(r)'
    BY <1>1, <2>2, <2>3, Advance DEF Deduct, HistoryOK, ChargeOK, JobOK, CommitOK, Committed, Fresh
  <2>7. /\ request[r].pc = "deduct"
        /\ UNCHANGED <<history, job, before, submission, owners, notice>>
    BY <1>1 DEF Deduct
  <2>8. /\ request'[r].pc \in {"delete", "record"} /\ request'[r].op = request[r].op
        /\ \A q \in Requests \ {r} : request'[q] = request[q]
    BY <2>2, Advance
  <2> QED BY <2>4, <2>5, <2>6, <2>7, <2>8, RequestFrame
<1>2. CASE GiveUp(r)
  <2>1. request' = [request EXCEPT ![r].pc = "stopped"]
    BY <1>2 DEF GiveUp
  <2>2. RequestOK(r)'
    <3>1. request[r].op = "retry_update_mint" =>
            request[r].of # r /\ request'[request[r].of] = request[request[r].of]
      BY <1>0, <2>1, Advance DEF RequestOK
    <3> QED BY <1>0, <1>2, <2>1, <3>1, Advance DEF GiveUp, RequestOK, Fresh
  <2>3. HistoryOK(r)' /\ ChargeOK(r)' /\ JobOK(r)' /\ CommitOK(r)'
    BY <1>0, <1>2, <2>1, Advance
    DEF GiveUp, HistoryOK, ChargeOK, JobOK, CommitOK, Committed, Fresh
  <2>4. /\ request'[r].op = request[r].op /\ request'[r].pc = "stopped"
        /\ \A q \in Requests \ {r} : request'[q] = request[q]
    BY <2>1, Advance
  <2> QED BY <1>2, <2>2, <2>3, <2>4, RequestFrame DEF GiveUp
<1>3. CASE BeginUpdate(r)
  <2> DEFINE fields == [Idle EXCEPT !.op = "update_mint", !.pc = "deduct", !.asset = Mint]
  <2>1. request'[r] = fields
    BY <1>3 DEF BeginUpdate, Begin, TypeOK
  <2>2. RequestOK(r)'
    BY <2>1 DEF RequestOK, Idle
  <2>3. fields.op = "update_mint" /\ fields.pc = "deduct"
    BY DEF Idle
  <2> QED BY <1>3, <2>2, <2>3, BeginShape DEF BeginUpdate
<1>17. CASE DeleteCreators(r)
  <2>1. request[r].pc = "delete" /\ request[r].op \in {"update_mint"} \cup Patches
    BY <1>0, <1>17 DEF DeleteCreators, RequestOK, TypeOK, Request, AllOps
  <2>2. RequestOK(r)'
    BY <1>0, <1>17, <2>1, AdvanceFound DEF RequestOK
  <2>3. history[r] = "absent" /\ job[r].pc = "none" /\ ~Committed(r)
    BY <1>0, <2>1 DEF HistoryOK, JobOK, CommitOK
  <2>5. /\ request'[r].op = request[r].op /\ request'[r].pc \in {"commit", "transaction"}
        /\ \A q \in Requests \ {r} : request'[q] = request[q]
    BY <1>17, AdvanceFound
  <2>6. UNCHANGED <<history, charge, job, before, submission, owners, notice>>
    BY <1>17 DEF DeleteCreators
  <2>4. HistoryOK(r)' /\ ChargeOK(r)' /\ JobOK(r)' /\ CommitOK(r)'
    BY <1>0, <2>1, <2>3, <2>5, <2>6
    DEF HistoryOK, ChargeOK, JobOK, CommitOK, Committed, Fresh
  <2> QED BY <2>1, <2>2, <2>4, <2>5, <2>6, RequestFrame DEF Fresh
<1>4. CASE CommitUpdate(r)
  <2>1. request' = [request EXCEPT ![r].pc = "enqueue"]
    BY <1>4 DEF CommitUpdate
  <2>2. job[r].pc = "none" /\ InPlace(Mint) # {}
    BY <1>0, <1>4 DEF CommitUpdate, JobOK, InPlace, Older
  <2>3. /\ history'[r] = "pending" /\ before'[r] = InPlace(Mint)
        /\ \A q \in Requests \ {r} : history'[q] = history[q] /\ before'[q] = before[q]
    BY <1>4 DEF CommitUpdate, TypeOK
  <2>4. RequestOK(r)'
    BY <1>0, <1>4, <2>1, Advance DEF CommitUpdate, RequestOK
  <2>5. HistoryOK(r)' /\ ChargeOK(r)' /\ JobOK(r)' /\ CommitOK(r)'
    <3>1. request'[r].pc = "enqueue" /\ request'[r].op = "update_mint"
      BY <1>4, <2>1, Advance DEF CommitUpdate
    <3>2. job'[r].pc = "none" /\ history'[r] = "pending" /\ before'[r] # {}
      BY <1>4, <2>2, <2>3 DEF CommitUpdate
    <3> QED BY <3>1, <3>2 DEF HistoryOK, ChargeOK, JobOK, CommitOK, Committed, Fresh
  <2> QED BY <1>4, <2>1, <2>3, <2>4, <2>5, RequestFrame, Advance DEF CommitUpdate
<1>5. CASE EnqueueUpdate(r)
  <2>1. request' = [request EXCEPT ![r].pc = "done"] /\ request[r].op = "update_mint"
    BY <1>0, <1>5 DEF EnqueueUpdate, RequestOK, TypeOK, Request, AllOps
  <2>2. \A q \in Requests \ {r} : job'[q] = job[q]
    BY <1>5 DEF EnqueueUpdate, NewJob, TypeOK
  <2>3. RequestOK(r)'
    BY <1>0, <2>1, Advance DEF RequestOK
  <2>4. HistoryOK(r)' /\ ChargeOK(r)' /\ JobOK(r)' /\ CommitOK(r)'
    <3>1. request'[r].pc = "done" /\ request'[r].op = "update_mint"
      BY <2>1, Advance
    <3>2. history'[r] = history[r] /\ before'[r] = before[r] /\ before[r] # {}
      BY <1>0, <1>5, <2>1 DEF EnqueueUpdate, CommitOK, Committed
    <3> QED BY <3>1, <3>2 DEF HistoryOK, ChargeOK, JobOK, CommitOK, Committed, Fresh
  <2>5. /\ request'[r].op = request[r].op /\ request'[r].pc = "done"
        /\ \A q \in Requests \ {r} : request'[q] = request[q]
    BY <2>1, Advance
  <2>6. /\ request[r].pc = "enqueue"
        /\ UNCHANGED <<history, charge, before, submission, owners, notice>>
    BY <1>5 DEF EnqueueUpdate
  <2> QED BY <2>2, <2>3, <2>4, <2>5, <2>6, RequestFrame
<1>6. ASSUME NEW op \in Patches, NEW k \in Collections, BeginPatch(r, op, k)
      PROVE  Shape'
  <2> DEFINE fields == [Idle EXCEPT !.op = op, !.pc = "delete", !.asset = k,
                                    !.seen = asset[k].content, !.uri = asset[k].uri]
  <2>1. request'[r] = fields
    BY <1>6 DEF BeginPatch, Begin, TypeOK
  <2>2. fields.op = op /\ fields.pc = "delete" /\ fields.asset = k
    BY DEF Idle
  <2>3. RequestOK(r)'
    BY <2>1, <2>2 DEF RequestOK
  <2> QED BY <1>6, <2>2, <2>3, BeginShape DEF BeginPatch
<1>7. CASE EnqueuePatch(r)
  <2>1. request' = [request EXCEPT ![r].pc = "commit"]
    BY <1>7 DEF EnqueuePatch
  <2>2. \A q \in Requests \ {r} : job'[q] = job[q]
    BY <1>7 DEF EnqueuePatch, NewJob, TypeOK
  <2>3. RequestOK(r)'
    BY <1>0, <1>7, <2>1, Advance DEF EnqueuePatch, RequestOK
  <2>4. HistoryOK(r)' /\ ChargeOK(r)' /\ JobOK(r)' /\ CommitOK(r)'
    <3>1. request'[r].pc = "commit" /\ request'[r].op = "patch_metadata"
      BY <1>7, <2>1, Advance DEF EnqueuePatch
    <3>2. history'[r] = "absent" /\ before'[r] = {}
      BY <1>0, <1>7 DEF EnqueuePatch, HistoryOK, CommitOK, Committed
    <3> QED BY <3>1, <3>2 DEF HistoryOK, ChargeOK, JobOK, CommitOK, Committed, Fresh
  <2> QED BY <1>7, <2>1, <2>2, <2>3, <2>4, RequestFrame, Advance DEF EnqueuePatch
<1>8. CASE CommitPatch(r)
  <2>1. request' = [request EXCEPT ![r].pc = "done"]
    BY <1>8 DEF CommitPatch
  <2>2. \A q \in Requests \ {r} : before'[q] = before[q]
    BY <1>8 DEF CommitPatch, TypeOK
  <2>3. RequestOK(r)'
    BY <1>0, <1>8, <2>1, Advance DEF CommitPatch, RequestOK
  <2>4. HistoryOK(r)' /\ ChargeOK(r)' /\ JobOK(r)' /\ CommitOK(r)'
    <3>1. request'[r].pc = "done" /\ request'[r].op = request[r].op
      BY <2>1, Advance
    <3>2. /\ history'[r] = "absent" /\ job'[r] = job[r] /\ request[r].op \in Patches
          /\ job[r].pc # "none" => request[r].op = "patch_metadata"
      BY <1>0, <1>8 DEF CommitPatch, HistoryOK, JobOK
    <3> QED BY <3>1, <3>2 DEF HistoryOK, ChargeOK, JobOK, CommitOK, Committed, Fresh
  <2> QED BY <1>8, <2>1, <2>2, <2>3, <2>4, RequestFrame, Advance DEF CommitPatch
<1>9. ASSUME NEW u \in Requests, BeginRetry(r, u)
      PROVE  Shape'
  <2> DEFINE fields == [Idle EXCEPT !.op = "retry_update_mint", !.pc = "reset", !.of = u]
  <2>1. request'[r] = fields /\ \A q \in Requests \ {r} : request'[q] = request[q]
    BY <1>9 DEF BeginRetry, Begin, TypeOK
  <2>2. fields.op = "retry_update_mint" /\ fields.pc = "reset" /\ fields.of = u
    BY DEF Idle
  <2>3. /\ u # r /\ request[u].op = "update_mint"
        /\ request[u].pc \in {"enqueue", "done", "stopped"}
    <3>1. request[r].op = "none" /\ HistoryOK(u)
      BY <1>9 DEF BeginRetry, Begin, Idle, Shape
    <3>2. request[u].op = "update_mint" /\ history[u] # "absent"
      BY <1>9 DEF BeginRetry
    <3>3. RequestOK(u)
      BY DEF Shape
    <3> QED BY <3>1, <3>2, <3>3 DEF HistoryOK, RequestOK
  <2>4. RequestOK(r)'
    BY <2>1, <2>2, <2>3 DEF RequestOK
  <2> QED BY <1>9, <2>2, <2>4, BeginShape DEF BeginRetry
<1>10. CASE ResetToPending(r)
  <2> DEFINE u == request[r].of
  <2>1. request' = [request EXCEPT ![r].pc = "send"] /\ request[r].op = "retry_update_mint"
    BY <1>0, <1>10 DEF ResetToPending, RequestOK, TypeOK, Request, AllOps
  <2>2. /\ u \in Requests \ {r} /\ request[u].op = "update_mint"
        /\ request[u].pc \in {"enqueue", "done", "stopped"}
    BY <1>0, <2>1 DEF RequestOK
  <2>3. /\ request'[r].pc = "send" /\ request'[r].op = request[r].op /\ request'[r].of = u
        /\ \A q \in Requests \ {r} : request'[q] = request[q]
    BY <2>1, Advance
  <2>4. \A q \in Requests : history'[q] = IF q = u THEN "pending" ELSE history[q]
    BY <1>10 DEF ResetToPending, TypeOK
  <2>5. /\ history[r] = "absent" /\ job[r].pc = "none" /\ before[r] = {}
        /\ \A q \in Requests : job'[q] = job[q] /\ before'[q] = before[q]
                                /\ charge'[q] = charge[q]
    BY <1>0, <1>10, <2>1 DEF ResetToPending, HistoryOK, JobOK, CommitOK, Committed
  <2>6. RequestOK(r)'
    BY <2>1, <2>2, <2>3 DEF RequestOK
  <2>7. HistoryOK(r)' /\ ChargeOK(r)' /\ JobOK(r)' /\ CommitOK(r)'
    BY <2>2, <2>3, <2>4, <2>5 DEF HistoryOK, ChargeOK, JobOK, CommitOK, Committed, Fresh
  <2>8. \A q \in Requests \ {r} : history'[q] = history[q] \/ HistoryOK(q)'
    BY <2>2, <2>3, <2>4 DEF HistoryOK
  <2> QED BY <1>10, <2>1, <2>3, <2>5, <2>6, <2>7, <2>8, RequestFrame DEF ResetToPending
<1>11. ASSUME NEW w \in Wallets, BeginTransfer(r, w)
       PROVE  Shape'
  <2> DEFINE fields == [Idle EXCEPT !.op = "transfer_asset", !.pc = "deduct",
                                    !.from = mint.owner, !.to = w]
  <2>1. request'[r] = fields
    BY <1>11 DEF BeginTransfer, Begin, TypeOK
  <2>2. fields.op = "transfer_asset" /\ fields.pc = "deduct" /\ fields.to = w
    BY DEF Idle
  <2>3. RequestOK(r)'
    BY <2>1, <2>2 DEF RequestOK
  <2> QED BY <1>11, <2>2, <2>3, BeginShape DEF BeginTransfer
<1>12. ASSUME NEW k \in Collections, BeginSwitch(r, k)
       PROVE  Shape'
  <2> DEFINE fields == [Idle EXCEPT !.op = "switch_collection", !.pc = "deduct", !.asset = k]
  <2>1. request'[r] = fields
    BY <1>12 DEF BeginSwitch, Begin, TypeOK
  <2>2. fields.op = "switch_collection" /\ fields.pc = "deduct" /\ fields.asset = k
    BY DEF Idle
  <2>3. RequestOK(r)'
    BY <2>1, <2>2 DEF RequestOK
  <2> QED BY <1>12, <2>2, <2>3, BeginShape DEF BeginSwitch
<1>13. CASE Record(r)
  <2>1. /\ request' = [request EXCEPT ![r].pc = "send"]
        /\ request[r].op \in {"transfer_asset", "switch_collection"}
    BY <1>0, <1>13 DEF Record, RequestOK, TypeOK, Request, AllOps
  <2>2. \A q \in Requests \ {r} : history'[q] = history[q]
    BY <1>13 DEF Record, TypeOK
  <2>3. RequestOK(r)'
    BY <1>0, <2>1, Advance DEF RequestOK
  <2>4. HistoryOK(r)' /\ ChargeOK(r)' /\ JobOK(r)' /\ CommitOK(r)'
    <3>1. request'[r].pc = "send" /\ request'[r].op = request[r].op
      BY <2>1, Advance
    <3>2. job'[r].pc = "none" /\ before'[r] = {}
      BY <1>0, <1>13 DEF Record, JobOK, CommitOK, Committed
    <3> QED BY <2>1, <3>1, <3>2 DEF HistoryOK, ChargeOK, JobOK, CommitOK, Committed, Fresh
  <2> QED BY <1>13, <2>1, <2>2, <2>3, <2>4, RequestFrame, Advance DEF Record
<1>14. ASSUME NEW s \in Submissions, SendPatch(r, s)
       PROVE  Shape'
  <2>1. request' = [request EXCEPT ![r].pc = "commit"]
    BY <1>14 DEF SendPatch
  <2>2. RequestOK(r)'
    BY <1>0, <1>14, <2>1, Advance DEF SendPatch, RequestOK
  <2>3. HistoryOK(r)' /\ ChargeOK(r)' /\ JobOK(r)' /\ CommitOK(r)'
    BY <1>0, <1>14, <2>1, Advance
    DEF SendPatch, HistoryOK, ChargeOK, JobOK, CommitOK, Committed, Fresh
  <2>4. SubmissionOK(s)'
    <3>1. submission'[s].kind = "patch" /\ submission'[s].request = r
      BY <1>14 DEF SendPatch, Submit, TypeOK
    <3> QED BY <3>1 DEF SubmissionOK
  <2>5. \A t \in Submissions : submission'[t] = submission[t] \/ SubmissionOK(t)'
    BY <1>14, <2>4 DEF SendPatch, Submit, TypeOK
  <2> QED BY <1>14, <2>1, <2>2, <2>3, <2>5, RequestFrame, Advance DEF SendPatch
<1>15. ASSUME NEW s \in Submissions, SendRetry(r, s)
       PROVE  Shape'
  <2>1. request' = [request EXCEPT ![r].pc = "done"] /\ request[r].op = "retry_update_mint"
    BY <1>15 DEF SendRetry
  <2>2. /\ request[r].of \in Requests \ {r}
        /\ request'[request[r].of] = request[request[r].of]
        /\ request[request[r].of].op = "update_mint"
        /\ request[request[r].of].pc \in {"enqueue", "done", "stopped"}
    BY <1>0, <2>1, Advance DEF RequestOK
  <2>3. RequestOK(r)'
    BY <1>0, <2>1, <2>2, Advance DEF RequestOK, Fresh
  <2>4. HistoryOK(r)' /\ ChargeOK(r)' /\ JobOK(r)' /\ CommitOK(r)'
    BY <1>0, <1>15, <2>1, Advance
    DEF SendRetry, HistoryOK, ChargeOK, JobOK, CommitOK, Committed, Fresh
  <2>5. SubmissionOK(s)'
    <3>1. submission'[s].kind = "retry" /\ submission'[s].request = request[r].of
      BY <1>15 DEF SendRetry, Submit, TypeOK
    <3> QED BY <2>2, <3>1 DEF SubmissionOK, Fresh
  <2>6. \A t \in Submissions : submission'[t] = submission[t] \/ SubmissionOK(t)'
    BY <1>15, <2>5 DEF SendRetry, Submit, TypeOK
  <2> QED BY <1>15, <2>1, <2>3, <2>4, <2>6, RequestFrame, Advance DEF SendRetry
<1>16. ASSUME NEW s \in Submissions, Send(r, s)
       PROVE  Shape'
  <2>1. /\ request' = [request EXCEPT ![r].pc = "done"]
        /\ request[r].op \in {"transfer_asset", "switch_collection"}
    BY <1>16 DEF Send
  <2>2. RequestOK(r)'
    BY <1>0, <2>1, Advance DEF RequestOK
  <2>3. HistoryOK(r)' /\ ChargeOK(r)' /\ JobOK(r)' /\ CommitOK(r)'
    BY <1>0, <1>16, <2>1, Advance
    DEF Send, HistoryOK, ChargeOK, JobOK, CommitOK, Committed, Fresh
  <2>4. SubmissionOK(s)'
    <3>1. /\ submission'[s].kind = IF request[r].op = "transfer_asset" THEN "transfer"
                                   ELSE "switch"
          /\ submission'[s].request = r
      BY <1>16 DEF Send, Submit, TypeOK
    <3>2. request'[r].pc = "done" /\ request'[r].op = request[r].op
      BY <2>1, Advance
    <3> QED BY <2>1, <3>1, <3>2 DEF SubmissionOK
  <2>5. \A t \in Submissions : submission'[t] = submission[t] \/ SubmissionOK(t)'
    BY <1>16, <2>4 DEF Send, Submit, TypeOK
  <2> QED BY <1>16, <2>1, <2>2, <2>3, <2>5, RequestFrame, Advance DEF Send
<1> QED BY <1>1, <1>2, <1>3, <1>4, <1>5, <1>6, <1>7, <1>8, <1>9, <1>10, <1>11, <1>12, <1>13,
           <1>14, <1>15, <1>16, <1>17 DEF RequestStep

\* A step that leaves the requests and the commits alone.
LEMMA StillShape ==
  ASSUME Shape, UNCHANGED <<request, before>>,
         \A r \in Requests : HistoryOK(r)' /\ ChargeOK(r)' /\ JobOK(r)',
         \A s \in Submissions : SubmissionOK(s)',
         \A i \in Moves : NoticeOK(i)'
  PROVE  Shape'
<1>1. ASSUME NEW r \in Requests PROVE RequestOK(r)' /\ CommitOK(r)'
  <2>1. RequestOK(r) /\ CommitOK(r)
    BY DEF Shape
  <2> QED BY <2>1 DEF RequestOK, CommitOK, Committed
<1> QED BY <1>1 DEF Shape

LEMMA JobShape ==
  ASSUME TypeOK, Shape, NEW r \in Requests, JobStep(r) \/ JobFails(r)
  PROVE  Shape'
<1>1. /\ \A q \in Requests : HistoryOK(q) /\ ChargeOK(q) /\ JobOK(q) /\ RequestOK(q)
      /\ \A s \in Submissions : SubmissionOK(s)
      /\ \A i \in Moves : NoticeOK(i)
  BY DEF Shape
<1>2. UNCHANGED <<request, before, history, charge, owners, notice>>
  BY DEF JobStep, ReadRows, SaveUri, SubmitFromJob, JobFails
<1>3. job[r].pc # "none" /\ \A q \in Requests \ {r} : job'[q] = job[q]
  BY DEF JobStep, ReadRows, SaveUri, SubmitFromJob, JobFails, TypeOK
<1>4. \A q \in Requests : HistoryOK(q)' /\ ChargeOK(q)' /\ JobOK(q)'
  BY <1>1, <1>2, <1>3 DEF HistoryOK, ChargeOK, JobOK, Fresh
<1>5. \A i \in Moves : NoticeOK(i)'
  BY <1>1, <1>2 DEF NoticeOK
<1>6. \A s \in Submissions : SubmissionOK(s)'
  <2>1. CASE UNCHANGED submission
    BY <1>1, <1>2, <2>1 DEF SubmissionOK, Fresh
  <2>2. ASSUME NEW s \in Submissions, SubmitFromJob(r, s)
        PROVE  \A t \in Submissions : SubmissionOK(t)'
    <3>1. submission' = [submission EXCEPT ![s] =
            [kind |-> IF request[r].asset = Mint THEN "update" ELSE "patch", request |-> r,
             data |-> [content |-> job[r].content, uri |-> r, creators |-> job[r].creators,
                       fee |-> job[r].fee],
             outcome |-> "waiting"]]
      BY <2>2 DEF SubmitFromJob, Submit
    <3>2. /\ submission'[s].kind = IF request[r].asset = Mint THEN "update" ELSE "patch"
          /\ submission'[s].request = r
          /\ \A t \in Submissions \ {s} : submission'[t] = submission[t]
      BY <3>1 DEF TypeOK
    <3>3. request[r].asset = Mint => request[r].op = "update_mint" /\ request[r].pc = "done"
      BY <1>1, <1>3 DEF JobOK, RequestOK, Patches
    <3>4. SubmissionOK(s)'
      BY <1>2, <3>2, <3>3 DEF SubmissionOK
    <3>5. ASSUME NEW t \in Submissions \ {s} PROVE SubmissionOK(t)'
      BY <1>1, <1>2, <3>2 DEF SubmissionOK, Fresh
    <3> QED BY <3>4, <3>5
  <2> QED BY <2>1, <2>2 DEF JobStep, ReadRows, SaveUri, JobFails
<1> QED BY <1>2, <1>4, <1>5, <1>6, StillShape

LEMMA ServiceShape ==
  ASSUME TypeOK, Shape, NEW s \in Submissions, Execute(s)
  PROVE  Shape'
<1>1. /\ \A q \in Requests : HistoryOK(q) /\ ChargeOK(q) /\ JobOK(q) /\ RequestOK(q)
      /\ \A t \in Submissions : SubmissionOK(t)
      /\ \A i \in Moves : NoticeOK(i)
  BY DEF Shape
<1>2. UNCHANGED <<request, before, history, charge, job, notice>>
  BY DEF Execute
<1>3. Len(owners') >= Len(owners) /\ Len(owners) \in Nat /\ Len(owners') \in Nat
  <2>1. CASE UNCHANGED owners
    BY <2>1 DEF TypeOK
  <2>2. CASE \E w \in Wallets : owners' = Append(owners, w) /\ Len(owners) <= MaxMoves
    BY <2>2, OwnersType DEF TypeOK
  <2>3. UNCHANGED owners \/ \E w \in Wallets : owners' = Append(owners, w)
                                               /\ Len(owners) <= MaxMoves
    BY <1>1 DEF Execute, SubmissionOK, RequestOK
  <2> QED BY <2>1, <2>2, <2>3
<1>4. \A i \in Moves : NoticeOK(i)'
  BY <1>1, <1>2, <1>3 DEF NoticeOK, Moves
<1>5. \A t \in Submissions : SubmissionOK(t)'
  <2>1. PICK outcome : submission' = [submission EXCEPT ![s].outcome = outcome]
    BY DEF Execute
  <2>2. submission[s] \in Submission /\ submission[s].kind # "unused"
    BY DEF TypeOK, Execute
  <2>3. /\ submission'[s].kind = submission[s].kind
        /\ submission'[s].request = submission[s].request
        /\ \A t \in Submissions \ {s} : submission'[t] = submission[t]
    BY <2>1, <2>2 DEF TypeOK, Submission
  <2> QED BY <1>1, <1>2, <2>2, <2>3 DEF SubmissionOK, Fresh
<1>6. \A q \in Requests : HistoryOK(q)' /\ ChargeOK(q)' /\ JobOK(q)'
  BY <1>1, <1>2 DEF HistoryOK, ChargeOK, JobOK, Fresh
<1> QED BY <1>2, <1>4, <1>5, <1>6, StillShape

LEMMA HandlerShape ==
  ASSUME TypeOK, Shape, NEW s \in Submissions, HandlerStep(s) \/ HandlerFails(s)
  PROVE  Shape'
<1>1. /\ \A q \in Requests : HistoryOK(q) /\ ChargeOK(q) /\ JobOK(q) /\ RequestOK(q)
      /\ \A t \in Submissions : SubmissionOK(t)
      /\ \A i \in Moves : NoticeOK(i)
  BY DEF Shape
<1>2. UNCHANGED <<request, before, job, submission, owners, notice>>
  BY DEF HandlerStep, HandlerFails, SwitchMint, ConfirmDeduction, WriteHistory, Acknowledge
<1> DEFINE r == submission[s].request
<1>3. (\A t \in Submissions : SubmissionOK(t)') /\ (\A i \in Moves : NoticeOK(i)')
  BY <1>1, <1>2 DEF SubmissionOK, NoticeOK, Fresh
<1>4. CASE UNCHANGED <<charge, history>>
  <2>1. \A q \in Requests : HistoryOK(q)' /\ ChargeOK(q)' /\ JobOK(q)'
    BY <1>1, <1>2, <1>4 DEF HistoryOK, ChargeOK, JobOK, Fresh
  <2> QED BY <1>2, <1>3, <2>1, StillShape
<1>5. CASE ConfirmDeduction(s) \/ WriteHistory(s)
  <2>1. submission[s].kind \notin {"unused", "patch"}
    BY <1>5 DEF ConfirmDeduction, WriteHistory, Result
  <2>2. submission[s] \in Submission
    BY DEF TypeOK
  <2>3. submission[s].kind \in {"update", "retry", "transfer", "switch"}
    BY <2>1, <2>2 DEF Submission
  <2>4. /\ r \in Requests
        /\ request[r].op \in {"update_mint", "transfer_asset", "switch_collection"}
        /\ request[r].pc \in {"enqueue", "done", "stopped"}
    BY <1>1, <2>3 DEF SubmissionOK
  <2>5. \A q \in Requests \ {r} : charge'[q] = charge[q] /\ history'[q] = history[q]
    BY <1>5 DEF ConfirmDeduction, WriteHistory, TypeOK
  <2>6. \A q \in Requests : HistoryOK(q)' /\ ChargeOK(q)' /\ JobOK(q)'
    BY <1>1, <1>2, <2>4, <2>5 DEF HistoryOK, ChargeOK, JobOK, Fresh
  <2> QED BY <1>2, <1>3, <2>6, StillShape
<1> QED BY <1>4, <1>5 DEF HandlerStep, HandlerFails, SwitchMint, Acknowledge

LEMMA NoticeShape ==
  ASSUME TypeOK, Shape, NEW i \in Moves, NoticeStep(i) \/ NoticeFails(i)
  PROVE  Shape'
<1>1. UNCHANGED <<request, before, charge, history, job, submission, owners>>
  BY DEF NoticeStep, NoticeFails, SetOwner, InsertTransfer, ReadOwner, WriteOwner, NoticeDone
<1>2. \A q \in Requests : HistoryOK(q)' /\ ChargeOK(q)' /\ JobOK(q)'
  BY <1>1 DEF Shape, HistoryOK, ChargeOK, JobOK, Fresh
<1>3. \A s \in Submissions : SubmissionOK(s)'
  BY <1>1 DEF Shape, SubmissionOK, Fresh
<1>4. ASSUME NEW j \in Moves PROVE NoticeOK(j)'
  <2>1. NoticeOK(j) /\ mint.owner \in Wallets /\ notice[i] \in Notice
    BY DEF Shape, TypeOK
  <2>2. CASE j # i
    BY <1>1, <2>1, <2>2 DEF NoticeOK, TypeOK, NoticeStep, NoticeFails, SetOwner,
       InsertTransfer, ReadOwner, WriteOwner, NoticeDone
  <2>3. CASE j = i /\ (SetOwner(i) \/ ReadOwner(i))
    BY <1>1, <2>1, <2>3 DEF NoticeOK, SetOwner, ReadOwner, Changed, TypeOK, Notice
  <2>4. CASE j = i /\ ~(SetOwner(i) \/ ReadOwner(i))
    <3>1. notice'[i].pc \in {"recorded", "acked", "waiting"}
      BY <2>1, <2>4 DEF NoticeStep, NoticeFails, InsertTransfer, WriteOwner, NoticeDone,
         TypeOK, Notice
    <3> QED BY <2>4, <3>1 DEF NoticeOK
  <2> QED BY <2>2, <2>3, <2>4
<1> QED BY <1>1, <1>2, <1>3, <1>4, StillShape

-----------------------------------------------------------------------------
(* Types and Shape hold.                                                   *)

LEMMA NextBase ==
  ASSUME TypeOK, Shape, [Next]_vars
  PROVE  TypeOK' /\ Shape'
<1>0. /\ \A r \in Requests : RequestOK(r) /\ JobOK(r)
      /\ \A s \in Submissions : SubmissionOK(s)
      /\ \A i \in Moves : NoticeOK(i)
  BY DEF Shape
<1>1. ASSUME NEW r \in Requests, RequestStep(r)
      PROVE  TypeOK' /\ Shape'
  <2>1. /\ request[r].op = "retry_update_mint" => request[r].of \in Requests
        /\ request[r].op \in Patches => request[r].asset \in Collections
        /\ request[r].op = "update_mint" => request[r].asset = Mint
    BY <1>0 DEF RequestOK
  <2>2. request[r].pc = "delete" => request[r].asset \in Assets
    <3>1. request[r] \in Request
      BY DEF TypeOK
    <3> QED BY <1>0, <2>1, <3>1 DEF RequestOK, Request, AllOps, Assets
  <2> QED BY <1>1, <2>1, <2>2, RequestType, RequestShape
<1>2. ASSUME NEW r \in Requests, JobStep(r) \/ JobFails(r)
      PROVE  TypeOK' /\ Shape'
  <2>1. job[r].pc # "none" => request[r].asset \in Assets
    BY <1>0 DEF JobOK, RequestOK, Assets, Patches
  <2> QED BY <1>2, <2>1, JobType, JobShape
<1>3. ASSUME NEW s \in Submissions, Execute(s)
      PROVE  TypeOK' /\ Shape'
  <2>1. submission[s].kind = "transfer" => request[submission[s].request].to \in Wallets
    BY <1>0 DEF SubmissionOK, RequestOK
  <2> QED BY <1>3, <2>1, ServiceType, ServiceShape
<1>4. ASSUME NEW w \in Wallets, Move(w)
      PROVE  TypeOK' /\ Shape'
  <2>1. owners' \in Seq(Wallets) /\ Len(owners') \in 1..(MaxMoves + 1)
        /\ Len(owners') = Len(owners) + 1
    BY <1>4, OwnersType DEF Move
  <2>2. TypeOK'
    BY <1>4, <2>1 DEF Move, TypeOK
  <2>3. UNCHANGED <<request, before, history, charge, job, submission, notice>>
    BY <1>4 DEF Move
  <2>4. \A i \in Moves : NoticeOK(i)'
    BY <1>0, <2>1, <2>3 DEF NoticeOK, Moves, TypeOK
  <2>5. /\ \A q \in Requests : HistoryOK(q)' /\ ChargeOK(q)' /\ JobOK(q)'
        /\ \A s \in Submissions : SubmissionOK(s)'
    BY <2>3 DEF Shape, HistoryOK, ChargeOK, JobOK, SubmissionOK, Fresh
  <2> QED BY <2>2, <2>3, <2>4, <2>5, StillShape
<1>5. ASSUME NEW s \in Submissions, HandlerStep(s) \/ HandlerFails(s)
      PROVE  TypeOK' /\ Shape'
  <2>1. submission[s] \in Submission
    BY DEF TypeOK
  <2>2. submission[s].kind # "unused" =>
          /\ submission[s].request \in Requests
          /\ submission[s].kind = "switch" => request[submission[s].request].asset \in Collections
    BY <1>0 DEF SubmissionOK, RequestOK
  <2> QED BY <1>5, <2>2, HandlerType, HandlerShape
<1>6. ASSUME NEW i \in Moves, NoticeStep(i) \/ NoticeFails(i)
      PROVE  TypeOK' /\ Shape'
  <2>1. NoticeOK(i)
    BY <1>0
  <2> QED BY <1>6, <2>1, NoticeType, NoticeShape DEF NoticeOK
<1>7. CASE UNCHANGED vars
  <2>1. TypeOK'
    BY <1>7 DEF vars, TypeOK
  <2>2. Shape'
    BY <1>7 DEF vars, Shape, RequestOK, HistoryOK, ChargeOK, JobOK, CommitOK, SubmissionOK,
       NoticeOK, Committed, Fresh
  <2> QED BY <2>1, <2>2
<1> QED BY <1>1, <1>2, <1>3, <1>4, <1>5, <1>6, <1>7 DEF Next

LEMMA BaseHolds == Spec => [](TypeOK /\ Shape)
<1>1. Init => TypeOK /\ Shape
  BY InitTypeOK, InitShape
<1>2. TypeOK /\ Shape /\ [Next]_vars => (TypeOK /\ Shape)'
  BY NextBase
<1> QED BY <1>1, <1>2, PTL DEF Spec

\* All state keeps its type.
THEOREM TypeCorrect == Spec => []TypeOK
BY BaseHolds, PTL

-----------------------------------------------------------------------------
(* Charges and histories follow the chain.                                 *)

LEMMA InitCharged == Init => Charged
BY DEF Init, Charged, HandlerOK, OneSwitch, ConfirmedIsOnChain, CreatedIsConfirmed, Unsent

\* A step outside the handlers: a result stays, and so does what a handler has written.
LEMMA ChargedFrame ==
  ASSUME TypeOK, Charged, UNCHANGED handler,
         \A r \in Requests :
           charge[r] = charge'[r] \/ "confirmed" \notin {charge[r], charge'[r]},
         \A r \in Requests :
           \/ history'[r] = history[r]
           \/ /\ history'[r] = "pending"
              /\ \A s \in Submissions :
                   submission[s].kind = "switch" => submission[s].request # r,
         \A s \in Submissions :
           \/ submission'[s] = submission[s]
           \/ submission[s].outcome = "waiting" /\ handler[s] = "waiting",
         \A s \in Submissions : submission[s].kind # "unused" => submission[s].request \in Requests,
         OneSwitch'
  PROVE  Charged'
<1>1. ASSUME NEW s \in Submissions PROVE HandlerOK(s)'
  <2>1. HandlerOK(s) /\ handler'[s] = handler[s]
    BY DEF Charged
  <2>2. CASE handler[s] = "waiting"
    BY <2>1, <2>2 DEF HandlerOK
  <2>3. CASE handler[s] # "waiting"
    <3> DEFINE r == submission[s].request
    <3>1. submission'[s] = submission[s] /\ r \in Requests
      BY <2>1, <2>3 DEF HandlerOK
    <3>2. /\ charge[r] = "confirmed" => charge'[r] = "confirmed"
          /\ submission[s].kind = "switch" => history'[r] = history[r]
      BY <3>1
    <3> QED BY <2>1, <3>1, <3>2 DEF HandlerOK
  <2> QED BY <2>2, <2>3
<1>2. ASSUME NEW r \in Requests, charge'[r] = "confirmed"
      PROVE  Succeeded(r, {"update", "retry", "transfer", "switch"})'
  <2>1. charge[r] = "confirmed"
    BY <1>2
  <2>2. PICK s \in Submissions :
          /\ submission[s].request = r /\ submission[s].outcome = "success"
          /\ submission[s].kind \in {"update", "retry", "transfer", "switch"}
    BY <2>1 DEF Charged, ConfirmedIsOnChain, Succeeded
  <2>3. submission'[s] = submission[s]
    BY <2>2
  <2> QED BY <2>2, <2>3 DEF Succeeded
<1>3. ASSUME NEW r \in Requests, history'[r] = "created" PROVE charge'[r] = "confirmed"
  BY <1>3 DEF Charged, CreatedIsConfirmed
<1> QED BY <1>1, <1>2, <1>3 DEF Charged, ConfirmedIsOnChain, CreatedIsConfirmed

LEMMA SubmitCharged ==
  ASSUME TypeOK, Shape, Charged, NEW r \in Requests, NEW s \in Submissions, NEW kind, NEW data,
         submission[s] = Unsent,
         submission' = [submission EXCEPT ![s] = [kind |-> kind, request |-> r, data |-> data,
                                                  outcome |-> "waiting"]],
         kind = "switch" => \A t \in Submissions :
           submission[t].kind = "switch" => submission[t].request # r,
         UNCHANGED <<handler, charge, history>>
  PROVE  Charged'
<1>1. submission[s].kind = "unused" /\ submission[s].outcome = "waiting"
  BY DEF Unsent
<1>2. handler[s] = "waiting"
  BY <1>1 DEF Charged, HandlerOK
<1>3. /\ submission'[s].kind = kind /\ submission'[s].request = r
      /\ \A t \in Submissions \ {s} : submission'[t] = submission[t]
  BY DEF TypeOK
<1>4. OneSwitch'
  <2>1. OneSwitch
    BY DEF Charged
  <2> SUFFICES ASSUME NEW x \in Submissions, NEW y \in Submissions,
                      submission'[x].kind = "switch", submission'[y].kind = "switch",
                      submission'[x].request = submission'[y].request, x # y
               PROVE  FALSE
    BY DEF OneSwitch
  <2>2. CASE x = s
    BY <1>3, <2>2
  <2>3. CASE y = s
    BY <1>3, <2>3
  <2>4. CASE x # s /\ y # s
    BY <1>3, <2>1, <2>4 DEF OneSwitch
  <2> QED BY <2>2, <2>3, <2>4
<1>5. \A t \in Submissions : submission[t].kind # "unused" => submission[t].request \in Requests
  BY DEF Shape, SubmissionOK
<1>6. \A t \in Submissions :
        \/ submission'[t] = submission[t]
        \/ submission[t].outcome = "waiting" /\ handler[t] = "waiting"
  BY <1>1, <1>2, <1>3
<1> QED BY <1>4, <1>5, <1>6, ChargedFrame

LEMMA RequestCharged ==
  ASSUME TypeOK, Shape, Charged, NEW r \in Requests, RequestStep(r)
  PROVE  Charged'
<1>0. /\ RequestOK(r) /\ HistoryOK(r) /\ ChargeOK(r)
      /\ \A s \in Submissions : SubmissionOK(s)
      /\ \A s \in Submissions : submission[s].kind # "unused" => submission[s].request \in Requests
  BY DEF Shape, SubmissionOK
<1>1. CASE UNCHANGED <<handler, submission>> /\ ~Deduct(r)
  <2>1. \A s \in Submissions : submission'[s] = submission[s]
    BY <1>1
  <2>2. OneSwitch'
    BY <1>1 DEF Charged, OneSwitch
  <2>3. CASE UNCHANGED <<charge, history>>
    BY <1>0, <1>1, <2>1, <2>2, <2>3, ChargedFrame
  <2>4. CASE CommitUpdate(r)
    <3>1. \A s \in Submissions : submission[s].kind = "switch" => submission[s].request # r
      BY <1>0, <2>4 DEF CommitUpdate, SubmissionOK
    <3>2. \A q \in Requests : history'[q] = IF q = r THEN "pending" ELSE history[q]
      BY <2>4 DEF CommitUpdate, TypeOK
    <3>3. UNCHANGED <<charge, handler>>
      BY <2>4 DEF CommitUpdate
    <3> QED BY <1>0, <2>1, <2>2, <3>1, <3>2, <3>3, ChargedFrame
  <2>5. CASE Record(r)
    <3>1. \A s \in Submissions : submission[s].kind = "switch" => submission[s].request # r
      BY <1>0, <2>5 DEF Record, SubmissionOK
    <3>2. \A q \in Requests : history'[q] = IF q = r THEN "pending" ELSE history[q]
      BY <2>5 DEF Record, TypeOK
    <3>3. UNCHANGED <<charge, handler>>
      BY <2>5 DEF Record
    <3> QED BY <1>0, <2>1, <2>2, <3>1, <3>2, <3>3, ChargedFrame
  <2>6. CASE ResetToPending(r)
    <3> DEFINE u == request[r].of
    <3>1. request[r].op = "retry_update_mint"
      BY <1>0, <2>6 DEF ResetToPending, RequestOK, TypeOK, Request, AllOps, Patches
    <3>2. \A s \in Submissions : submission[s].kind = "switch" => submission[s].request # u
      BY <1>0, <3>1 DEF RequestOK, SubmissionOK
    <3>3. \A q \in Requests : history'[q] = IF q = u THEN "pending" ELSE history[q]
      BY <2>6 DEF ResetToPending, TypeOK
    <3>4. UNCHANGED <<charge, handler>>
      BY <2>6 DEF ResetToPending
    <3> QED BY <1>0, <2>1, <2>2, <3>2, <3>3, <3>4, ChargedFrame
  <2>7. CASE \/ GiveUp(r) \/ BeginUpdate(r) \/ DeleteCreators(r) \/ EnqueueUpdate(r)
             \/ \E op \in Patches, k \in Collections : BeginPatch(r, op, k)
             \/ EnqueuePatch(r) \/ CommitPatch(r)
             \/ \E u \in Requests : BeginRetry(r, u)
             \/ \E w \in Wallets : BeginTransfer(r, w)
             \/ \E k \in Collections : BeginSwitch(r, k)
    <3>1. UNCHANGED <<charge, history>>
      BY <2>7 DEF GiveUp, BeginUpdate, DeleteCreators, EnqueueUpdate, BeginPatch, EnqueuePatch, CommitPatch,
                  BeginRetry, BeginTransfer, BeginSwitch
    <3> QED BY <2>3, <3>1
  <2>8. CASE \E s \in Submissions : SendPatch(r, s) \/ SendRetry(r, s) \/ Send(r, s)
    <3>1. UNCHANGED <<charge, history>>
      BY <2>8 DEF SendPatch, SendRetry, Send
    <3> QED BY <2>3, <3>1
  <2> QED BY <1>1, <2>4, <2>5, <2>6, <2>7, <2>8 DEF RequestStep
<1>2. CASE Deduct(r)
  <2>1. charge[r] = "none"
    BY <1>0, <1>2 DEF Deduct, ChargeOK, Fresh
  <2>2. \A q \in Requests : charge'[q] = IF q = r THEN "pending" ELSE charge[q]
    BY <1>2 DEF Deduct, TypeOK
  <2>3. UNCHANGED <<handler, submission, history>>
    BY <1>2 DEF Deduct
  <2>4. OneSwitch'
    BY <2>3 DEF Charged, OneSwitch
  <2> QED BY <1>0, <2>1, <2>2, <2>3, <2>4, ChargedFrame
<1>3. ASSUME NEW s \in Submissions, SendPatch(r, s) PROVE Charged'
  <2>1. PICK data :
          /\ submission[s] = Unsent
          /\ submission' = [submission EXCEPT ![s] = [kind |-> "patch", request |-> r,
                                                     data |-> data, outcome |-> "waiting"]]
    BY <1>3 DEF SendPatch, Submit
  <2>2. UNCHANGED <<handler, charge, history>>
    BY <1>3 DEF SendPatch
  <2>3. "patch" # "switch"
    OBVIOUS
  <2> QED BY Zenon, <2>1, <2>2, <2>3, SubmitCharged
<1>4. ASSUME NEW s \in Submissions, SendRetry(r, s) PROVE Charged'
  <2>1. PICK u \in Requests : u = request[r].of
    BY <1>0, <1>4 DEF SendRetry, RequestOK
  <2>2. PICK kind \in {"retry"}, data \in {NoData} :
          /\ submission[s] = Unsent
          /\ submission' = [submission EXCEPT ![s] = [kind |-> kind, request |-> u,
                              data |-> data, outcome |-> "waiting"]]
          /\ UNCHANGED <<handler, charge, history>>
    BY <1>4, <2>1 DEF SendRetry, Submit
  <2> QED BY <2>2, SubmitCharged
<1>5. ASSUME NEW s \in Submissions, Send(r, s) PROVE Charged'
  <2>1. \A t \in Submissions : submission[t].kind = "switch" => submission[t].request # r
    BY <1>0, <1>5 DEF Send, SubmissionOK
  <2>2. PICK kind \in {"transfer", "switch"}, data \in {NoData} :
          /\ submission[s] = Unsent
          /\ submission' = [submission EXCEPT ![s] = [kind |-> kind, request |-> r,
                              data |-> data, outcome |-> "waiting"]]
    BY <1>5 DEF Send, Submit
  <2>3. UNCHANGED <<handler, charge, history>>
    BY <1>5 DEF Send
  <2>4. kind = "switch" => \A t \in Submissions :
          submission[t].kind = "switch" => submission[t].request # r
    BY <2>1
  <2> QED BY Zenon, <2>2, <2>3, <2>4, SubmitCharged
<1> QED BY <1>1, <1>2, <1>3, <1>4, <1>5
        DEF RequestStep, GiveUp, BeginUpdate, DeleteCreators, CommitUpdate, EnqueueUpdate, BeginPatch,
            EnqueuePatch, CommitPatch, BeginRetry, ResetToPending, BeginTransfer, BeginSwitch,
            Record

LEMMA JobCharged ==
  ASSUME TypeOK, Shape, Charged, NEW r \in Requests, JobStep(r) \/ JobFails(r)
  PROVE  Charged'
<1>1. UNCHANGED <<handler, charge, history, request>>
  BY DEF JobStep, ReadRows, SaveUri, SubmitFromJob, JobFails
<1>2. CASE UNCHANGED submission
  BY <1>1, <1>2 DEF Charged, HandlerOK, OneSwitch, ConfirmedIsOnChain, CreatedIsConfirmed, Succeeded
<1>3. ASSUME NEW s \in Submissions, SubmitFromJob(r, s) PROVE Charged'
  <2>1. PICK kind \in {"update", "patch"}, data \in {[content |-> job[r].content, uri |-> r,
               creators |-> job[r].creators, fee |-> job[r].fee]} :
          /\ submission[s] = Unsent
          /\ submission' = [submission EXCEPT ![s] = [kind |-> kind, request |-> r,
                              data |-> data, outcome |-> "waiting"]]
    BY <1>3 DEF SubmitFromJob, Submit
  <2> QED BY <1>1, <2>1, SubmitCharged
<1> QED BY <1>2, <1>3 DEF JobStep, ReadRows, SaveUri, JobFails

LEMMA ServiceCharged ==
  ASSUME TypeOK, Shape, Charged, NEW s \in Submissions, Execute(s)
  PROVE  Charged'
<1>1. PICK outcome : submission' = [submission EXCEPT ![s].outcome = outcome]
  BY DEF Execute
<1>2. submission[s] \in Submission /\ submission[s].outcome = "waiting"
  BY DEF TypeOK, Execute
<1>3. /\ submission'[s].kind = submission[s].kind
      /\ submission'[s].request = submission[s].request
      /\ \A t \in Submissions \ {s} : submission'[t] = submission[t]
  BY <1>1, <1>2 DEF TypeOK, Submission
<1>4. handler[s] = "waiting"
  BY <1>2 DEF Charged, HandlerOK
<1>5. OneSwitch'
  BY <1>3 DEF Charged, OneSwitch
<1>6. UNCHANGED <<handler, charge, history>>
  BY DEF Execute
<1>7. \A t \in Submissions : submission[t].kind # "unused" => submission[t].request \in Requests
  BY DEF Shape, SubmissionOK
<1>8. \A t \in Submissions :
        \/ submission'[t] = submission[t]
        \/ submission[t].outcome = "waiting" /\ handler[t] = "waiting"
  BY <1>2, <1>3, <1>4
<1> QED BY <1>5, <1>6, <1>7, <1>8, ChargedFrame

LEMMA HandlerCharged ==
  ASSUME TypeOK, Shape, Charged, NEW s \in Submissions, HandlerStep(s) \/ HandlerFails(s)
  PROVE  Charged'
<1> DEFINE r == submission[s].request
<1>0. /\ UNCHANGED <<submission, request>> /\ HandlerOK(s)
      /\ \A t \in Submissions : SubmissionOK(t)
  BY DEF HandlerStep, HandlerFails, SwitchMint, ConfirmDeduction, WriteHistory, Acknowledge,
         Charged, Shape
<1>1. OneSwitch'
  BY <1>0 DEF Charged, OneSwitch
<1>2. CASE SwitchMint(s) \/ Acknowledge(s) \/ HandlerFails(s)
  <2>1. /\ UNCHANGED <<charge, history>>
        /\ \A t \in Submissions \ {s} : handler'[t] = handler[t]
    BY <1>2 DEF SwitchMint, Acknowledge, HandlerFails, TypeOK
  <2>2. HandlerOK(s)'
    <3>1. CASE SwitchMint(s)
      BY <1>0, <3>1 DEF SwitchMint, Result, HandlerOK, TypeOK
    <3>2. CASE HandlerFails(s)
      BY <1>0, <3>2 DEF HandlerFails, HandlerOK, TypeOK
    <3>3. CASE Acknowledge(s)
      BY <1>0, <2>1, <3>3 DEF Acknowledge, Result, HandlerOK, TypeOK
    <3> QED BY <1>2, <3>1, <3>2, <3>3
  <2>3. \A t \in Submissions : HandlerOK(t)'
    BY <1>0, <2>1, <2>2 DEF Charged, HandlerOK
  <2> QED BY <1>0, <1>1, <2>1, <2>3
          DEF Charged, ConfirmedIsOnChain, CreatedIsConfirmed, Succeeded
<1>3. CASE ConfirmDeduction(s)
  <2>1. /\ submission[s].kind \in {"update", "retry", "transfer", "switch"}
        /\ submission[s].outcome = "success" /\ r \in Requests
    <3>1. submission[s] \in Submission
      BY DEF TypeOK
    <3> QED BY <1>0, <1>3, <3>1 DEF ConfirmDeduction, Result, SubmissionOK, Submission
  <2>2. /\ handler'[s] = "confirmed" /\ \A t \in Submissions \ {s} : handler'[t] = handler[t]
        /\ charge'[r] = "confirmed" /\ \A q \in Requests \ {r} : charge'[q] = charge[q]
        /\ UNCHANGED history
    BY <1>3, <2>1 DEF ConfirmDeduction, TypeOK
  <2>3. ASSUME NEW t \in Submissions PROVE HandlerOK(t)'
    <3>1. HandlerOK(t) /\ (submission[t].kind # "unused" => submission[t].request \in Requests)
      BY <1>0 DEF Charged, SubmissionOK
    <3> QED BY <1>0, <2>1, <2>2, <3>1 DEF HandlerOK
  <2>4. ConfirmedIsOnChain'
    BY <1>0, <2>1, <2>2 DEF Charged, ConfirmedIsOnChain, Succeeded
  <2>5. CreatedIsConfirmed'
    BY <2>2 DEF Charged, CreatedIsConfirmed
  <2> QED BY <1>1, <2>3, <2>4, <2>5 DEF Charged
<1>4. CASE WriteHistory(s)
  <2>1. /\ submission[s].kind \in {"update", "retry", "switch"} /\ r \in Requests
        /\ submission[s].outcome \in {"success", "failure"}
    <3>1. submission[s] \in Submission
      BY DEF TypeOK
    <3> QED BY <1>0, <1>4, <3>1 DEF WriteHistory, Result, SubmissionOK, Submission
  <2>2. /\ handler'[s] = "written" /\ \A t \in Submissions \ {s} : handler'[t] = handler[t]
        /\ history'[r] = IF submission[s].outcome = "success" THEN "created" ELSE "failed"
        /\ \A q \in Requests \ {r} : history'[q] = history[q]
        /\ UNCHANGED charge
    BY <1>4, <2>1 DEF WriteHistory, Result, TypeOK
  <2>3. submission[s].outcome = "success" => charge[r] = "confirmed"
    BY <1>0, <1>4 DEF WriteHistory, Result, HandlerOK
  <2>4. HandlerOK(s)'
    BY <1>0, <2>1, <2>2, <2>3 DEF HandlerOK
  <2>5. ASSUME NEW t \in Submissions \ {s} PROVE HandlerOK(t)'
    <3>1. HandlerOK(t) /\ SubmissionOK(t) /\ SubmissionOK(s)
      BY <1>0 DEF Charged
    <3>2. submission[t].kind = "switch" => submission[t].request \in Requests \ {r}
      BY <2>1, <3>1 DEF SubmissionOK, Charged, OneSwitch
    <3> QED BY <1>0, <2>2, <3>1, <3>2 DEF HandlerOK
  <2>6. ConfirmedIsOnChain'
    BY <1>0, <2>2 DEF Charged, ConfirmedIsOnChain, Succeeded
  <2>7. CreatedIsConfirmed'
    BY <2>2, <2>3 DEF Charged, CreatedIsConfirmed
  <2> QED BY <1>1, <2>4, <2>5, <2>6, <2>7 DEF Charged
<1> QED BY <1>2, <1>3, <1>4 DEF HandlerStep

LEMMA NextCharged ==
  ASSUME TypeOK, Shape, Charged, [Next]_vars
  PROVE  Charged'
<1>1. CASE UNCHANGED <<charge, history, submission, handler>>
  BY <1>1 DEF Charged, HandlerOK, OneSwitch, ConfirmedIsOnChain, CreatedIsConfirmed, Succeeded
<1>2. ASSUME NEW i \in Moves, NoticeStep(i) \/ NoticeFails(i)
      PROVE  UNCHANGED <<charge, history, submission, handler>>
  BY <1>2 DEF NoticeStep, NoticeFails, SetOwner, InsertTransfer, ReadOwner, WriteOwner, NoticeDone
<1>3. ASSUME NEW w \in Wallets, Move(w)
      PROVE  UNCHANGED <<charge, history, submission, handler>>
  BY <1>3 DEF Move
<1>4. UNCHANGED vars => UNCHANGED <<charge, history, submission, handler>>
  BY DEF vars
<1> QED BY <1>1, <1>2, <1>3, <1>4, RequestCharged, JobCharged, ServiceCharged, HandlerCharged
        DEF Next

LEMMA ChargedHolds == Spec => [](TypeOK /\ Shape /\ Charged)
<1>1. Init => TypeOK /\ Shape /\ Charged
  BY InitTypeOK, InitShape, InitCharged
<1>2. TypeOK /\ Shape /\ Charged /\ [Next]_vars => (TypeOK /\ Shape /\ Charged)'
  BY NextBase, NextCharged
<1> QED BY <1>1, <1>2, PTL DEF Spec

\* A deduction is confirmed only for what happened on the chain.
THEOREM PaidOnChain == Spec => []ConfirmedIsOnChain
<1>1. Charged => ConfirmedIsOnChain
  BY DEF Charged
<1> QED BY <1>1, ChargedHolds, PTL

\* An update or a switch that is shown as created is paid for.
THEOREM CreatedIsPaid == Spec => []CreatedIsConfirmed
<1>1. Charged => CreatedIsConfirmed
  BY DEF Charged
<1> QED BY <1>1, ChargedHolds, PTL

\* Nothing of an acknowledged result is missing, however often its delivery failed.
THEOREM ResultsAreRecorded == Spec => []AcknowledgedIsRecorded
<1>1. Charged => AcknowledgedIsRecorded
  BY DEF Charged, HandlerOK, AcknowledgedIsRecorded
<1> QED BY <1>1, ChargedHolds, PTL

\* The mint shown moves only to a collection that a switch put it in on the chain.
THEOREM CollectionIsOnChain == Spec => CollectionFollowsChain
<1> DEFINE Step == mint'.collection # mint.collection =>
             \E r \in Requests : request[r].asset = mint'.collection /\ Succeeded(r, {"switch"})
<1>1. ASSUME TypeOK, Shape, [Next]_vars PROVE [Step]_vars
  <2>1. ASSUME NEW s \in Submissions, SwitchMint(s) PROVE Step
    <3>1. submission[s].request \in Requests
      <4>1. SubmissionOK(s)
        BY <1>1 DEF Shape
      <4> QED BY <2>1, <4>1 DEF SwitchMint, SubmissionOK
    <3>2. mint'.collection = request[submission[s].request].asset
      BY <1>1, <2>1 DEF SwitchMint, TypeOK
    <3> QED BY <2>1, <3>1, <3>2 DEF SwitchMint, Result, Succeeded
  <2>2. ASSUME NEW i \in Moves, NoticeStep(i) \/ NoticeFails(i)
        PROVE  mint'.collection = mint.collection
    <3>1. CASE UNCHANGED mint
      BY <3>1
    <3>2. CASE mint' = [mint EXCEPT !.owner = owners[i + 1]]
      BY <1>1, <3>2 DEF TypeOK
    <3> QED BY <2>2, <3>1, <3>2 DEF NoticeStep, NoticeFails, SetOwner, InsertTransfer,
            ReadOwner, WriteOwner, NoticeDone
  <2>3. ASSUME NEW r \in Requests, RequestStep(r) PROVE UNCHANGED mint
    BY <2>3 DEF RequestStep, Deduct, GiveUp, BeginUpdate, DeleteCreators, CommitUpdate, EnqueueUpdate, BeginPatch,
       EnqueuePatch, CommitPatch, BeginRetry, ResetToPending, BeginTransfer, BeginSwitch,
       Record, SendPatch, SendRetry, Send
  <2>4. ASSUME NEW r \in Requests, JobStep(r) \/ JobFails(r) PROVE UNCHANGED mint
    BY <2>4 DEF JobStep, JobFails, ReadRows, SaveUri, SubmitFromJob
  <2>5. ASSUME NEW s \in Submissions,
               \/ Execute(s) \/ HandlerFails(s)
               \/ ConfirmDeduction(s) \/ WriteHistory(s) \/ Acknowledge(s)
        PROVE  UNCHANGED mint
    BY <2>5 DEF Execute, HandlerFails, ConfirmDeduction, WriteHistory, Acknowledge
  <2>6. ASSUME NEW w \in Wallets, Move(w) PROVE UNCHANGED mint
    BY <2>6 DEF Move
  <2>7. UNCHANGED vars => UNCHANGED mint
    BY DEF vars
  <2> QED BY <1>1, <2>1, <2>2, <2>3, <2>4, <2>5, <2>6, <2>7 DEF Next, HandlerStep
<1> QED BY <1>1, BaseHolds, PTL DEF Spec, CollectionFollowsChain

-----------------------------------------------------------------------------
(* The owner.                                                              *)

LEMMA NextOwner ==
  ASSUME TypeOK, Shape, OwnerWasOnChain, [Next]_vars
  PROVE  OwnerWasOnChain'
<1>0. PICK i \in 1..Len(owners) : owners[i] = mint.owner
  BY DEF OwnerWasOnChain
<1>1. CASE UNCHANGED <<owners, mint>>
  BY <1>1 DEF OwnerWasOnChain
<1>2. CASE /\ UNCHANGED mint /\ Len(owners) <= MaxMoves
           /\ \E w \in Wallets : owners' = Append(owners, w)
  <2>1. PICK w \in Wallets : owners' = Append(owners, w)
    BY <1>2
  <2>2. Len(owners') = Len(owners) + 1 /\ owners'[i] = owners[i]
    BY <1>2, <2>1, OwnersType
  <2>3. i \in 1..Len(owners')
    BY <2>2 DEF TypeOK
  <2> QED BY <1>0, <1>2, <2>2, <2>3 DEF OwnerWasOnChain
<1>3. CASE UNCHANGED owners /\ mint'.owner = mint.owner
  BY <1>3 DEF OwnerWasOnChain
<1>4. CASE UNCHANGED owners /\ \E j \in Moves : j < Len(owners) /\ mint'.owner = owners[j + 1]
  <2>1. PICK j \in Moves : j < Len(owners) /\ mint'.owner = owners[j + 1]
    BY <1>4
  <2>2. j + 1 \in 1..Len(owners)
    BY <2>1 DEF Moves, TypeOK
  <2> QED BY <1>4, <2>1, <2>2 DEF OwnerWasOnChain
<1>5. ASSUME NEW j \in Moves, NoticeStep(j) \/ NoticeFails(j) PROVE OwnerWasOnChain'
  <2>1. CASE SetOwner(j) \/ WriteOwner(j)
    <3>1. j < Len(owners)
      BY <2>1 DEF SetOwner, WriteOwner, Changed, Shape, NoticeOK
    <3>2. mint'.owner = owners[j + 1] /\ UNCHANGED owners
      BY <2>1 DEF SetOwner, WriteOwner, TypeOK
    <3> QED BY <1>4, <3>1, <3>2
  <2>2. CASE InsertTransfer(j) \/ ReadOwner(j) \/ NoticeDone(j) \/ NoticeFails(j)
    BY <1>1, <2>2 DEF InsertTransfer, ReadOwner, NoticeDone, NoticeFails
  <2> QED BY <1>5, <2>1, <2>2 DEF NoticeStep
<1>6. ASSUME NEW s \in Submissions, Execute(s) PROVE OwnerWasOnChain'
  <2>1. submission[s].kind = "transfer" => request[submission[s].request].to \in Wallets
    BY DEF Shape, SubmissionOK, RequestOK
  <2>2. UNCHANGED mint
    BY <1>6 DEF Execute
  <2>3. \/ UNCHANGED owners
        \/ Len(owners) <= MaxMoves /\ \E w \in Wallets : owners' = Append(owners, w)
    BY <1>6, <2>1 DEF Execute
  <2> QED BY <1>1, <1>2, <2>2, <2>3
<1>7. ASSUME NEW w \in Wallets, Move(w) PROVE OwnerWasOnChain'
  BY <1>2, <1>7 DEF Move
<1>8. ASSUME NEW s \in Submissions, HandlerStep(s) \/ HandlerFails(s) PROVE OwnerWasOnChain'
  BY <1>3, <1>8 DEF HandlerStep, HandlerFails, SwitchMint, ConfirmDeduction, WriteHistory,
     Acknowledge, TypeOK
<1>9. ASSUME NEW r \in Requests, RequestStep(r) PROVE OwnerWasOnChain'
  BY <1>1, <1>9 DEF RequestStep, Deduct, GiveUp, BeginUpdate, DeleteCreators, CommitUpdate, EnqueueUpdate, BeginPatch,
     EnqueuePatch, CommitPatch, BeginRetry, ResetToPending, BeginTransfer, BeginSwitch,
     Record, SendPatch, SendRetry, Send
<1>10. ASSUME NEW r \in Requests, JobStep(r) \/ JobFails(r) PROVE OwnerWasOnChain'
  BY <1>1, <1>10 DEF JobStep, JobFails, ReadRows, SaveUri, SubmitFromJob
<1>11. UNCHANGED vars => OwnerWasOnChain'
  BY <1>1 DEF vars
<1> QED BY <1>5, <1>6, <1>7, <1>8, <1>9, <1>10, <1>11 DEF Next

\* The owner shown is one that the chain has had.
THEOREM OwnerIsFromChain == Spec => []OwnerWasOnChain
<1>1. Init => OwnerWasOnChain
  BY DEF Init, OwnerWasOnChain
<1>2. TypeOK /\ Shape /\ OwnerWasOnChain /\ [Next]_vars => OwnerWasOnChain'
  BY NextOwner
<1> QED BY <1>1, <1>2, BaseHolds, PTL DEF Spec

-----------------------------------------------------------------------------
(* Rows: nothing older comes back.                                         *)

LEMMA InitRows == Init => Rows
BY DEF Init, Rows, VersionOK, BeforeOK, FoundOK, UpdateOK, PatchOK, NoUriIsOpen, UpdateIsWhole, Idle, Unsent

\* A version in a row stays what it is, and so does what is older than a request.
LEMMA VersionFrame ==
  ASSUME Rows, UNCHANGED before,
         \A a \in Assets : /\ asset'[a].content = asset[a].content
                           /\ asset'[a].creators = asset[a].creators
                           /\ asset'[a].fee = asset[a].fee,
         \A q \in Requests : Committed(q) => request'[q].asset = request[q].asset
  PROVE  (\A a \in Assets : VersionOK(a)') /\ (\A q \in Requests : BeforeOK(q)')
<1>1. \A a \in Assets : VersionOK(a)'
  BY DEF Rows, VersionOK, Committed
<1>2. \A q \in Requests : BeforeOK(q)'
  BY DEF Rows, BeforeOK, Committed
<1> QED BY <1>1, <1>2

\* Steps that leave rows and jobs alone.
LEMMA QuietRows ==
  ASSUME TypeOK, Shape, Rows, UNCHANGED <<asset, before, job>>,
         \A q \in Requests :
           \/ request[q].pc \in {"idle", "delete"}
           \/ /\ request'[q].op = request[q].op /\ request'[q].asset = request[q].asset
              /\ request'[q].found = request[q].found,
         \A q \in Requests : request[q].pc \in {"enqueue", "stopped"} =>
                               request'[q].pc \in {"enqueue", "stopped"},
         \A q \in Requests : FoundOK(q)' /\ PatchOK(q)',
         \A s \in Submissions : submission'[s].kind = "update" =>
           /\ submission[s].kind = "update" /\ submission'[s].request = submission[s].request
           /\ submission'[s].data = submission[s].data
  PROVE  Rows'
<1>1. \A q \in Requests : request[q].pc \in {"idle", "delete"} =>
                             ~Committed(q) /\ job[q].pc = "none"
  BY DEF Shape, CommitOK, JobOK
<1>2. (\A a \in Assets : VersionOK(a)') /\ (\A q \in Requests : BeforeOK(q)')
  <2>1. \A q \in Requests : Committed(q) => request'[q].asset = request[q].asset
    BY <1>1
  <2> QED BY <2>1, VersionFrame
<1>3. ASSUME NEW q \in Requests PROVE UpdateOK(q)'
  <2>1. CASE request[q].pc \in {"idle", "delete"}
    BY <1>1, <2>1 DEF UpdateOK, Committed
  <2>2. CASE request[q].pc \notin {"idle", "delete"}
    BY <2>2 DEF Rows, UpdateOK, Committed, Replaced
  <2> QED BY <2>1, <2>2
<1>4. NoUriIsOpen'
  <2> SUFFICES ASSUME NEW a \in Assets, asset[a].uri = NoUri
               PROVE  LET v == asset[a].content
                      IN /\ v # First
                         /\ \/ job[v].pc \in {"queued", "read"}
                            \/ /\ job[v].pc = "none" /\ a = Mint
                               /\ request'[v].pc \in {"enqueue", "stopped"}
    BY DEF NoUriIsOpen
  <2>1. asset[a].content \in Requests
    BY DEF Rows, NoUriIsOpen, VersionOK
  <2> QED BY <2>1 DEF Rows, NoUriIsOpen
<1>5. UpdateIsWhole'
  <2> SUFFICES ASSUME NEW s \in Submissions, submission'[s].kind = "update"
               PROVE  LET data == submission'[s].data
                          r == submission'[s].request
                      IN /\ data.content \notin before[r]
                         /\ data.creators \cap request'[r].found = {}
                         /\ ~(data.creators \subseteq before[r])
    BY DEF UpdateIsWhole
  <2>1. submission[s].request \in Requests /\ request[submission[s].request].pc = "done"
    BY DEF Shape, SubmissionOK
  <2>2. request'[submission[s].request].found = request[submission[s].request].found
    BY <2>1
  <2> QED BY <2>2 DEF Rows, UpdateIsWhole
<1> QED BY <1>2, <1>3, <1>4, <1>5 DEF Rows

LEMMA BeginRows ==
  ASSUME TypeOK, Shape, Rows, NEW r \in Requests, NEW op, NEW fields,
         request[r] = Idle, request' = [request EXCEPT ![r] = fields],
         fields.pc # "commit", fields.found = {},
         UNCHANGED <<asset, before, job, submission>>
  PROVE  Rows'
<1>1. request'[r] = fields /\ \A q \in Requests \ {r} : request'[q] = request[q]
  BY DEF TypeOK
<1>2. request[r].op = "none" /\ request[r].pc = "idle"
  BY DEF Idle
<1>3. \A q \in Requests : FoundOK(q)' /\ PatchOK(q)'
  BY <1>1 DEF Rows, FoundOK, PatchOK, Committed
<1> QED BY <1>1, <1>2, <1>3, QuietRows

LEMMA AdvanceRows ==
  ASSUME TypeOK, Shape, Rows, NEW r \in Requests, NEW pc,
         request' = [request EXCEPT ![r].pc = pc],
         request[r].pc \in {"enqueue", "stopped"} => pc \in {"enqueue", "stopped"},
         request[r].op = "patch_metadata" => pc # "commit",
         UNCHANGED <<asset, before, job>>,
         \A s \in Submissions : submission'[s].kind = "update" => submission'[s] = submission[s]
  PROVE  Rows'
<1>1. /\ request'[r].pc = pc /\ request'[r].op = request[r].op
      /\ request'[r].asset = request[r].asset /\ request'[r].found = request[r].found
      /\ \A q \in Requests \ {r} : request'[q] = request[q]
  BY Advance
<1>2. \A q \in Requests : FoundOK(q)' /\ PatchOK(q)'
  BY <1>1 DEF Rows, FoundOK, PatchOK, Committed
<1>3. /\ \A q \in Requests :
           /\ request'[q].op = request[q].op /\ request'[q].asset = request[q].asset
           /\ request'[q].found = request[q].found
      /\ \A q \in Requests : request[q].pc \in {"enqueue", "stopped"} =>
                               request'[q].pc \in {"enqueue", "stopped"}
  BY <1>1
<1> QED BY <1>2, <1>3, QuietRows

LEMMA DeleteRows ==
  ASSUME TypeOK, Shape, Rows, NEW r \in Requests, DeleteCreators(r),
         request[r].asset \in Assets
  PROVE  Rows'
<1> DEFINE a == request[r].asset
<1>1. /\ request[r].pc = "delete" /\ request'[r].pc \in {"commit", "transaction"}
      /\ request'[r].pc = "commit" => request[r].op = "update_mint"
      /\ request'[r].op = request[r].op /\ request'[r].found = asset[a].creators
      /\ \A q \in Requests \ {r} : request'[q] = request[q]
      /\ UNCHANGED <<asset, before, job, submission>>
  <2>1. request[r].pc = "delete" /\ UNCHANGED <<asset, before, job, submission>>
    BY DEF DeleteCreators
  <2> QED BY <2>1, AdvanceFound
<1>2. ~Committed(r)
  BY <1>1 DEF Shape, CommitOK
<1>3. \A v \in asset[a].creators : v = First \/ (v \in Requests /\ Committed(v))
  BY DEF Rows, VersionOK
<1>4. FoundOK(r)'
  BY <1>1, <1>2, <1>3 DEF FoundOK, Committed
<1>5. \A q \in Requests \ {r} : FoundOK(q)'
  BY <1>1 DEF Rows, FoundOK, Committed
<1>6. \A q \in Requests : PatchOK(q)'
  BY <1>1 DEF Rows, PatchOK
<1> QED BY <1>1, <1>4, <1>5, <1>6, QuietRows

LEMMA InPlaceIsOld ==
  ASSUME TypeOK, Rows, NEW a \in Assets
  PROVE  /\ InPlace(a) # {}
         /\ \A v \in InPlace(a) : v = First \/ (v \in Requests /\ Committed(v))
<1>1. VersionOK(a)
  BY DEF Rows
<1>2. InPlace(a) # {}
  BY DEF InPlace, Older
<1>3. ASSUME NEW v \in InPlace(a), v # First PROVE v \in Requests /\ Committed(v)
  <2>1. PICK w \in {asset[a].content, asset[a].fee} \cup asset[a].creators : v \in Older(w)
    BY DEF InPlace
  <2>2. w \in Requests /\ Committed(w) /\ v \in before[w] \cup {w}
    BY <1>1, <1>3, <2>1 DEF VersionOK, Older
  <2>3. BeforeOK(w)
    BY <2>2 DEF Rows
  <2> QED BY <1>3, <2>2, <2>3 DEF BeforeOK
<1> QED BY <1>2, <1>3

\* A commit: everything that it finds in place is older.
LEMMA CommitRows ==
  ASSUME TypeOK, Shape, Rows, NEW r \in Requests, NEW k \in Assets, NEW row, NEW pc,
         request[r].asset = k, request[r].pc = "commit", pc # "commit",
         request[r].op = "update_mint" => k = Mint /\ job[r].pc = "none",
         request[r].op # "update_mint" => k # Mint,
         request' = [request EXCEPT ![r].pc = pc],
         asset' = [asset EXCEPT ![k] = row],
         before' = [before EXCEPT ![r] = InPlace(k)],
         row.creators = (asset[k].creators \ request[r].found) \cup {r}, row.fee = r,
         \/ row.content = r
         \/ row.content = asset[k].content /\ row.uri = asset[k].uri /\ k # Mint,
         row.content = r =>
           \/ job[r].pc \in {"queued", "read"}
           \/ job[r].pc = "none" /\ k = Mint /\ pc = "enqueue",
         UNCHANGED <<job, submission>>
  PROVE  Rows'
<1>1. /\ request'[r].pc = pc /\ request'[r].op = request[r].op
      /\ request'[r].asset = k /\ request'[r].found = request[r].found
      /\ \A q \in Requests \ {r} : request'[q] = request[q]
  BY Advance
<1>2. /\ asset'[k] = row /\ \A a \in Assets \ {k} : asset'[a] = asset[a]
      /\ before'[r] = InPlace(k) /\ \A q \in Requests \ {r} : before'[q] = before[q]
  BY DEF TypeOK
<1>3. ~Committed(r) /\ CommitOK(r)
  BY DEF Shape, CommitOK
<1>4. /\ InPlace(k) # {} /\ r \notin InPlace(k)
      /\ \A v \in InPlace(k) : v = First \/ (v \in Requests /\ Committed(v))
  BY <1>3, InPlaceIsOld
<1>5. \A q \in Requests : Committed(q) => q # r /\ Committed(q)'
  BY <1>2, <1>3 DEF Committed
<1>6. Committed(r)'
  BY <1>2, <1>4 DEF Committed
<1>7. ASSUME NEW a \in Assets PROVE VersionOK(a)'
  <2>1. VersionOK(a)
    BY DEF Rows
  <2>2. CASE a = k
    BY <1>1, <1>2, <1>5, <1>6, <2>1, <2>2 DEF VersionOK
  <2>3. CASE a # k
    BY <1>1, <1>2, <1>5, <2>1, <2>3 DEF VersionOK
  <2> QED BY <2>2, <2>3
<1>8. ASSUME NEW q \in Requests PROVE BeforeOK(q)'
  <2>1. BeforeOK(q)
    BY DEF Rows
  <2>2. CASE q = r
    BY <1>2, <1>4, <1>5, <2>2 DEF BeforeOK
  <2>3. CASE q # r
    BY <1>2, <1>5, <2>1, <2>3 DEF BeforeOK
  <2> QED BY <2>2, <2>3
<1>9. ASSUME NEW q \in Requests PROVE UpdateOK(q)'
  <2>1. UpdateOK(q) /\ BeforeOK(q) /\ FoundOK(q)
    BY DEF Rows
  <2>2. CASE q = r
    <3>1. request[r].op = "update_mint" =>
            /\ asset'[Mint].content = r /\ job'[r].pc = "none"
            /\ asset'[Mint].creators = (asset[Mint].creators \ request[r].found) \cup {r}
      BY <1>2
    <3>2. request[r].op = "update_mint" =>
            /\ asset'[Mint].content \notin before'[r]
            /\ asset'[Mint].creators \cap request'[r].found = {}
            /\ ~(asset'[Mint].creators \subseteq before'[r])
      BY <1>1, <1>2, <1>4, <2>1, <2>2, <3>1 DEF FoundOK
    <3> QED BY <1>1, <2>2, <3>1, <3>2 DEF UpdateOK, Replaced
  <2>3. CASE q # r
    <3>1. r \notin before[q]
      BY <1>3, <2>1 DEF BeforeOK
    <3>2. \/ asset'[Mint] = asset[Mint]
          \/ /\ asset'[Mint].content = r
             /\ asset'[Mint].creators = (asset[Mint].creators \ request[r].found) \cup {r}
      BY <1>2 DEF Assets
    <3>3. r \notin request[q].found
      BY <1>3, <2>1 DEF FoundOK
    <3>4. request'[q] = request[q] /\ before'[q] = before[q] /\ job'[q] = job[q]
      BY <1>1, <1>2, <2>3
    <3>5. Replaced(q, asset[Mint].creators) => Replaced(q, asset'[Mint].creators)
      BY <3>1, <3>2, <3>3 DEF Replaced
    <3> QED BY <2>1, <3>1, <3>2, <3>4, <3>5 DEF UpdateOK, Replaced, Committed
  <2> QED BY <2>2, <2>3
<1>10. \A q \in Requests : FoundOK(q)' /\ PatchOK(q)'
  BY <1>1, <1>5 DEF Rows, FoundOK, PatchOK
<1>11. NoUriIsOpen'
  <2> SUFFICES ASSUME NEW a \in Assets, asset'[a].uri = NoUri
               PROVE  LET v == asset'[a].content
                      IN /\ v # First
                         /\ \/ job'[v].pc \in {"queued", "read"}
                            \/ /\ job'[v].pc = "none" /\ a = Mint
                               /\ request'[v].pc \in {"enqueue", "stopped"}
    BY DEF NoUriIsOpen
  <2>1. CASE a = k /\ row.content = r
    BY <1>1, <1>2, <2>1
  <2>2. CASE asset'[a].content = asset[a].content /\ asset'[a].uri = asset[a].uri
    <3> DEFINE v == asset[a].content
    <3>1. /\ v # First
          /\ \/ job[v].pc \in {"queued", "read"}
             \/ /\ job[v].pc = "none" /\ a = Mint
                /\ request[v].pc \in {"enqueue", "stopped"}
      BY <2>2 DEF Rows, NoUriIsOpen
    <3>2. v \in Requests /\ v # r
      BY <1>5, <3>1 DEF Rows, VersionOK
    <3> QED BY <1>1, <2>2, <3>1, <3>2
  <2> QED BY <1>2, <2>1, <2>2
<1>12. UpdateIsWhole'
  <2> SUFFICES ASSUME NEW s \in Submissions, submission[s].kind = "update"
               PROVE  LET data == submission[s].data
                          q == submission[s].request
                      IN /\ data.content \notin before'[q]
                         /\ data.creators \cap request'[q].found = {}
                         /\ ~(data.creators \subseteq before'[q])
    BY DEF UpdateIsWhole
  <2>1. submission[s].request \in Requests \ {r}
    BY DEF Shape, SubmissionOK
  <2> QED BY <1>1, <1>2, <2>1 DEF Rows, UpdateIsWhole
<1> QED BY <1>7, <1>8, <1>9, <1>10, <1>11, <1>12 DEF Rows

\* A job is enqueued for a request that is committed, or commits next.
LEMMA EnqueueRows ==
  ASSUME TypeOK, Shape, Rows, NEW r \in Requests, NEW pc,
         request' = [request EXCEPT ![r].pc = pc], job' = NewJob(r),
         UNCHANGED <<asset, before, submission>>
  PROVE  Rows'
<1>1. /\ request'[r].pc = pc /\ request'[r].op = request[r].op
      /\ request'[r].asset = request[r].asset /\ request'[r].found = request[r].found
      /\ \A q \in Requests \ {r} : request'[q] = request[q]
  BY Advance
<1>2. job'[r].pc = "queued" /\ \A q \in Requests \ {r} : job'[q] = job[q]
  <2>1. job[r] \in Job
    BY DEF TypeOK
  <2> QED BY <2>1 DEF NewJob, TypeOK, Job
<1>3. (\A a \in Assets : VersionOK(a)') /\ (\A q \in Requests : BeforeOK(q)')
  <2>1. \A q \in Requests : request'[q].asset = request[q].asset
    BY <1>1
  <2> QED BY <2>1, VersionFrame
<1>4. ASSUME NEW q \in Requests PROVE FoundOK(q)' /\ UpdateOK(q)' /\ PatchOK(q)'
  <2>1. FoundOK(q)' /\ PatchOK(q)'
    BY <1>1, <1>2 DEF Rows, FoundOK, PatchOK, Committed
  <2>2. UpdateOK(q)'
    BY <1>1, <1>2 DEF Rows, UpdateOK, Committed, Replaced
  <2> QED BY <2>1, <2>2
<1>5. NoUriIsOpen'
  <2> SUFFICES ASSUME NEW a \in Assets, asset[a].uri = NoUri
               PROVE  LET v == asset[a].content
                      IN /\ v # First
                         /\ \/ job'[v].pc \in {"queued", "read"}
                            \/ /\ job'[v].pc = "none" /\ a = Mint
                               /\ request'[v].pc \in {"enqueue", "stopped"}
    BY DEF NoUriIsOpen
  <2>1. asset[a].content \in Requests
    BY DEF Rows, NoUriIsOpen, VersionOK
  <2> QED BY <1>1, <1>2, <2>1 DEF Rows, NoUriIsOpen
<1>6. UpdateIsWhole'
  <2>1. \A q \in Requests : request'[q].found = request[q].found
    BY <1>1
  <2>2. \A s \in Submissions : submission[s].kind = "update" => submission[s].request \in Requests
    BY DEF Shape, SubmissionOK
  <2> QED BY <2>1, <2>2 DEF Rows, UpdateIsWhole
<1> QED BY <1>3, <1>4, <1>5, <1>6 DEF Rows

LEMMA RequestRows ==
  ASSUME TypeOK, Shape, Rows, NEW r \in Requests, RequestStep(r)
  PROVE  Rows'
<1>0. RequestOK(r) /\ JobOK(r) /\ PatchOK(r)
  BY DEF Shape, Rows
<1>1. CASE Deduct(r)
  <2>1. PICK pc \in {"delete", "record"} : request' = [request EXCEPT ![r].pc = pc]
    BY <1>1 DEF Deduct
  <2>2. request[r].pc = "deduct" /\ request[r].op \notin Patches
    BY <1>0, <1>1 DEF Deduct, RequestOK, Patches
  <2>3. UNCHANGED <<asset, before, job, submission>>
    BY <1>1 DEF Deduct
  <2> QED BY <2>1, <2>2, <2>3, AdvanceRows DEF Patches
<1>2. CASE GiveUp(r)
  <2>1. PICK pc \in {"stopped"} : request' = [request EXCEPT ![r].pc = pc]
    BY <1>2 DEF GiveUp
  <2>2. UNCHANGED <<asset, before, job, submission>>
    BY <1>2 DEF GiveUp
  <2> QED BY <2>1, <2>2, AdvanceRows
<1>3. CASE ResetToPending(r) \/ Record(r)
  <2>1. PICK pc \in {"send"} : request' = [request EXCEPT ![r].pc = pc]
    BY <1>3 DEF ResetToPending, Record
  <2>2. request[r].pc \notin {"enqueue", "stopped"}
    BY <1>3 DEF ResetToPending, Record
  <2>3. UNCHANGED <<asset, before, job, submission>>
    BY <1>3 DEF ResetToPending, Record
  <2> QED BY <2>1, <2>2, <2>3, AdvanceRows
<1>4. CASE \E s \in Submissions : SendPatch(r, s) \/ SendRetry(r, s) \/ Send(r, s)
  <2>1. PICK s \in Submissions : SendPatch(r, s) \/ SendRetry(r, s) \/ Send(r, s)
    BY <1>4
  <2>2. PICK pc \in {"commit", "done"} : /\ request' = [request EXCEPT ![r].pc = pc]
                                         /\ request[r].op = "patch_metadata" => pc # "commit"
    BY <2>1 DEF SendPatch, SendRetry, Send
  <2>3. request[r].pc \notin {"enqueue", "stopped"}
    BY <2>1 DEF SendPatch, SendRetry, Send
  <2>4. UNCHANGED <<asset, before, job>>
    BY <2>1 DEF SendPatch, SendRetry, Send
  <2>5. /\ submission'[s].kind # "update"
        /\ \A t \in Submissions \ {s} : submission'[t] = submission[t]
    BY <2>1 DEF SendPatch, SendRetry, Send, Submit, TypeOK
  <2> QED BY <2>2, <2>3, <2>4, <2>5, AdvanceRows
<1>5. CASE BeginUpdate(r)
  <2>1. PICK fields \in {[Idle EXCEPT !.op = "update_mint", !.pc = "deduct", !.asset = Mint]} :
          request[r] = Idle /\ request' = [request EXCEPT ![r] = fields]
    BY <1>5 DEF BeginUpdate, Begin
  <2>2. fields.pc # "commit" /\ fields.found = {}
    BY DEF Idle
  <2>3. UNCHANGED <<asset, before, job, submission>>
    BY <1>5 DEF BeginUpdate
  <2> QED BY <2>1, <2>2, <2>3, BeginRows
<1>6. ASSUME NEW op \in Patches, NEW k \in Collections, BeginPatch(r, op, k)
      PROVE  Rows'
  <2>1. PICK fields \in {[Idle EXCEPT !.op = op, !.pc = "delete", !.asset = k,
                                      !.seen = asset[k].content, !.uri = asset[k].uri]} :
          request[r] = Idle /\ request' = [request EXCEPT ![r] = fields]
    BY <1>6 DEF BeginPatch, Begin
  <2>2. fields.pc # "commit" /\ fields.found = {}
    BY DEF Idle
  <2>3. UNCHANGED <<asset, before, job, submission>>
    BY <1>6 DEF BeginPatch
  <2> QED BY <2>1, <2>2, <2>3, BeginRows
<1>7. ASSUME NEW u \in Requests, BeginRetry(r, u)
      PROVE  Rows'
  <2>1. PICK fields \in {[Idle EXCEPT !.op = "retry_update_mint", !.pc = "reset", !.of = u]} :
          request[r] = Idle /\ request' = [request EXCEPT ![r] = fields]
    BY <1>7 DEF BeginRetry, Begin
  <2>2. fields.pc # "commit" /\ fields.found = {}
    BY DEF Idle
  <2>3. UNCHANGED <<asset, before, job, submission>>
    BY <1>7 DEF BeginRetry
  <2> QED BY <2>1, <2>2, <2>3, BeginRows
<1>8. ASSUME NEW w \in Wallets, BeginTransfer(r, w)
      PROVE  Rows'
  <2>1. PICK fields \in {[Idle EXCEPT !.op = "transfer_asset", !.pc = "deduct",
                                      !.from = mint.owner, !.to = w]} :
          request[r] = Idle /\ request' = [request EXCEPT ![r] = fields]
    BY <1>8 DEF BeginTransfer, Begin
  <2>2. fields.pc # "commit" /\ fields.found = {}
    BY DEF Idle
  <2>3. UNCHANGED <<asset, before, job, submission>>
    BY <1>8 DEF BeginTransfer
  <2> QED BY <2>1, <2>2, <2>3, BeginRows
<1>9. ASSUME NEW k \in Collections, BeginSwitch(r, k)
      PROVE  Rows'
  <2>1. PICK fields \in {[Idle EXCEPT !.op = "switch_collection", !.pc = "deduct", !.asset = k]} :
          request[r] = Idle /\ request' = [request EXCEPT ![r] = fields]
    BY <1>9 DEF BeginSwitch, Begin
  <2>2. fields.pc # "commit" /\ fields.found = {}
    BY DEF Idle
  <2>3. UNCHANGED <<asset, before, job, submission>>
    BY <1>9 DEF BeginSwitch
  <2> QED BY <2>1, <2>2, <2>3, BeginRows
<1>10. CASE EnqueueUpdate(r) \/ EnqueuePatch(r)
  <2>1. PICK pc \in {"done", "commit"} : request' = [request EXCEPT ![r].pc = pc]
    BY <1>10 DEF EnqueueUpdate, EnqueuePatch
  <2>2. job' = NewJob(r) /\ UNCHANGED <<asset, before, submission>>
    BY <1>10 DEF EnqueueUpdate, EnqueuePatch
  <2> QED BY <2>1, <2>2, EnqueueRows
<1>13. CASE DeleteCreators(r)
  <2>1. request[r].pc = "delete" /\ request[r] \in Request
    BY <1>13 DEF DeleteCreators, TypeOK
  <2>2. request[r].asset \in Assets
    BY <1>0, <2>1 DEF RequestOK, Request, AllOps, Patches, Assets
  <2> QED BY <1>13, <2>2, DeleteRows
<1>11. CASE CommitUpdate(r)
  <2>1. Mint \in Assets /\ request[r].asset = Mint /\ job[r].pc = "none"
    BY <1>0, <1>11 DEF CommitUpdate, RequestOK, JobOK, Assets
  <2>2. PICK row \in {Save(r)}, pc \in {"enqueue"} :
          /\ request' = [request EXCEPT ![r].pc = pc]
          /\ asset' = [asset EXCEPT ![Mint] = row]
          /\ before' = [before EXCEPT ![r] = InPlace(Mint)]
    BY <1>11 DEF CommitUpdate
  <2>3. /\ row.content = r /\ row.fee = r
        /\ row.creators = (asset[Mint].creators \ request[r].found) \cup {r}
    BY <2>1 DEF Save, Creators
  <2>4. /\ request[r].pc = "commit" /\ request[r].op = "update_mint"
        /\ UNCHANGED <<job, submission>>
    BY <1>11 DEF CommitUpdate
  <2> QED BY <2>1, <2>2, <2>3, <2>4, CommitRows
<1>12. CASE CommitPatch(r)
  <2> DEFINE k == request[r].asset
             new == IF request[r].op = "patch_metadata" THEN Save(r)
                    ELSE [asset[k] EXCEPT !.creators = Creators(r), !.fee = r]
             creators == (asset[k].creators \ request[r].found) \cup {r}
  <2>1. /\ request[r].pc = "commit" /\ request[r].op \in Patches
        /\ UNCHANGED <<job, submission>>
    BY <1>12 DEF CommitPatch
  <2>2. k \in Collections /\ k \in Assets /\ k # Mint /\ request[r].op # "update_mint"
    BY <1>0, <2>1 DEF RequestOK, Assets, Patches
  <2>3. PICK row \in {new}, pc \in {"done"} :
          /\ request' = [request EXCEPT ![r].pc = pc]
          /\ asset' = [asset EXCEPT ![k] = row]
          /\ before' = [before EXCEPT ![r] = InPlace(k)]
    BY <1>12 DEF CommitPatch
  <2>4. asset[k] \in Asset
    BY <2>2 DEF TypeOK
  <2>5. CASE request[r].op = "patch_metadata"
    <3>1. row.content = r /\ row.creators = creators /\ row.fee = r
      BY <2>5 DEF Save, Creators
    <3>2. job[r].pc \in {"queued", "read"}
      BY <1>0, <2>1, <2>5 DEF PatchOK
    <3> HIDE DEF k, new
    <3>3. request[r].asset = k
      BY DEF k
    <3> QED BY <2>1, <2>2, <2>3, <3>1, <3>2, <3>3, CommitRows
  <2>6. CASE request[r].op = "patch"
    <3>1. /\ row.content = asset[k].content /\ row.uri = asset[k].uri
          /\ row.creators = creators /\ row.fee = r
      BY <2>4, <2>6 DEF Asset, Creators
    <3>2. asset[k].content # r
      BY <2>1, <2>2 DEF Rows, VersionOK, Shape, CommitOK
    <3> HIDE DEF k, new
    <3>3. request[r].asset = k
      BY DEF k
    <3> QED BY <2>1, <2>2, <2>3, <3>1, <3>2, <3>3, CommitRows
  <2> QED BY <2>1, <2>5, <2>6 DEF Patches
<1> QED BY <1>1, <1>2, <1>3, <1>4, <1>5, <1>6, <1>7, <1>8, <1>9, <1>10, <1>11, <1>12,
          <1>13 DEF RequestStep

LEMMA JobRows ==
  ASSUME TypeOK, Shape, Rows, NEW r \in Requests, JobStep(r) \/ JobFails(r)
  PROVE  Rows'
<1> DEFINE a == request[r].asset
<1>0. /\ UNCHANGED <<request, before>> /\ job[r].pc \in {"queued", "read", "saved"}
      /\ \A q \in Requests \ {r} : job'[q] = job[q]
  BY DEF JobStep, ReadRows, SaveUri, SubmitFromJob, JobFails, TypeOK
<1>1. /\ a \in Assets
      /\ request[r].op = "update_mint" => a = Mint /\ Committed(r)
      /\ request[r].op # "update_mint" => a # Mint
      /\ PatchOK(r) /\ UpdateOK(r) /\ job[r] \in Job /\ asset[a] \in Asset
  <2>1. RequestOK(r) /\ JobOK(r) /\ CommitOK(r)
    BY DEF Shape
  <2>2. /\ a \in Assets
        /\ request[r].op = "update_mint" => a = Mint /\ Committed(r)
        /\ request[r].op # "update_mint" => a # Mint
    BY <1>0, <2>1 DEF RequestOK, JobOK, CommitOK, Assets, Patches
  <2> QED BY <2>2 DEF Rows, TypeOK
<1>2. ASSUME \A b \in Assets : /\ asset'[b].content = asset[b].content
                               /\ asset'[b].creators = asset[b].creators
                               /\ asset'[b].fee = asset[b].fee,
             UpdateOK(r)', PatchOK(r)', NoUriIsOpen', UpdateIsWhole'
      PROVE  Rows'
  <2>1. (\A b \in Assets : VersionOK(b)') /\ (\A q \in Requests : BeforeOK(q)')
    BY <1>0, <1>2, VersionFrame
  <2>2. ASSUME NEW q \in Requests \ {r} PROVE UpdateOK(q)' /\ PatchOK(q)'
    <3>1. Mint \in Assets
      BY DEF Assets
    <3> QED BY <1>0, <1>2, <3>1 DEF Rows, UpdateOK, PatchOK, Committed, Replaced
  <2>3. \A q \in Requests : FoundOK(q)'
    BY <1>0 DEF Rows, FoundOK, Committed
  <2> QED BY <1>2, <2>1, <2>2, <2>3 DEF Rows
<1>3. CASE ReadRows(r)
  <2>1. UNCHANGED <<asset, submission>> /\ job[r].pc = "queued"
    BY <1>3 DEF ReadRows
  <2>2. job'[r].pc = "read" /\ job'[r].creators = asset[a].creators
    BY <1>1, <1>3 DEF ReadRows, TypeOK, Job
  <2>3. UpdateOK(r)' /\ PatchOK(r)'
    BY <1>0, <1>1, <2>1, <2>2 DEF UpdateOK, PatchOK, Committed, Replaced
  <2>4. NoUriIsOpen'
    <3> SUFFICES ASSUME NEW b \in Assets, asset[b].uri = NoUri
                 PROVE  LET v == asset[b].content
                        IN /\ v # First
                           /\ \/ job'[v].pc \in {"queued", "read"}
                              \/ /\ job'[v].pc = "none" /\ b = Mint
                                 /\ request[v].pc \in {"enqueue", "stopped"}
      BY <1>0, <2>1 DEF NoUriIsOpen
    <3>1. asset[b].content \in Requests
      BY DEF Rows, NoUriIsOpen, VersionOK
    <3> QED BY <1>0, <2>2, <3>1 DEF Rows, NoUriIsOpen
  <2>5. UpdateIsWhole'
    BY <1>0, <2>1 DEF Rows, UpdateIsWhole
  <2> QED BY <1>2, <2>1, <2>3, <2>4, <2>5
<1>4. CASE SaveUri(r)
  <2>1. UNCHANGED submission /\ job[r].pc = "read" /\ ~Locked(a)
    BY <1>4 DEF SaveUri
  <2>2. /\ job'[r].pc = "saved" /\ job'[r].content = asset[a].content
        /\ job'[r].creators = job[r].creators
    BY <1>1, <1>4 DEF SaveUri, TypeOK, Job
  <2>3. /\ asset'[a].uri = r /\ asset'[a].content = asset[a].content
        /\ asset'[a].creators = asset[a].creators /\ asset'[a].fee = asset[a].fee
        /\ \A b \in Assets \ {a} : asset'[b] = asset[b]
    BY <1>1, <1>4 DEF SaveUri, TypeOK, Asset
  <2>4. UpdateOK(r)'
    BY <1>0, <1>1, <2>1, <2>2, <2>3 DEF UpdateOK, Committed, Replaced
  <2>5. PatchOK(r)'
    BY <1>0, <2>1 DEF PatchOK, Locked
  <2>6. NoUriIsOpen'
    <3> SUFFICES ASSUME NEW b \in Assets, asset'[b].uri = NoUri
                 PROVE  LET v == asset'[b].content
                        IN /\ v # First
                           /\ \/ job'[v].pc \in {"queued", "read"}
                              \/ /\ job'[v].pc = "none" /\ b = Mint
                                 /\ request[v].pc \in {"enqueue", "stopped"}
      BY <1>0 DEF NoUriIsOpen
    <3>1. b # a /\ asset'[b] = asset[b]
      BY <2>3
    <3>2. asset[b].content \in Requests \ {r}
      BY <3>1 DEF Rows, NoUriIsOpen, VersionOK
    <3> QED BY <1>0, <3>1, <3>2 DEF Rows, NoUriIsOpen
  <2>7. UpdateIsWhole'
    BY <1>0, <2>1 DEF Rows, UpdateIsWhole
  <2> QED BY <1>2, <2>3, <2>4, <2>5, <2>6, <2>7
<1>5. CASE JobFails(r) \/ \E s \in Submissions : SubmitFromJob(r, s)
  <2>1. UNCHANGED asset
    BY <1>5 DEF JobFails, SubmitFromJob
  <2>2. job'[r].pc \in {"queued", "done"} /\ (job'[r].pc = "done" => job[r].pc = "saved")
    BY <1>1, <1>5 DEF JobFails, SubmitFromJob, TypeOK, Job
  <2>3. UpdateOK(r)' /\ PatchOK(r)'
    BY <1>0, <1>1, <2>1, <2>2 DEF UpdateOK, PatchOK, Committed, Replaced
  <2>4. NoUriIsOpen'
    <3> SUFFICES ASSUME NEW b \in Assets, asset[b].uri = NoUri
                 PROVE  LET v == asset[b].content
                        IN /\ v # First
                           /\ \/ job'[v].pc \in {"queued", "read"}
                              \/ /\ job'[v].pc = "none" /\ b = Mint
                                 /\ request[v].pc \in {"enqueue", "stopped"}
      BY <1>0, <2>1 DEF NoUriIsOpen
    <3>1. asset[b].content \in Requests
      BY DEF Rows, NoUriIsOpen, VersionOK
    <3> QED BY <1>0, <2>2, <3>1 DEF Rows, NoUriIsOpen
  <2>5. UpdateIsWhole'
    <3>1. CASE UNCHANGED submission
      BY <1>0, <3>1 DEF Rows, UpdateIsWhole
    <3>2. ASSUME NEW s \in Submissions, SubmitFromJob(r, s) PROVE UpdateIsWhole'
      <4>1. /\ submission'[s].kind = IF a = Mint THEN "update" ELSE "patch"
            /\ submission'[s].request = r
            /\ submission'[s].data.content = job[r].content
            /\ submission'[s].data.creators = job[r].creators
            /\ \A t \in Submissions \ {s} : submission'[t] = submission[t]
        BY <3>2 DEF SubmitFromJob, Submit, TypeOK
      <4>2. a = Mint => /\ job[r].content \notin before[r]
                        /\ job[r].creators \cap request[r].found = {}
                        /\ ~(job[r].creators \subseteq before[r])
        BY <1>1, <3>2 DEF SubmitFromJob, UpdateOK, Replaced
      <4> QED BY <1>0, <4>1, <4>2 DEF Rows, UpdateIsWhole
    <3> QED BY <1>5, <3>1, <3>2 DEF JobFails
  <2> QED BY <1>2, <2>1, <2>3, <2>4, <2>5
<1> QED BY <1>3, <1>4, <1>5 DEF JobStep

LEMMA NextRows ==
  ASSUME TypeOK, Shape, Rows, [Next]_vars
  PROVE  Rows'
<1>1. CASE UNCHANGED <<asset, before, job, request, submission>>
  BY <1>1 DEF Rows, VersionOK, BeforeOK, FoundOK, UpdateOK, PatchOK, NoUriIsOpen, UpdateIsWhole,
              Committed, Replaced
<1>2. ASSUME NEW s \in Submissions, Execute(s) PROVE Rows'
  <2>1. PICK outcome : submission' = [submission EXCEPT ![s].outcome = outcome]
    BY <1>2 DEF Execute
  <2>2. UNCHANGED <<asset, before, job, request>>
    BY <1>2 DEF Execute
  <2>3. submission[s] \in Submission
    BY DEF TypeOK
  <2>4. \A t \in Submissions : /\ submission'[t].kind = submission[t].kind
                               /\ submission'[t].request = submission[t].request
                               /\ submission'[t].data = submission[t].data
    BY <2>1, <2>3 DEF TypeOK, Submission
  <2>5. \A q \in Requests : FoundOK(q)' /\ PatchOK(q)'
    BY <2>2 DEF Rows, FoundOK, PatchOK, Committed
  <2> QED BY <2>2, <2>4, <2>5, QuietRows
<1>3. ASSUME NEW s \in Submissions, HandlerStep(s) \/ HandlerFails(s) PROVE Rows'
  BY <1>1, <1>3 DEF HandlerStep, HandlerFails, SwitchMint, ConfirmDeduction, WriteHistory,
     Acknowledge
<1>4. ASSUME NEW i \in Moves, NoticeStep(i) \/ NoticeFails(i) PROVE Rows'
  BY <1>1, <1>4 DEF NoticeStep, NoticeFails, SetOwner, InsertTransfer, ReadOwner, WriteOwner,
     NoticeDone
<1>5. ASSUME NEW w \in Wallets, Move(w) PROVE Rows'
  BY <1>1, <1>5 DEF Move
<1>6. UNCHANGED vars => Rows'
  BY <1>1 DEF vars
<1> QED BY <1>2, <1>3, <1>4, <1>5, <1>6, RequestRows, JobRows DEF Next

LEMMA RowsHold == Spec => [](TypeOK /\ Shape /\ Rows)
<1>1. Init => TypeOK /\ Shape /\ Rows
  BY InitTypeOK, InitShape, InitRows
<1>2. TypeOK /\ Shape /\ Rows /\ [Next]_vars => (TypeOK /\ Shape /\ Rows)'
  BY NextBase, NextRows
<1> QED BY <1>1, <1>2, PTL DEF Spec

\* What an update submits is not older than the update: not the content, none of the
\* creators that it replaced, and not only older creators.
THEOREM UpdatesAreWhole == Spec => []UpdateIsWhole
<1>1. Rows => UpdateIsWhole
  BY DEF Rows
<1> QED BY <1>1, RowsHold, PTL

\* A row without uri is owed one: a job will save it, or an update has yet to enqueue it (if
\* that update has given up, after its commit, it is owed for good).
THEOREM UriIsOwed == Spec => []NoUriIsOpen
<1>1. Rows => NoUriIsOpen
  BY DEF Rows
<1> QED BY <1>1, RowsHold, PTL

=============================================================================
