--------------------------- MODULE MintLifecycle ---------------------------
(***************************************************************************)
(* The life of a mint in hub-nfts: the GraphQL mutations of                *)
(* api/src/mutations/mint.rs that create, queue, submit and retry mints,   *)
(* the background job that uploads a mint's metadata and submits it        *)
(* (background_worker/tasks/metadata_json_upload_task.rs), and the event   *)
(* handlers drop_minted and minted_to_collection of api/src/events.rs that *)
(* record what the blockchain services answer.                             *)
(*                                                                         *)
(* Requests run concurrently and are cut where the code awaits: each       *)
(* action is one call to the database, the credits service or Kafka, and   *)
(* a request can stop after any of them (an error returned with `?`, a     *)
(* closed connection, a crash).  A database transaction is one action.     *)
(* The rows that no property here reads (creators, metadata text, the      *)
(* drop, the edition number, the caches) are left to other modules; the    *)
(* checks on them that reject a request appear as GiveUp.  The collection  *)
(* is one on Solana, where every mutation is supported; elsewhere the ones *)
(* that are not return an error after the commit, which is GiveUp too.     *)
(***************************************************************************)
EXTENDS Naturals, FiniteSets

CONSTANTS
  Mints,          \* ids of collection_mints rows
  Clients,        \* requests that can be in progress at the same time
  Deductions,     \* transaction ids the credits service can hand out (a bound)
  Submissions,    \* requests the blockchain services can receive (a bound)
  Ops,            \* the mutations the clients call
  MaxBatch,       \* mutations/mint.rs:1336 caps a batch (250 in the code)
  NoMint, NoDeduction, NoSubmission

AllOps == {"mint_edition", "retry_mint_edition", "mint_to_collection",
           "retry_mint_to_collection", "queue_mint_to_drop", "mint_queued",
           "mint_random_queued_to_drop", "mint_random_queued_to_drop_batched"}

ASSUME OpsAssumption == Ops \subseteq AllOps
ASSUME BatchAssumption == MaxBatch \in Nat \ {0}
ASSUME NullAssumption ==
  NoMint \notin Mints /\ NoDeduction \notin Deductions /\ NoSubmission \notin Submissions

VARIABLES
  mint,       \* collection_mints: status, credits_deduction_id, signature, and
              \* whether `compressed` has a value
  history,    \* mint_histories, a row named by the deduction of the request that inserted it
  uri,        \* mints whose metadata_jsons row has its uri
  jobs,       \* upload tasks not yet completed, as <<caller, mint>>
  charge,     \* the credits service's deductions; `mint` is what the request pays for
  submission, \* what the blockchain services were asked to mint, and the outcome
  handler,    \* one delivery of a submission's result to the event processor
  client      \* GraphQL requests in progress

vars == <<mint, history, uri, jobs, charge, submission, handler, client>>

MintStatus == {"absent", "queued", "pending", "created", "failed"}
MintRow == [status: MintStatus, deduction: Deductions \cup {NoDeduction},
            signature: Submissions \cup {NoSubmission}, compressed: BOOLEAN]
HistoryRow == [status: {"absent", "pending", "created", "failed"},
               mint: Mints \cup {NoMint}, signature: Submissions \cup {NoSubmission}]
Charge == [state: {"unused", "pending", "confirmed"}, mint: Mints \cup {NoMint}]
Submission == [state: {"unused", "sent", "succeeded", "failed"}, mint: Mints \cup {NoMint},
               deduction: Deductions \cup {NoDeduction}, by: {"request", "job"}]
Handler == [pc: {"waiting", "read", "confirmed", "mint_written", "history_written", "acked"},
            deduction: Deductions \cup {NoDeduction}, history: Deductions \cup {NoDeduction}]
Client == [op: AllOps \cup {"none"},
           pc: {"idle", "deduct", "write", "history", "enqueue", "send", "reset"},
           mint: Mints \cup {NoMint}, deduction: Deductions \cup {NoDeduction},
           todo: SUBSET Mints, ready: SUBSET Deductions]

Idle == [op |-> "none", pc |-> "idle", mint |-> NoMint, deduction |-> NoDeduction,
         todo |-> {}, ready |-> {}]
Waiting == [pc |-> "waiting", deduction |-> NoDeduction, history |-> NoDeduction]

TypeOK ==
  /\ mint \in [Mints -> MintRow]
  /\ history \in [Deductions -> HistoryRow]
  /\ uri \in SUBSET Mints
  /\ jobs \in SUBSET ({"MintToCollection", "QueueMintToDrop"} \X Mints)
  /\ charge \in [Deductions -> Charge]
  /\ submission \in [Submissions -> Submission]
  /\ handler \in [Submissions -> Handler]
  /\ client \in [Clients -> Client]

Init ==
  /\ mint = [m \in Mints |-> [status |-> "absent", deduction |-> NoDeduction,
                              signature |-> NoSubmission, compressed |-> FALSE]]
  /\ history = [d \in Deductions |-> [status |-> "absent", mint |-> NoMint,
                                      signature |-> NoSubmission]]
  /\ uri = {}
  /\ jobs = {}
  /\ charge = [d \in Deductions |-> [state |-> "unused", mint |-> NoMint]]
  /\ submission = [s \in Submissions |-> [state |-> "unused", mint |-> NoMint,
                                          deduction |-> NoDeduction, by |-> "request"]]
  /\ handler = [s \in Submissions |-> Waiting]
  /\ client = [c \in Clients |-> Idle]

-----------------------------------------------------------------------------
(* Starting a request: what each mutation reads and checks before it acts. *)

Begin(c, op, pc, m, todo) ==
  /\ client[c].pc = "idle"
  /\ op \in Ops
  /\ client' = [client EXCEPT ![c] = [op |-> op, pc |-> pc, mint |-> m, todo |-> todo,
                                      deduction |-> NoDeduction, ready |-> {}]]
  /\ UNCHANGED <<mint, history, uri, jobs, charge, submission, handler>>

MintEdition(c) == Begin(c, "mint_edition", "deduct", NoMint, {})

MintToCollection(c) == Begin(c, "mint_to_collection", "deduct", NoMint, {})

QueueMintToDrop(c) == Begin(c, "queue_mint_to_drop", "write", NoMint, {})

\* A mint that is not created and has an owner: only queued mints have none.
RetryMintEdition(c) ==
  \E m \in Mints :
    /\ mint[m].status \in {"pending", "failed"}
    /\ Begin(c, "retry_mint_edition", "deduct", m, {})

\* A failed mint with a `compressed` value and an uploaded metadata uri.
RetryMintToCollection(c) ==
  \E m \in uri :
    /\ mint[m].status = "failed"
    /\ mint[m].compressed
    /\ Begin(c, "retry_mint_to_collection", "deduct", m, {})

\* One queued mint, named by the caller, whose uri must be there.
MintQueued(c) ==
  \E m \in uri :
    /\ mint[m].status = "queued"
    /\ Begin(c, "mint_queued", "deduct", NoMint, {m})

\* The same with a mint drawn by the database: the draw does not look at the
\* uri, the request is rejected if it is not there.
MintRandomQueued(c) ==
  \E m \in Mints :
    /\ mint[m].status = "queued" /\ m \in uri
    /\ Begin(c, "mint_random_queued_to_drop", "deduct", NoMint, {m})

\* The batch draws as many queued mints as it has recipients; their uris are
\* looked at one by one in the loop.
MintRandomQueuedBatched(c) ==
  \E batch \in SUBSET {m \in Mints : mint[m].status = "queued"} :
    /\ Cardinality(batch) \in 1..MaxBatch
    /\ Begin(c, "mint_random_queued_to_drop_batched", "deduct", NoMint, batch)

TakesQueued(op) ==
  op \in {"mint_queued", "mint_random_queued_to_drop", "mint_random_queued_to_drop_batched"}

-----------------------------------------------------------------------------
(* The charge: credits.submit_pending_deduction.                           *)

Unpaid(d) == charge[d].state = "unused"

\* Mints that do not exist yet are charged before they are inserted.
DeductForNew(c) ==
  /\ client[c].pc = "deduct"
  /\ client[c].op \in {"mint_edition", "mint_to_collection"}
  /\ \E d \in Deductions :
       /\ Unpaid(d)
       /\ charge' = [charge EXCEPT ![d].state = "pending"]
       /\ client' = [client EXCEPT ![c].deduction = d, ![c].pc = "write"]
  /\ UNCHANGED <<mint, history, uri, jobs, submission, handler>>

\* Fault: a retry rides on the deduction of the original request.
DeductForRetryNothing(c) ==
  /\ client[c].pc = "deduct"
  /\ client[c].op \in {"retry_mint_edition", "retry_mint_to_collection"}
  /\ client' = [client EXCEPT ![c].ready = {mint[client[c].mint].deduction}, ![c].pc = "send"]
  /\ UNCHANGED <<mint, history, uri, jobs, charge, submission, handler>>

\* A retry is charged again; the id of the new deduction is dropped
\* (`let TransactionId(_)`): no row will ever name it.
DeductForRetry(c) ==
  /\ client[c].pc = "deduct"
  /\ client[c].op \in {"retry_mint_edition", "retry_mint_to_collection"}
  /\ \E d \in Deductions :
       /\ Unpaid(d)
       /\ charge' = [charge EXCEPT ![d] = [state |-> "pending", mint |-> client[c].mint]]
       /\ client' = [client EXCEPT ![c].ready = {d}, ![c].pc = "send"]
  /\ UNCHANGED <<mint, history, uri, jobs, submission, handler>>

\* One round of the loop over the drawn mints (a single one for mint_queued).
DeductForQueued(c) ==
  /\ client[c].pc = "deduct"
  /\ TakesQueued(client[c].op)
  /\ \E d \in Deductions, m \in client[c].todo \cap uri :
       /\ Unpaid(d)
       /\ charge' = [charge EXCEPT ![d] = [state |-> "pending", mint |-> m]]
       /\ client' = [client EXCEPT ![c].deduction = d, ![c].mint = m, ![c].pc = "write"]
  /\ UNCHANGED <<mint, history, uri, jobs, submission, handler>>

-----------------------------------------------------------------------------
(* The rows each mutation writes.                                          *)

PendingMint(d, compressed) ==
  [status |-> "pending", deduction |-> d, signature |-> NoSubmission,
   compressed |-> compressed]

PendingHistory(m) == [status |-> "pending", mint |-> m, signature |-> NoSubmission]

\* mint_edition inserts the mint on the connection, not in the transaction it
\* has begun: the row is there whatever becomes of the transaction.
InsertEdition(c) ==
  /\ client[c].pc = "write" /\ client[c].op = "mint_edition"
  /\ \E m \in Mints :
       /\ mint[m].status = "absent"
       /\ mint' = [mint EXCEPT ![m] = PendingMint(client[c].deduction, FALSE)]
       /\ charge' = [charge EXCEPT ![client[c].deduction].mint = m]
       /\ client' = [client EXCEPT ![c].mint = m, ![c].pc = "history"]
  /\ UNCHANGED <<history, uri, jobs, submission, handler>>

\* The transaction: the history row (and, on Solana, the copied metadata,
\* uri included).
CommitEditionHistory(c) ==
  /\ client[c].pc = "history"
  /\ history' = [history EXCEPT ![client[c].deduction] = PendingHistory(client[c].mint)]
  /\ uri' = uri \cup {client[c].mint}
  /\ client' = [client EXCEPT ![c].ready = {client[c].deduction}, ![c].pc = "send"]
  /\ UNCHANGED <<mint, jobs, charge, submission, handler>>

CommitMintToCollection(c) ==
  /\ client[c].pc = "write" /\ client[c].op = "mint_to_collection"
  /\ \E m \in Mints :
       /\ mint[m].status = "absent"
       /\ mint' = [mint EXCEPT ![m] = PendingMint(client[c].deduction, TRUE)]
       /\ history' = [history EXCEPT ![client[c].deduction] = PendingHistory(m)]
       /\ charge' = [charge EXCEPT ![client[c].deduction].mint = m]
       /\ client' = [client EXCEPT ![c].mint = m, ![c].pc = "enqueue"]
  /\ UNCHANGED <<uri, jobs, submission, handler>>

CommitQueueMint(c) ==
  /\ client[c].pc = "write" /\ client[c].op = "queue_mint_to_drop"
  /\ \E m \in Mints :
       /\ mint[m].status = "absent"
       /\ mint' = [mint EXCEPT ![m].status = "queued"]
       /\ client' = [client EXCEPT ![c].mint = m, ![c].pc = "enqueue"]
  /\ UNCHANGED <<history, uri, jobs, charge, submission, handler>>

\* The transaction that takes a mint out of the queue.  Nothing looks at the
\* row again: it was read queued some calls earlier.
CommitQueuedMint(c) ==
  LET m == client[c].mint
      d == client[c].deduction
  IN
  /\ client[c].pc = "write"
  /\ TakesQueued(client[c].op)
  /\ mint' = [mint EXCEPT ![m].status = "pending", ![m].deduction = d,
                          ![m].compressed = TRUE]
  /\ history' = [history EXCEPT ![d] = PendingHistory(m)]
  /\ client' = [client EXCEPT ![c].todo = @ \ {m}, ![c].ready = @ \cup {d},
                              ![c].pc = IF client[c].todo = {m} THEN "send" ELSE "deduct"]
  /\ UNCHANGED <<uri, jobs, charge, submission, handler>>

\* retry_mint_edition and retry_mint_to_collection write the status last,
\* after the event has been sent.
ResetToPending(c) ==
  /\ client[c].pc = "reset"
  /\ mint' = [mint EXCEPT ![client[c].mint].status = "pending"]
  /\ client' = [client EXCEPT ![c] = Idle]
  /\ UNCHANGED <<history, uri, jobs, charge, submission, handler>>

-----------------------------------------------------------------------------
(* Handing the mint over: to the job queue or to the blockchain services.  *)

Caller(op) == IF op = "mint_to_collection" THEN "MintToCollection" ELSE "QueueMintToDrop"

Enqueue(c) ==
  /\ client[c].pc = "enqueue"
  /\ jobs' = jobs \cup {<<Caller(client[c].op), client[c].mint>>}
  /\ client' = [client EXCEPT ![c] = Idle]
  /\ UNCHANGED <<mint, history, uri, charge, submission, handler>>

Unsent(s) == submission[s].state = "unused"

Sent(m, d, by) == [state |-> "sent", mint |-> m, deduction |-> d, by |-> by]

IsRetry(op) == op \in {"retry_mint_edition", "retry_mint_to_collection"}

\* One event, with one transaction per mint that was paid (several only for a
\* batch).  A retry still has its status to write.
Send(c) ==
  /\ client[c].pc = "send"
  /\ \E sent \in SUBSET {s \in Submissions : Unsent(s)} :
     \E pay \in [sent -> client[c].ready] :
       /\ \A s, t \in sent : pay[s] = pay[t] => s = t
       /\ \A d \in client[c].ready : \E s \in sent : pay[s] = d
       /\ submission' = [s \in Submissions |->
            IF s \in sent THEN Sent(charge[pay[s]].mint, pay[s], "request")
                          ELSE submission[s]]
  /\ client' = [client EXCEPT ![c] = IF IsRetry(client[c].op)
                                     THEN [client[c] EXCEPT !.pc = "reset", !.ready = {}]
                                     ELSE Idle]
  /\ UNCHANGED <<mint, history, uri, jobs, charge, handler>>

\* The request ends early: a check rejects it, a call returns an error, the
\* process dies.  What it has written stays.
GiveUp(c) ==
  /\ client[c].pc # "idle"
  /\ client' = [client EXCEPT ![c] = Idle]
  /\ UNCHANGED <<mint, history, uri, jobs, charge, submission, handler>>

-----------------------------------------------------------------------------
(* The upload task (its queue is the subject of JobQueue).                 *)

\* After the upload both callers save the uri.  For QueueMintToDrop that is
\* all there is to do.
SaveUri ==
  \E j \in jobs :
    /\ uri' = uri \cup {j[2]}
    /\ jobs' = IF j[1] = "QueueMintToDrop" THEN jobs \ {j} ELSE jobs
    /\ UNCHANGED <<mint, history, charge, submission, handler, client>>

\* MintToCollection goes on to submit the mint.  The task may be executed
\* again although its event was sent (send or bookkeeping failed after the
\* broker took it): the queue keeps a task until it is marked completed.
SubmitFromJob ==
  \E m \in uri, s \in Submissions :
    /\ <<"MintToCollection", m>> \in jobs
    /\ Unsent(s)
    /\ submission' = [submission EXCEPT ![s] = Sent(m, mint[m].deduction, "job")]
    /\ jobs' \in {jobs, jobs \ {<<"MintToCollection", m>>}}
    /\ UNCHANGED <<mint, history, uri, charge, handler, client>>

-----------------------------------------------------------------------------
(* The blockchain services (hub-nfts-solana, hub-nfts-polygon): a request  *)
(* either becomes a transaction on the chain or fails.                     *)

Execute(s) ==
  /\ submission[s].state = "sent"
  /\ \E outcome \in {"succeeded", "failed"} :
       submission' = [submission EXCEPT ![s].state = outcome]
  /\ UNCHANGED <<mint, history, uri, jobs, charge, handler, client>>

-----------------------------------------------------------------------------
(* drop_minted and minted_to_collection.  A result is delivered until it   *)
(* is acknowledged, so a handler that fails starts over.                   *)

\* Fault: a result for a mint that is not pending is taken for a duplicate.
ReadResultWhilePending(s) ==
  LET m == submission[s].mint
  IN
  /\ submission[s].state \in {"succeeded", "failed"}
  /\ handler[s].pc = "waiting"
  /\ mint[m].status = "pending"
  /\ \E d \in Deductions :
       /\ history[d].mint = m
       /\ handler' = [handler EXCEPT ![s] =
                        [pc |-> "read", deduction |-> mint[m].deduction, history |-> d]]
  /\ UNCHANGED <<mint, history, uri, jobs, charge, submission, client>>

\* The mint's row, and whichever of its history rows the database returns
\* first (`one` without an order).  Without any the handler fails.
ReadResult(s) ==
  LET m == submission[s].mint
  IN
  /\ submission[s].state \in {"succeeded", "failed"}
  /\ handler[s].pc = "waiting"
  /\ \E d \in Deductions :
       /\ history[d].mint = m
       /\ handler' = [handler EXCEPT ![s] =
                        [pc |-> "read", deduction |-> mint[m].deduction, history |-> d]]
  /\ UNCHANGED <<mint, history, uri, jobs, charge, submission, client>>

\* Fault: the deduction is confirmed for a failed mint as well.
ConfirmDeductionIgnoringOutcome(s) ==
  /\ handler[s].pc = "read"
  /\ charge' = [charge EXCEPT ![handler[s].deduction].state = "confirmed"]
  /\ handler' = [handler EXCEPT ![s].pc = "confirmed"]
  /\ UNCHANGED <<mint, history, uri, jobs, submission, client>>

\* credits.confirm_deduction of the deduction the mint's row named when read.
ConfirmDeduction(s) ==
  /\ handler[s].pc = "read"
  /\ submission[s].state = "succeeded"
  /\ handler[s].deduction # NoDeduction
  /\ charge' = [charge EXCEPT ![handler[s].deduction].state = "confirmed"]
  /\ handler' = [handler EXCEPT ![s].pc = "confirmed"]
  /\ UNCHANGED <<mint, history, uri, jobs, submission, client>>

\* Fault: the outcome of the transaction is not looked at.
WriteMintIgnoringOutcome(s) ==
  /\ handler[s].pc \in {"read", "confirmed"}
  /\ mint' = [mint EXCEPT ![submission[s].mint].status = "created",
                          ![submission[s].mint].signature = s]
  /\ handler' = [handler EXCEPT ![s].pc = "mint_written"]
  /\ UNCHANGED <<history, uri, jobs, charge, submission, client>>

\* Fault: the row is written before the deduction is confirmed.
WriteMintBeforeConfirm(s) ==
  /\ handler[s].pc \in {"read", "confirmed"}
  /\ mint' = IF submission[s].state = "succeeded"
             THEN [mint EXCEPT ![submission[s].mint].status = "created",
                               ![submission[s].mint].signature = s]
             ELSE [mint EXCEPT ![submission[s].mint].status = "failed"]
  /\ handler' = [handler EXCEPT ![s].pc = "mint_written"]
  /\ UNCHANGED <<history, uri, jobs, charge, submission, client>>

WriteMint(s) ==
  LET m == submission[s].mint
  IN
  /\ \/ /\ handler[s].pc = "confirmed"
        /\ mint' = [mint EXCEPT ![m].status = "created", ![m].signature = s]
     \/ /\ handler[s].pc = "read"
        /\ submission[s].state = "failed"
        /\ mint' = [mint EXCEPT ![m].status = "failed"]
  /\ handler' = [handler EXCEPT ![s].pc = "mint_written"]
  /\ UNCHANGED <<history, uri, jobs, charge, submission, client>>

\* Fault: the history row is completed without looking at the outcome.
WriteHistoryIgnoringOutcome(s) ==
  /\ handler[s].pc = "mint_written"
  /\ history' = [history EXCEPT ![handler[s].history].status = "created",
                                ![handler[s].history].signature = s]
  /\ handler' = [handler EXCEPT ![s].pc = "history_written"]
  /\ UNCHANGED <<mint, uri, jobs, charge, submission, client>>

WriteHistory(s) ==
  LET h == handler[s].history
  IN
  /\ handler[s].pc = "mint_written"
  /\ history' = IF submission[s].state = "succeeded"
                THEN [history EXCEPT ![h].status = "created", ![h].signature = s]
                ELSE [history EXCEPT ![h].status = "failed"]
  /\ handler' = [handler EXCEPT ![s].pc = "history_written"]
  /\ UNCHANGED <<mint, uri, jobs, charge, submission, client>>

\* Fault: the result is acknowledged as soon as the mint has been written.
AcknowledgeEarly(s) ==
  /\ handler[s].pc \in {"mint_written", "history_written"}
  /\ handler' = [handler EXCEPT ![s].pc = "acked"]
  /\ UNCHANGED <<mint, history, uri, jobs, charge, submission, client>>

Acknowledge(s) ==
  /\ handler[s].pc = "history_written"
  /\ handler' = [handler EXCEPT ![s].pc = "acked"]
  /\ UNCHANGED <<mint, history, uri, jobs, charge, submission, client>>

HandlerFails(s) ==
  /\ handler[s].pc \in {"read", "confirmed", "mint_written", "history_written"}
  /\ handler' = [handler EXCEPT ![s] = Waiting]
  /\ UNCHANGED <<mint, history, uri, jobs, charge, submission, client>>

-----------------------------------------------------------------------------
Request(c) ==
  \/ MintEdition(c) \/ MintToCollection(c) \/ QueueMintToDrop(c)
  \/ RetryMintEdition(c) \/ RetryMintToCollection(c)
  \/ MintQueued(c) \/ MintRandomQueued(c) \/ MintRandomQueuedBatched(c)
  \/ DeductForNew(c) \/ DeductForRetry(c) \/ DeductForQueued(c)
  \/ InsertEdition(c) \/ CommitEditionHistory(c) \/ CommitMintToCollection(c)
  \/ CommitQueueMint(c) \/ CommitQueuedMint(c) \/ ResetToPending(c)
  \/ Enqueue(c) \/ Send(c) \/ GiveUp(c)

Job == SaveUri \/ SubmitFromJob

Progress(s) ==
  \/ ReadResult(s) \/ ConfirmDeduction(s) \/ WriteMint(s) \/ WriteHistory(s)
  \/ Acknowledge(s)

Next ==
  \/ \E c \in Clients : Request(c)
  \/ Job
  \/ \E s \in Submissions : Execute(s) \/ Progress(s) \/ HandlerFails(s)

Spec == Init /\ [][Next]_vars

\* The services answer what they are asked, and the event processor goes on
\* with what was delivered.  A result that could not be processed is delivered
\* again after a back-off (main.rs:104-114), and its errors are transient:
\* from some point on the handler goes through.
Fairness ==
  /\ \A s \in Submissions : WF_vars(Execute(s)) /\ WF_vars(Progress(s))
  /\ <>[][\A s \in Submissions : ~HandlerFails(s)]_vars

FairSpec == Spec /\ Fairness
-----------------------------------------------------------------------------
(* Properties.                                                             *)

OnChain(s, m) == submission[s].state = "succeeded" /\ submission[s].mint = m

\* A mint is CREATED, with the signature clients see, only when the chain has
\* executed a submission of that very mint with that signature.  (WriteMint
\* works on ids kept since ReadResult while requests rewrite the row.)
CreatedIsOnChain ==
  \A m \in Mints :
    /\ mint[m].status = "created" => mint[m].signature # NoSubmission
    /\ mint[m].signature # NoSubmission => OnChain(mint[m].signature, m)

\* The mint_histories row, chosen without an order and written last, never
\* shows a signature of another mint or of a submission that failed.
HistoryIsOnChain ==
  \A d \in Deductions :
    /\ history[d].status = "created" => history[d].signature # NoSubmission
    /\ history[d].signature # NoSubmission => OnChain(history[d].signature, history[d].mint)

\* The promise, with the rows a client or an organisation can see.
Promise == INSTANCE MintPromise WITH
  credit <- [d \in Deductions |-> charge[d].state],
  payee <- [d \in Deductions |-> charge[d].mint],
  asked <- [s \in Submissions |-> submission[s].mint],
  minted <- {s \in Submissions : submission[s].state = "succeeded"},
  signature <- [m \in Mints |-> mint[m].signature],
  created <- {m \in Mints : mint[m].status = "created"}

\* Every behaviour of the mutations, jobs and handlers keeps the promise.
KeepsPromise == Promise!Spec

\* Credits are taken for good only for a mint that is on the chain.
ConfirmedIsOnChain ==
  \A d \in Deductions :
    charge[d].state = "confirmed" => \E s \in Submissions : OnChain(s, charge[d].mint)

\* Nothing is submitted for free: each submission was preceded by a deduction
\* for that mint, and no deduction pays for two submissions of requests.
SubmissionsPaid ==
  /\ \A s \in Submissions : submission[s].state # "unused" =>
       /\ submission[s].deduction \in Deductions
       /\ charge[submission[s].deduction].state # "unused"
       /\ charge[submission[s].deduction].mint = submission[s].mint
  /\ \A s, t \in Submissions :
       /\ submission[s].state # "unused" /\ submission[t].state # "unused"
       /\ submission[s].by = "request" /\ submission[t].by = "request"
       /\ submission[s].deduction = submission[t].deduction
       => s = t

\* A mint that is still in the queue has not been charged, handed to the
\* blockchain or recorded as minted by any request, whatever is going on.
QueuedIsUntouched ==
  \A m \in Mints : mint[m].status = "queued" =>
    /\ \A s \in Submissions : submission[s].mint # m
    /\ \A d \in Deductions : history[d].mint # m

\* An acknowledged success is never half recorded: the mint and one of its
\* history rows have a signature and a charge of the mint is confirmed, even
\* if earlier deliveries failed between those writes.
AcknowledgedIsRecorded ==
  \A s \in Submissions :
    handler[s].pc = "acked" /\ submission[s].state = "succeeded" =>
      LET m == submission[s].mint
      IN  /\ mint[m].signature # NoSubmission
          /\ \E d \in Deductions : history[d].mint = m /\ history[d].signature # NoSubmission
          /\ \E d \in Deductions : charge[d].mint = m /\ charge[d].state = "confirmed"

\* A mint shown CREATED has the deduction its row names confirmed: charging
\* is never left pending on a mint that was delivered.  Only a mint that two
\* requests took from the queue (it has two history rows) is excepted: its row
\* may name the deduction of the other request.
CreatedIsConfirmed ==
  \A m \in Mints :
    mint[m].status = "created" =>
      \/ charge[mint[m].deduction].state = "confirmed"
      \/ \E d, e \in Deductions : d # e /\ history[d].mint = m /\ history[e].mint = m

\* objects/collection_mint.rs:99 calls mint_histories "the record of the
\* original mint": a mint has one row there, inserted when it is submitted.
OneHistoryPerMint ==
  \A d, e \in Deductions :
    history[d].status # "absent" /\ history[d].mint = history[e].mint => d = e

\* retry_mint_edition refuses a created mint ("mint is already created",
\* mint.rs:331), so no created mint is set back to pending.
CreatedIsNotRetried ==
  [][\A m \in Mints : mint[m].status = "created" => mint'[m].status # "pending"]_vars

HasHistory(m) == \E d \in Deductions : history[d].mint = m

\* Every submission is answered, and its answer recorded and acknowledged, however often its
\* deliveries fail half-way.  The handlers look for a history row first: an edition that a
\* request left without one (mint.rs:134) and that is retried is never acknowledged.
SubmissionAnswered ==
  \A s \in Submissions :
    submission[s].state = "sent" /\ HasHistory(submission[s].mint) ~> handler[s].pc = "acked"

\* A success is eventually recorded for good: the mint and one of its history rows have a
\* signature, and both are CREATED unless a retry, whose deduction no row names, submitted the
\* mint or a repeated upload job did so twice: the reset of the one and a failure of the
\* other's may be written over them (mint.rs:399, events.rs:741).
SuccessIsReported ==
  \A s \in Submissions, m \in Mints :
    OnChain(s, m) /\ HasHistory(m) ~>
      [](/\ mint[m].signature # NoSubmission
         /\ \E d \in Deductions :
              /\ history[d].mint = m /\ history[d].signature # NoSubmission
              /\ \/ mint[m].status = "created" /\ history[d].status = "created"
                 \/ submission[s].deduction # mint[m].deduction
                 \/ \E t \in Submissions \ {s} : submission[t].mint = m)
=============================================================================
