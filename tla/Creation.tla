------------------------------ MODULE Creation ------------------------------
(***************************************************************************)
(* The creation of collections and drops: create_collection,               *)
(* retry_collection (api/src/mutations/collection.rs), create_drop,        *)
(* retry_drop (mutations/drop.rs), the upload job that submits them        *)
(* (background_worker/tasks/metadata_json_upload_task.rs) and the handlers *)
(* collection_created and drop_created (events.rs).                        *)
(*                                                                         *)
(* A drop is two rows, the drop and its collection, that the handler       *)
(* updates one after the other; the announcement (NftEvents) goes out      *)
(* before both.  As in MintLifecycle each action is one call to the        *)
(* database, the credits service or Kafka, and a request can stop and a    *)
(* handler fail after any of them.                                         *)
(***************************************************************************)
EXTENDS Naturals, FiniteSets

CONSTANTS
  Collections,      \* ids of collections
  DropCollections,  \* those that are created together with a drop
  Clients,          \* requests in progress at the same time
  Submissions,      \* requests the blockchain services can receive (a bound)
  Ops,              \* the mutations the clients call
  NoCollection, NoSubmission

AllOps == {"create", "retry_drop", "retry_collection"}

ASSUME DropsAssumption == DropCollections \subseteq Collections
ASSUME OpsAssumption == Ops \subseteq AllOps
ASSUME NoneAssumption == NoCollection \notin Collections /\ NoSubmission \notin Submissions

VARIABLES
  collection,  \* collections: creation_status and address (the submission it is from)
  drop,        \* drops: creation_status of the drop of a collection
  uri,         \* collections whose metadata_jsons row has its uri
  jobs,        \* collections whose upload task is not completed
  charge,      \* the deduction that both rows name
  submission,  \* what the blockchain services were asked to create, and the outcome
  handler,     \* one delivery of a submission's result
  told,        \* NftEvents about the end of a creation, as <<collection, status>>
  client       \* GraphQL requests in progress

vars == <<collection, drop, uri, jobs, charge, submission, handler, told, client>>

Status == {"absent", "pending", "created", "failed"}
Row == [status: Status, address: Submissions \cup {NoSubmission}]
Submission == [state: {"unused", "sent", "succeeded", "failed"},
               collection: Collections \cup {NoCollection}, kind: {"drop", "collection"},
               by: {"job", "retry"}]
Delivery == {"waiting", "read", "confirmed", "announced", "written", "done", "acked"}
Client == [op: AllOps \cup {"none"}, pc: {"idle", "deduct", "commit", "enqueue", "send", "reset"},
           collection: Collections \cup {NoCollection}]

Idle == [op |-> "none", pc |-> "idle", collection |-> NoCollection]

IsDrop(k) == k \in DropCollections

TypeOK ==
  /\ collection \in [Collections -> Row]
  /\ drop \in [DropCollections -> Status]
  /\ uri \in SUBSET Collections
  /\ jobs \in SUBSET Collections
  /\ charge \in [Collections -> {"none", "pending", "confirmed"}]
  /\ submission \in [Submissions -> Submission]
  /\ handler \in [Submissions -> Delivery]
  /\ told \in SUBSET (Collections \X {"completed", "failed"})
  /\ client \in [Clients -> Client]

Init ==
  /\ collection = [k \in Collections |-> [status |-> "absent", address |-> NoSubmission]]
  /\ drop = [k \in DropCollections |-> "absent"]
  /\ uri = {}
  /\ jobs = {}
  /\ charge = [k \in Collections |-> "none"]
  /\ submission = [s \in Submissions |-> [state |-> "unused", collection |-> NoCollection,
                                          kind |-> "collection", by |-> "job"]]
  /\ handler = [s \in Submissions |-> "waiting"]
  /\ told = {}
  /\ client = [c \in Clients |-> Idle]

-----------------------------------------------------------------------------
(* create_collection and create_drop.                                      *)

Create(c) ==
  /\ "create" \in Ops
  /\ client[c] = Idle
  /\ client' = [client EXCEPT ![c].op = "create", ![c].pc = "deduct"]
  /\ UNCHANGED <<collection, drop, uri, jobs, charge, submission, handler, told>>

\* Fault: a deduction that the credits service refuses is taken for made.
DeductForNewAnyway(c, k) ==
  /\ client[c].pc = "deduct" /\ client[c].op = "create"
  /\ charge[k] = "none"
  /\ charge' \in {charge, [charge EXCEPT ![k] = "pending"]}
  /\ client' = [client EXCEPT ![c].pc = "commit", ![c].collection = k]
  /\ UNCHANGED <<collection, drop, uri, jobs, submission, handler, told>>

\* The id is drawn at the insert; here already, to name what is paid for.
DeductForNew(c, k) ==
  /\ client[c].pc = "deduct" /\ client[c].op = "create"
  /\ charge[k] = "none"
  /\ charge' = [charge EXCEPT ![k] = "pending"]
  /\ client' = [client EXCEPT ![c].pc = "commit", ![c].collection = k]
  /\ UNCHANGED <<collection, drop, uri, jobs, submission, handler, told>>

\* One transaction inserts the collection, its creators, the metadata and the drop.
Commit(c) ==
  LET k == client[c].collection
  IN
  /\ client[c].pc = "commit"
  /\ collection' = [collection EXCEPT ![k].status = "pending"]
  /\ drop' = [d \in DropCollections |-> IF d = k THEN "pending" ELSE drop[d]]
  /\ client' = [client EXCEPT ![c].pc = "enqueue"]
  /\ UNCHANGED <<uri, jobs, charge, submission, handler, told>>

Enqueue(c) ==
  /\ client[c].pc = "enqueue"
  /\ jobs' = jobs \cup {client[c].collection}
  /\ client' = [client EXCEPT ![c] = Idle]
  /\ UNCHANGED <<collection, drop, uri, charge, submission, handler, told>>

-----------------------------------------------------------------------------
(* The retries.                                                            *)

BeginRetry(c, op, k) ==
  /\ op \in Ops
  /\ client[c] = Idle
  /\ client' = [client EXCEPT ![c] = [op |-> op, pc |-> "deduct", collection |-> k]]
  /\ UNCHANGED <<collection, drop, uri, jobs, charge, submission, handler, told>>

\* Any drop that is not created and whose metadata is uploaded.
RetryDrop(c, k) ==
  /\ k \in uri
  /\ IsDrop(k)
  /\ drop[k] # "created"
  /\ BeginRetry(c, "retry_drop", k)

\* A failed collection, be it a drop's or not.
RetryCollection(c, k) ==
  /\ k \in uri
  /\ collection[k].status = "failed"
  /\ BeginRetry(c, "retry_collection", k)

\* The retry is charged; its deduction is written nowhere.
DeductForRetry(c) ==
  /\ client[c].pc = "deduct" /\ client[c].op # "create"
  /\ client' = [client EXCEPT ![c].pc = "send"]
  /\ UNCHANGED <<collection, drop, uri, jobs, charge, submission, handler, told>>

Unsent(s) == submission[s].state = "unused"

Sent(k, kind, by) == [state |-> "sent", collection |-> k, kind |-> kind, by |-> by]

\* retry_collection ends here: the collection stays failed.
SendRetry(c, s) ==
  LET k == client[c].collection
  IN
  /\ client[c].pc = "send"
  /\ Unsent(s)
  /\ IF client[c].op = "retry_drop"
     THEN /\ submission' = [submission EXCEPT ![s] = Sent(k, "drop", "retry")]
          /\ client' = [client EXCEPT ![c].pc = "reset"]
     ELSE /\ submission' = [submission EXCEPT ![s] = Sent(k, "collection", "retry")]
          /\ client' = [client EXCEPT ![c] = Idle]
  /\ UNCHANGED <<collection, drop, uri, jobs, charge, handler, told>>

\* retry_drop writes the drop's status last.
ResetToPending(c) ==
  /\ client[c].pc = "reset"
  /\ drop' = [drop EXCEPT ![client[c].collection] = "pending"]
  /\ client' = [client EXCEPT ![c] = Idle]
  /\ UNCHANGED <<collection, uri, jobs, charge, submission, handler, told>>

GiveUp(c) ==
  /\ client[c].pc # "idle"
  /\ client' = [client EXCEPT ![c] = Idle]
  /\ UNCHANGED <<collection, drop, uri, jobs, charge, submission, handler, told>>

-----------------------------------------------------------------------------
(* The upload task: CreateCollection::after and CreateDrop::after.         *)

SaveUri(k) ==
  /\ k \in jobs
  /\ uri' = uri \cup {k}
  /\ UNCHANGED <<collection, drop, jobs, charge, submission, handler, told, client>>

\* The task may be executed again after its event was sent, see MintLifecycle.
SubmitFromJob(k, s) ==
  /\ k \in jobs \cap uri
  /\ Unsent(s)
  /\ submission' = [submission EXCEPT ![s] = Sent(k, IF IsDrop(k) THEN "drop" ELSE "collection",
                                                  "job")]
  /\ jobs' \in {jobs, jobs \ {k}}
  /\ UNCHANGED <<collection, drop, uri, charge, handler, told, client>>

Execute(s) ==
  /\ submission[s].state = "sent"
  /\ \E outcome \in {"succeeded", "failed"} :
       submission' = [submission EXCEPT ![s].state = outcome]
  /\ UNCHANGED <<collection, drop, uri, jobs, charge, handler, told, client>>

-----------------------------------------------------------------------------
(* drop_created and collection_created; the kind of the submission says    *)
(* which of them gets its result.                                          *)

Succeeded(s) == submission[s].state = "succeeded"

ReadResult(s) ==
  /\ submission[s].state \in {"succeeded", "failed"}
  /\ handler[s] = "waiting"
  /\ handler' = [handler EXCEPT ![s] = "read"]
  /\ UNCHANGED <<collection, drop, uri, jobs, charge, submission, told, client>>

\* Fault: failed creations are charged as well.
ConfirmDeductionAnyway(s) ==
  /\ handler[s] = "read"
  /\ charge' = [charge EXCEPT ![submission[s].collection] = "confirmed"]
  /\ handler' = [handler EXCEPT ![s] = "confirmed"]
  /\ UNCHANGED <<collection, drop, uri, jobs, submission, told, client>>

ConfirmDeduction(s) ==
  /\ handler[s] = "read"
  /\ Succeeded(s)
  /\ charge' = [charge EXCEPT ![submission[s].collection] = "confirmed"]
  /\ handler' = [handler EXCEPT ![s] = "confirmed"]
  /\ UNCHANGED <<collection, drop, uri, jobs, submission, told, client>>

\* Fault: the announcement precedes the confirmation, which is then skipped.
AnnounceFirst(s) ==
  /\ handler[s] \in {"read", "confirmed"}
  /\ told' = told \cup {<<submission[s].collection,
                          IF Succeeded(s) THEN "completed" ELSE "failed">>}
  /\ handler' = [handler EXCEPT ![s] = "announced"]
  /\ UNCHANGED <<collection, drop, uri, jobs, charge, submission, client>>

Announce(s) ==
  /\ \/ handler[s] = "confirmed"
     \/ handler[s] = "read" /\ ~Succeeded(s)
  /\ told' = told \cup {<<submission[s].collection,
                          IF Succeeded(s) THEN "completed" ELSE "failed">>}
  /\ handler' = [handler EXCEPT ![s] = "announced"]
  /\ UNCHANGED <<collection, drop, uri, jobs, charge, submission, client>>

WriteCollection(s) ==
  LET k == submission[s].collection
  IN
  /\ handler[s] = "announced"
  /\ collection' = [collection EXCEPT ![k] =
       IF Succeeded(s) THEN [status |-> "created", address |-> s]
                       ELSE [@ EXCEPT !.status = "failed"]]
  /\ handler' = [handler EXCEPT ![s] = IF submission[s].kind = "drop" THEN "written" ELSE "done"]
  /\ UNCHANGED <<drop, uri, jobs, charge, submission, told, client>>

\* Fault: the drop is written before its collection.
WriteDropFirst(s) ==
  /\ handler[s] \in {"announced", "written"}
  /\ submission[s].kind = "drop"
  /\ drop' = [drop EXCEPT ![submission[s].collection] =
                IF Succeeded(s) THEN "created" ELSE "failed"]
  /\ handler' = [handler EXCEPT ![s] = IF @ = "announced" THEN "announced" ELSE "done"]
  /\ UNCHANGED <<collection, uri, jobs, charge, submission, told, client>>

WriteDrop(s) ==
  /\ handler[s] = "written"
  /\ drop' = [drop EXCEPT ![submission[s].collection] =
                IF Succeeded(s) THEN "created" ELSE "failed"]
  /\ handler' = [handler EXCEPT ![s] = "done"]
  /\ UNCHANGED <<collection, uri, jobs, charge, submission, told, client>>

\* Fault: a drop's result is acknowledged before the drop is written.
AcknowledgeEarly(s) ==
  /\ handler[s] \in {"written", "done"}
  /\ handler' = [handler EXCEPT ![s] = "acked"]
  /\ UNCHANGED <<collection, drop, uri, jobs, charge, submission, told, client>>

Acknowledge(s) ==
  /\ handler[s] = "done"
  /\ handler' = [handler EXCEPT ![s] = "acked"]
  /\ UNCHANGED <<collection, drop, uri, jobs, charge, submission, told, client>>

\* Fault: a result that could not be processed is not delivered again.
HandlerFailsForGood(s) ==
  /\ handler[s] \in {"read", "confirmed", "announced", "written", "done"}
  /\ handler' = [handler EXCEPT ![s] = "acked"]
  /\ UNCHANGED <<collection, drop, uri, jobs, charge, submission, told, client>>

\* The result is delivered again and handled from the start.
HandlerFails(s) ==
  /\ handler[s] \in {"read", "confirmed", "announced", "written", "done"}
  /\ handler' = [handler EXCEPT ![s] = "waiting"]
  /\ UNCHANGED <<collection, drop, uri, jobs, charge, submission, told, client>>

-----------------------------------------------------------------------------
Request(c) ==
  \/ Create(c) \/ Commit(c) \/ Enqueue(c) \/ DeductForRetry(c) \/ ResetToPending(c) \/ GiveUp(c)
  \/ \E k \in Collections : DeductForNew(c, k) \/ RetryDrop(c, k) \/ RetryCollection(c, k)
  \/ \E s \in Submissions : SendRetry(c, s)

Job == \E k \in Collections : SaveUri(k) \/ \E s \in Submissions : SubmitFromJob(k, s)

Progress(s) ==
  \/ ReadResult(s) \/ ConfirmDeduction(s) \/ Announce(s) \/ WriteCollection(s)
  \/ WriteDrop(s) \/ Acknowledge(s)

Next ==
  \/ \E c \in Clients : Request(c)
  \/ Job
  \/ \E s \in Submissions : Execute(s) \/ Progress(s) \/ HandlerFails(s)

Spec == Init /\ [][Next]_vars

\* As in MintLifecycle: the services answer, and a result is delivered until
\* its handler goes through, the handler's errors being transient.
Fairness ==
  /\ \A s \in Submissions : WF_vars(Execute(s)) /\ WF_vars(Progress(s))
  /\ <>[][\A s \in Submissions : ~HandlerFails(s)]_vars

FairSpec == Spec /\ Fairness

-----------------------------------------------------------------------------
(* Properties.                                                             *)

OnChain(k) == \E s \in Submissions : submission[s].collection = k /\ Succeeded(s)

\* A collection is CREATED, with the address shown to clients, only when the
\* chain has executed a submission of that very collection (events.rs:648-695).
AddressIsOnChain ==
  \A k \in Collections :
    /\ collection[k].status = "created" => collection[k].address # NoSubmission
    /\ collection[k].address # NoSubmission =>
         Succeeded(collection[k].address) /\ submission[collection[k].address].collection = k

\* A drop is CREATED, that is ready to be minted, only when its collection has
\* an address; the two rows are written one after the other by a handler that
\* can fail in between (events.rs:642-643).
DropIsBacked ==
  \A k \in DropCollections :
    drop[k] = "created" => collection[k].address # NoSubmission

\* Nothing is shown as created, no row and no drop, that the chain does not back.
ShownIsBacked == AddressIsOnChain /\ DropIsBacked

\* What is on the chain and shown is paid for, and what is paid for is on the
\* chain (events.rs:616-621).
PaidIfShown ==
  \A k \in Collections :
    /\ collection[k].address # NoSubmission => charge[k] = "confirmed"
    /\ charge[k] = "confirmed" => OnChain(k)

\* Other services are told COMPLETED, before the rows are written, only of a
\* creation that is on the chain and paid for (events.rs:629-641).
ToldIsOnChain ==
  \A k \in Collections : <<k, "completed">> \in told => OnChain(k) /\ charge[k] = "confirmed"

\* A collection that nobody retried and no repeated job submitted a second time.
SubmittedOnce(k) ==
  \A s, t \in Submissions :
    submission[s].collection = k /\ submission[t].collection = k =>
      s = t /\ submission[s].by = "job"

\* An acknowledged success has been recorded: the collection has an address
\* and, when it was a drop's that was submitted once, the drop has left the
\* state it was created in.  (retry_drop sets it back once more.)
AcknowledgedIsRecorded ==
  \A s \in Submissions :
    handler[s] = "acked" /\ Succeeded(s) =>
      LET k == submission[s].collection
      IN  /\ collection[k].address # NoSubmission
          /\ submission[s].kind = "drop" /\ SubmittedOnce(k) => drop[k] # "pending"

\* The promise, with what organisations, clients and other services can see.
Promise == INSTANCE CreationPromise WITH
  credit <- charge,
  asked <- [s \in Submissions |-> submission[s].collection],
  made <- {s \in Submissions : Succeeded(s)},
  announced <- {k \in Collections : <<k, "completed">> \in told},
  address <- [k \in Collections |-> collection[k].address],
  created <- {k \in Collections : collection[k].status = "created"},
  open <- {k \in DropCollections : drop[k] = "created"}

\* From the first charge to the opened drop, the steps that others can see follow each
\* other in the promised order, whatever is repeated, retried or handled half-way.
KeepsPromise == Promise!Spec

\* retry_drop refuses a created drop ("drop already created", drop.rs:210): no
\* created drop is set back to pending.
CreatedIsNotRetried ==
  [][\A k \in DropCollections : drop[k] = "created" => drop'[k] # "pending"]_vars

\* "only failed collections can be retried" (collection.rs:184): a collection
\* is submitted again only while it is failed.
OnlyFailedIsRetried ==
  [][\A s \in Submissions :
       LET r == submission'[s]
       IN  Unsent(s) /\ r.state = "sent" /\ r.by = "retry" /\ r.kind = "collection"
             => collection[r.collection].status = "failed"]_vars

\* What was told to be COMPLETED is eventually shown CREATED, in both rows, if
\* it was submitted once and by the job: the announcement is sent first, the
\* rows follow even if the handler fails in between.
ToldIsShown ==
  \A k \in Collections :
    /\ <<k, "completed">> \in told ~> collection[k].status = "created" \/ ~SubmittedOnce(k)
    /\ IsDrop(k) =>
         (<<k, "completed">> \in told ~> drop[k] = "created" \/ ~SubmittedOnce(k))
=============================================================================
