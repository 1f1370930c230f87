--------------------------- MODULE CreationProofs ---------------------------
(***************************************************************************)
(* Proofs about Creation: whatever is retried, repeated or fails half-way, *)
(* what clients are shown and other services are told of collections and   *)
(* drops is on the chain and paid for, and a success that has been         *)
(* acknowledged is recorded. The last part shows that Creation implements  *)
(* CreationPromise.                                                        *)
(***************************************************************************)
EXTENDS Creation, TLAPS

USE DropsAssumption, NoneAssumption

-----------------------------------------------------------------------------
(* The inductive invariant.                                                *)

\* What is submitted is a collection, and a drop when it is called one.
Known ==
  \A s \in Submissions : ~Unsent(s) =>
    /\ submission[s].collection \in Collections
    /\ submission[s].kind = "drop" => submission[s].collection \in DropCollections

\* A request past its choice names a collection, a retry of a drop names a drop.
ChosenBy(c) ==
  /\ client[c].pc \in {"commit", "enqueue", "send", "reset"} =>
       client[c].collection \in Collections
  /\ client[c].pc = "deduct" /\ client[c].op # "create" => client[c].collection \in Collections
  /\ client[c].op = "retry_drop" => client[c].collection \in DropCollections
  /\ client[c].pc = "reset" => client[c].op = "retry_drop"

Chosen == \A c \in Clients : ChosenBy(c)

\* What a delivery has done by the place it is at.
Handled(s) ==
  LET k == submission[s].collection
  IN  /\ handler[s] # "waiting" => submission[s].state \in {"succeeded", "failed"}
      /\ handler[s] = "confirmed" => Succeeded(s)
      /\ handler[s] \notin {"waiting", "read"} /\ Succeeded(s) => charge[k] = "confirmed"
      /\ handler[s] = "written" => submission[s].kind = "drop"
      /\ handler[s] \in {"written", "done", "acked"} /\ Succeeded(s) =>
           collection[k].address # NoSubmission

CInv ==
  /\ TypeOK
  /\ Known
  /\ Chosen
  /\ \A s \in Submissions : Handled(s)
  /\ AddressIsOnChain
  /\ DropIsBacked
  /\ PaidIfShown
  /\ ToldIsOnChain

Shown == AddressIsOnChain /\ DropIsBacked /\ PaidIfShown /\ ToldIsOnChain

LEMMA InitCInv == Init => CInv
  <1> SUFFICES ASSUME Init PROVE CInv
    OBVIOUS
  <1>1. TypeOK
    BY DEF Init, TypeOK, Row, Status, Submission, Delivery, Client, Idle
  <1>2. Known /\ Chosen /\ \A s \in Submissions : Handled(s)
    BY DEF Init, Known, Chosen, ChosenBy, Handled, Unsent, Idle
  <1>3. Shown
    BY DEF Init, Shown, AddressIsOnChain, DropIsBacked, PaidIfShown, ToldIsOnChain
  <1> QED
    BY <1>1, <1>2, <1>3 DEF CInv, Shown

-----------------------------------------------------------------------------
(* Types.                                                                  *)

LEMMA RequestType ==
  ASSUME TypeOK, Chosen, NEW c \in Clients, Request(c)
  PROVE  TypeOK'
  <1> USE DEF TypeOK, Client
  <1>1. CASE Create(c)
    <2>1. client[c] \in Client
      OBVIOUS
    <2>2. [client[c] EXCEPT !.op = "create", !.pc = "deduct"] \in Client
      BY <2>1 DEF AllOps
    <2>3. client' = [client EXCEPT ![c] = [client[c] EXCEPT !.op = "create", !.pc = "deduct"]]
      BY <1>1 DEF Create
    <2>4. client' \in [Clients -> Client]
      BY <2>2, <2>3
    <2> QED
      BY <1>1, <2>4 DEF Create
  <1>2. CASE Commit(c)
    <2>1. collection' \in [Collections -> Row]
      <3>1. client[c].collection \in Collections
        BY <1>2 DEF Commit, Chosen, ChosenBy
      <3>2. [collection[client[c].collection] EXCEPT !.status = "pending"] \in Row
        <4>1. collection[client[c].collection] \in Row
          BY <3>1
        <4> QED
          BY <4>1 DEF Row, Status
      <3> QED
        BY <1>2, <3>2 DEF Commit
    <2>2. drop' \in [DropCollections -> Status]
      BY <1>2 DEF Commit, Status
    <2> QED
      BY <1>2, <2>1, <2>2 DEF Commit
  <1>3. CASE Enqueue(c)
    BY <1>3 DEF Enqueue, Chosen, ChosenBy, Idle
  <1>4. CASE DeductForRetry(c)
    BY <1>4 DEF DeductForRetry
  <1>5. CASE ResetToPending(c)
    BY <1>5 DEF ResetToPending, Status, Idle
  <1>6. CASE GiveUp(c)
    BY <1>6 DEF GiveUp, Idle
  <1>7. ASSUME NEW k \in Collections,
               DeductForNew(c, k) \/ RetryDrop(c, k) \/ RetryCollection(c, k)
        PROVE  TypeOK'
    BY <1>7 DEF DeductForNew, RetryDrop, RetryCollection, BeginRetry, AllOps
  <1>8. ASSUME NEW s \in Submissions, SendRetry(c, s) PROVE TypeOK'
    <2>1. submission' \in [Submissions -> Submission]
      <3>1. client[c].collection \in Collections
        BY <1>8 DEF SendRetry, Chosen, ChosenBy
      <3>2. \A kind \in {"drop", "collection"} :
              Sent(client[c].collection, kind, "retry") \in Submission
        BY <3>1 DEF Sent, Submission
      <3> QED
        BY <1>8, <3>2 DEF SendRetry
    <2>2. client' \in [Clients -> Client]
      BY <1>8 DEF SendRetry, Idle
    <2> QED
      BY <1>8, <2>1, <2>2 DEF SendRetry
  <1> QED
    BY <1>1, <1>2, <1>3, <1>4, <1>5, <1>6, <1>7, <1>8 DEF Request

LEMMA JobType ==
  ASSUME TypeOK, NEW k \in Collections,
         SaveUri(k) \/ \E s \in Submissions : SubmitFromJob(k, s)
  PROVE  TypeOK'
  <1> USE DEF TypeOK
  <1>1. CASE SaveUri(k)
    BY <1>1 DEF SaveUri
  <1>2. ASSUME NEW s \in Submissions, SubmitFromJob(k, s) PROVE TypeOK'
    <2>1. submission' \in [Submissions -> Submission]
      BY <1>2 DEF SubmitFromJob, Sent, Submission
    <2> QED
      BY <1>2, <2>1 DEF SubmitFromJob
  <1> QED
    BY <1>1, <1>2

LEMMA ResultType ==
  ASSUME TypeOK, Known, \A t \in Submissions : Handled(t), NEW s \in Submissions,
         Execute(s) \/ Progress(s) \/ HandlerFails(s)
  PROVE  TypeOK'
  <1> USE DEF TypeOK, Delivery
  <1>1. CASE Execute(s)
    <2>1. submission' \in [Submissions -> Submission]
      BY <1>1 DEF Execute, Submission
    <2> QED
      BY <1>1, <2>1 DEF Execute
  <1>2. CASE ReadResult(s) \/ Acknowledge(s) \/ HandlerFails(s)
    BY <1>2 DEF ReadResult, Acknowledge, HandlerFails
  <1>3. CASE ConfirmDeduction(s)
    BY <1>3 DEF ConfirmDeduction
  <1>4. CASE Announce(s)
    <2>1. submission[s].collection \in Collections
      BY <1>4 DEF Announce, Handled, Known, Unsent
    <2> QED
      BY <1>4, <2>1 DEF Announce
  <1>5. CASE WriteCollection(s)
    <2>1. collection' \in [Collections -> Row]
      <3>1. \A k \in Collections : [collection[k] EXCEPT !.status = "failed"] \in Row
        BY DEF Row, Status
      <3>2. [status |-> "created", address |-> s] \in Row
        BY DEF Row, Status
      <3> QED
        BY <1>5, <3>1, <3>2 DEF WriteCollection
    <2> QED
      BY <1>5, <2>1 DEF WriteCollection
  <1>6. CASE WriteDrop(s)
    BY <1>6 DEF WriteDrop, Status
  <1> QED
    BY <1>1, <1>2, <1>3, <1>4, <1>5, <1>6 DEF Progress

-----------------------------------------------------------------------------
(* Requests and jobs: they send, and set rows to pending.                  *)

\* A step that at most sends more and sets statuses to pending keeps what is
\* shown and told true.
LEMMA SendingKeepsShown ==
  ASSUME TypeOK, Shown, TypeOK',
         UNCHANGED <<handler, told>>,
         \A s \in Submissions : Unsent(s) \/ submission'[s] = submission[s],
         \A s \in Submissions : submission'[s] = submission[s] \/ submission'[s].state = "sent",
         \A k \in Collections :
           /\ collection'[k].address = collection[k].address
           /\ collection'[k].status \in {collection[k].status, "pending"}
           /\ \/ charge'[k] = charge[k]
              \/ charge[k] = "none" /\ charge'[k] = "pending",
         \A k \in DropCollections : drop'[k] \in {drop[k], "pending"}
  PROVE  Shown'
  <1>1. \A s \in Submissions : Succeeded(s) => submission'[s] = submission[s]
    BY DEF Succeeded, Unsent
  <1>2. AddressIsOnChain'
    BY <1>1 DEF Shown, AddressIsOnChain, Succeeded, TypeOK, Row
  <1>3. DropIsBacked'
    BY DEF Shown, DropIsBacked, TypeOK
  <1>4. \A k \in Collections : OnChain(k) => OnChain(k)'
    BY <1>1 DEF OnChain, Succeeded
  <1>5. PaidIfShown'
    BY <1>4 DEF Shown, PaidIfShown
  <1>6. ToldIsOnChain'
    BY <1>4 DEF Shown, ToldIsOnChain
  <1> QED
    BY <1>2, <1>3, <1>5, <1>6 DEF Shown

LEMMA SendingKeepsHandled ==
  ASSUME TypeOK, \A s \in Submissions : Handled(s), Known,
         UNCHANGED handler,
         \A s \in Submissions : Unsent(s) \/ submission'[s] = submission[s],
         \A k \in Collections :
           /\ collection'[k].address = collection[k].address
           /\ \/ charge'[k] = charge[k]
              \/ charge[k] = "none" /\ charge'[k] = "pending"
  PROVE  \A s \in Submissions : Handled(s)'
  <1> SUFFICES ASSUME NEW s \in Submissions PROVE Handled(s)'
    OBVIOUS
  <1>1. CASE handler[s] = "waiting"
    BY <1>1 DEF Handled
  <1>2. CASE handler[s] # "waiting"
    <2>1. ~Unsent(s) /\ submission'[s] = submission[s] /\ submission[s].collection \in Collections
      BY <1>2 DEF Handled, Unsent, Known
    <2> QED
      BY <1>2, <2>1 DEF Handled, Succeeded
  <1> QED
    BY <1>1, <1>2

LEMMA RequestCInv ==
  ASSUME CInv, NEW c \in Clients, Request(c)
  PROVE  CInv'
  <1> USE DEF CInv
  <1>0. TypeOK /\ TypeOK' /\ Shown
    BY RequestType DEF Shown
  <1>1. UNCHANGED <<handler, told>>
    BY DEF Request, Create, Commit, Enqueue, DeductForRetry, ResetToPending, GiveUp,
           DeductForNew, RetryDrop, RetryCollection, BeginRetry, SendRetry
  <1>2. /\ \A s \in Submissions : Unsent(s) \/ submission'[s] = submission[s]
        /\ \A s \in Submissions : submission'[s] = submission[s] \/ submission'[s].state = "sent"
    <2>1. CASE UNCHANGED submission
      BY <2>1
    <2>2. ASSUME NEW s \in Submissions, SendRetry(c, s)
          PROVE  /\ \A t \in Submissions : Unsent(t) \/ submission'[t] = submission[t]
                 /\ \A t \in Submissions :
                      submission'[t] = submission[t] \/ submission'[t].state = "sent"
      BY <1>0, <2>2 DEF SendRetry, Sent, Unsent, TypeOK
    <2> QED
      BY <2>1, <2>2 DEF Request, Create, Commit, Enqueue, DeductForRetry, ResetToPending,
           GiveUp, DeductForNew, RetryDrop, RetryCollection, BeginRetry
  <1>3. \A k \in Collections :
          /\ collection'[k].address = collection[k].address
          /\ collection'[k].status \in {collection[k].status, "pending"}
    <2>1. CASE UNCHANGED collection
      BY <2>1
    <2>2. CASE Commit(c)
      BY <1>0, <2>2 DEF Commit, TypeOK, Row
    <2> QED
      BY <2>1, <2>2 DEF Request, Create, Enqueue, DeductForRetry, ResetToPending, GiveUp,
           DeductForNew, RetryDrop, RetryCollection, BeginRetry, SendRetry
  <1>4. \A k \in Collections : \/ charge'[k] = charge[k]
                               \/ charge[k] = "none" /\ charge'[k] = "pending"
    <2>1. CASE UNCHANGED charge
      BY <2>1
    <2>2. ASSUME NEW k \in Collections, DeductForNew(c, k)
          PROVE  \A j \in Collections : \/ charge'[j] = charge[j]
                                        \/ charge[j] = "none" /\ charge'[j] = "pending"
      BY <1>0, <2>2 DEF DeductForNew, TypeOK
    <2> QED
      BY <2>1, <2>2 DEF Request, Create, Commit, Enqueue, DeductForRetry, ResetToPending,
           GiveUp, RetryDrop, RetryCollection, BeginRetry, SendRetry
  <1>5. \A k \in DropCollections : drop'[k] \in {drop[k], "pending"}
    <2>1. CASE UNCHANGED drop
      BY <2>1
    <2>2. CASE Commit(c)
      BY <2>2 DEF Commit
    <2>3. CASE ResetToPending(c)
      BY <1>0, <2>3 DEF ResetToPending, TypeOK
    <2> QED
      BY <2>1, <2>2, <2>3 DEF Request, Create, Enqueue, DeductForRetry, GiveUp,
           DeductForNew, RetryDrop, RetryCollection, BeginRetry, SendRetry
  <1>6. Shown'
    BY <1>0, <1>1, <1>2, <1>3, <1>4, <1>5, SendingKeepsShown
  <1>7. \A s \in Submissions : Handled(s)'
    BY <1>0, <1>1, <1>2, <1>3, <1>4, SendingKeepsHandled
  <1>8. Known'
    <2>1. CASE UNCHANGED submission
      BY <2>1 DEF Known, Unsent
    <2>2. ASSUME NEW s \in Submissions, SendRetry(c, s) PROVE Known'
      BY <1>0, <2>2 DEF SendRetry, Sent, Unsent, TypeOK, Known, Chosen, ChosenBy
    <2> QED
      BY <2>1, <2>2 DEF Request, Create, Commit, Enqueue, DeductForRetry, ResetToPending,
           GiveUp, DeductForNew, RetryDrop, RetryCollection, BeginRetry
  <1>9. Chosen'
    <2> SUFFICES ASSUME NEW b \in Clients PROVE ChosenBy(b)'
      BY DEF Chosen, ChosenBy
    <2>1. CASE b # c
      <3>1. client'[b] = client[b]
        BY <1>0, <2>1 DEF Request, Create, Commit, Enqueue, DeductForRetry, ResetToPending,
             GiveUp, DeductForNew, RetryDrop, RetryCollection, BeginRetry, SendRetry, TypeOK
      <3> QED
        BY <3>1 DEF Chosen, ChosenBy
    <2>2. CASE b = c
      <3>1. CASE Create(c) \/ Commit(c) \/ DeductForRetry(c)
        BY <1>0, <2>2, <3>1 DEF Create, Commit, DeductForRetry, TypeOK, Client, Chosen, ChosenBy, Idle
      <3>2. CASE Enqueue(c) \/ ResetToPending(c) \/ GiveUp(c)
        BY <1>0, <2>2, <3>2 DEF Enqueue, ResetToPending, GiveUp, TypeOK, Idle, ChosenBy
      <3>3. ASSUME NEW k \in Collections,
                   DeductForNew(c, k) \/ RetryDrop(c, k) \/ RetryCollection(c, k)
            PROVE  ChosenBy(b)'
        BY <1>0, <2>2, <3>3 DEF DeductForNew, RetryDrop, RetryCollection, BeginRetry, IsDrop,
             TypeOK, Client, Chosen, ChosenBy
      <3>4. ASSUME NEW s \in Submissions, SendRetry(c, s) PROVE ChosenBy(b)'
        BY <1>0, <2>2, <3>4 DEF SendRetry, TypeOK, Client, Chosen, ChosenBy, Idle
      <3> QED
        BY <3>1, <3>2, <3>3, <3>4 DEF Request
    <2> QED
      BY <2>1, <2>2
  <1> QED
    BY <1>0, <1>6, <1>7, <1>8, <1>9 DEF Shown

LEMMA JobCInv ==
  ASSUME CInv, NEW k \in Collections,
         SaveUri(k) \/ \E s \in Submissions : SubmitFromJob(k, s)
  PROVE  CInv'
  <1> USE DEF CInv
  <1>0. TypeOK /\ TypeOK' /\ Shown
    BY JobType DEF Shown
  <1>1. UNCHANGED <<collection, drop, charge, handler, told, client>>
    BY DEF SaveUri, SubmitFromJob
  <1>2. /\ \A s \in Submissions : Unsent(s) \/ submission'[s] = submission[s]
        /\ \A s \in Submissions : submission'[s] = submission[s] \/ submission'[s].state = "sent"
    BY <1>0 DEF SaveUri, SubmitFromJob, Sent, Unsent, TypeOK
  <1>3. Known'
    <2>1. CASE SaveUri(k)
      BY <2>1 DEF SaveUri, Known, Unsent
    <2>2. ASSUME NEW s \in Submissions, SubmitFromJob(k, s) PROVE Known'
      BY <1>0, <2>2 DEF SubmitFromJob, Sent, Unsent, TypeOK, Known, IsDrop
    <2> QED
      BY <2>1, <2>2
  <1>4. Chosen'
    BY <1>1 DEF Chosen, ChosenBy
  <1>5. Shown'
    BY <1>0, <1>1, <1>2, SendingKeepsShown
  <1>6. \A s \in Submissions : Handled(s)'
    BY <1>0, <1>1, <1>2, SendingKeepsHandled
  <1> QED
    BY <1>0, <1>3, <1>4, <1>5, <1>6 DEF Shown

-----------------------------------------------------------------------------
(* Results and their handlers.                                             *)

\* A step of a handler that leaves submissions and requests alone keeps both.
LEMMA ResultKeepsSent ==
  ASSUME Known, Chosen, UNCHANGED <<submission, client>>
  PROVE  Known' /\ Chosen'
  BY DEF Known, Unsent, Chosen, ChosenBy

LEMMA ExecuteCInv ==
  ASSUME CInv, NEW s \in Submissions, Execute(s)
  PROVE  CInv'
  <1> USE DEF CInv
  <1>0. TypeOK /\ TypeOK' /\ Known
    BY ResultType
  <1>1. /\ UNCHANGED <<collection, drop, charge, handler, told, client>>
        /\ submission[s].state = "sent"
        /\ \A t \in Submissions : t # s => submission'[t] = submission[t]
        /\ submission'[s].state \in {"succeeded", "failed"}
        /\ submission'[s].collection = submission[s].collection
        /\ submission'[s].kind = submission[s].kind
    BY <1>0 DEF Execute, TypeOK, Submission
  <1>2. \A t \in Submissions : Succeeded(t) => submission'[t] = submission[t]
    BY <1>1 DEF Succeeded
  <1>3. Known' /\ Chosen'
    BY <1>1 DEF Known, Unsent, Chosen, ChosenBy
  <1>4. \A t \in Submissions : Handled(t)'
    <2> SUFFICES ASSUME NEW t \in Submissions PROVE Handled(t)'
      OBVIOUS
    <2>1. CASE t = s
      BY <1>1, <2>1 DEF Handled
    <2>2. CASE t # s
      BY <1>1, <2>2 DEF Handled, Succeeded
    <2> QED
      BY <2>1, <2>2
  <1>5. AddressIsOnChain'
    BY <1>0, <1>1, <1>2 DEF AddressIsOnChain, Succeeded, TypeOK, Row
  <1>6. \A k \in Collections : OnChain(k) => OnChain(k)'
    BY <1>2 DEF OnChain, Succeeded
  <1> QED
    BY <1>0, <1>1, <1>3, <1>4, <1>5, <1>6 DEF DropIsBacked, PaidIfShown, ToldIsOnChain

LEMMA ProgressCInv ==
  ASSUME CInv, NEW s \in Submissions, Progress(s) \/ HandlerFails(s)
  PROVE  CInv'
  <1> DEFINE k == submission[s].collection
  <1> USE DEF CInv
  <1>0. TypeOK /\ TypeOK' /\ UNCHANGED <<submission, client>>
    BY ResultType DEF Progress, ReadResult, ConfirmDeduction, Announce, WriteCollection,
         WriteDrop, Acknowledge, HandlerFails
  <1>1. Known' /\ Chosen'
    BY <1>0, ResultKeepsSent
  <1>2. /\ submission[s].state \in {"succeeded", "failed"}
        /\ k \in Collections
        /\ submission[s].kind = "drop" => k \in DropCollections
    BY DEF Progress, ReadResult, ConfirmDeduction, Announce, WriteCollection, WriteDrop,
           Acknowledge, HandlerFails, Handled, Known, Unsent
  <1>3. \A j \in Collections : OnChain(j) <=> OnChain(j)'
    BY <1>0 DEF OnChain, Succeeded
  <1>4. CASE ReadResult(s) \/ Acknowledge(s) \/ HandlerFails(s)
    <2>1. UNCHANGED <<collection, drop, charge, told>>
      BY <1>4 DEF ReadResult, Acknowledge, HandlerFails
    <2>2. \A t \in Submissions : Handled(t)'
      BY <1>0, <1>2, <1>4, <2>1
      DEF ReadResult, Acknowledge, HandlerFails, Handled, Succeeded, TypeOK
    <2>3. AddressIsOnChain' /\ DropIsBacked' /\ PaidIfShown' /\ ToldIsOnChain'
      BY <1>0, <1>3, <2>1 DEF AddressIsOnChain, DropIsBacked, PaidIfShown, ToldIsOnChain, Succeeded
    <2> QED
      BY <1>0, <1>1, <2>2, <2>3
  <1>5. CASE ConfirmDeduction(s)
    <2>1. /\ UNCHANGED <<collection, drop, told>>
          /\ Succeeded(s)
          /\ charge' = [charge EXCEPT ![k] = "confirmed"]
          /\ handler' = [handler EXCEPT ![s] = "confirmed"]
      BY <1>5 DEF ConfirmDeduction
    <2>2. \A j \in Collections : charge[j] = "confirmed" \/ j = k <=> charge'[j] = "confirmed"
      BY <1>0, <1>2, <2>1 DEF TypeOK
    <2>3. \A t \in Submissions : Handled(t)'
      <3> SUFFICES ASSUME NEW t \in Submissions PROVE Handled(t)'
        OBVIOUS
      <3>1. CASE t = s
        BY <1>0, <1>2, <2>1, <2>2, <3>1 DEF Handled, Succeeded, TypeOK
      <3>2. CASE t # s
        <4>1. handler'[t] = handler[t]
          BY <1>0, <2>1, <3>2 DEF TypeOK
        <4>2. handler[t] # "waiting" => submission[t].collection \in Collections
          BY DEF Handled, Known, Unsent
        <4> QED
          BY <1>0, <2>1, <2>2, <4>1, <4>2 DEF Handled, Succeeded
      <3> QED
        BY <3>1, <3>2
    <2>4. OnChain(k)
      BY <2>1 DEF OnChain
    <2>5. AddressIsOnChain' /\ DropIsBacked' /\ PaidIfShown' /\ ToldIsOnChain'
      BY <1>0, <1>3, <2>1, <2>2, <2>4
      DEF AddressIsOnChain, DropIsBacked, PaidIfShown, ToldIsOnChain, Succeeded
    <2> QED
      BY <1>0, <1>1, <2>3, <2>5
  <1>6. CASE Announce(s)
    <2>1. /\ UNCHANGED <<collection, drop, charge>>
          /\ handler' = [handler EXCEPT ![s] = "announced"]
          /\ Succeeded(s) => charge[k] = "confirmed"
          /\ \A j \in Collections :
               <<j, "completed">> \in told' =>
                 <<j, "completed">> \in told \/ (j = k /\ Succeeded(s))
      BY <1>6 DEF Announce, Handled, Succeeded
    <2>2. \A t \in Submissions : Handled(t)'
      BY <1>0, <1>2, <2>1 DEF Handled, Succeeded, TypeOK
    <2>3. Succeeded(s) => OnChain(k)
      BY DEF OnChain
    <2>4. AddressIsOnChain' /\ DropIsBacked' /\ PaidIfShown' /\ ToldIsOnChain'
      BY <1>0, <1>3, <2>1, <2>3
      DEF AddressIsOnChain, DropIsBacked, PaidIfShown, ToldIsOnChain, Succeeded
    <2> QED
      BY <1>0, <1>1, <2>2, <2>4
  <1>7. CASE WriteCollection(s)
    <2>1. /\ UNCHANGED <<drop, charge, told>>
          /\ Succeeded(s) => charge[k] = "confirmed"
          /\ handler'[s] \in {"written", "done"}
          /\ handler'[s] = "written" => submission[s].kind = "drop"
          /\ \A t \in Submissions : t # s => handler'[t] = handler[t]
      BY <1>0, <1>7 DEF WriteCollection, Handled, TypeOK
    <2>2. /\ \A j \in Collections : j # k => collection'[j] = collection[j]
          /\ Succeeded(s) => collection'[k] = [status |-> "created", address |-> s]
          /\ ~Succeeded(s) => collection'[k] = [collection[k] EXCEPT !.status = "failed"]
      BY <1>0, <1>2, <1>7 DEF WriteCollection, TypeOK
    <2>3. \A j \in Collections :
            \/ collection'[j].address = collection[j].address
            \/ j = k /\ Succeeded(s) /\ collection'[j].address = s
      BY <1>0, <1>2, <2>2 DEF TypeOK, Row
    <2>4. \A j \in Collections :
            collection[j].address # NoSubmission => collection'[j].address # NoSubmission
      BY <2>3
    <2>5. \A t \in Submissions : Handled(t)'
      <3> SUFFICES ASSUME NEW t \in Submissions PROVE Handled(t)'
        OBVIOUS
      <3>1. CASE t = s
        BY <1>0, <1>2, <2>1, <2>2, <3>1 DEF Handled, Succeeded
      <3>2. CASE t # s
        <4>1. handler[t] # "waiting" => submission[t].collection \in Collections
          BY DEF Handled, Known, Unsent
        <4> QED
          BY <1>0, <2>1, <2>4, <3>2, <4>1 DEF Handled, Succeeded
      <3> QED
        BY <3>1, <3>2
    <2>6. AddressIsOnChain'
      <3> SUFFICES ASSUME NEW j \in Collections
                   PROVE  /\ collection'[j].status = "created" =>
                               collection'[j].address # NoSubmission
                          /\ collection'[j].address # NoSubmission =>
                               /\ Succeeded(collection'[j].address)
                               /\ submission[collection'[j].address].collection = j
        BY <1>0 DEF AddressIsOnChain, Succeeded
      <3>1. CASE j = k /\ Succeeded(s)
        BY <2>2, <3>1
      <3>2. CASE j = k /\ ~Succeeded(s)
        BY <1>0, <2>2, <3>2 DEF AddressIsOnChain, TypeOK, Row
      <3>3. CASE j # k
        BY <2>2, <3>3 DEF AddressIsOnChain
      <3> QED
        BY <3>1, <3>2, <3>3
    <2>7. DropIsBacked' /\ PaidIfShown' /\ ToldIsOnChain'
      BY <1>0, <1>3, <2>1, <2>3, <2>4 DEF DropIsBacked, PaidIfShown, ToldIsOnChain
    <2> QED
      BY <1>0, <1>1, <2>5, <2>6, <2>7
  <1>8. CASE WriteDrop(s)
    <2>1. /\ UNCHANGED <<collection, charge, told>>
          /\ k \in DropCollections
          /\ Succeeded(s) => collection[k].address # NoSubmission /\ charge[k] = "confirmed"
          /\ handler' = [handler EXCEPT ![s] = "done"]
          /\ \A j \in DropCollections :
               drop'[j] = "created" => drop[j] = "created" \/ (j = k /\ Succeeded(s))
      BY <1>0, <1>2, <1>8 DEF WriteDrop, Handled, TypeOK
    <2>2. \A t \in Submissions : Handled(t)'
      BY <1>0, <1>2, <2>1 DEF Handled, Succeeded, TypeOK
    <2>3. AddressIsOnChain' /\ DropIsBacked' /\ PaidIfShown' /\ ToldIsOnChain'
      BY <1>0, <1>3, <2>1
      DEF AddressIsOnChain, DropIsBacked, PaidIfShown, ToldIsOnChain, Succeeded
    <2> QED
      BY <1>0, <1>1, <2>2, <2>3
  <1> QED
    BY <1>4, <1>5, <1>6, <1>7, <1>8 DEF Progress

-----------------------------------------------------------------------------
(* The theorems.                                                           *)

LEMMA NextCInv == CInv /\ [Next]_vars => CInv'
  <1> SUFFICES ASSUME CInv, [Next]_vars PROVE CInv'
    OBVIOUS
  <1>1. CASE UNCHANGED vars
    BY <1>1 DEF vars, CInv, TypeOK, Known, Chosen, ChosenBy, Handled, AddressIsOnChain,
         DropIsBacked, PaidIfShown, ToldIsOnChain, OnChain, Succeeded, Unsent
  <1>2. CASE Next
    BY <1>2, RequestCInv, JobCInv, ExecuteCInv, ProgressCInv DEF Next, Job
  <1> QED
    BY <1>1, <1>2

LEMMA SpecCInv == Spec => []CInv
  BY InitCInv, NextCInv, PTL DEF Spec

\* Every reachable state of a creation has its type.
THEOREM CreationTypeCorrect == Spec => []TypeOK
  <1>1. CInv => TypeOK
    BY DEF CInv
  <1> QED
    BY SpecCInv, <1>1, PTL

\* However creations are retried and submitted again, and wherever handlers
\* fail: an address shown is that of a transaction for that collection, and a
\* drop is CREATED only with such an address.
THEOREM ShownIsOnChain == Spec => []ShownIsBacked
  <1>1. CInv => ShownIsBacked
    BY DEF CInv, ShownIsBacked
  <1> QED
    BY SpecCInv, <1>1, PTL

\* What is shown has been paid for, and what is paid for is on the chain.
THEOREM ShownIsPaid == Spec => []PaidIfShown
  <1>1. CInv => PaidIfShown
    BY DEF CInv
  <1> QED
    BY SpecCInv, <1>1, PTL

\* Other services are told COMPLETED only of what is on the chain and paid for,
\* although they are told before it is written.
THEOREM ToldIsTrue == Spec => []ToldIsOnChain
  <1>1. CInv => ToldIsOnChain
    BY DEF CInv
  <1> QED
    BY SpecCInv, <1>1, PTL

-----------------------------------------------------------------------------
(* An acknowledged success is recorded.                                    *)

\* The collection has been handed over, or it has got as far as being retried.
Started(k) ==
  \/ k \in jobs \cup uri
  \/ \E s \in Submissions : ~Unsent(s) /\ submission[s].collection = k

\* Only what has been charged is started, and only once: a request about to commit its rows
\* is the only one that knows of them.
CreatedOnceBy(c) ==
  LET r == client[c]
  IN  /\ r.pc \in {"commit", "enqueue"} => charge[r.collection] # "none"
      /\ r.pc = "commit" =>
           /\ ~Started(r.collection)
           /\ \A e \in Clients \ {c} : client[e].pc \in {"commit", "enqueue"} =>
                client[e].collection # r.collection

CreatedOnce ==
  /\ \A k \in Collections : Started(k) => charge[k] # "none"
  /\ \A c \in Clients : CreatedOnceBy(c)

\* What a retry has chosen has its uri; one that is to set the drop back has submitted it.
RetriedBy(c) ==
  LET r == client[c]
  IN  /\ r.pc = "deduct" /\ r.op # "create" => r.collection \in uri
      /\ r.pc \in {"send", "reset"} => r.collection \in uri
      /\ r.pc = "reset" => ~SubmittedOnce(r.collection)

\* A drop whose result has been handled has left the state it was created in.
DropWritten(s) ==
  handler[s] \in {"done", "acked"} /\ submission[s].kind = "drop"
    /\ SubmittedOnce(submission[s].collection)
  => drop[submission[s].collection] # "pending"

DInv ==
  /\ CInv
  /\ \A s \in Submissions : Unsent(s) => submission[s].collection = NoCollection
  /\ CreatedOnce
  /\ \A c \in Clients : RetriedBy(c)
  /\ \A s \in Submissions : DropWritten(s)

\* What has been submitted stays submitted, for the same collection and by the same part.
SendsMore ==
  \A s \in Submissions :
    /\ ~Unsent(s) =>
         /\ submission'[s].state # "unused"
         /\ submission'[s].collection = submission[s].collection
         /\ submission'[s].kind = submission[s].kind
         /\ submission'[s].by = submission[s].by
    /\ submission'[s].state = "unused" => submission'[s] = submission[s]

LEMMA OnceBefore ==
  ASSUME \A s \in Submissions : Unsent(s) => submission[s].collection = NoCollection,
         SendsMore, NEW k \in Collections, SubmittedOnce(k)'
  PROVE  SubmittedOnce(k)
<1> SUFFICES ASSUME NEW s \in Submissions, NEW t \in Submissions,
                    submission[s].collection = k, submission[t].collection = k
             PROVE  s = t /\ submission[s].by = "job"
  BY DEF SubmittedOnce
<1>1. ~Unsent(s) /\ ~Unsent(t)
  OBVIOUS
<1> QED BY <1>1 DEF SendsMore, SubmittedOnce

LEMMA CreatedOnceFrame ==
  ASSUME CInv, CreatedOnce,
         \A k \in Collections : Started(k)' => Started(k),
         \A k \in Collections : charge'[k] = "none" => charge[k] = "none",
         \A c \in Clients :
           client'[c] = client[c] \/ client'[c].pc \notin {"commit", "enqueue"}
  PROVE  CreatedOnce'
<1>1. \A k \in Collections : Started(k)' => charge'[k] # "none"
  BY DEF CreatedOnce
<1>2. ASSUME NEW c \in Clients, client[c].pc \in {"commit", "enqueue"}, client'[c] = client[c]
      PROVE  CreatedOnceBy(c)'
  <2> PICK k : k = client[c].collection
    OBVIOUS
  <2>1. k \in Collections
    BY <1>2 DEF CInv, Chosen, ChosenBy
  <2>2. CreatedOnceBy(c)
    BY DEF CreatedOnce
  <2>3. client[c].pc = "commit" => ~Started(k)'
    BY <2>1, <2>2 DEF CreatedOnceBy
  <2>4. charge'[k] # "none"
    BY <1>2, <2>1, <2>2 DEF CreatedOnceBy
  <2>5. client[c].pc = "commit" =>
          \A e \in Clients \ {c} : client'[e].pc \in {"commit", "enqueue"} =>
            client'[e].collection # k
    BY <2>2 DEF CreatedOnceBy
  <2> QED BY <1>2, <2>3, <2>4, <2>5 DEF CreatedOnceBy
<1>3. \A c \in Clients : client'[c].pc \notin {"commit", "enqueue"} => CreatedOnceBy(c)'
  BY DEF CreatedOnceBy
<1> QED BY <1>1, <1>2, <1>3 DEF CreatedOnce

LEMMA RetriedByFrame ==
  ASSUME DInv, SendsMore, uri \subseteq uri', NEW c \in Clients, client'[c] = client[c]
  PROVE  RetriedBy(c)'
<1> PICK k : k = client[c].collection
  OBVIOUS
<1>1. client[c].pc = "reset" => k \in Collections /\ ~SubmittedOnce(k)
  BY DEF DInv, CInv, Chosen, ChosenBy, RetriedBy
<1>2. client[c].pc = "reset" => ~SubmittedOnce(k)'
  BY <1>1, OnceBefore DEF DInv
<1>3. RetriedBy(c)
  BY DEF DInv
<1> QED BY <1>2, <1>3 DEF RetriedBy

LEMMA DropWrittenFrame ==
  ASSUME DInv, SendsMore,
         \A s \in Submissions : handler'[s] \in {"done", "acked"} => handler[s] \in {"done", "acked"},
         \A k \in DropCollections :
           \/ drop'[k] = "pending" => drop[k] = "pending"
           \/ ~Started(k)
           \/ ~SubmittedOnce(k)
  PROVE  \A s \in Submissions : DropWritten(s)'
<1> SUFFICES ASSUME NEW s \in Submissions, NEW k, k = submission'[s].collection,
                    handler'[s] \in {"done", "acked"}, submission'[s].kind = "drop",
                    SubmittedOnce(k)'
             PROVE  drop'[k] # "pending"
  BY DEF DropWritten
<1>1. handler[s] \in {"done", "acked"} /\ ~Unsent(s)
  BY DEF DInv, CInv, Handled, Unsent
<1>2. submission[s].collection = k /\ submission[s].kind = "drop" /\ k \in DropCollections
  BY <1>1 DEF SendsMore, DInv, CInv, Known
<1>3. SubmittedOnce(k)
  BY <1>2, OnceBefore DEF DInv
<1>4. drop[k] # "pending" /\ Started(k)
  BY <1>1, <1>2, <1>3 DEF DInv, DropWritten, Started
<1> QED BY <1>2, <1>3, <1>4

\* The parts of DInv that a step has to keep besides CInv.
Recorded ==
  /\ \A s \in Submissions : Unsent(s) => submission[s].collection = NoCollection
  /\ CreatedOnce
  /\ \A c \in Clients : RetriedBy(c)
  /\ \A s \in Submissions : DropWritten(s)

\* A step that submits nothing.
LEMMA NothingSent ==
  ASSUME submission' = submission
  PROVE  /\ SendsMore
         /\ \A s \in Submissions : Unsent(s) <=> Unsent(s)'
  BY DEF SendsMore, Unsent

LEMMA RequestRecorded ==
  ASSUME DInv, NEW c \in Clients, Request(c)
  PROVE  Recorded'
<1> PICK k : k = client[c].collection
  OBVIOUS
<1>0. /\ CInv /\ TypeOK /\ CreatedOnce /\ ChosenBy(c) /\ RetriedBy(c) /\ CreatedOnceBy(c)
      /\ client[c] \in Client
      /\ \A s \in Submissions : Unsent(s) => submission[s].collection = NoCollection
  BY DEF DInv, CInv, Chosen, CreatedOnce, TypeOK
<1>1. ASSUME UNCHANGED <<uri, jobs, submission, handler, charge, drop>>,
             \A e \in Clients \ {c} : client'[e] = client[e],
             client'[c].pc \notin {"commit", "enqueue"}, RetriedBy(c)'
      PROVE  Recorded'
  <2>1. SendsMore
    BY <1>1, NothingSent
  <2>2. \A x : Started(x) <=> Started(x)'
    BY <1>1 DEF Started, Unsent
  <2>3. CreatedOnce'
    BY <1>0, <1>1, <2>2, CreatedOnceFrame
  <2>4. \A e \in Clients : RetriedBy(e)'
    BY <1>1, <2>1, RetriedByFrame
  <2>5. \A s \in Submissions : DropWritten(s)'
    BY <1>1, <2>1, DropWrittenFrame
  <2> QED BY <1>0, <1>1, <2>3, <2>4, <2>5 DEF Recorded, Unsent
<1>2. CASE Create(c) \/ DeductForRetry(c) \/ GiveUp(c)
  <2>1. /\ UNCHANGED <<uri, jobs, submission, handler, charge, drop>>
        /\ \A e \in Clients \ {c} : client'[e] = client[e]
    BY <1>0, <1>2 DEF Create, DeductForRetry, GiveUp, TypeOK
  <2>2. client'[c].pc \notin {"commit", "enqueue"}
    BY <1>0, <1>2 DEF Create, DeductForRetry, GiveUp, Idle, TypeOK, Client
  <2>3. RetriedBy(c)'
    <3>1. CASE Create(c)
      <4>1. client'[c].op = "create" /\ client'[c].pc = "deduct"
        BY <1>0, <3>1 DEF Create, TypeOK, Client
      <4> QED BY <4>1 DEF RetriedBy
    <3>2. CASE DeductForRetry(c)
      <4>1. /\ client'[c].pc = "send" /\ client'[c].collection = client[c].collection
            /\ client[c].collection \in uri /\ uri' = uri
        BY <1>0, <3>2 DEF DeductForRetry, TypeOK, Client, RetriedBy
      <4> QED BY <4>1 DEF RetriedBy
    <3>3. CASE GiveUp(c)
      <4>1. client'[c].pc = "idle"
        BY <1>0, <3>3 DEF GiveUp, Idle, TypeOK
      <4> QED BY <4>1 DEF RetriedBy
    <3> QED BY <1>2, <3>1, <3>2, <3>3
  <2> QED BY <1>1, <2>1, <2>2, <2>3
<1>3. ASSUME NEW j \in Collections, RetryDrop(c, j) \/ RetryCollection(c, j)
      PROVE  Recorded'
  <2>1. /\ UNCHANGED <<uri, jobs, submission, handler, charge, drop>>
        /\ \A e \in Clients \ {c} : client'[e] = client[e]
        /\ j \in uri /\ client'[c].pc = "deduct" /\ client'[c].collection = j
    BY <1>0, <1>3 DEF RetryDrop, RetryCollection, BeginRetry, TypeOK
  <2>2. RetriedBy(c)'
    BY <2>1 DEF RetriedBy
  <2> QED BY <1>1, <2>1, <2>2
<1>4. ASSUME NEW j \in Collections, DeductForNew(c, j) PROVE Recorded'
  <2>1. /\ UNCHANGED <<uri, jobs, submission, handler, drop>>
        /\ charge[j] = "none" /\ charge'[j] = "pending"
        /\ \A x \in Collections \ {j} : charge'[x] = charge[x]
        /\ client'[c].pc = "commit" /\ client'[c].collection = j
        /\ \A e \in Clients \ {c} : client'[e] = client[e]
    BY <1>0, <1>4 DEF DeductForNew, TypeOK, Client
  <2>2. SendsMore /\ \A x : Started(x) <=> Started(x)'
    BY <2>1, NothingSent DEF Started, Unsent
  <2>3. ~Started(j)
    BY <1>0, <2>1 DEF CreatedOnce
  <2>4. \A e \in Clients : client[e].pc \in {"commit", "enqueue"} =>
          /\ client[e].collection \in Collections /\ client[e].collection # j
          /\ charge[client[e].collection] # "none"
    BY <1>0, <2>1 DEF CreatedOnce, CreatedOnceBy, CInv, Chosen, ChosenBy
  <2>5. CreatedOnceBy(c)'
    BY <2>1, <2>2, <2>3, <2>4 DEF CreatedOnceBy
  <2>6. ASSUME NEW e \in Clients \ {c} PROVE CreatedOnceBy(e)'
    <3>1. CreatedOnceBy(e) /\ client'[e] = client[e]
      BY <1>0, <2>1 DEF CreatedOnce
    <3>2. client[e].pc = "commit" => ~Started(client[e].collection)'
      BY <2>2, <3>1 DEF CreatedOnceBy
    <3>3. client[e].pc = "commit" =>
            \A f \in Clients \ {e} : client'[f].pc \in {"commit", "enqueue"} =>
              client'[f].collection # client[e].collection
      BY <2>1, <2>4, <3>1 DEF CreatedOnceBy
    <3> QED BY <2>1, <2>4, <3>1, <3>2, <3>3 DEF CreatedOnceBy
  <2>7. \A x \in Collections : Started(x)' => charge'[x] # "none"
    BY <1>0, <2>1, <2>2 DEF CreatedOnce
  <2>8. RetriedBy(c)'
    BY <2>1 DEF RetriedBy
  <2>9. \A e \in Clients : RetriedBy(e)'
    BY <2>1, <2>2, <2>8, RetriedByFrame
  <2>10. \A s \in Submissions : DropWritten(s)'
    BY <2>1, <2>2, DropWrittenFrame
  <2> QED BY <1>0, <2>1, <2>5, <2>6, <2>7, <2>9, <2>10 DEF Recorded, CreatedOnce, Unsent
<1>5. CASE Commit(c)
  <2>1. /\ UNCHANGED <<uri, jobs, submission, handler, charge>>
        /\ client[c].pc = "commit" /\ k \in Collections
        /\ client'[c].pc = "enqueue" /\ client'[c].collection = k
        /\ \A e \in Clients \ {c} : client'[e] = client[e]
        /\ \A x \in DropCollections : x # k => drop'[x] = drop[x]
    BY <1>0, <1>5 DEF Commit, TypeOK, Client, ChosenBy
  <2>2. SendsMore /\ \A x : Started(x) <=> Started(x)'
    BY <2>1, NothingSent DEF Started, Unsent
  <2>3. charge[k] # "none" /\ ~Started(k)
    BY <1>0, <2>1 DEF CreatedOnceBy
  <2>4. CreatedOnceBy(c)'
    BY <2>1, <2>3 DEF CreatedOnceBy
  <2>5. ASSUME NEW e \in Clients \ {c} PROVE CreatedOnceBy(e)'
    <3>1. CreatedOnceBy(e) /\ client'[e] = client[e]
      BY <1>0, <2>1 DEF CreatedOnce
    <3>2. client[e].pc = "commit" => ~Started(client[e].collection)'
      BY <2>2, <3>1 DEF CreatedOnceBy
    <3>3. client[e].pc = "commit" =>
            \A f \in Clients \ {e} : client'[f].pc \in {"commit", "enqueue"} =>
              client'[f].collection # client[e].collection
      BY <2>1, <3>1 DEF CreatedOnceBy
    <3> QED BY <2>1, <3>1, <3>2, <3>3 DEF CreatedOnceBy
  <2>6. \A x \in Collections : Started(x)' => charge'[x] # "none"
    BY <1>0, <2>1, <2>2 DEF CreatedOnce
  <2>7. RetriedBy(c)'
    BY <2>1 DEF RetriedBy
  <2>8. \A e \in Clients : RetriedBy(e)'
    BY <2>1, <2>2, <2>7, RetriedByFrame
  <2>9. \A s \in Submissions : DropWritten(s)'
    BY <2>1, <2>2, <2>3, DropWrittenFrame
  <2> QED BY <1>0, <2>1, <2>4, <2>5, <2>6, <2>8, <2>9 DEF Recorded, CreatedOnce, Unsent
<1>6. CASE Enqueue(c)
  <2>1. /\ UNCHANGED <<uri, submission, handler, charge, drop>>
        /\ client[c].pc = "enqueue" /\ k \in Collections /\ jobs' = jobs \cup {k}
        /\ client'[c].pc = "idle"
        /\ \A e \in Clients \ {c} : client'[e] = client[e]
    BY <1>0, <1>6 DEF Enqueue, TypeOK, Idle, ChosenBy
  <2>2. SendsMore /\ \A x : Started(x)' => Started(x) \/ x = k
    BY <2>1, NothingSent DEF Started, Unsent
  <2>3. charge[k] # "none"
    BY <1>0, <2>1 DEF CreatedOnceBy
  <2>4. CreatedOnceBy(c)' /\ RetriedBy(c)'
    BY <2>1 DEF CreatedOnceBy, RetriedBy
  <2>5. ASSUME NEW e \in Clients \ {c} PROVE CreatedOnceBy(e)'
    <3>1. CreatedOnceBy(e) /\ client'[e] = client[e]
      BY <1>0, <2>1 DEF CreatedOnce
    <3>2. client[e].pc = "commit" => ~Started(client[e].collection)'
      BY <2>1, <2>2, <3>1 DEF CreatedOnceBy
    <3>3. client[e].pc = "commit" =>
            \A f \in Clients \ {e} : client'[f].pc \in {"commit", "enqueue"} =>
              client'[f].collection # client[e].collection
      BY <2>1, <3>1 DEF CreatedOnceBy
    <3> QED BY <2>1, <3>1, <3>2, <3>3 DEF CreatedOnceBy
  <2>6. \A x \in Collections : Started(x)' => charge'[x] # "none"
    BY <1>0, <2>1, <2>2, <2>3 DEF CreatedOnce
  <2>7. \A e \in Clients : RetriedBy(e)'
    BY <2>1, <2>2, <2>4, RetriedByFrame
  <2>8. \A s \in Submissions : DropWritten(s)'
    BY <2>1, <2>2, DropWrittenFrame
  <2> QED BY <1>0, <2>1, <2>4, <2>5, <2>6, <2>7, <2>8 DEF Recorded, CreatedOnce, Unsent
<1>7. ASSUME NEW s \in Submissions, SendRetry(c, s) PROVE Recorded'
  <2>1. PICK r :
          /\ r.state = "sent" /\ r.collection = k /\ r.by = "retry"
          /\ submission' = [submission EXCEPT ![s] = r]
    BY <1>7 DEF SendRetry, Sent
  <2>2. /\ UNCHANGED <<uri, jobs, handler, charge, drop>>
        /\ Unsent(s) /\ client[c].pc = "send" /\ k \in uri /\ k \in Collections
        /\ \A e \in Clients \ {c} : client'[e] = client[e]
        /\ \/ client'[c].pc = "reset" /\ client'[c].collection = k
           \/ client'[c].pc = "idle"
    BY <1>0, <1>7 DEF SendRetry, TypeOK, Client, Idle, RetriedBy, ChosenBy
  <2>3. submission'[s] = r /\ \A t \in Submissions \ {s} : submission'[t] = submission[t]
    BY <1>0, <2>1 DEF TypeOK
  <2>4. SendsMore
    BY <2>1, <2>2, <2>3 DEF SendsMore, Unsent
  <2>5. \A x : Started(x)' => Started(x)
    BY <2>1, <2>2, <2>3 DEF Started, Unsent
  <2>6. CreatedOnce'
    BY <1>0, <2>2, <2>5, CreatedOnceFrame
  <2>7. RetriedBy(c)'
    <3>1. ~SubmittedOnce(k)'
      BY <2>1, <2>3 DEF SubmittedOnce
    <3> QED BY <2>2, <3>1 DEF RetriedBy
  <2>8. \A e \in Clients : RetriedBy(e)'
    BY <2>2, <2>4, <2>7, RetriedByFrame
  <2>9. \A t \in Submissions : DropWritten(t)'
    BY <2>2, <2>4, DropWrittenFrame
  <2>10. \A t \in Submissions : Unsent(t)' => submission'[t].collection = NoCollection
    BY <1>0, <2>1, <2>3 DEF Unsent
  <2> QED BY <2>6, <2>8, <2>9, <2>10 DEF Recorded
<1>8. CASE ResetToPending(c)
  <2>1. /\ UNCHANGED <<uri, jobs, submission, handler, charge>>
        /\ \A e \in Clients \ {c} : client'[e] = client[e]
        /\ client'[c].pc = "idle" /\ client[c].pc = "reset"
        /\ \A x \in DropCollections : x # k => drop'[x] = drop[x]
    BY <1>0, <1>8 DEF ResetToPending, TypeOK, Idle
  <2>2. SendsMore /\ \A x : Started(x) <=> Started(x)'
    BY <2>1, NothingSent DEF Started, Unsent
  <2>3. CreatedOnce'
    BY <1>0, <2>1, <2>2, CreatedOnceFrame
  <2>4. RetriedBy(c)'
    BY <2>1 DEF RetriedBy
  <2>5. \A e \in Clients : RetriedBy(e)'
    BY <2>1, <2>2, <2>4, RetriedByFrame
  <2>6. ~SubmittedOnce(k)
    BY <1>0, <2>1 DEF RetriedBy
  <2>7. \A s \in Submissions : DropWritten(s)'
    BY <2>1, <2>2, <2>6, DropWrittenFrame
  <2> QED BY <1>0, <2>1, <2>3, <2>5, <2>7 DEF Recorded, Unsent
<1> QED BY <1>2, <1>3, <1>4, <1>5, <1>6, <1>7, <1>8 DEF Request

LEMMA JobRecorded ==
  ASSUME DInv, NEW k \in Collections,
         SaveUri(k) \/ \E s \in Submissions : SubmitFromJob(k, s)
  PROVE  Recorded'
<1>0. /\ CInv /\ TypeOK /\ CreatedOnce
      /\ \A s \in Submissions : Unsent(s) => submission[s].collection = NoCollection
  BY DEF DInv, CInv
<1>1. UNCHANGED <<collection, drop, charge, handler, client>> /\ uri \subseteq uri' /\ k \in jobs
  BY DEF SaveUri, SubmitFromJob
<1>2. /\ SendsMore /\ \A x \in Collections : Started(x)' => Started(x)
      /\ \A t \in Submissions : Unsent(t)' => submission'[t].collection = NoCollection
  <2>1. CASE SaveUri(k)
    <3>1. submission' = submission /\ jobs' = jobs /\ uri' = uri \cup {k}
      BY <2>1 DEF SaveUri
    <3>2. \A x : Started(x)' => Started(x)
      BY <1>1, <3>1 DEF Started, Unsent
    <3> QED BY <1>0, <3>1, <3>2, NothingSent
  <2>2. ASSUME NEW s \in Submissions, SubmitFromJob(k, s)
        PROVE  /\ SendsMore /\ \A x \in Collections : Started(x)' => Started(x)
               /\ \A t \in Submissions : Unsent(t)' => submission'[t].collection = NoCollection
    <3>1. PICK r : /\ r.state = "sent" /\ r.collection = k
                   /\ submission' = [submission EXCEPT ![s] = r]
      <4> DEFINE kind == IF IsDrop(k) THEN "drop" ELSE "collection"
      <4>1. submission' = [submission EXCEPT ![s] = Sent(k, kind, "job")]
        BY <2>2 DEF SubmitFromJob
      <4>2. Sent(k, kind, "job").state = "sent" /\ Sent(k, kind, "job").collection = k
        BY DEF Sent
      <4> QED BY <4>1, <4>2
    <3>2. Unsent(s) /\ uri' = uri /\ jobs' \subseteq jobs
      BY <2>2 DEF SubmitFromJob
    <3>3. submission'[s] = r /\ \A t \in Submissions \ {s} : submission'[t] = submission[t]
      BY <1>0, <3>1 DEF TypeOK
    <3>4. SendsMore
      BY <3>1, <3>2, <3>3 DEF SendsMore, Unsent
    <3>5. \A x : Started(x)' => Started(x)
      BY <1>1, <3>1, <3>2, <3>3 DEF Started, Unsent
    <3>6. \A t \in Submissions : Unsent(t)' => submission'[t].collection = NoCollection
      BY <1>0, <3>1, <3>3 DEF Unsent
    <3> QED BY <3>4, <3>5, <3>6
  <2> QED BY <2>1, <2>2
<1>3. CreatedOnce'
  BY <1>0, <1>1, <1>2, CreatedOnceFrame
<1>4. \A c \in Clients : RetriedBy(c)'
  BY <1>1, <1>2, RetriedByFrame
<1>5. \A s \in Submissions : DropWritten(s)'
  BY <1>1, <1>2, DropWrittenFrame
<1> QED BY <1>2, <1>3, <1>4, <1>5 DEF Recorded

LEMMA ExecuteRecorded ==
  ASSUME DInv, NEW s \in Submissions, Execute(s)
  PROVE  Recorded'
<1>0. /\ CInv /\ TypeOK /\ CreatedOnce
      /\ \A t \in Submissions : Unsent(t) => submission[t].collection = NoCollection
  BY DEF DInv, CInv
<1>1. /\ UNCHANGED <<collection, drop, charge, handler, client, uri, jobs>>
      /\ submission[s].state = "sent" /\ submission'[s].state \in {"succeeded", "failed"}
      /\ submission'[s].collection = submission[s].collection
      /\ submission'[s].kind = submission[s].kind /\ submission'[s].by = submission[s].by
      /\ \A t \in Submissions \ {s} : submission'[t] = submission[t]
  BY <1>0 DEF Execute, TypeOK, Submission
<1>2. SendsMore
  BY <1>1 DEF SendsMore, Unsent
<1>3. \A x : Started(x)' => Started(x)
  BY <1>1 DEF Started, Unsent
<1>4. CreatedOnce'
  BY <1>0, <1>1, <1>3, CreatedOnceFrame
<1>5. \A c \in Clients : RetriedBy(c)'
  BY <1>1, <1>2, RetriedByFrame
<1>6. \A t \in Submissions : DropWritten(t)'
  BY <1>1, <1>2, DropWrittenFrame
<1>7. \A t \in Submissions : Unsent(t)' => submission'[t].collection = NoCollection
  BY <1>0, <1>1 DEF Unsent
<1> QED BY <1>4, <1>5, <1>6, <1>7 DEF Recorded

\* Of the handler's steps only the one that writes the drop ends the handling of a drop.
LEMMA ProgressRecorded ==
  ASSUME DInv, NEW s \in Submissions, Progress(s) \/ HandlerFails(s)
  PROVE  Recorded'
<1>0. /\ CInv /\ TypeOK /\ CreatedOnce /\ Handled(s)
      /\ \A t \in Submissions : Unsent(t) => submission[t].collection = NoCollection
  BY DEF DInv, CInv
<1>1. UNCHANGED <<submission, client, uri, jobs>>
  BY DEF Progress, ReadResult, ConfirmDeduction, Announce, WriteCollection, WriteDrop,
         Acknowledge, HandlerFails
<1>2. \A k \in Collections : charge'[k] = "none" => charge[k] = "none"
  BY <1>0 DEF Progress, ReadResult, ConfirmDeduction, Announce, WriteCollection, WriteDrop,
              Acknowledge, HandlerFails, TypeOK
<1>3. SendsMore /\ \A x : Started(x) <=> Started(x)'
  BY <1>1, NothingSent DEF Started, Unsent
<1>4. CreatedOnce'
  BY <1>0, <1>1, <1>2, <1>3, CreatedOnceFrame
<1>5. \A c \in Clients : RetriedBy(c)'
  BY <1>1, <1>3, RetriedByFrame
<1>6. \A t \in Submissions : DropWritten(t)'
  <2>1. CASE WriteDrop(s)
    <3> PICK k : k = submission[s].collection
      OBVIOUS
    <3>1. k \in DropCollections
      BY <1>0, <2>1 DEF WriteDrop, Handled, CInv, Known, Unsent
    <3>2. /\ drop'[k] # "pending" /\ \A x \in DropCollections \ {k} : drop'[x] = drop[x]
          /\ \A t \in Submissions \ {s} : handler'[t] = handler[t]
      BY <1>0, <2>1, <3>1 DEF WriteDrop, TypeOK
    <3> SUFFICES ASSUME NEW t \in Submissions, handler'[t] \in {"done", "acked"},
                        submission[t].kind = "drop", SubmittedOnce(submission[t].collection)
                 PROVE  drop'[submission[t].collection] # "pending"
      BY <1>1 DEF DropWritten, SubmittedOnce
    <3>3. CASE submission[t].collection = k
      BY <3>2, <3>3
    <3>4. CASE submission[t].collection # k
      <4>1. handler[t] \in {"done", "acked"}
        BY <3>2, <3>4
      <4>2. submission[t].collection \in DropCollections
        BY <4>1 DEF DInv, CInv, Handled, Known, Unsent
      <4>3. drop[submission[t].collection] # "pending"
        BY <4>1 DEF DInv, DropWritten
      <4> QED BY <3>2, <3>4, <4>2, <4>3
    <3> QED BY <3>3, <3>4
  <2>2. CASE WriteCollection(s)
    <3>1. /\ drop' = drop /\ handler'[s] \in {"written", "done"}
          /\ handler'[s] = "done" => submission[s].kind # "drop"
          /\ \A t \in Submissions \ {s} : handler'[t] = handler[t]
      BY <1>0, <2>2 DEF WriteCollection, TypeOK
    <3> QED BY <1>1, <3>1 DEF DInv, DropWritten, SubmittedOnce
  <2>3. CASE ReadResult(s) \/ ConfirmDeduction(s) \/ Announce(s) \/ Acknowledge(s)
             \/ HandlerFails(s)
    <3>1. /\ drop' = drop
          /\ \A t \in Submissions :
               handler'[t] \in {"done", "acked"} => handler[t] \in {"done", "acked"}
      BY <1>0, <2>3 DEF ReadResult, ConfirmDeduction, Announce, Acknowledge, HandlerFails, TypeOK
    <3> QED BY <1>3, <3>1, DropWrittenFrame
  <2> QED BY <2>1, <2>2, <2>3 DEF Progress
<1> QED BY <1>0, <1>1, <1>4, <1>5, <1>6 DEF Recorded, Unsent

LEMMA SpecDInv == Spec => []DInv
<1>1. Init => DInv
  <2> SUFFICES ASSUME Init PROVE DInv
    OBVIOUS
  <2>1. Recorded
    BY DEF Init, Idle, Recorded, CreatedOnce, CreatedOnceBy, Started, RetriedBy, DropWritten, Unsent
  <2> QED BY <2>1, InitCInv DEF Recorded, DInv
<1>2. DInv /\ [Next]_vars => DInv'
  <2> SUFFICES ASSUME DInv, [Next]_vars PROVE DInv'
    OBVIOUS
  <2>1. CInv'
    BY NextCInv DEF DInv
  <2>2. CASE UNCHANGED vars
    BY <2>1, <2>2 DEF vars, DInv, CreatedOnce, CreatedOnceBy, Started, RetriedBy, DropWritten,
       SubmittedOnce, Unsent
  <2>3. CASE Next
    <3>1. Recorded'
      BY <2>3, RequestRecorded, JobRecorded, ExecuteRecorded, ProgressRecorded DEF Next, Job
    <3> QED BY <2>1, <3>1 DEF Recorded, DInv
  <2> QED BY <2>2, <2>3
<1> QED BY <1>1, <1>2, PTL DEF Spec

\* A success that has been acknowledged is recorded, however many of its deliveries failed
\* half way: its collection has an address, and a drop that was submitted once, by the job,
\* is no longer PENDING.
THEOREM AcknowledgedSuccessIsRecorded == Spec => []AcknowledgedIsRecorded
<1>1. DInv => AcknowledgedIsRecorded
  <2> SUFFICES ASSUME DInv, NEW s \in Submissions, handler[s] = "acked", Succeeded(s)
               PROVE  LET k == submission[s].collection
                      IN  /\ collection[k].address # NoSubmission
                          /\ submission[s].kind = "drop" /\ SubmittedOnce(k) => drop[k] # "pending"
    BY DEF AcknowledgedIsRecorded
  <2>1. collection[submission[s].collection].address # NoSubmission
    BY DEF DInv, CInv, Handled
  <2> QED BY <2>1 DEF DInv, DropWritten
<1> QED BY <1>1, SpecDInv, PTL
-----------------------------------------------------------------------------
(* Creation implements CreationPromise: every step of the mutations, the   *)
(* upload task and the event handlers is one of the promise's steps or     *)
(* changes nothing the promise speaks of.                                  *)

\* The handler of a success has told the other services before it writes the rows.
ToldBy(s) ==
  Succeeded(s) /\ handler[s] \in {"announced", "written", "done", "acked"} =>
    <<submission[s].collection, "completed">> \in told

ToldFirst == \A s \in Submissions : ToldBy(s)

LEMMA SpecToldFirst == Spec => []ToldFirst
<1>1. Init => ToldFirst
  BY DEF Init, ToldFirst, ToldBy, Succeeded
<1>2. CInv /\ ToldFirst /\ [Next]_vars => ToldFirst'
  <2> SUFFICES ASSUME CInv, ToldFirst, [Next]_vars, NEW s \in Submissions PROVE ToldBy(s)'
    BY DEF ToldFirst
  <2>0. TypeOK /\ ToldBy(s) /\ Handled(s)
    BY DEF CInv, ToldFirst
  <2>1. CASE UNCHANGED <<submission, handler, told>>
    BY <2>0, <2>1 DEF ToldBy, Succeeded
  <2>2. ASSUME UNCHANGED <<handler, told>>,
               \A t \in Submissions : Unsent(t) \/ submission'[t] = submission[t]
        PROVE  ToldBy(s)'
    BY <2>0, <2>2 DEF ToldBy, Succeeded, Handled, Unsent
  <2>3. ASSUME NEW c \in Clients, Request(c) PROVE ToldBy(s)'
    <3>1. ASSUME NEW t \in Submissions, SendRetry(c, t) PROVE ToldBy(s)'
      <4>1. /\ UNCHANGED <<handler, told>> /\ Unsent(t)
            /\ \A u \in Submissions \ {t} : submission'[u] = submission[u]
        BY <2>0, <3>1 DEF SendRetry, TypeOK
      <4> QED BY <2>2, <4>1
    <3> QED
      BY <2>1, <2>3, <3>1
      DEF Request, Create, Commit, Enqueue, DeductForRetry, ResetToPending, GiveUp, DeductForNew,
          RetryDrop, RetryCollection, BeginRetry
  <2>4. CASE Job
    <3>1. ASSUME NEW k \in Collections, NEW t \in Submissions, SubmitFromJob(k, t)
          PROVE  ToldBy(s)'
      <4>1. /\ UNCHANGED <<handler, told>> /\ Unsent(t)
            /\ \A u \in Submissions \ {t} : submission'[u] = submission[u]
        BY <2>0, <3>1 DEF SubmitFromJob, TypeOK
      <4> QED BY <2>2, <4>1
    <3> QED BY <2>1, <2>4, <3>1 DEF Job, SaveUri
  <2>5. ASSUME NEW t \in Submissions, Execute(t) PROVE ToldBy(s)'
    <3>1. /\ UNCHANGED <<handler, told>> /\ submission[t].state = "sent"
          /\ \A u \in Submissions \ {t} : submission'[u] = submission[u]
      BY <2>0, <2>5 DEF Execute, TypeOK
    <3> QED BY <2>0, <3>1 DEF ToldBy, Succeeded, Handled
  <2>6. ASSUME NEW t \in Submissions, Progress(t) \/ HandlerFails(t) PROVE ToldBy(s)'
    <3>1. CASE Announce(t)
      <4>1. /\ submission' = submission /\ told \subseteq told'
            /\ Succeeded(t) => <<submission[t].collection, "completed">> \in told'
            /\ \A u \in Submissions \ {t} : handler'[u] = handler[u]
        BY <2>0, <3>1 DEF Announce, TypeOK
      <4> QED BY <2>0, <4>1 DEF ToldBy, Succeeded
    <3>2. CASE ~Announce(t)
      <4>1. /\ UNCHANGED <<submission, told>>
            /\ handler'[t] \in {"announced", "written", "done", "acked"} =>
                 handler[t] \in {"announced", "written", "done", "acked"}
            /\ \A u \in Submissions \ {t} : handler'[u] = handler[u]
        BY <2>0, <2>6, <3>2
        DEF Progress, ReadResult, ConfirmDeduction, WriteCollection, WriteDrop, Acknowledge,
            HandlerFails, TypeOK
      <4> QED BY <2>0, <4>1 DEF ToldBy, Succeeded
    <3> QED BY <3>1, <3>2
  <2> QED BY <2>1, <2>3, <2>4, <2>5, <2>6 DEF Next, vars
<1> QED BY <1>1, <1>2, SpecCInv, PTL DEF Spec

\* The promise's variables under the refinement mapping.
Asked == [s \in Submissions |-> submission[s].collection]
Made == {s \in Submissions : Succeeded(s)}
Announced == {k \in Collections : <<k, "completed">> \in told}
Address == [k \in Collections |-> collection[k].address]
Created == {k \in Collections : collection[k].status = "created"}
Opened == {k \in DropCollections : drop[k] = "created"}

Stutter == UNCHANGED <<charge, Asked, Made, Announced, Address, Created, Opened>>

PromiseStep == Promise!Next \/ Stutter

\* What the promise speaks of in the rows that a step leaves alone.
LEMMA PartsKept ==
  /\ submission' = submission => UNCHANGED <<Asked, Made>>
  /\ told' = told => Announced' = Announced
  /\ collection' = collection => UNCHANGED <<Address, Created>>
  /\ drop' = drop => Opened' = Opened
  BY DEF Asked, Made, Announced, Address, Created, Opened, Succeeded

LEMMA AskStep ==
  ASSUME DInv, NEW s \in Submissions, NEW k \in Collections, Started(k), Unsent(s),
         UNCHANGED <<collection, drop, charge, told>>,
         NEW r, r.state = "sent", r.collection = k, submission' = [submission EXCEPT ![s] = r]
  PROVE  Promise!Ask(s, k)
<1>0. TypeOK
  BY DEF DInv, CInv
<1>1. submission'[s] = r /\ \A t \in Submissions \ {s} : submission'[t] = submission[t]
  BY <1>0 DEF TypeOK
<1>2. Asked' = [Asked EXCEPT ![s] = k]
  <2>1. submission'[s].collection = k
    BY <1>1
  <2>2. \A t \in Submissions : Asked'[t] = IF t = s THEN k ELSE Asked[t]
    BY <1>1, <2>1 DEF Asked
  <2>3. Asked' = [t \in Submissions |-> Asked'[t]]
    BY DEF Asked
  <2>4. [Asked EXCEPT ![s] = k] = [t \in Submissions |-> IF t = s THEN k ELSE Asked[t]]
    BY DEF Asked
  <2> QED BY <2>2, <2>3, <2>4
<1>3. Made' = Made
  BY <1>1 DEF Made, Succeeded, Unsent
<1>4. Asked[s] = NoCollection /\ charge[k] # "none"
  BY DEF DInv, CreatedOnce, Asked
<1> QED BY <1>2, <1>3, <1>4, PartsKept
       DEF Promise!Ask, Asked, Made, Announced, Address, Created, Opened

\* A drop whose status is written.
LEMMA DropStep ==
  ASSUME DInv, NEW k \in DropCollections, NEW status, drop' = [drop EXCEPT ![k] = status],
         UNCHANGED <<collection, charge, told, submission>>,
         status = "created" => collection[k].address # NoSubmission
  PROVE  Promise!Next
<1>1. drop'[k] = status /\ \A j \in DropCollections \ {k} : drop'[j] = drop[j]
  BY DEF DInv, CInv, TypeOK
<1>2. CASE status = "created"
  <2>1. Opened' = Opened \cup {k}
    BY <1>1, <1>2 DEF Opened
  <2>2. Address[k] # NoSubmission
    BY <1>2 DEF Address
  <2>3. Promise!Open(k)
    BY <2>1, <2>2, PartsKept DEF Promise!Open, Asked, Made, Announced, Address, Created, Opened
  <2> QED BY <2>3 DEF Promise!Next
<1>3. CASE status # "created"
  <2>1. Opened' = Opened \ {k}
    BY <1>1, <1>3 DEF Opened
  <2>2. Promise!Close(k)
    BY <2>1, PartsKept DEF Promise!Close, Asked, Made, Announced, Address, Created, Opened
  <2> QED BY <2>2 DEF Promise!Next
<1> QED BY <1>2, <1>3

LEMMA RequestStep ==
  ASSUME DInv, NEW c \in Clients, Request(c)
  PROVE  PromiseStep
<1> USE DEF PromiseStep
<1> PICK k : k = client[c].collection
  OBVIOUS
<1>0. TypeOK /\ ChosenBy(c) /\ RetriedBy(c) /\ CreatedOnceBy(c)
  BY DEF DInv, CInv, Chosen, CreatedOnce
<1>1. CASE UNCHANGED <<collection, drop, charge, submission, told>>
  BY <1>1, PartsKept DEF Stutter
<1>2. ASSUME NEW j \in Collections, DeductForNew(c, j) PROVE PromiseStep
  <2>1. /\ charge[j] = "none" /\ charge' = [charge EXCEPT ![j] = "pending"]
        /\ UNCHANGED <<collection, drop, submission, told>>
    BY <1>2 DEF DeductForNew
  <2>2. Promise!Charge(j)
    BY <2>1, PartsKept DEF Promise!Charge, Asked, Made, Announced, Address, Created, Opened
  <2> QED BY <2>2 DEF Promise!Next
<1>3. CASE Commit(c)
  <2>1. /\ UNCHANGED <<charge, submission, told>> /\ k \in Collections
        /\ ~Started(k)
    BY <1>0, <1>3 DEF Commit, ChosenBy, CreatedOnceBy
  <2>2. collection[k].address = NoSubmission
    <3>1. ASSUME collection[k].address # NoSubmission PROVE FALSE
      <4> PICK s : s = collection[k].address
        OBVIOUS
      <4>1. s \in Submissions /\ Succeeded(s) /\ submission[s].collection = k
        BY <1>0, <2>1, <3>1 DEF DInv, CInv, AddressIsOnChain, TypeOK, Row
      <4> QED BY <2>1, <4>1 DEF Started, Unsent, Succeeded
    <3> QED BY <3>1
  <2>3. /\ collection[k].status # "created"
        /\ k \in DropCollections => drop[k] # "created"
    BY <2>1, <2>2 DEF DInv, CInv, AddressIsOnChain, DropIsBacked
  <2>4. /\ collection'[k].status = "pending" /\ collection'[k].address = collection[k].address
        /\ \A j \in Collections \ {k} : collection'[j] = collection[j]
        /\ \A j \in DropCollections : drop'[j] = IF j = k THEN "pending" ELSE drop[j]
    BY <1>0, <1>3, <2>1 DEF Commit, TypeOK, Row
  <2>5. Address' = Address /\ Created' = Created /\ Opened' = Opened
    BY <2>3, <2>4 DEF Address, Created, Opened
  <2> QED BY <2>1, <2>5, PartsKept DEF Stutter
<1>4. ASSUME NEW s \in Submissions, SendRetry(c, s) PROVE PromiseStep
  <2>1. PICK r : /\ r.state = "sent" /\ r.collection = k
                 /\ submission' = [submission EXCEPT ![s] = r]
    BY <1>4 DEF SendRetry, Sent
  <2>2. /\ UNCHANGED <<collection, drop, charge, told>> /\ Unsent(s)
        /\ k \in Collections /\ Started(k)
    BY <1>0, <1>4 DEF SendRetry, ChosenBy, RetriedBy, Started
  <2>3. Promise!Ask(s, k)
    BY <2>1, <2>2, AskStep
  <2> QED BY <2>2, <2>3 DEF Promise!Next
<1>5. CASE ResetToPending(c)
  <2>1. /\ drop' = [drop EXCEPT ![k] = "pending"] /\ k \in DropCollections
        /\ UNCHANGED <<collection, charge, submission, told>>
    BY <1>0, <1>5 DEF ResetToPending, ChosenBy
  <2> QED BY <2>1, DropStep
<1> QED
  BY <1>1, <1>2, <1>3, <1>4, <1>5
  DEF Request, Create, Enqueue, DeductForRetry, GiveUp, RetryDrop, RetryCollection, BeginRetry

LEMMA JobStep ==
  ASSUME DInv, NEW k \in Collections,
         SaveUri(k) \/ \E s \in Submissions : SubmitFromJob(k, s)
  PROVE  PromiseStep
<1> USE DEF PromiseStep
<1>1. CASE SaveUri(k)
  BY <1>1, PartsKept DEF SaveUri, Stutter
<1>2. ASSUME NEW s \in Submissions, SubmitFromJob(k, s) PROVE PromiseStep
  <2>1. PICK r : /\ r.state = "sent" /\ r.collection = k
                 /\ submission' = [submission EXCEPT ![s] = r]
    <3> DEFINE kind == IF IsDrop(k) THEN "drop" ELSE "collection"
    <3>1. submission' = [submission EXCEPT ![s] = Sent(k, kind, "job")]
      BY <1>2 DEF SubmitFromJob
    <3>2. Sent(k, kind, "job").state = "sent" /\ Sent(k, kind, "job").collection = k
      BY DEF Sent
    <3> QED BY <3>1, <3>2
  <2>2. UNCHANGED <<collection, drop, charge, told>> /\ Unsent(s) /\ Started(k)
    BY <1>2 DEF SubmitFromJob, Started
  <2>3. Promise!Ask(s, k)
    BY <2>1, <2>2, AskStep
  <2> QED BY <2>3 DEF Promise!Next
<1> QED BY <1>1, <1>2

LEMMA ResultStep ==
  ASSUME DInv, ToldFirst, NEW s \in Submissions, Execute(s) \/ Progress(s) \/ HandlerFails(s)
  PROVE  PromiseStep
<1> USE DEF PromiseStep
<1> PICK k : k = submission[s].collection
  OBVIOUS
<1>0. /\ TypeOK /\ Handled(s) /\ ToldBy(s)
      /\ k \in Collections
      /\ submission[s].kind = "drop" => k \in DropCollections
  <2>1. ~Unsent(s)
    BY DEF DInv, CInv, Handled, Unsent, Execute, Progress, ReadResult, ConfirmDeduction, Announce,
           WriteCollection, WriteDrop, Acknowledge, HandlerFails
  <2> QED BY <2>1 DEF DInv, CInv, Known, ToldFirst
<1>1. CASE Execute(s)
  <2>1. /\ UNCHANGED <<collection, drop, charge, told>>
        /\ submission[s].state = "sent" /\ submission'[s].collection = k
        /\ \A t \in Submissions \ {s} : submission'[t] = submission[t]
    BY <1>0, <1>1 DEF Execute, TypeOK, Submission
  <2>2. Asked' = Asked /\ Asked[s] \in Collections
    BY <1>0, <2>1 DEF Asked
  <2>3. CASE submission'[s].state = "succeeded"
    <3>1. Made' = Made \cup {s}
      BY <2>1, <2>3 DEF Made, Succeeded
    <3>2. Promise!Make(s)
      BY <2>1, <2>2, <3>1, PartsKept
      DEF Promise!Make, Asked, Made, Announced, Address, Created, Opened
    <3> QED BY <3>2 DEF Promise!Next
  <2>4. CASE submission'[s].state # "succeeded"
    <3>1. Made' = Made
      BY <2>1, <2>4 DEF Made, Succeeded
    <3> QED BY <2>1, <2>2, <3>1, PartsKept DEF Stutter
  <2> QED BY <2>3, <2>4
<1>2. CASE ReadResult(s) \/ Acknowledge(s) \/ HandlerFails(s)
  BY <1>2, PartsKept DEF ReadResult, Acknowledge, HandlerFails, Stutter
<1>3. CASE ConfirmDeduction(s)
  <2>1. s \in Made /\ charge' = [charge EXCEPT ![Asked[s]] = "confirmed"]
    BY <1>3 DEF ConfirmDeduction, Made, Asked
  <2>2. Promise!Confirm(s)
    BY <1>3, <2>1, PartsKept
    DEF ConfirmDeduction, Promise!Confirm, Asked, Made, Announced, Address, Created, Opened
  <2> QED BY <2>2 DEF Promise!Next
<1>4. CASE Announce(s)
  <2>1. UNCHANGED <<collection, drop, charge, submission>>
    BY <1>4 DEF Announce
  <2>2. CASE Succeeded(s)
    <3>1. charge[k] = "confirmed"
      BY <1>0, <1>4, <2>2 DEF Announce, Handled
    <3>2. Announced' = Announced \cup {k}
      BY <1>0, <1>4, <2>2 DEF Announce, Announced
    <3>3. Promise!Announce(k)
      BY <2>1, <3>1, <3>2, PartsKept
      DEF Promise!Announce, Asked, Made, Announced, Address, Created, Opened
    <3> QED BY <1>0, <3>3 DEF Promise!Next
  <2>3. CASE ~Succeeded(s)
    <3>1. Announced' = Announced
      BY <1>4, <2>3 DEF Announce, Announced
    <3> QED BY <2>1, <3>1, PartsKept DEF Stutter
  <2> QED BY <2>2, <2>3
<1>5. CASE WriteCollection(s)
  <2>1. /\ UNCHANGED <<drop, charge, submission, told>> /\ handler[s] = "announced"
        /\ Succeeded(s) => collection'[k] = [status |-> "created", address |-> s]
        /\ ~Succeeded(s) => collection'[k] = [collection[k] EXCEPT !.status = "failed"]
        /\ \A j \in Collections \ {k} : collection'[j] = collection[j]
    BY <1>0, <1>5 DEF WriteCollection, TypeOK
  <2>2. CASE Succeeded(s)
    <3>1. s \in Made /\ Asked[s] = k /\ k \in Announced
      BY <1>0, <2>1, <2>2 DEF Made, Asked, Announced, ToldBy
    <3>2. collection'[k].status = "created" /\ collection'[k].address = s
      BY <2>1, <2>2
    <3>3. Created' = Created \cup {k}
      BY <1>0, <2>1, <3>2 DEF Created
    <3>4. Address' = [Address EXCEPT ![k] = s]
      <4>1. \A j \in Collections : Address'[j] = IF j = k THEN s ELSE Address[j]
        BY <2>1, <3>2 DEF Address
      <4>2. Address' = [j \in Collections |-> Address'[j]]
        BY DEF Address
      <4>3. [Address EXCEPT ![k] = s] = [j \in Collections |-> IF j = k THEN s ELSE Address[j]]
        BY DEF Address
      <4> QED BY <4>1, <4>2, <4>3
    <3>5. Promise!Show(s)
      BY <2>1, <3>1, <3>3, <3>4, PartsKept
      DEF Promise!Show, Asked, Made, Announced, Address, Created, Opened
    <3> QED BY <3>5 DEF Promise!Next
  <2>3. CASE ~Succeeded(s)
    <3>1. collection'[k].status = "failed" /\ collection'[k].address = collection[k].address
      BY <1>0, <2>1, <2>3 DEF TypeOK, Row
    <3>2. Address' = Address /\ Created' = Created \ {k}
      BY <2>1, <3>1 DEF Address, Created
    <3>3. Promise!Hide(k)
      BY <2>1, <3>2, PartsKept
      DEF Promise!Hide, Asked, Made, Announced, Address, Created, Opened
    <3> QED BY <1>0, <3>3 DEF Promise!Next
  <2> QED BY <2>2, <2>3
<1>6. CASE WriteDrop(s)
  <2> DEFINE status == IF Succeeded(s) THEN "created" ELSE "failed"
  <2>1. drop' = [drop EXCEPT ![k] = status] /\ (status = "created" => Succeeded(s))
    BY <1>6 DEF WriteDrop
  <2>2. /\ UNCHANGED <<collection, charge, submission, told>> /\ k \in DropCollections
        /\ Succeeded(s) => collection[k].address # NoSubmission
    BY <1>0, <1>6 DEF WriteDrop, Handled
  <2> QED BY <2>1, <2>2, DropStep
<1> QED BY <1>1, <1>2, <1>3, <1>4, <1>5, <1>6 DEF Progress

\* For any number of creations and retries, every behaviour of the mutations, the job and the
\* handlers is one that the promise allows: no step that others can see comes before the one
\* it rests on.
THEOREM CreationKeepsPromise == Spec => KeepsPromise
<1>1. Init => Promise!Init
  BY DEF Init, Promise!Init, Succeeded
<1>2. DInv /\ ToldFirst /\ [Next]_vars => [Promise!Next]_(Promise!promise)
  <2> SUFFICES ASSUME DInv, ToldFirst, [Next]_vars PROVE PromiseStep
    BY DEF PromiseStep, Stutter, Promise!promise, Asked, Made, Announced, Address, Created, Opened
  <2>1. CASE UNCHANGED vars
    BY <2>1, PartsKept DEF vars, PromiseStep, Stutter
  <2> QED BY <2>1, RequestStep, JobStep, ResultStep DEF Next, Job
<1> QED BY <1>1, <1>2, SpecDInv, SpecToldFirst, PTL DEF Spec, KeepsPromise, Promise!Spec
=============================================================================
