------------------------ MODULE MintLifecycleProofs ------------------------
(***************************************************************************)
(* Proofs about MintLifecycle, for any sets of mints, requests, deductions *)
(* and submissions: its invariants, that the lifecycle keeps the promise   *)
(* of MintPromise, what is on record of an acknowledged success, and when  *)
(* a mint has one history row.                                             *)
(***************************************************************************)
EXTENDS MintLifecycle, TLAPS

-----------------------------------------------------------------------------
(* The inductive invariant.                                                *)

\* A mint some request has taken on: it has its charge, for good.
Taken(m) == m \in Mints /\ mint[m].status \in {"pending", "created", "failed"}

NewMintOps == {"mint_edition", "mint_to_collection"}
QueuedOps ==
  {"mint_queued", "mint_random_queued_to_drop", "mint_random_queued_to_drop_batched"}

Paid(d, m) == d \in Deductions /\ charge[d].state # "unused" /\ charge[d].mint = m

\* What each request in progress knows of the mint and the charge it holds.
RequestOK(c) ==
  LET r == client[c]
  IN  /\ r.pc = "idle" => r = Idle
      /\ r.op \in QueuedOps => r.todo \in SUBSET {m \in Mints : mint[m].status # "absent"}
      /\ r.pc \in {"deduct", "send", "reset"} /\ IsRetry(r.op) => Taken(r.mint)
      /\ r.pc = "reset" => IsRetry(r.op)
      /\ r.pc = "write" /\ r.op \in NewMintOps => Paid(r.deduction, NoMint)
      /\ r.pc = "write" /\ r.op \in QueuedOps =>
           Paid(r.deduction, r.mint) /\ r.mint \in Mints /\ mint[r.mint].status # "absent"
      /\ r.pc = "history" => Paid(r.deduction, r.mint) /\ Taken(r.mint)
      /\ r.pc = "enqueue" /\ r.op = "mint_to_collection" => Taken(r.mint)
      /\ r.pc = "enqueue" => r.mint \in Mints
      /\ \A d \in r.ready : Paid(d, charge[d].mint) /\ Taken(charge[d].mint)

ClientOK == \A c \in Clients : RequestOK(c)

\* The charges a request still has to use.
Held(c) ==
  client[c].ready \cup
  {d \in Deductions : client[c].pc \in {"write", "history"} /\ client[c].deduction = d}

SubmittedByRequest(d) ==
  \E s \in Submissions : /\ submission[s].state # "unused" /\ submission[s].by = "request"
                         /\ submission[s].deduction = d

HeldOK ==
  /\ \A c \in Clients : \A d \in Held(c) :
       charge[d].state # "unused" /\ ~SubmittedByRequest(d)
  /\ \A c, e \in Clients : c # e => Held(c) \cap Held(e) = {}

ChargeOK ==
  \A d \in Deductions : charge[d].state = "unused" => charge[d].mint = NoMint

MintOK ==
  \A m \in Mints :
    IF Taken(m) THEN Paid(mint[m].deduction, m)
                ELSE mint[m].deduction = NoDeduction /\ mint[m].signature = NoSubmission

HistoryOK ==
  \A d \in Deductions :
    history[d].mint # NoMint => Paid(d, history[d].mint) /\ Taken(history[d].mint)

SubmissionOK ==
  /\ \A s \in Submissions :
       /\ submission[s].state = "unused" <=> submission[s].mint = NoMint
       /\ submission[s].state # "unused" => Taken(submission[s].mint)
  /\ SubmissionsPaid

JobsOK == \A m \in Mints : <<"MintToCollection", m>> \in jobs => Taken(m)

HandlerOK ==
  \A s \in Submissions : handler[s].pc # "waiting" =>
    /\ submission[s].state \in {"succeeded", "failed"}
    /\ handler[s].pc = "confirmed" => submission[s].state = "succeeded"
    /\ Paid(handler[s].deduction, submission[s].mint)
    /\ handler[s].history \in Deductions
    /\ history[handler[s].history].mint = submission[s].mint

IInv ==
  /\ TypeOK /\ ClientOK /\ HeldOK /\ ChargeOK /\ MintOK /\ HistoryOK
  /\ SubmissionOK /\ JobsOK /\ HandlerOK
  /\ CreatedIsOnChain /\ HistoryIsOnChain /\ ConfirmedIsOnChain

-----------------------------------------------------------------------------
LEMMA InitIInv == Init => IInv
<1> SUFFICES ASSUME Init PROVE IInv
  OBVIOUS
<1> USE NullAssumption DEF Init
<1>1. TypeOK
  BY DEF TypeOK, MintRow, MintStatus, HistoryRow, Charge, Submission, Handler, Client, Waiting, Idle
<1>2. ClientOK
  BY DEF ClientOK, RequestOK, Idle, IsRetry
<1>3. HeldOK /\ ChargeOK
  BY DEF HeldOK, ChargeOK, Held, Idle
<1>4. MintOK /\ HistoryOK /\ JobsOK
  BY DEF MintOK, HistoryOK, JobsOK, Taken
<1>5. SubmissionOK /\ HandlerOK
  BY DEF SubmissionOK, SubmissionsPaid, HandlerOK, Waiting
<1>6. CreatedIsOnChain /\ HistoryIsOnChain /\ ConfirmedIsOnChain
  BY DEF CreatedIsOnChain, HistoryIsOnChain, ConfirmedIsOnChain
<1> QED BY <1>1, <1>2, <1>3, <1>4, <1>5, <1>6 DEF IInv

LEMMA BeginIInv ==
  ASSUME IInv, NEW c \in Clients, NEW op \in AllOps, NEW pc, NEW m, NEW todo,
         Begin(c, op, pc, m, todo),
         \/ op \in NewMintOps /\ pc = "deduct" /\ m = NoMint /\ todo = {}
         \/ op = "queue_mint_to_drop" /\ pc = "write" /\ m = NoMint /\ todo = {}
         \/ IsRetry(op) /\ pc = "deduct" /\ Taken(m) /\ todo = {}
         \/ op \in QueuedOps /\ pc = "deduct" /\ m = NoMint
            /\ todo \in SUBSET {x \in Mints : mint[x].status # "absent"}
  PROVE  IInv'
<1> USE NullAssumption DEF IInv
<1>0. /\ client' = [client EXCEPT ![c] = [op |-> op, pc |-> pc, mint |-> m, todo |-> todo,
                                          deduction |-> NoDeduction, ready |-> {}]]
      /\ UNCHANGED <<mint, history, uri, jobs, charge, submission, handler>>
  BY DEF Begin, Idle
<1>1. TypeOK'
  <2>1. client' \in [Clients -> Client]
    BY <1>0 DEF TypeOK, Client, Taken, NewMintOps, QueuedOps, IsRetry, AllOps
  <2> QED BY <1>0, <2>1 DEF TypeOK
<1>2. ClientOK'
  <2>1. ASSUME NEW e \in Clients, e # c PROVE RequestOK(e)'
    BY <1>0, <2>1 DEF ClientOK, RequestOK, TypeOK, IsRetry, QueuedOps, NewMintOps, Paid, Taken
  <2>2. RequestOK(c)'
    BY <1>0 DEF ClientOK, RequestOK, TypeOK, Client, Idle, IsRetry, QueuedOps, NewMintOps, Paid, Taken
  <2> QED BY <2>1, <2>2 DEF ClientOK
<1>3. HeldOK'
  BY <1>0 DEF HeldOK, Held, TypeOK, Client, Charge, SubmittedByRequest, Unpaid, SubmissionOK, SubmissionsPaid, Idle
<1>4. ChargeOK'
  BY <1>0 DEF ChargeOK, TypeOK, Charge, Unpaid
<1>5. (MintOK /\ HistoryOK /\ JobsOK)'
  BY <1>0 DEF MintOK, HistoryOK, JobsOK, TypeOK, Charge, MintRow, HistoryRow, Paid, Taken, Unpaid
<1>6. (SubmissionOK /\ HandlerOK)'
  BY <1>0 DEF SubmissionOK, SubmissionsPaid, HandlerOK, TypeOK, Charge, MintRow, HistoryRow, Submission, Handler, Paid, Taken, Unpaid
<1>7. (CreatedIsOnChain /\ HistoryIsOnChain /\ ConfirmedIsOnChain)'
  BY <1>0 DEF CreatedIsOnChain, HistoryIsOnChain, ConfirmedIsOnChain, OnChain, TypeOK, Charge, MintRow, HistoryRow, Submission, Unpaid
<1> QED BY <1>1, <1>2, <1>3, <1>4, <1>5, <1>6, <1>7 DEF IInv

\* What a request knows stays true while its charges and the mints it knows are kept.
LEMMA RequestKept ==
  ASSUME TypeOK, NEW e \in Clients, RequestOK(e), client'[e] = client[e],
         \A x \in Held(e) : charge'[x] = charge[x],
         \A m : Taken(m) => Taken(m)',
         \A m \in Mints : mint[m].status # "absent" => mint'[m].status # "absent"
  PROVE  RequestOK(e)'
<1>1. /\ client[e].ready \subseteq Held(e)
      /\ client[e].pc \in {"write", "history"} /\ client[e].deduction \in Deductions =>
           client[e].deduction \in Held(e)
  BY DEF Held
<1>2. /\ \A x \in Held(e) : \A m : Paid(x, m) => Paid(x, m)'
      /\ \A x \in client[e].ready : charge'[x].mint = charge[x].mint
  BY <1>1 DEF Paid
<1>3. client[e].pc \in {"write", "history"} =>
        \A m : Paid(client[e].deduction, m) => Paid(client[e].deduction, m)'
  BY <1>1, <1>2 DEF Paid
<1>4. \A d \in client'[e].ready : Paid(d, charge[d].mint)' /\ Taken(charge[d].mint)'
  BY <1>1, <1>2 DEF RequestOK
<1>5. client'[e].op \in QueuedOps =>
        client'[e].todo \in SUBSET {m \in Mints : mint'[m].status # "absent"}
  BY DEF RequestOK
<1> QED BY <1>3, <1>4, <1>5 DEF RequestOK

LEMMA DeductForNewIInv ==
  ASSUME IInv, NEW c \in Clients, DeductForNew(c)
  PROVE  IInv'
<1> USE NullAssumption DEF IInv
<1> PICK d \in Deductions :
       /\ Unpaid(d)
       /\ charge' = [charge EXCEPT ![d].state = "pending"]
       /\ client' = [client EXCEPT ![c].deduction = d, ![c].pc = "write"]
  BY DEF DeductForNew
<1>0. /\ client[c].pc = "deduct" /\ client[c].op \in NewMintOps
      /\ UNCHANGED <<mint, history, uri, jobs, submission, handler>>
  BY DEF DeductForNew, NewMintOps
<1>1. TypeOK'
  <2>1. charge' \in [Deductions -> Charge]
    BY <1>0 DEF TypeOK, Charge
  <2>2. client' \in [Clients -> Client]
    BY <1>0 DEF TypeOK, Client
  <2> QED BY <1>0, <2>1, <2>2 DEF TypeOK
<1>2. ClientOK'
  <2>1. /\ client'[c].op = client[c].op /\ client'[c].pc = "write"
        /\ client'[c].deduction = d /\ client'[c].ready = client[c].ready
        /\ \A e \in Clients \ {c} : client'[e] = client[e]
    BY DEF TypeOK, Client
  <2>2. /\ \A x \in Deductions \ {d} : charge'[x] = charge[x]
        /\ charge'[d].state = "pending" /\ charge'[d].mint = NoMint
    BY DEF TypeOK, Charge, ChargeOK, Unpaid
  <2>3. \A x : Taken(x)' <=> Taken(x)
    BY <1>0 DEF Taken
  <2>4. \A e \in Clients : \A x \in Held(e) : x \in Deductions \ {d}
    BY DEF Held, HeldOK, Unpaid, TypeOK, Client
  <2>5. ASSUME NEW e \in Clients, e # c PROVE RequestOK(e)'
    BY <1>0, <2>1, <2>2, <2>3, <2>4, <2>5, RequestKept DEF ClientOK
  <2>6. RequestOK(c)'
    <3>1. \A x \in client[c].ready : Paid(x, charge[x].mint)' /\ Taken(charge[x].mint)'
      BY <2>2, <2>3, <2>4 DEF ClientOK, RequestOK, Held, Paid
    <3>2. Paid(d, NoMint)'
      BY <2>2 DEF Paid
    <3> QED BY <1>0, <2>1, <3>1, <3>2 DEF RequestOK, QueuedOps, NewMintOps, IsRetry
  <2> QED BY <2>5, <2>6 DEF ClientOK
<1>3. HeldOK'
  BY <1>0 DEF HeldOK, Held, TypeOK, Client, Charge, SubmittedByRequest, Unpaid, SubmissionOK, SubmissionsPaid, Idle
<1>4. ChargeOK'
  BY <1>0 DEF ChargeOK, TypeOK, Charge, Unpaid
<1>5. (MintOK /\ HistoryOK /\ JobsOK)'
  BY <1>0 DEF MintOK, HistoryOK, JobsOK, TypeOK, Charge, MintRow, HistoryRow, Paid, Taken, Unpaid
<1>6. (SubmissionOK /\ HandlerOK)'
  BY <1>0 DEF SubmissionOK, SubmissionsPaid, HandlerOK, TypeOK, Charge, MintRow, HistoryRow, Submission, Handler, Paid, Taken, Unpaid
<1>7. (CreatedIsOnChain /\ HistoryIsOnChain /\ ConfirmedIsOnChain)'
  BY <1>0 DEF CreatedIsOnChain, HistoryIsOnChain, ConfirmedIsOnChain, OnChain, TypeOK, Charge, MintRow, HistoryRow, Submission, Unpaid
<1> QED BY <1>1, <1>2, <1>3, <1>4, <1>5, <1>6, <1>7 DEF IInv

LEMMA DeductForRetryIInv ==
  ASSUME IInv, NEW c \in Clients, DeductForRetry(c)
  PROVE  IInv'
<1> USE NullAssumption DEF IInv
<1> PICK d \in Deductions :
       /\ Unpaid(d)
       /\ charge' = [charge EXCEPT ![d] = [state |-> "pending", mint |-> client[c].mint]]
       /\ client' = [client EXCEPT ![c].ready = {d}, ![c].pc = "send"]
  BY DEF DeductForRetry
<1>0. /\ client[c].pc = "deduct" /\ IsRetry(client[c].op) /\ Taken(client[c].mint)
      /\ UNCHANGED <<mint, history, uri, jobs, submission, handler>>
  BY DEF DeductForRetry, IsRetry, ClientOK, RequestOK
<1>1. TypeOK'
  <2>1. charge' \in [Deductions -> Charge]
    BY <1>0 DEF TypeOK, Charge, Taken
  <2>2. client' \in [Clients -> Client]
    BY <1>0 DEF TypeOK, Client
  <2> QED BY <1>0, <2>1, <2>2 DEF TypeOK
<1>2. ClientOK'
  <2>1. /\ client'[c].op = client[c].op /\ client'[c].mint = client[c].mint
        /\ client'[c].pc = "send" /\ client'[c].ready = {d}
        /\ \A e \in Clients \ {c} : client'[e] = client[e]
    BY DEF TypeOK, Client
  <2>2. /\ \A x \in Deductions \ {d} : charge'[x] = charge[x]
        /\ charge'[d].state = "pending" /\ charge'[d].mint = client[c].mint
    BY DEF TypeOK, Charge
  <2>3. \A m : Taken(m)' <=> Taken(m)
    BY <1>0 DEF Taken
  <2>4. ASSUME NEW e \in Clients, e # c PROVE RequestOK(e)'
    <3>1. \A x \in Held(e) : x \in Deductions \ {d}
      BY DEF Held, HeldOK, Unpaid, TypeOK, Client
    <3> QED BY <1>0, <2>1, <2>2, <2>3, <2>4, <3>1, RequestKept DEF ClientOK
  <2>5. RequestOK(c)'
    BY <1>0, <2>1, <2>2, <2>3 DEF RequestOK, Paid, IsRetry, QueuedOps
  <2> QED BY <2>4, <2>5 DEF ClientOK
<1>3. HeldOK'
  BY <1>0 DEF HeldOK, Held, TypeOK, Client, Charge, SubmittedByRequest, Unpaid, SubmissionOK, SubmissionsPaid, Idle
<1>4. ChargeOK'
  BY <1>0 DEF ChargeOK, TypeOK, Charge, Unpaid
<1>5. (MintOK /\ HistoryOK /\ JobsOK)'
  BY <1>0 DEF MintOK, HistoryOK, JobsOK, TypeOK, Charge, MintRow, HistoryRow, Paid, Taken, Unpaid
<1>6. (SubmissionOK /\ HandlerOK)'
  BY <1>0 DEF SubmissionOK, SubmissionsPaid, HandlerOK, TypeOK, Charge, MintRow, HistoryRow, Submission, Handler, Paid, Taken, Unpaid
<1>7. (CreatedIsOnChain /\ HistoryIsOnChain /\ ConfirmedIsOnChain)'
  BY <1>0 DEF CreatedIsOnChain, HistoryIsOnChain, ConfirmedIsOnChain, OnChain, TypeOK, Charge, MintRow, HistoryRow, Submission, Unpaid
<1> QED BY <1>1, <1>2, <1>3, <1>4, <1>5, <1>6, <1>7 DEF IInv

LEMMA DeductForQueuedIInv ==
  ASSUME IInv, NEW c \in Clients, DeductForQueued(c)
  PROVE  IInv'
<1> USE NullAssumption
<1> PICK d \in Deductions, m \in client[c].todo \cap uri :
       /\ Unpaid(d)
       /\ charge' = [charge EXCEPT ![d] = [state |-> "pending", mint |-> m]]
       /\ client' = [client EXCEPT ![c].deduction = d, ![c].mint = m, ![c].pc = "write"]
  BY Zenon DEF DeductForQueued
<1> USE DEF IInv
<1>0. /\ client[c].pc = "deduct" /\ client[c].op \in QueuedOps
      /\ m \in Mints /\ m \in client[c].todo
      /\ UNCHANGED <<mint, history, uri, jobs, submission, handler>>
  BY DEF DeductForQueued, TakesQueued, TypeOK, QueuedOps
<1>1. TypeOK'
  <2>1. charge' \in [Deductions -> Charge]
    BY <1>0 DEF TypeOK, Charge
  <2>2. client' \in [Clients -> Client]
    <3>1. client[c] \in Client
      BY DEF TypeOK
    <3>2. [client[c] EXCEPT !.deduction = d, !.mint = m, !.pc = "write"] \in Client
      BY <1>0, <3>1 DEF Client
    <3> QED BY <3>2 DEF TypeOK
  <2> QED BY <1>0, <2>1, <2>2 DEF TypeOK
<1>2. ClientOK'
  <2>1. /\ client'[c].op = client[c].op /\ client'[c].mint = m
        /\ client'[c].pc = "write" /\ client'[c].deduction = d
        /\ client'[c].ready = client[c].ready /\ client'[c].todo = client[c].todo
        /\ \A e \in Clients \ {c} : client'[e] = client[e]
    BY DEF TypeOK, Client
  <2>2. /\ \A x \in Deductions \ {d} : charge'[x] = charge[x]
        /\ charge'[d].state = "pending" /\ charge'[d].mint = m
    BY DEF TypeOK, Charge
  <2>3. \A x : Taken(x)' <=> Taken(x)
    BY <1>0 DEF Taken
  <2>4. \A e \in Clients : \A x \in Held(e) : x \in Deductions \ {d}
    BY DEF Held, HeldOK, Unpaid, TypeOK, Client
  <2>5. ASSUME NEW e \in Clients, e # c PROVE RequestOK(e)'
    BY <1>0, <2>1, <2>2, <2>3, <2>4, <2>5, RequestKept DEF ClientOK
  <2>6. RequestOK(c)'
    <3>1. \A x \in client[c].ready : Paid(x, charge[x].mint)' /\ Taken(charge[x].mint)'
      BY <2>2, <2>3, <2>4 DEF ClientOK, RequestOK, Held, Paid
    <3>2. client[c].todo \in SUBSET {x \in Mints : mint'[x].status # "absent"}
      BY <1>0 DEF ClientOK, RequestOK
    <3>3. Paid(d, m)' /\ mint'[m].status # "absent"
      BY <1>0, <2>2, <3>2 DEF Paid
    <3> QED BY <1>0, <2>1, <3>1, <3>2, <3>3 DEF RequestOK, QueuedOps, NewMintOps, IsRetry
  <2> QED BY <2>5, <2>6 DEF ClientOK
<1>3. HeldOK'
  BY <1>0 DEF HeldOK, Held, TypeOK, Client, Charge, SubmittedByRequest, Unpaid, SubmissionOK, SubmissionsPaid, Idle
<1>4. ChargeOK'
  BY <1>0 DEF ChargeOK, TypeOK, Charge, Unpaid
<1>5. (MintOK /\ HistoryOK /\ JobsOK)'
  BY <1>0 DEF MintOK, HistoryOK, JobsOK, TypeOK, Charge, MintRow, HistoryRow, Paid, Taken, Unpaid
<1>6. (SubmissionOK /\ HandlerOK)'
  BY <1>0 DEF SubmissionOK, SubmissionsPaid, HandlerOK, TypeOK, Charge, MintRow, HistoryRow, Submission, Handler, Paid, Taken, Unpaid
<1>7. (CreatedIsOnChain /\ HistoryIsOnChain /\ ConfirmedIsOnChain)'
  BY <1>0 DEF CreatedIsOnChain, HistoryIsOnChain, ConfirmedIsOnChain, OnChain, TypeOK, Charge, MintRow, HistoryRow, Submission, Unpaid
<1> QED BY <1>1, <1>2, <1>3, <1>4, <1>5, <1>6, <1>7 DEF IInv

LEMMA InsertEditionIInv ==
  ASSUME IInv, NEW c \in Clients, InsertEdition(c)
  PROVE  IInv'
<1> USE NullAssumption DEF IInv
<1> PICK m \in Mints :
       /\ mint[m].status = "absent"
       /\ mint' = [mint EXCEPT ![m] = PendingMint(client[c].deduction, FALSE)]
       /\ charge' = [charge EXCEPT ![client[c].deduction].mint = m]
       /\ client' = [client EXCEPT ![c].mint = m, ![c].pc = "history"]
  BY DEF InsertEdition
<1>0. /\ client[c].pc = "write" /\ client[c].op = "mint_edition"
      /\ Paid(client[c].deduction, NoMint)
      /\ UNCHANGED <<history, uri, jobs, submission, handler>>
  BY DEF InsertEdition, ClientOK, RequestOK, NewMintOps
<1>1. TypeOK'
  <2>1. mint' \in [Mints -> MintRow]
    BY <1>0 DEF TypeOK, MintRow, MintStatus, PendingMint, Paid
  <2>2. charge' \in [Deductions -> Charge]
    BY <1>0 DEF TypeOK, Charge, PendingMint, Paid
  <2>3. client' \in [Clients -> Client]
    BY <1>0 DEF TypeOK, Client
  <2> QED BY <1>0, <2>1, <2>2, <2>3 DEF TypeOK
<1>2. ClientOK'
  <2> DEFINE d == client[c].deduction
  <2>1. /\ client'[c].op = client[c].op /\ client'[c].mint = m
        /\ client'[c].pc = "history" /\ client'[c].deduction = d
        /\ client'[c].ready = client[c].ready
        /\ \A e \in Clients \ {c} : client'[e] = client[e]
    BY DEF TypeOK, Client
  <2>2. /\ \A x \in Deductions \ {d} : charge'[x] = charge[x]
        /\ d \in Deductions /\ charge'[d].state # "unused" /\ charge'[d].mint = m
    BY <1>0 DEF TypeOK, Charge, Paid
  <2>3. /\ \A x : Taken(x) => Taken(x)'
        /\ Taken(m)'
        /\ \A x \in Mints : mint[x].status # "absent" => mint'[x].status # "absent"
    BY <1>0 DEF Taken, TypeOK, PendingMint
  <2>4. /\ \A e \in Clients \ {c} : \A x \in Held(e) : x \in Deductions \ {d}
        /\ \A x \in client[c].ready : x \in Deductions
    BY <1>0 DEF Held, HeldOK, TypeOK, Client, Paid
  <2>5. ASSUME NEW e \in Clients, e # c PROVE RequestOK(e)'
    BY <1>0, <2>1, <2>2, <2>3, <2>4, <2>5, RequestKept DEF ClientOK
  <2>6. RequestOK(c)'
    <3>1. \A x \in client[c].ready : Paid(x, charge[x].mint)' /\ Taken(charge[x].mint)'
      BY <2>2, <2>3, <2>4 DEF ClientOK, RequestOK, Paid
    <3> QED BY <1>0, <2>1, <2>2, <2>3, <3>1 DEF RequestOK, QueuedOps, NewMintOps, IsRetry, Paid
  <2> QED BY <2>5, <2>6 DEF ClientOK
<1>3. HeldOK'
  BY <1>0 DEF HeldOK, Held, TypeOK, Client, Charge, SubmittedByRequest, Unpaid, SubmissionOK, SubmissionsPaid, Idle, Paid
<1>4. ChargeOK'
  BY <1>0 DEF ChargeOK, TypeOK, Charge, Unpaid, Paid
<1>5. (MintOK /\ HistoryOK /\ JobsOK)'
  BY <1>0 DEF MintOK, HistoryOK, JobsOK, TypeOK, Charge, MintRow, HistoryRow, Paid, Taken, Unpaid, PendingMint
<1>6. (SubmissionOK /\ HandlerOK)'
  BY <1>0 DEF SubmissionOK, SubmissionsPaid, HandlerOK, TypeOK, Charge, MintRow, HistoryRow, Submission, Handler, Paid, Taken, Unpaid, PendingMint
<1>7. (CreatedIsOnChain /\ HistoryIsOnChain /\ ConfirmedIsOnChain)'
  <2>1. CreatedIsOnChain'
    BY <1>0 DEF CreatedIsOnChain, OnChain, TypeOK, MintRow, PendingMint
  <2>2. HistoryIsOnChain'
    BY <1>0 DEF HistoryIsOnChain, OnChain, TypeOK
  <2>3. ConfirmedIsOnChain'
    BY <1>0 DEF ConfirmedIsOnChain, OnChain, TypeOK, Charge, Paid, SubmissionOK, Taken
  <2> QED BY <2>1, <2>2, <2>3
<1> QED BY <1>1, <1>2, <1>3, <1>4, <1>5, <1>6, <1>7 DEF IInv

LEMMA CommitEditionHistoryIInv ==
  ASSUME IInv, NEW c \in Clients, CommitEditionHistory(c)
  PROVE  IInv'
<1> USE NullAssumption DEF IInv
<1>0. /\ client[c].pc = "history" /\ Paid(client[c].deduction, client[c].mint) /\ Taken(client[c].mint)
      /\ history' = [history EXCEPT ![client[c].deduction] = PendingHistory(client[c].mint)]
      /\ uri' = uri \cup {client[c].mint}
      /\ client' = [client EXCEPT ![c].ready = {client[c].deduction}, ![c].pc = "send"]
      /\ UNCHANGED <<mint, jobs, charge, submission, handler>>
  BY DEF CommitEditionHistory, ClientOK, RequestOK
<1>1. TypeOK'
  <2>1. history' \in [Deductions -> HistoryRow]
    BY <1>0 DEF TypeOK, HistoryRow, PendingHistory, Paid, Taken
  <2>2. uri' \in SUBSET Mints
    BY <1>0 DEF TypeOK, PendingHistory, Paid, Taken
  <2>3. client' \in [Clients -> Client]
    BY <1>0 DEF TypeOK, Client
  <2> QED BY <1>0, <2>1, <2>2, <2>3 DEF TypeOK
<1>2. ClientOK'
  <2>0. \A x : Taken(x)' <=> Taken(x)
    BY <1>0 DEF Taken
  <2>1. ASSUME NEW e \in Clients, e # c PROVE RequestOK(e)'
    <3>1. client'[e] = client[e] /\ charge' = charge /\ mint' = mint /\ RequestOK(e)
      BY <1>0, <2>1 DEF ClientOK, TypeOK
    <3> QED BY <2>0, <3>1, RequestKept
  <2>2. RequestOK(c)'
    BY <1>0 DEF ClientOK, RequestOK, TypeOK, Client, Idle, IsRetry, QueuedOps, NewMintOps, Paid, Taken
  <2> QED BY <2>1, <2>2 DEF ClientOK
<1>3. HeldOK'
  BY <1>0 DEF HeldOK, Held, TypeOK, Client, Charge, SubmittedByRequest, Unpaid, SubmissionOK, SubmissionsPaid, Idle, Paid
<1>4. ChargeOK'
  BY <1>0 DEF ChargeOK, TypeOK, Charge, Unpaid
<1>5. (MintOK /\ HistoryOK /\ JobsOK)'
  BY <1>0 DEF MintOK, HistoryOK, JobsOK, TypeOK, Charge, MintRow, HistoryRow, Paid, Taken, Unpaid, PendingHistory
<1>6. (SubmissionOK /\ HandlerOK)'
  BY <1>0 DEF SubmissionOK, SubmissionsPaid, HandlerOK, TypeOK, Charge, MintRow, HistoryRow, Submission, Handler, Paid, Taken, Unpaid, PendingHistory, HistoryOK
<1>7. (CreatedIsOnChain /\ HistoryIsOnChain /\ ConfirmedIsOnChain)'
  BY <1>0 DEF CreatedIsOnChain, HistoryIsOnChain, ConfirmedIsOnChain, OnChain, TypeOK, Charge, MintRow, HistoryRow, Submission, Unpaid, PendingHistory, Paid
<1> QED BY <1>1, <1>2, <1>3, <1>4, <1>5, <1>6, <1>7 DEF IInv

LEMMA CommitMintToCollectionIInv ==
  ASSUME IInv, NEW c \in Clients, CommitMintToCollection(c)
  PROVE  IInv'
<1> USE NullAssumption DEF IInv
<1> PICK m \in Mints :
       /\ mint[m].status = "absent"
       /\ mint' = [mint EXCEPT ![m] = PendingMint(client[c].deduction, TRUE)]
       /\ history' = [history EXCEPT ![client[c].deduction] = PendingHistory(m)]
       /\ charge' = [charge EXCEPT ![client[c].deduction].mint = m]
       /\ client' = [client EXCEPT ![c].mint = m, ![c].pc = "enqueue"]
  BY DEF CommitMintToCollection
<1>0. /\ client[c].pc = "write" /\ client[c].op = "mint_to_collection"
      /\ Paid(client[c].deduction, NoMint)
      /\ UNCHANGED <<uri, jobs, submission, handler>>
  BY DEF CommitMintToCollection, ClientOK, RequestOK, NewMintOps
<1>1. TypeOK'
  <2>1. mint' \in [Mints -> MintRow]
    BY <1>0 DEF TypeOK, MintRow, MintStatus, PendingMint, PendingHistory, Paid
  <2>2. history' \in [Deductions -> HistoryRow]
    BY <1>0 DEF TypeOK, HistoryRow, PendingMint, PendingHistory, Paid
  <2>3. charge' \in [Deductions -> Charge]
    BY <1>0 DEF TypeOK, Charge, PendingMint, PendingHistory, Paid
  <2>4. client' \in [Clients -> Client]
    BY <1>0 DEF TypeOK, Client
  <2> QED BY <1>0, <2>1, <2>2, <2>3, <2>4 DEF TypeOK
<1>2. ClientOK'
  <2> DEFINE d == client[c].deduction
  <2>1. /\ client'[c].op = client[c].op /\ client'[c].mint = m
        /\ client'[c].pc = "enqueue" /\ client'[c].ready = client[c].ready
        /\ \A e \in Clients \ {c} : client'[e] = client[e]
    BY DEF TypeOK, Client
  <2>2. /\ \A x \in Deductions \ {d} : charge'[x] = charge[x]
        /\ d \in Deductions /\ charge'[d].state # "unused" /\ charge'[d].mint = m
    BY <1>0 DEF TypeOK, Charge, Paid
  <2>3. /\ \A x : Taken(x) => Taken(x)'
        /\ Taken(m)'
        /\ \A x \in Mints : mint[x].status # "absent" => mint'[x].status # "absent"
    BY <1>0 DEF Taken, TypeOK, PendingMint
  <2>4. /\ \A e \in Clients \ {c} : \A x \in Held(e) : x \in Deductions \ {d}
        /\ \A x \in client[c].ready : x \in Deductions
    BY <1>0 DEF Held, HeldOK, TypeOK, Client, Paid
  <2>5. ASSUME NEW e \in Clients, e # c PROVE RequestOK(e)'
    BY <1>0, <2>1, <2>2, <2>3, <2>4, <2>5, RequestKept DEF ClientOK
  <2>6. RequestOK(c)'
    <3>1. \A x \in client[c].ready : Paid(x, charge[x].mint)' /\ Taken(charge[x].mint)'
      BY <2>2, <2>3, <2>4 DEF ClientOK, RequestOK, Paid
    <3> QED BY <1>0, <2>1, <2>3, <3>1 DEF RequestOK, QueuedOps, NewMintOps, IsRetry
  <2> QED BY <2>5, <2>6 DEF ClientOK
<1>3. HeldOK'
  BY <1>0 DEF HeldOK, Held, TypeOK, Client, Charge, SubmittedByRequest, Unpaid, SubmissionOK, SubmissionsPaid, Idle, Paid
<1>4. ChargeOK'
  BY <1>0 DEF ChargeOK, TypeOK, Charge, Unpaid, Paid
<1>5. (MintOK /\ HistoryOK /\ JobsOK)'
  BY <1>0 DEF MintOK, HistoryOK, JobsOK, TypeOK, Charge, MintRow, HistoryRow, Paid, Taken, Unpaid, PendingMint, PendingHistory
<1>6. (SubmissionOK /\ HandlerOK)'
  BY <1>0 DEF SubmissionOK, SubmissionsPaid, HandlerOK, TypeOK, Charge, MintRow, HistoryRow, Submission, Handler, Paid, Taken, Unpaid, PendingMint, PendingHistory, HistoryOK
<1>7. (CreatedIsOnChain /\ HistoryIsOnChain /\ ConfirmedIsOnChain)'
  <2>1. CreatedIsOnChain'
    BY <1>0 DEF CreatedIsOnChain, OnChain, TypeOK, MintRow, PendingMint
  <2>2. HistoryIsOnChain'
    BY <1>0 DEF HistoryIsOnChain, OnChain, TypeOK, HistoryRow, PendingHistory, Paid
  <2>3. ConfirmedIsOnChain'
    BY <1>0 DEF ConfirmedIsOnChain, OnChain, TypeOK, Charge, Paid, SubmissionOK, Taken
  <2> QED BY <2>1, <2>2, <2>3
<1> QED BY <1>1, <1>2, <1>3, <1>4, <1>5, <1>6, <1>7 DEF IInv

LEMMA CommitQueueMintIInv ==
  ASSUME IInv, NEW c \in Clients, CommitQueueMint(c)
  PROVE  IInv'
<1> USE NullAssumption DEF IInv
<1> PICK m \in Mints :
       /\ mint[m].status = "absent"
       /\ mint' = [mint EXCEPT ![m].status = "queued"]
       /\ client' = [client EXCEPT ![c].mint = m, ![c].pc = "enqueue"]
  BY DEF CommitQueueMint
<1>0. /\ client[c].pc = "write" /\ client[c].op = "queue_mint_to_drop"
      /\ UNCHANGED <<history, uri, jobs, charge, submission, handler>>
  BY DEF CommitQueueMint
<1>1. TypeOK'
  <2>1. mint' \in [Mints -> MintRow]
    BY <1>0 DEF TypeOK, MintRow, MintStatus
  <2>2. client' \in [Clients -> Client]
    BY <1>0 DEF TypeOK, Client
  <2> QED BY <1>0, <2>1, <2>2 DEF TypeOK
<1>2. ClientOK'
  <2>1. /\ client'[c].op = client[c].op /\ client'[c].mint = m
        /\ client'[c].pc = "enqueue" /\ client'[c].ready = client[c].ready
        /\ \A e \in Clients \ {c} : client'[e] = client[e]
    BY DEF TypeOK, Client
  <2>2. /\ \A x : Taken(x) => Taken(x)'
        /\ \A x \in Mints : mint[x].status # "absent" => mint'[x].status # "absent"
    BY DEF Taken, TypeOK, MintRow
  <2>3. charge' = charge
    BY <1>0
  <2>4. ASSUME NEW e \in Clients, e # c PROVE RequestOK(e)'
    BY <2>1, <2>2, <2>3, <2>4, RequestKept DEF ClientOK
  <2>5. RequestOK(c)'
    <3>1. \A x \in client[c].ready : Paid(x, charge[x].mint)' /\ Taken(charge[x].mint)'
      BY <2>2, <2>3 DEF ClientOK, RequestOK, Paid
    <3> QED BY <1>0, <2>1, <3>1 DEF RequestOK, QueuedOps, NewMintOps, IsRetry
  <2> QED BY <2>4, <2>5 DEF ClientOK
<1>3. HeldOK'
  BY <1>0 DEF HeldOK, Held, TypeOK, Client, Charge, SubmittedByRequest, Unpaid, SubmissionOK, SubmissionsPaid, Idle
<1>4. ChargeOK'
  BY <1>0 DEF ChargeOK, TypeOK, Charge, Unpaid
<1>5. (MintOK /\ HistoryOK /\ JobsOK)'
  BY <1>0 DEF MintOK, HistoryOK, JobsOK, TypeOK, Charge, MintRow, HistoryRow, Paid, Taken, Unpaid
<1>6. (SubmissionOK /\ HandlerOK)'
  BY <1>0 DEF SubmissionOK, SubmissionsPaid, HandlerOK, TypeOK, Charge, MintRow, HistoryRow, Submission, Handler, Paid, Taken, Unpaid
<1>7. (CreatedIsOnChain /\ HistoryIsOnChain /\ ConfirmedIsOnChain)'
  BY <1>0 DEF CreatedIsOnChain, HistoryIsOnChain, ConfirmedIsOnChain, OnChain, TypeOK, Charge, MintRow, HistoryRow, Submission, Unpaid
<1> QED BY <1>1, <1>2, <1>3, <1>4, <1>5, <1>6, <1>7 DEF IInv

LEMMA CommitQueuedMintIInv ==
  ASSUME IInv, NEW c \in Clients, CommitQueuedMint(c)
  PROVE  IInv'
<1> USE NullAssumption DEF IInv
<1> PICK next \in {"send", "deduct"} :
       client' = [client EXCEPT ![c].todo = client[c].todo \ {client[c].mint},
                                ![c].ready = client[c].ready \cup {client[c].deduction},
                                ![c].pc = next]
  BY DEF CommitQueuedMint
<1>0. /\ client[c].pc = "write" /\ client[c].op \in QueuedOps
      /\ Paid(client[c].deduction, client[c].mint) /\ client[c].mint \in Mints
      /\ mint[client[c].mint].status # "absent"
      /\ mint' = [mint EXCEPT ![client[c].mint].status = "pending",
                              ![client[c].mint].deduction = client[c].deduction,
                              ![client[c].mint].compressed = TRUE]
      /\ history' = [history EXCEPT ![client[c].deduction] = PendingHistory(client[c].mint)]
      /\ UNCHANGED <<uri, jobs, charge, submission, handler>>
  BY DEF CommitQueuedMint, TakesQueued, ClientOK, RequestOK, QueuedOps
<1>1. TypeOK'
  <2>1. mint' \in [Mints -> MintRow]
    BY <1>0 DEF TypeOK, MintRow, MintStatus, PendingHistory, Paid
  <2>2. history' \in [Deductions -> HistoryRow]
    BY <1>0 DEF TypeOK, HistoryRow, PendingHistory, Paid
  <2>3. client' \in [Clients -> Client]
    <3>1. /\ client[c].todo \ {client[c].mint} \in SUBSET Mints
          /\ client[c].ready \cup {client[c].deduction} \in SUBSET Deductions
      BY <1>0 DEF TypeOK, Client, Paid
    <3> QED BY <1>0, <3>1 DEF TypeOK, Client
  <2> QED BY <1>0, <2>1, <2>2, <2>3 DEF TypeOK
<1>2. ClientOK'
  <2>0. /\ \A m : Taken(m) => Taken(m)'
        /\ \A m \in Mints : mint[m].status # "absent" => mint'[m].status # "absent"
    BY <1>0 DEF Taken, TypeOK, MintRow
  <2>1. ASSUME NEW e \in Clients, e # c PROVE RequestOK(e)'
    <3>1. client'[e] = client[e] /\ charge' = charge /\ RequestOK(e)
      BY <1>0, <2>1 DEF ClientOK, TypeOK
    <3> QED BY <2>0, <3>1, RequestKept
  <2>2. RequestOK(c)'
    <3>1. /\ client'[c].pc = next /\ client'[c].op = client[c].op
          /\ client'[c].todo = client[c].todo \ {client[c].mint}
          /\ client'[c].ready = client[c].ready \cup {client[c].deduction}
      BY DEF TypeOK, Client
    <3>2. client'[c].todo \in SUBSET {m \in Mints : mint'[m].status # "absent"}
      <4>1. client[c].todo \in SUBSET {m \in Mints : mint[m].status # "absent"}
        BY <1>0 DEF ClientOK, RequestOK
      <4> QED BY <2>0, <3>1, <4>1
    <3>3. ASSUME NEW d \in client'[c].ready PROVE Paid(d, charge[d].mint)' /\ Taken(charge[d].mint)'
      <4>1. Paid(d, charge[d].mint) /\ (d \in client[c].ready => Taken(charge[d].mint))
        BY <1>0, <3>1, <3>3 DEF ClientOK, RequestOK, Paid
      <4>2. d \notin client[c].ready => charge[d].mint = client[c].mint
        BY <1>0, <3>1, <3>3 DEF Paid
      <4>3. client[c].mint \in Mints /\ mint'[client[c].mint].status = "pending"
        BY <1>0 DEF TypeOK, MintRow
      <4>4. charge' = charge
        BY <1>0
      <4>5. Taken(charge[d].mint)'
        <5>1. CASE d \in client[c].ready
          BY <2>0, <4>1, <4>4, <5>1 DEF Taken
        <5>2. CASE d \notin client[c].ready
          BY <4>2, <4>3, <4>4, <5>2 DEF Taken
        <5> QED BY <5>1, <5>2
      <4> QED BY <4>1, <4>4, <4>5 DEF Paid
    <3>4. ~IsRetry(client'[c].op) /\ next \in {"send", "deduct"}
      BY <1>0, <3>1 DEF IsRetry, QueuedOps
    <3> QED BY <3>1, <3>2, <3>3, <3>4 DEF RequestOK
  <2> QED BY <2>1, <2>2 DEF ClientOK
<1>3. HeldOK'
  <2>1. Held(c)' \subseteq Held(c) /\ \A e \in Clients \ {c} : Held(e)' = Held(e)
    <3>1. /\ client'[c].pc = next
          /\ client'[c].ready = client[c].ready \cup {client[c].deduction}
          /\ \A e \in Clients \ {c} : client'[e] = client[e]
      BY DEF TypeOK, Client
    <3>2. client[c].deduction \in Held(c)
      BY <1>0 DEF Held, Paid
    <3>3. Held(c)' \subseteq Held(c)
      BY <3>1, <3>2 DEF Held
    <3> QED BY <3>1, <3>3 DEF Held
  <2>2. \A x : SubmittedByRequest(x)' <=> SubmittedByRequest(x)
    BY <1>0 DEF SubmittedByRequest
  <2>3. charge' = charge
    BY <1>0
  <2> QED BY <2>1, <2>2, <2>3 DEF HeldOK
<1>4. ChargeOK'
  BY <1>0 DEF ChargeOK, TypeOK, Charge, Unpaid
<1>5. (MintOK /\ HistoryOK /\ JobsOK)'
  <2>1. MintOK'
    <3> DEFINE m == client[c].mint
    <3>1. /\ mint'[m].status = "pending" /\ mint'[m].deduction = client[c].deduction
          /\ \A x \in Mints \ {m} : mint'[x] = mint[x]
      BY <1>0 DEF TypeOK, MintRow
    <3>2. \A x, d : Paid(d, x)' <=> Paid(d, x)
      BY <1>0 DEF Paid
    <3>3. ASSUME NEW x \in Mints
          PROVE  IF Taken(x)' THEN Paid(mint[x].deduction, x)'
                 ELSE mint'[x].deduction = NoDeduction /\ mint'[x].signature = NoSubmission
      <4>1. CASE x = m
        <5>1. Taken(x)' /\ Paid(mint[x].deduction, x)'
          BY <1>0, <3>1, <3>2, <4>1 DEF Taken
        <5> QED BY <5>1
      <4>2. CASE x # m
        <5>1. mint'[x] = mint[x] /\ (Taken(x)' <=> Taken(x))
          BY <3>1, <4>2 DEF Taken
        <5> QED BY <3>2, <5>1 DEF MintOK
      <4> QED BY <4>1, <4>2
    <3> QED BY <3>3 DEF MintOK
  <2>2. HistoryOK'
    BY <1>0 DEF HistoryOK, TypeOK, Paid, Taken, MintRow, HistoryRow, PendingHistory
  <2>3. JobsOK'
    BY <1>0 DEF JobsOK, TypeOK, Taken, MintRow
  <2> QED BY <2>1, <2>2, <2>3
<1>6. (SubmissionOK /\ HandlerOK)'
  <2>1. \A x : Taken(x) => Taken(x)'
    BY <1>0 DEF Taken, TypeOK, MintRow
  <2>2. SubmissionOK'
    BY <1>0, <2>1 DEF SubmissionOK, SubmissionsPaid
  <2>3. \A x \in Deductions : history[x].mint # NoMint => history'[x].mint = history[x].mint
    BY <1>0 DEF HistoryOK, Paid, TypeOK, PendingHistory
  <2>4. \A t \in Submissions : submission[t].state \in {"succeeded", "failed"} =>
          submission[t].mint # NoMint
    BY DEF SubmissionOK, Taken
  <2>5. HandlerOK'
    BY <1>0, <2>3, <2>4 DEF HandlerOK, Paid
  <2> QED BY <2>2, <2>5
<1>7. (CreatedIsOnChain /\ HistoryIsOnChain /\ ConfirmedIsOnChain)'
  <2>1. CreatedIsOnChain'
    <3>1. \A x \in Mints : /\ mint'[x].signature = mint[x].signature
                           /\ mint'[x].status = "created" => mint[x].status = "created"
      BY <1>0 DEF TypeOK, MintRow
    <3>2. \A t, x : OnChain(t, x)' <=> OnChain(t, x)
      BY <1>0 DEF OnChain
    <3> QED BY <3>1, <3>2 DEF CreatedIsOnChain
  <2>2. HistoryIsOnChain'
    BY <1>0 DEF HistoryIsOnChain, OnChain, TypeOK, HistoryRow, PendingHistory, Paid
  <2>3. ConfirmedIsOnChain'
    BY <1>0 DEF ConfirmedIsOnChain, OnChain, TypeOK
  <2> QED BY <2>1, <2>2, <2>3
<1> QED BY <1>1, <1>2, <1>3, <1>4, <1>5, <1>6, <1>7 DEF IInv

LEMMA ResetToPendingIInv ==
  ASSUME IInv, NEW c \in Clients, ResetToPending(c)
  PROVE  IInv'
<1> USE NullAssumption DEF IInv
<1>0. /\ client[c].pc = "reset" /\ Taken(client[c].mint)
      /\ mint' = [mint EXCEPT ![client[c].mint].status = "pending"]
      /\ client' = [client EXCEPT ![c] = Idle]
      /\ UNCHANGED <<history, uri, jobs, charge, submission, handler>>
  BY DEF ResetToPending, ClientOK, RequestOK
<1>1. TypeOK'
  <2>1. mint' \in [Mints -> MintRow]
    BY <1>0 DEF TypeOK, MintRow, MintStatus, Idle, Taken
  <2>2. client' \in [Clients -> Client]
    BY <1>0 DEF TypeOK, Client, Idle
  <2> QED BY <1>0, <2>1, <2>2 DEF TypeOK
<1>2. ClientOK'
  BY <1>0 DEF ClientOK, RequestOK, TypeOK, Client, Charge, MintRow, HistoryRow, Idle, IsRetry, QueuedOps, NewMintOps, Paid, Taken, Unpaid
<1>3. HeldOK'
  BY <1>0 DEF HeldOK, Held, TypeOK, Client, Charge, SubmittedByRequest, Unpaid, SubmissionOK, SubmissionsPaid, Idle
<1>4. ChargeOK'
  BY <1>0 DEF ChargeOK, TypeOK, Charge, Unpaid
<1>5. (MintOK /\ HistoryOK /\ JobsOK)'
  BY <1>0 DEF MintOK, HistoryOK, JobsOK, TypeOK, Charge, MintRow, HistoryRow, Paid, Taken, Unpaid
<1>6. (SubmissionOK /\ HandlerOK)'
  BY <1>0 DEF SubmissionOK, SubmissionsPaid, HandlerOK, TypeOK, Charge, MintRow, HistoryRow, Submission, Handler, Paid, Taken, Unpaid
<1>7. (CreatedIsOnChain /\ HistoryIsOnChain /\ ConfirmedIsOnChain)'
  BY <1>0 DEF CreatedIsOnChain, HistoryIsOnChain, ConfirmedIsOnChain, OnChain, TypeOK, Charge, MintRow, HistoryRow, Submission, Unpaid, Taken
<1> QED BY <1>1, <1>2, <1>3, <1>4, <1>5, <1>6, <1>7 DEF IInv

LEMMA EnqueueIInv ==
  ASSUME IInv, NEW c \in Clients, Enqueue(c)
  PROVE  IInv'
<1> USE NullAssumption DEF IInv
<1>0. /\ client[c].pc = "enqueue" /\ client[c].mint \in Mints
      /\ client[c].op = "mint_to_collection" => Taken(client[c].mint)
      /\ jobs' = jobs \cup {<<Caller(client[c].op), client[c].mint>>}
      /\ client' = [client EXCEPT ![c] = Idle]
      /\ UNCHANGED <<mint, history, uri, charge, submission, handler>>
  BY DEF Enqueue, ClientOK, RequestOK
<1>1. TypeOK'
  <2>1. jobs' \in SUBSET ({"MintToCollection", "QueueMintToDrop"} \X Mints)
    BY <1>0 DEF TypeOK, Idle, Caller
  <2>2. client' \in [Clients -> Client]
    BY <1>0 DEF TypeOK, Client, Idle
  <2> QED BY <1>0, <2>1, <2>2 DEF TypeOK
<1>2. ClientOK'
  BY <1>0 DEF ClientOK, RequestOK, TypeOK, Client, Charge, MintRow, HistoryRow, Idle, IsRetry, QueuedOps, NewMintOps, Paid, Taken, Unpaid
<1>3. HeldOK'
  BY <1>0 DEF HeldOK, Held, TypeOK, Client, Charge, SubmittedByRequest, Unpaid, SubmissionOK, SubmissionsPaid, Idle
<1>4. ChargeOK'
  BY <1>0 DEF ChargeOK, TypeOK, Charge, Unpaid
<1>5. (MintOK /\ HistoryOK /\ JobsOK)'
  BY <1>0 DEF MintOK, HistoryOK, JobsOK, TypeOK, Charge, MintRow, HistoryRow, Paid, Taken, Unpaid, Caller
<1>6. (SubmissionOK /\ HandlerOK)'
  BY <1>0 DEF SubmissionOK, SubmissionsPaid, HandlerOK, TypeOK, Charge, MintRow, HistoryRow, Submission, Handler, Paid, Taken, Unpaid
<1>7. (CreatedIsOnChain /\ HistoryIsOnChain /\ ConfirmedIsOnChain)'
  BY <1>0 DEF CreatedIsOnChain, HistoryIsOnChain, ConfirmedIsOnChain, OnChain, TypeOK, Charge, MintRow, HistoryRow, Submission, Unpaid
<1> QED BY <1>1, <1>2, <1>3, <1>4, <1>5, <1>6, <1>7 DEF IInv

LEMMA SendIInv ==
  ASSUME IInv, NEW c \in Clients, Send(c)
  PROVE  IInv'
<1> USE NullAssumption DEF IInv
<1> PICK sent \in SUBSET {s \in Submissions : Unsent(s)} :
     \E pay \in [sent -> client[c].ready] :
       /\ \A s, t \in sent : pay[s] = pay[t] => s = t
       /\ \A d \in client[c].ready : \E s \in sent : pay[s] = d
       /\ submission' = [s \in Submissions |->
            IF s \in sent THEN Sent(charge[pay[s]].mint, pay[s], "request")
                          ELSE submission[s]]
  BY DEF Send
<1> PICK pay \in [sent -> client[c].ready] :
       /\ \A s, t \in sent : pay[s] = pay[t] => s = t
       /\ \A d \in client[c].ready : \E s \in sent : pay[s] = d
       /\ submission' = [s \in Submissions |->
            IF s \in sent THEN Sent(charge[pay[s]].mint, pay[s], "request")
                          ELSE submission[s]]
  OBVIOUS
<1>0. /\ client[c].pc = "send"
      /\ client' = [client EXCEPT ![c] = IF IsRetry(client[c].op)
                                         THEN [client[c] EXCEPT !.pc = "reset", !.ready = {}]
                                         ELSE Idle]
      /\ UNCHANGED <<mint, history, uri, jobs, charge, handler>>
      /\ client[c].ready \subseteq Deductions
      /\ \A s \in sent : /\ submission[s].state = "unused"
                        /\ pay[s] \in client[c].ready
                        /\ Paid(pay[s], charge[pay[s]].mint) /\ Taken(charge[pay[s]].mint)
  BY DEF Send, ClientOK, RequestOK, Unsent, TypeOK, Client
<1>1. TypeOK'
  <2>1. submission' \in [Submissions -> Submission]
    BY <1>0 DEF TypeOK, Submission, Idle, Sent, Taken
  <2>2. client' \in [Clients -> Client]
    <3>1. CASE IsRetry(client[c].op)
      <4>1. [client[c] EXCEPT !.pc = "reset", !.ready = {}] \in Client
        <5>1. client[c] \in Client
          BY DEF TypeOK
        <5> QED BY <5>1 DEF Client
      <4> QED BY <1>0, <3>1, <4>1 DEF TypeOK
    <3>2. CASE ~IsRetry(client[c].op)
      BY <1>0, <3>2 DEF TypeOK, Client, Idle
    <3> QED BY <3>1, <3>2
  <2> QED BY <1>0, <2>1, <2>2 DEF TypeOK
<1>2. ClientOK'
  <2>1. ASSUME NEW e \in Clients, e # c PROVE RequestOK(e)'
    BY <1>0, <2>1 DEF ClientOK, RequestOK, TypeOK, IsRetry, QueuedOps, NewMintOps, Paid, Taken
  <2>2. RequestOK(c)'
    BY <1>0 DEF ClientOK, RequestOK, TypeOK, Client, Idle, IsRetry, QueuedOps, NewMintOps, Paid, Taken
  <2> QED BY <2>1, <2>2 DEF ClientOK
<1>3. HeldOK'
  BY <1>0 DEF HeldOK, Held, TypeOK, Client, Charge, SubmittedByRequest, Unpaid, SubmissionOK, SubmissionsPaid, Idle, Sent
<1>4. ChargeOK'
  BY <1>0 DEF ChargeOK, TypeOK, Charge, Unpaid
<1>5. (MintOK /\ HistoryOK /\ JobsOK)'
  BY <1>0 DEF MintOK, HistoryOK, JobsOK, TypeOK, Charge, MintRow, HistoryRow, Paid, Taken, Unpaid
<1>6. (SubmissionOK /\ HandlerOK)'
  <2>1. HandlerOK'
    BY <1>0 DEF HandlerOK, TypeOK, Submission, Sent, Paid
  <2>2. \A s \in Submissions : submission'[s] = IF s \in sent
                                               THEN Sent(charge[pay[s]].mint, pay[s], "request")
                                               ELSE submission[s]
    OBVIOUS
  <2>3. ASSUME NEW s \in Submissions
        PROVE  /\ submission'[s].state = "unused" <=> submission'[s].mint = NoMint
               /\ submission'[s].state # "unused" => Taken(submission'[s].mint)
               /\ submission'[s].state # "unused" =>
                    /\ submission'[s].deduction \in Deductions
                    /\ charge[submission'[s].deduction].state # "unused"
                    /\ charge[submission'[s].deduction].mint = submission'[s].mint
    BY <1>0, <2>2 DEF SubmissionOK, SubmissionsPaid, Sent, Paid, Taken
  <2>4. ASSUME NEW s \in Submissions, NEW t \in Submissions,
               submission'[s].state # "unused", submission'[t].state # "unused",
               submission'[s].by = "request", submission'[t].by = "request",
               submission'[s].deduction = submission'[t].deduction
        PROVE  s = t
    <3>1. ASSUME NEW x \in Submissions, NEW y \in sent, x \notin sent,
                 submission[x].state # "unused", submission[x].by = "request"
          PROVE  submission[x].deduction # pay[y]
      BY <1>0, <3>1 DEF HeldOK, Held, SubmittedByRequest
    <3> QED BY <1>0, <2>2, <2>4, <3>1 DEF SubmissionOK, SubmissionsPaid, Sent
  <2>5. charge' = charge /\ \A x : Taken(x)' <=> Taken(x)
    BY <1>0 DEF Taken
  <2>6. SubmissionsPaid'
    BY <2>3, <2>4, <2>5 DEF SubmissionsPaid
  <2>7. SubmissionOK'
    BY <2>3, <2>5, <2>6 DEF SubmissionOK
  <2> QED BY <2>1, <2>7
<1>7. (CreatedIsOnChain /\ HistoryIsOnChain /\ ConfirmedIsOnChain)'
  <2>1. \A s \in Submissions : \A m : OnChain(s, m) => OnChain(s, m)'
    BY <1>0 DEF OnChain
  <2>2. CreatedIsOnChain'
    BY <1>0, <2>1 DEF CreatedIsOnChain, TypeOK, MintRow
  <2>3. HistoryIsOnChain'
    BY <1>0, <2>1 DEF HistoryIsOnChain, TypeOK, HistoryRow
  <2>4. ConfirmedIsOnChain'
    BY <1>0, <2>1 DEF ConfirmedIsOnChain
  <2> QED BY <2>2, <2>3, <2>4
<1> QED BY <1>1, <1>2, <1>3, <1>4, <1>5, <1>6, <1>7 DEF IInv

LEMMA GiveUpIInv ==
  ASSUME IInv, NEW c \in Clients, GiveUp(c)
  PROVE  IInv'
<1> USE NullAssumption DEF IInv
<1>0. /\ client' = [client EXCEPT ![c] = Idle]
      /\ UNCHANGED <<mint, history, uri, jobs, charge, submission, handler>>
  BY DEF GiveUp
<1>1. TypeOK'
  <2>1. client' \in [Clients -> Client]
    BY <1>0 DEF TypeOK, Client, Idle
  <2> QED BY <1>0, <2>1 DEF TypeOK
<1>2. ClientOK'
  BY <1>0 DEF ClientOK, RequestOK, TypeOK, Client, Charge, MintRow, HistoryRow, Idle, IsRetry, QueuedOps, NewMintOps, Paid, Taken, Unpaid
<1>3. HeldOK'
  BY <1>0 DEF HeldOK, Held, TypeOK, Client, Charge, SubmittedByRequest, Unpaid, SubmissionOK, SubmissionsPaid, Idle
<1>4. ChargeOK'
  BY <1>0 DEF ChargeOK, TypeOK, Charge, Unpaid
<1>5. (MintOK /\ HistoryOK /\ JobsOK)'
  BY <1>0 DEF MintOK, HistoryOK, JobsOK, TypeOK, Charge, MintRow, HistoryRow, Paid, Taken, Unpaid
<1>6. (SubmissionOK /\ HandlerOK)'
  BY <1>0 DEF SubmissionOK, SubmissionsPaid, HandlerOK, TypeOK, Charge, MintRow, HistoryRow, Submission, Handler, Paid, Taken, Unpaid
<1>7. (CreatedIsOnChain /\ HistoryIsOnChain /\ ConfirmedIsOnChain)'
  BY <1>0 DEF CreatedIsOnChain, HistoryIsOnChain, ConfirmedIsOnChain, OnChain, TypeOK, Charge, MintRow, HistoryRow, Submission, Unpaid
<1> QED BY <1>1, <1>2, <1>3, <1>4, <1>5, <1>6, <1>7 DEF IInv

LEMMA SaveUriIInv ==
  ASSUME IInv, SaveUri
  PROVE  IInv'
<1> USE NullAssumption DEF IInv
<1> PICK j \in jobs :
       /\ uri' = uri \cup {j[2]}
       /\ jobs' = IF j[1] = "QueueMintToDrop" THEN jobs \ {j} ELSE jobs
       /\ UNCHANGED <<mint, history, charge, submission, handler, client>>
  BY DEF SaveUri
<1>0. j[2] \in Mints /\ jobs' \in SUBSET jobs
  BY DEF TypeOK
<1>1. TypeOK'
  <2>1. uri' \in SUBSET Mints
    BY <1>0 DEF TypeOK
  <2>2. jobs' \in SUBSET ({"MintToCollection", "QueueMintToDrop"} \X Mints)
    BY <1>0 DEF TypeOK
  <2> QED BY <1>0, <2>1, <2>2 DEF TypeOK
<1>2. ClientOK'
  BY <1>0 DEF ClientOK, RequestOK, TypeOK, Client, Charge, MintRow, HistoryRow, Idle, IsRetry, QueuedOps, NewMintOps, Paid, Taken, Unpaid
<1>3. HeldOK'
  BY <1>0 DEF HeldOK, Held, TypeOK, Client, Charge, SubmittedByRequest, Unpaid, SubmissionOK, SubmissionsPaid, Idle
<1>4. ChargeOK'
  BY <1>0 DEF ChargeOK, TypeOK, Charge, Unpaid
<1>5. (MintOK /\ HistoryOK /\ JobsOK)'
  BY <1>0 DEF MintOK, HistoryOK, JobsOK, TypeOK, Charge, MintRow, HistoryRow, Paid, Taken, Unpaid
<1>6. (SubmissionOK /\ HandlerOK)'
  BY <1>0 DEF SubmissionOK, SubmissionsPaid, HandlerOK, TypeOK, Charge, MintRow, HistoryRow, Submission, Handler, Paid, Taken, Unpaid
<1>7. (CreatedIsOnChain /\ HistoryIsOnChain /\ ConfirmedIsOnChain)'
  BY <1>0 DEF CreatedIsOnChain, HistoryIsOnChain, ConfirmedIsOnChain, OnChain, TypeOK, Charge, MintRow, HistoryRow, Submission, Unpaid
<1> QED BY <1>1, <1>2, <1>3, <1>4, <1>5, <1>6, <1>7 DEF IInv

LEMMA SubmitFromJobIInv ==
  ASSUME IInv, SubmitFromJob
  PROVE  IInv'
<1> USE NullAssumption DEF IInv
<1> PICK m \in uri, s \in Submissions :
       /\ <<"MintToCollection", m>> \in jobs
       /\ Unsent(s)
       /\ submission' = [submission EXCEPT ![s] = Sent(m, mint[m].deduction, "job")]
       /\ jobs' \in {jobs, jobs \ {<<"MintToCollection", m>>}}
       /\ UNCHANGED <<mint, history, uri, charge, handler, client>>
  BY DEF SubmitFromJob
<1>0. /\ submission[s].state = "unused" /\ jobs' \in SUBSET jobs
      /\ Taken(m) /\ Paid(mint[m].deduction, m)
  BY DEF Unsent, JobsOK, MintOK, TypeOK
<1>1. TypeOK'
  <2>1. submission' \in [Submissions -> Submission]
    BY <1>0 DEF TypeOK, Submission, Sent, Taken, Paid
  <2>2. jobs' \in SUBSET ({"MintToCollection", "QueueMintToDrop"} \X Mints)
    BY <1>0 DEF TypeOK, Sent, Taken, Paid
  <2> QED BY <1>0, <2>1, <2>2 DEF TypeOK
<1>2. ClientOK'
  BY <1>0 DEF ClientOK, RequestOK, TypeOK, Client, Charge, MintRow, HistoryRow, Idle, IsRetry, QueuedOps, NewMintOps, Paid, Taken, Unpaid
<1>3. HeldOK'
  BY <1>0 DEF HeldOK, Held, TypeOK, Client, Charge, SubmittedByRequest, Unpaid, SubmissionOK, SubmissionsPaid, Idle, Sent
<1>4. ChargeOK'
  BY <1>0 DEF ChargeOK, TypeOK, Charge, Unpaid
<1>5. (MintOK /\ HistoryOK /\ JobsOK)'
  BY <1>0 DEF MintOK, HistoryOK, JobsOK, TypeOK, Charge, MintRow, HistoryRow, Paid, Taken, Unpaid
<1>6. (SubmissionOK /\ HandlerOK)'
  BY <1>0 DEF SubmissionOK, SubmissionsPaid, HandlerOK, TypeOK, Charge, MintRow, HistoryRow, Submission, Handler, Paid, Taken, Unpaid, Sent
<1>7. (CreatedIsOnChain /\ HistoryIsOnChain /\ ConfirmedIsOnChain)'
  <2>1. CreatedIsOnChain'
    BY <1>0 DEF CreatedIsOnChain, OnChain, TypeOK, Submission, Sent
  <2>2. HistoryIsOnChain'
    BY <1>0 DEF HistoryIsOnChain, OnChain, TypeOK, Submission, Sent
  <2>3. ConfirmedIsOnChain'
    BY <1>0 DEF ConfirmedIsOnChain, OnChain, TypeOK, Submission, Sent
  <2> QED BY <2>1, <2>2, <2>3
<1> QED BY <1>1, <1>2, <1>3, <1>4, <1>5, <1>6, <1>7 DEF IInv

LEMMA ExecuteIInv ==
  ASSUME IInv, NEW s \in Submissions, Execute(s)
  PROVE  IInv'
<1> USE NullAssumption DEF IInv
<1> PICK outcome \in {"succeeded", "failed"} :
       submission' = [submission EXCEPT ![s].state = outcome]
  BY DEF Execute
<1>0. /\ submission[s].state = "sent"
      /\ UNCHANGED <<mint, history, uri, jobs, charge, handler, client>>
  BY DEF Execute
<1>1. TypeOK'
  <2>1. submission' \in [Submissions -> Submission]
    BY <1>0 DEF TypeOK, Submission
  <2> QED BY <1>0, <2>1 DEF TypeOK
<1>2. ClientOK'
  BY <1>0 DEF ClientOK, RequestOK, TypeOK, Client, Charge, MintRow, HistoryRow, Idle, IsRetry, QueuedOps, NewMintOps, Paid, Taken, Unpaid
<1>3. HeldOK'
  BY <1>0 DEF HeldOK, Held, TypeOK, Client, Charge, SubmittedByRequest, Unpaid, SubmissionOK, SubmissionsPaid, Idle
<1>4. ChargeOK'
  BY <1>0 DEF ChargeOK, TypeOK, Charge, Unpaid
<1>5. (MintOK /\ HistoryOK /\ JobsOK)'
  BY <1>0 DEF MintOK, HistoryOK, JobsOK, TypeOK, Charge, MintRow, HistoryRow, Paid, Taken, Unpaid
<1>6. (SubmissionOK /\ HandlerOK)'
  BY <1>0 DEF SubmissionOK, SubmissionsPaid, HandlerOK, TypeOK, Charge, MintRow, HistoryRow, Submission, Handler, Paid, Taken, Unpaid
<1>7. (CreatedIsOnChain /\ HistoryIsOnChain /\ ConfirmedIsOnChain)'
  <2>1. \A x \in Submissions : submission[x].state = "succeeded" => submission'[x] = submission[x]
    BY <1>0 DEF TypeOK
  <2>2. \A x \in Submissions : \A m : OnChain(x, m) => OnChain(x, m)'
    BY <2>1 DEF OnChain
  <2>3. CreatedIsOnChain'
    BY <1>0, <2>2 DEF CreatedIsOnChain, TypeOK, MintRow
  <2>4. HistoryIsOnChain'
    BY <1>0, <2>2 DEF HistoryIsOnChain, TypeOK, HistoryRow
  <2>5. ConfirmedIsOnChain'
    BY <1>0, <2>2 DEF ConfirmedIsOnChain
  <2> QED BY <2>3, <2>4, <2>5
<1> QED BY <1>1, <1>2, <1>3, <1>4, <1>5, <1>6, <1>7 DEF IInv

LEMMA HandlerMoves ==
  ASSUME TypeOK, NEW s \in Submissions,
         NEW pc \in {"waiting", "read", "confirmed", "mint_written", "history_written", "acked"},
         handler' = [handler EXCEPT ![s].pc = pc]
  PROVE  handler' \in [Submissions -> Handler]
<1>1. handler[s] \in Handler
  BY DEF TypeOK
<1>2. [handler[s] EXCEPT !.pc = pc] \in Handler
  BY <1>1 DEF Handler
<1> QED BY <1>2 DEF TypeOK

LEMMA ReadResultIInv ==
  ASSUME IInv, NEW s \in Submissions, ReadResult(s)
  PROVE  IInv'
<1> USE NullAssumption DEF IInv
<1> PICK d \in Deductions :
       /\ history[d].mint = submission[s].mint
       /\ handler' = [handler EXCEPT ![s] =
            [pc |-> "read", deduction |-> mint[submission[s].mint].deduction, history |-> d]]
  BY DEF ReadResult
<1>0. /\ submission[s].state \in {"succeeded", "failed"}
      /\ Taken(submission[s].mint)
      /\ Paid(mint[submission[s].mint].deduction, submission[s].mint)
      /\ UNCHANGED <<mint, history, uri, jobs, charge, submission, client>>
  BY DEF ReadResult, SubmissionOK, MintOK, Taken
<1>1. TypeOK'
  <2>1. handler' \in [Submissions -> Handler]
    BY <1>0 DEF TypeOK, Handler, Paid
  <2> QED BY <1>0, <2>1 DEF TypeOK
<1>2. ClientOK'
  BY <1>0 DEF ClientOK, RequestOK, TypeOK, Client, Charge, MintRow, HistoryRow, Idle, IsRetry, QueuedOps, NewMintOps, Paid, Taken, Unpaid
<1>3. HeldOK'
  BY <1>0 DEF HeldOK, Held, TypeOK, Client, Charge, SubmittedByRequest, Unpaid, SubmissionOK, SubmissionsPaid, Idle
<1>4. ChargeOK'
  BY <1>0 DEF ChargeOK, TypeOK, Charge, Unpaid
<1>5. (MintOK /\ HistoryOK /\ JobsOK)'
  BY <1>0 DEF MintOK, HistoryOK, JobsOK, TypeOK, Charge, MintRow, HistoryRow, Paid, Taken, Unpaid
<1>6. (SubmissionOK /\ HandlerOK)'
  <2>1. /\ handler'[s].pc = "read" /\ handler'[s].history = d
        /\ handler'[s].deduction = mint[submission[s].mint].deduction
        /\ \A t \in Submissions \ {s} : handler'[t] = handler[t]
    BY DEF TypeOK
  <2>2. \A x : Taken(x)' <=> Taken(x)
    BY <1>0 DEF Taken
  <2>3. SubmissionOK'
    BY <1>0, <2>2 DEF SubmissionOK, SubmissionsPaid
  <2>4. HandlerOK'
    BY <1>0, <2>1 DEF HandlerOK, Paid
  <2> QED BY <2>3, <2>4
<1>7. (CreatedIsOnChain /\ HistoryIsOnChain /\ ConfirmedIsOnChain)'
  BY <1>0 DEF CreatedIsOnChain, HistoryIsOnChain, ConfirmedIsOnChain, OnChain, TypeOK, Charge, MintRow, HistoryRow, Submission, Unpaid
<1> QED BY <1>1, <1>2, <1>3, <1>4, <1>5, <1>6, <1>7 DEF IInv

LEMMA ConfirmDeductionIInv ==
  ASSUME IInv, NEW s \in Submissions, ConfirmDeduction(s)
  PROVE  IInv'
<1> USE NullAssumption DEF IInv
<1>0. /\ handler[s].pc = "read" /\ submission[s].state = "succeeded"
      /\ Paid(handler[s].deduction, submission[s].mint)
      /\ charge' = [charge EXCEPT ![handler[s].deduction].state = "confirmed"]
      /\ handler' = [handler EXCEPT ![s].pc = "confirmed"]
      /\ UNCHANGED <<mint, history, uri, jobs, submission, client>>
  BY DEF ConfirmDeduction, HandlerOK
<1>1. TypeOK'
  <2>1. charge' \in [Deductions -> Charge]
    BY <1>0 DEF TypeOK, Charge, Paid
  <2>2. handler' \in [Submissions -> Handler]
    BY <1>0, HandlerMoves
  <2> QED BY <1>0, <2>1, <2>2 DEF TypeOK
<1>2. ClientOK'
  BY <1>0 DEF ClientOK, RequestOK, TypeOK, Client, Charge, MintRow, HistoryRow, Idle, IsRetry, QueuedOps, NewMintOps, Paid, Taken, Unpaid
<1>3. HeldOK'
  BY <1>0 DEF HeldOK, Held, TypeOK, Client, Charge, SubmittedByRequest, Unpaid, SubmissionOK, SubmissionsPaid, Idle
<1>4. ChargeOK'
  BY <1>0 DEF ChargeOK, TypeOK, Charge, Unpaid, Paid
<1>5. (MintOK /\ HistoryOK /\ JobsOK)'
  BY <1>0 DEF MintOK, HistoryOK, JobsOK, TypeOK, Charge, MintRow, HistoryRow, Paid, Taken, Unpaid
<1>6. (SubmissionOK /\ HandlerOK)'
  BY <1>0 DEF SubmissionOK, SubmissionsPaid, HandlerOK, TypeOK, Charge, MintRow, HistoryRow, Submission, Handler, Paid, Taken, Unpaid
<1>7. (CreatedIsOnChain /\ HistoryIsOnChain /\ ConfirmedIsOnChain)'
  BY <1>0 DEF CreatedIsOnChain, HistoryIsOnChain, ConfirmedIsOnChain, OnChain, TypeOK, Charge, MintRow, HistoryRow, Submission, Unpaid, Paid
<1> QED BY <1>1, <1>2, <1>3, <1>4, <1>5, <1>6, <1>7 DEF IInv

LEMMA WriteMintIInv ==
  ASSUME IInv, NEW s \in Submissions, WriteMint(s)
  PROVE  IInv'
<1> USE NullAssumption DEF IInv
<1>0. /\ Taken(submission[s].mint)
      /\ \/ /\ handler[s].pc = "confirmed" /\ submission[s].state = "succeeded"
            /\ mint' = [mint EXCEPT ![submission[s].mint].status = "created",
                                    ![submission[s].mint].signature = s]
         \/ /\ handler[s].pc = "read" /\ submission[s].state = "failed"
            /\ mint' = [mint EXCEPT ![submission[s].mint].status = "failed"]
      /\ handler' = [handler EXCEPT ![s].pc = "mint_written"]
      /\ UNCHANGED <<history, uri, jobs, charge, submission, client>>
  BY DEF WriteMint, HandlerOK, SubmissionOK
<1>1. TypeOK'
  <2>1. mint' \in [Mints -> MintRow]
    <3> DEFINE m == submission[s].mint
    <3>1. m \in Mints /\ mint[m] \in MintRow
      BY <1>0 DEF TypeOK, Taken
    <3>2. /\ [mint[m] EXCEPT !.status = "created", !.signature = s] \in MintRow
          /\ [mint[m] EXCEPT !.status = "failed"] \in MintRow
      BY <3>1 DEF MintRow, MintStatus
    <3>3. \/ mint' = [mint EXCEPT ![m] = [mint[m] EXCEPT !.status = "created", !.signature = s]]
          \/ mint' = [mint EXCEPT ![m] = [mint[m] EXCEPT !.status = "failed"]]
      BY <1>0
    <3> QED BY <3>1, <3>2, <3>3 DEF TypeOK
  <2>2. handler' \in [Submissions -> Handler]
    BY <1>0, HandlerMoves
  <2> QED BY <1>0, <2>1, <2>2 DEF TypeOK
<1>2. ClientOK'
  <2>1. \A m : Taken(m) => Taken(m)'
    BY <1>0 DEF Taken, TypeOK, MintRow
  <2>2. \A m \in Mints : mint[m].status # "absent" => mint'[m].status # "absent"
    BY <1>0 DEF Taken, TypeOK, MintRow
  <2> QED BY <1>0, <2>1, <2>2 DEF ClientOK, RequestOK, TypeOK, Client, Paid
<1>3. HeldOK'
  BY <1>0 DEF HeldOK, Held, TypeOK, Client, Charge, SubmittedByRequest, Unpaid, SubmissionOK, SubmissionsPaid, Idle
<1>4. ChargeOK'
  BY <1>0 DEF ChargeOK, TypeOK, Charge, Unpaid
<1>5. (MintOK /\ HistoryOK /\ JobsOK)'
  <2>1. MintOK'
    BY <1>0 DEF MintOK, TypeOK, Paid, Taken, MintRow
  <2>2. HistoryOK'
    <3>1. \A x : Taken(x) => Taken(x)'
      BY <1>0 DEF Taken, TypeOK, MintRow
    <3>2. \A d, x : Paid(d, x)' <=> Paid(d, x)
      BY <1>0 DEF Paid
    <3> QED BY <1>0, <3>1, <3>2 DEF HistoryOK
  <2>3. JobsOK'
    BY <1>0 DEF JobsOK, TypeOK, Taken, MintRow
  <2> QED BY <2>1, <2>2, <2>3
<1>6. (SubmissionOK /\ HandlerOK)'
  BY <1>0 DEF SubmissionOK, SubmissionsPaid, HandlerOK, TypeOK, Charge, MintRow, HistoryRow, Submission, Handler, Paid, Taken, Unpaid
<1>7. (CreatedIsOnChain /\ HistoryIsOnChain /\ ConfirmedIsOnChain)'
  <2>1. CreatedIsOnChain'
    BY <1>0 DEF CreatedIsOnChain, OnChain, TypeOK, MintRow, Taken
  <2>2. HistoryIsOnChain'
    BY <1>0 DEF HistoryIsOnChain, OnChain, TypeOK
  <2>3. ConfirmedIsOnChain'
    BY <1>0 DEF ConfirmedIsOnChain, OnChain, TypeOK
  <2> QED BY <2>1, <2>2, <2>3
<1> QED BY <1>1, <1>2, <1>3, <1>4, <1>5, <1>6, <1>7 DEF IInv

LEMMA WriteHistoryIInv ==
  ASSUME IInv, NEW s \in Submissions, WriteHistory(s)
  PROVE  IInv'
<1> USE NullAssumption DEF IInv
<1>0. /\ handler[s].pc = "mint_written" /\ handler[s].history \in Deductions
      /\ history[handler[s].history].mint = submission[s].mint
      /\ Taken(submission[s].mint)
      /\ history' = IF submission[s].state = "succeeded"
                    THEN [history EXCEPT ![handler[s].history].status = "created",
                                         ![handler[s].history].signature = s]
                    ELSE [history EXCEPT ![handler[s].history].status = "failed"]
      /\ handler' = [handler EXCEPT ![s].pc = "history_written"]
      /\ UNCHANGED <<mint, uri, jobs, charge, submission, client>>
  BY DEF WriteHistory, HandlerOK, SubmissionOK
<1>1. TypeOK'
  <2>1. history' \in [Deductions -> HistoryRow]
    BY <1>0 DEF TypeOK, HistoryRow
  <2>2. handler' \in [Submissions -> Handler]
    BY <1>0, HandlerMoves
  <2> QED BY <1>0, <2>1, <2>2 DEF TypeOK
<1>2. ClientOK'
  BY <1>0 DEF ClientOK, RequestOK, TypeOK, Client, Charge, MintRow, HistoryRow, Idle, IsRetry, QueuedOps, NewMintOps, Paid, Taken, Unpaid
<1>3. HeldOK'
  BY <1>0 DEF HeldOK, Held, TypeOK, Client, Charge, SubmittedByRequest, Unpaid, SubmissionOK, SubmissionsPaid, Idle
<1>4. ChargeOK'
  BY <1>0 DEF ChargeOK, TypeOK, Charge, Unpaid
<1>5. (MintOK /\ HistoryOK /\ JobsOK)'
  <2>1. \A d \in Deductions : history'[d].mint = history[d].mint
    BY <1>0 DEF TypeOK, HistoryRow
  <2>2. MintOK' /\ JobsOK'
    BY <1>0 DEF MintOK, JobsOK, Paid, Taken
  <2>3. /\ \A x : Taken(x)' <=> Taken(x)
        /\ \A d, x : Paid(d, x)' <=> Paid(d, x)
    BY <1>0 DEF Paid, Taken
  <2>4. HistoryOK'
    BY <2>1, <2>3 DEF HistoryOK
  <2> QED BY <2>2, <2>4
<1>6. (SubmissionOK /\ HandlerOK)'
  BY <1>0 DEF SubmissionOK, SubmissionsPaid, HandlerOK, TypeOK, Charge, MintRow, HistoryRow, Submission, Handler, Paid, Taken, Unpaid
<1>7. (CreatedIsOnChain /\ HistoryIsOnChain /\ ConfirmedIsOnChain)'
  <2> DEFINE h == handler[s].history
  <2>1. /\ \A d \in Deductions \ {h} : history'[d] = history[d]
        /\ history'[h].mint = submission[s].mint
        /\ \/ /\ submission[s].state = "succeeded" /\ history'[h].signature = s
           \/ history'[h].status = "failed" /\ history'[h].signature = history[h].signature
    BY <1>0 DEF TypeOK, HistoryRow
  <2>2. HistoryIsOnChain'
    <3>1. \A t, x : OnChain(t, x)' <=> OnChain(t, x)
      BY <1>0 DEF OnChain
    <3>2. submission[s].state = "succeeded" => OnChain(s, submission[s].mint)
      BY DEF OnChain
    <3>3. history[h].mint = submission[s].mint
      BY <1>0
    <3> QED BY <2>1, <3>1, <3>2, <3>3 DEF HistoryIsOnChain
  <2>3. CreatedIsOnChain' /\ ConfirmedIsOnChain'
    BY <1>0 DEF CreatedIsOnChain, ConfirmedIsOnChain, OnChain
  <2> QED BY <2>2, <2>3
<1> QED BY <1>1, <1>2, <1>3, <1>4, <1>5, <1>6, <1>7 DEF IInv

LEMMA AcknowledgeIInv ==
  ASSUME IInv, NEW s \in Submissions, Acknowledge(s)
  PROVE  IInv'
<1> USE NullAssumption DEF IInv
<1>0. /\ handler[s].pc = "history_written"
      /\ handler' = [handler EXCEPT ![s].pc = "acked"]
      /\ UNCHANGED <<mint, history, uri, jobs, charge, submission, client>>
  BY DEF Acknowledge
<1>1. TypeOK'
  <2>1. handler' \in [Submissions -> Handler]
    BY <1>0, HandlerMoves
  <2> QED BY <1>0, <2>1 DEF TypeOK
<1>2. ClientOK'
  BY <1>0 DEF ClientOK, RequestOK, TypeOK, Client, Charge, MintRow, HistoryRow, Idle, IsRetry, QueuedOps, NewMintOps, Paid, Taken, Unpaid
<1>3. HeldOK'
  BY <1>0 DEF HeldOK, Held, TypeOK, Client, Charge, SubmittedByRequest, Unpaid, SubmissionOK, SubmissionsPaid, Idle
<1>4. ChargeOK'
  BY <1>0 DEF ChargeOK, TypeOK, Charge, Unpaid
<1>5. (MintOK /\ HistoryOK /\ JobsOK)'
  BY <1>0 DEF MintOK, HistoryOK, JobsOK, TypeOK, Charge, MintRow, HistoryRow, Paid, Taken, Unpaid
<1>6. (SubmissionOK /\ HandlerOK)'
  BY <1>0 DEF SubmissionOK, SubmissionsPaid, HandlerOK, TypeOK, Charge, MintRow, HistoryRow, Submission, Handler, Paid, Taken, Unpaid
<1>7. (CreatedIsOnChain /\ HistoryIsOnChain /\ ConfirmedIsOnChain)'
  BY <1>0 DEF CreatedIsOnChain, HistoryIsOnChain, ConfirmedIsOnChain, OnChain, TypeOK, Charge, MintRow, HistoryRow, Submission, Unpaid
<1> QED BY <1>1, <1>2, <1>3, <1>4, <1>5, <1>6, <1>7 DEF IInv

LEMMA HandlerFailsIInv ==
  ASSUME IInv, NEW s \in Submissions, HandlerFails(s)
  PROVE  IInv'
<1> USE NullAssumption DEF IInv
<1>0. /\ handler' = [handler EXCEPT ![s] = Waiting]
      /\ UNCHANGED <<mint, history, uri, jobs, charge, submission, client>>
  BY DEF HandlerFails
<1>1. TypeOK'
  <2>1. handler' \in [Submissions -> Handler]
    BY <1>0 DEF TypeOK, Handler, Waiting
  <2> QED BY <1>0, <2>1 DEF TypeOK
<1>2. ClientOK'
  BY <1>0 DEF ClientOK, RequestOK, TypeOK, Client, Charge, MintRow, HistoryRow, Idle, IsRetry, QueuedOps, NewMintOps, Paid, Taken, Unpaid
<1>3. HeldOK'
  BY <1>0 DEF HeldOK, Held, TypeOK, Client, Charge, SubmittedByRequest, Unpaid, SubmissionOK, SubmissionsPaid, Idle
<1>4. ChargeOK'
  BY <1>0 DEF ChargeOK, TypeOK, Charge, Unpaid
<1>5. (MintOK /\ HistoryOK /\ JobsOK)'
  BY <1>0 DEF MintOK, HistoryOK, JobsOK, TypeOK, Charge, MintRow, HistoryRow, Paid, Taken, Unpaid
<1>6. (SubmissionOK /\ HandlerOK)'
  BY <1>0 DEF SubmissionOK, SubmissionsPaid, HandlerOK, TypeOK, Charge, MintRow, HistoryRow, Submission, Handler, Paid, Taken, Unpaid, Waiting
<1>7. (CreatedIsOnChain /\ HistoryIsOnChain /\ ConfirmedIsOnChain)'
  BY <1>0 DEF CreatedIsOnChain, HistoryIsOnChain, ConfirmedIsOnChain, OnChain, TypeOK, Charge, MintRow, HistoryRow, Submission, Unpaid
<1> QED BY <1>1, <1>2, <1>3, <1>4, <1>5, <1>6, <1>7 DEF IInv

LEMMA RequestIInv ==
  ASSUME IInv, NEW c \in Clients, Request(c)
  PROVE  IInv'
<1>1. CASE MintEdition(c) \/ MintToCollection(c) \/ QueueMintToDrop(c)
  BY <1>1, BeginIInv DEF MintEdition, MintToCollection, QueueMintToDrop, NewMintOps, AllOps
<1>2. CASE RetryMintEdition(c)
  <2>1. PICK m \in Mints : /\ mint[m].status \in {"pending", "failed"}
                          /\ Begin(c, "retry_mint_edition", "deduct", m, {})
    BY <1>2 DEF RetryMintEdition
  <2> QED BY <2>1, BeginIInv DEF IsRetry, Taken, AllOps
<1>3. CASE RetryMintToCollection(c)
  <2>1. PICK m \in uri : /\ mint[m].status = "failed"
                        /\ Begin(c, "retry_mint_to_collection", "deduct", m, {})
    BY <1>3 DEF RetryMintToCollection
  <2>2. m \in Mints
    BY DEF IInv, TypeOK
  <2> QED BY <2>1, <2>2, BeginIInv DEF IsRetry, Taken, AllOps
<1>4. CASE MintQueued(c)
  <2>1. PICK m \in uri : /\ mint[m].status = "queued"
                        /\ Begin(c, "mint_queued", "deduct", NoMint, {m})
    BY <1>4 DEF MintQueued
  <2>2. m \in Mints
    BY DEF IInv, TypeOK
  <2> QED BY <2>1, <2>2, BeginIInv DEF QueuedOps, AllOps
<1>5. CASE MintRandomQueuedBatched(c)
  <2>1. PICK batch \in SUBSET {m \in Mints : mint[m].status = "queued"} :
               Begin(c, "mint_random_queued_to_drop_batched", "deduct", NoMint, batch)
    BY <1>5 DEF MintRandomQueuedBatched
  <2>2. batch \in SUBSET {m \in Mints : mint[m].status # "absent"}
    OBVIOUS
  <2> QED BY <2>1, <2>2, BeginIInv DEF QueuedOps, AllOps
<1>6. CASE DeductForNew(c) \/ DeductForRetry(c) \/ DeductForQueued(c)
  BY <1>6, DeductForNewIInv, DeductForRetryIInv, DeductForQueuedIInv
<1>7. CASE InsertEdition(c) \/ CommitEditionHistory(c) \/ CommitMintToCollection(c)
  BY <1>7, InsertEditionIInv, CommitEditionHistoryIInv, CommitMintToCollectionIInv
<1>8. CASE CommitQueueMint(c) \/ CommitQueuedMint(c) \/ ResetToPending(c)
  BY <1>8, CommitQueueMintIInv, CommitQueuedMintIInv, ResetToPendingIInv
<1>9. CASE Enqueue(c) \/ Send(c) \/ GiveUp(c)
  BY <1>9, EnqueueIInv, SendIInv, GiveUpIInv
<1>10. CASE MintRandomQueued(c)
  <2>1. PICK m \in Mints : /\ mint[m].status = "queued"
                          /\ Begin(c, "mint_random_queued_to_drop", "deduct", NoMint, {m})
    BY <1>10 DEF MintRandomQueued
  <2> QED BY <2>1, BeginIInv DEF QueuedOps, AllOps
<1> QED BY <1>1, <1>2, <1>3, <1>4, <1>5, <1>6, <1>7, <1>8, <1>9, <1>10 DEF Request

LEMMA NextIInv == IInv /\ [Next]_vars => IInv'
<1> SUFFICES ASSUME IInv, [Next]_vars PROVE IInv'
  OBVIOUS
<1>1. CASE \E c \in Clients : Request(c)
  BY <1>1, RequestIInv
<1>2. CASE Job
  BY <1>2, SaveUriIInv, SubmitFromJobIInv DEF Job
<1>3. CASE \E s \in Submissions : Execute(s) \/ Progress(s) \/ HandlerFails(s)
  BY <1>3, ExecuteIInv, ReadResultIInv, ConfirmDeductionIInv, WriteMintIInv,
     WriteHistoryIInv, AcknowledgeIInv, HandlerFailsIInv DEF Progress
<1>4. CASE UNCHANGED vars
  BY <1>4 DEF vars, IInv, TypeOK, ClientOK, RequestOK, HeldOK, Held, SubmittedByRequest, ChargeOK,
     MintOK, HistoryOK, SubmissionOK, SubmissionsPaid, JobsOK, HandlerOK, Paid, Taken,
     CreatedIsOnChain, HistoryIsOnChain, ConfirmedIsOnChain, OnChain
<1> QED BY <1>1, <1>2, <1>3, <1>4 DEF Next

LEMMA SpecIInv == Spec => []IInv
<1> QED BY InitIInv, NextIInv, PTL DEF Spec

-----------------------------------------------------------------------------
(* The properties.                                                         *)

\* The rows, requests and deliveries always have the shape the code gives
\* them, whatever requests, jobs and handlers run.
THEOREM TypeCorrect == Spec => []TypeOK
<1>1. IInv => TypeOK
  BY DEF IInv
<1> QED BY <1>1, SpecIInv, PTL

\* For any number of mints and requests, a mint is shown CREATED only with a
\* transaction the chain executed for it.
THEOREM OnlyMintedIsShown == Spec => []CreatedIsOnChain
<1>1. IInv => CreatedIsOnChain
  BY DEF IInv
<1> QED BY <1>1, SpecIInv, PTL

\* A history row is signed only with a transaction the chain executed for its mint.
THEOREM HistoryIsOfChain == Spec => []HistoryIsOnChain
<1>1. IInv => HistoryIsOnChain
  BY DEF IInv
<1> QED BY <1>1, SpecIInv, PTL

\* Credits are confirmed only for mints on the chain.
THEOREM OnlyMintedIsCharged == Spec => []ConfirmedIsOnChain
<1>1. IInv => ConfirmedIsOnChain
  BY DEF IInv
<1> QED BY <1>1, SpecIInv, PTL

\* Nothing is submitted without a deduction of its own.
THEOREM ChargesAreFair == Spec => []SubmissionsPaid
<1>1. IInv => SubmissionsPaid
  BY DEF IInv, SubmissionOK
<1> QED BY <1>1, SpecIInv, PTL

\* A queued mint has not been submitted or recorded by any request.
THEOREM QueueIsUntouched == Spec => []QueuedIsUntouched
<1>1. IInv => QueuedIsUntouched
  <2> SUFFICES ASSUME IInv, NEW m \in Mints, mint[m].status = "queued"
               PROVE  /\ \A s \in Submissions : submission[s].mint # m
                      /\ \A d \in Deductions : history[d].mint # m
    BY DEF QueuedIsUntouched
  <2> QED BY NullAssumption DEF IInv, SubmissionOK, HistoryOK, Taken
<1> QED BY <1>1, SpecIInv, PTL

-----------------------------------------------------------------------------
(* MintLifecycle implements MintPromise: every step of the mutations, the  *)
(* upload task and the event handlers is one of the promise's steps or     *)
(* changes nothing the promise speaks of.                                  *)

\* The promise's variables under the refinement mapping.
Credit == [d \in Deductions |-> charge[d].state]
Payee == [d \in Deductions |-> charge[d].mint]
Asked == [s \in Submissions |-> submission[s].mint]
Minted == {s \in Submissions : submission[s].state = "succeeded"}
Signature == [m \in Mints |-> mint[m].signature]
Created == {m \in Mints : mint[m].status = "created"}

Stutter == UNCHANGED <<Credit, Payee, Asked, Minted, Signature, Created>>

PromiseStep == Promise!Next \/ Stutter

\* The rows each of the promise's steps leaves alone.
ChargeKept == charge' = charge => UNCHANGED <<Credit, Payee>>
SubmissionKept == submission' = submission => UNCHANGED <<Asked, Minted>>
MintKept == mint' = mint => UNCHANGED <<Signature, Created>>

LEMMA RowsKept == ChargeKept /\ SubmissionKept /\ MintKept
<1> QED BY DEF ChargeKept, SubmissionKept, MintKept, Credit, Payee, Asked, Minted, Signature, Created

LEMMA ChargeStep ==
  ASSUME IInv, NEW d \in Deductions, NEW m \in Mints \cup {NoMint}, Unpaid(d),
         charge' = [charge EXCEPT ![d] = [state |-> "pending", mint |-> m]],
         mint' = mint, submission' = submission
  PROVE  Promise!Charge(d)
<1>1. Credit[d] = "unused"
  BY DEF Credit, Unpaid
<1>2. Credit' = [Credit EXCEPT ![d] = "pending"]
  BY DEF IInv, TypeOK, Credit
<1>3. Payee' = [Payee EXCEPT ![d] = m]
  BY DEF IInv, TypeOK, Payee
<1> QED BY <1>1, <1>2, <1>3, RowsKept
       DEF Promise!Charge, SubmissionKept, MintKept, Credit, Payee, Asked, Minted, Signature, Created

LEMMA AssignStep ==
  ASSUME IInv, NEW d \in Deductions, NEW m \in Mints, Paid(d, NoMint),
         charge' = [charge EXCEPT ![d].mint = m],
         mint[m].status = "absent", NEW compressed,
         mint' = [mint EXCEPT ![m] = PendingMint(d, compressed)], submission' = submission
  PROVE  Promise!Assign(d, m)
<1>1. Credit[d] # "unused" /\ Payee[d] = NoMint
  BY DEF Credit, Payee, Paid
<1>2. Credit' = Credit
  BY DEF IInv, TypeOK, Charge, Credit
<1>3. Payee' = [Payee EXCEPT ![d] = m]
  BY DEF IInv, TypeOK, Charge, Payee
<1>4. Signature' = Signature /\ Created' = Created
  BY DEF IInv, TypeOK, MintOK, Taken, PendingMint, Signature, Created
<1> QED BY <1>1, <1>2, <1>3, <1>4, RowsKept
       DEF Promise!Assign, SubmissionKept, Credit, Payee, Asked, Minted, Signature, Created

LEMMA HideStep ==
  ASSUME IInv, NEW m \in Mints, charge' = charge, submission' = submission,
         mint' \in [Mints -> MintRow], mint'[m].status # "created",
         mint'[m].signature = mint[m].signature,
         \A x \in Mints \ {m} : mint'[x] = mint[x]
  PROVE  Promise!Hide(m)
<1>1. Created' = Created \ {m}
  BY DEF Created
<1>2. Signature' = Signature
  BY DEF Signature
<1> QED BY <1>1, <1>2, RowsKept
       DEF Promise!Hide, ChargeKept, SubmissionKept, Credit, Payee, Asked, Minted, Signature, Created

\* Unsent submissions become requests to mint what was paid for.
AskOf(sent, pay, by) ==
  /\ \A s \in sent : /\ submission[s].state = "unused"
                    /\ Paid(pay[s], charge[pay[s]].mint) /\ charge[pay[s]].mint \in Mints
                    /\ submission'[s] = Sent(charge[pay[s]].mint, pay[s], by)
  /\ \A s \in Submissions \ sent : submission'[s] = submission[s]
  /\ charge' = charge /\ mint' = mint

LEMMA AskStep ==
  ASSUME IInv, NEW sent \in SUBSET Submissions, NEW pay \in [sent -> Deductions], NEW by,
         AskOf(sent, pay, by)
  PROVE  Promise!Ask(sent, pay)
<1>1. \A s \in sent : Asked[s] = NoMint /\ Credit[pay[s]] # "unused" /\ Payee[pay[s]] \in Mints
  BY DEF AskOf, IInv, SubmissionOK, Asked, Credit, Payee, Paid
<1>2. \A s \in sent : submission'[s].mint = Payee[pay[s]] /\ submission'[s].state = "sent"
  <2> SUFFICES ASSUME NEW s \in sent
               PROVE  submission'[s].mint = Payee[pay[s]] /\ submission'[s].state = "sent"
    OBVIOUS
  <2>1. pay[s] \in Deductions
    OBVIOUS
  <2>2. submission'[s] = Sent(charge[pay[s]].mint, pay[s], by)
    BY DEF AskOf
  <2> QED BY <2>1, <2>2 DEF Payee, Sent
<1>3. Asked' = [s \in Submissions |-> IF s \in sent THEN Payee[pay[s]] ELSE Asked[s]]
  BY <1>2 DEF AskOf, Asked
<1>4. Minted' = Minted
  BY <1>2 DEF AskOf, Minted
<1> QED BY <1>1, <1>3, <1>4, RowsKept
       DEF AskOf, Promise!Ask, ChargeKept, MintKept, Credit, Payee, Asked, Minted, Signature, Created

LEMMA RequestStep ==
  ASSUME IInv, IInv', NEW c \in Clients, Request(c)
  PROVE  PromiseStep
<1> USE DEF PromiseStep
<1>1. CASE UNCHANGED <<mint, charge, submission>>
  BY <1>1, RowsKept DEF Stutter, ChargeKept, SubmissionKept, MintKept
<1>2. CASE DeductForNew(c)
  <2>1. PICK d \in Deductions : Unpaid(d) /\ charge' = [charge EXCEPT ![d].state = "pending"]
    BY <1>2 DEF DeductForNew
  <2>2. charge' = [charge EXCEPT ![d] = [state |-> "pending", mint |-> NoMint]]
    <3>1. charge[d] \in Charge /\ charge[d].mint = NoMint
      BY <2>1 DEF IInv, TypeOK, ChargeOK, Unpaid
    <3>2. [charge[d] EXCEPT !.state = "pending"] = [state |-> "pending", mint |-> NoMint]
      BY <3>1 DEF Charge
    <3> QED BY <2>1, <3>2
  <2> QED BY <1>2, <2>1, <2>2, ChargeStep DEF DeductForNew, Promise!Next
<1>3. CASE DeductForRetry(c)
  <2>1. PICK d \in Deductions :
          Unpaid(d) /\ charge' = [charge EXCEPT ![d] = [state |-> "pending", mint |-> client[c].mint]]
    BY <1>3 DEF DeductForRetry
  <2>2. client[c].mint \in Mints
    BY <1>3 DEF DeductForRetry, IInv, ClientOK, RequestOK, IsRetry, Taken
  <2> QED BY <1>3, <2>1, <2>2, ChargeStep DEF DeductForRetry, Promise!Next
<1>4. CASE DeductForQueued(c)
  <2>1. PICK d \in Deductions, m \in client[c].todo \cap uri :
          Unpaid(d) /\ charge' = [charge EXCEPT ![d] = [state |-> "pending", mint |-> m]]
    BY <1>4 DEF DeductForQueued
  <2>2. m \in Mints
    BY DEF IInv, TypeOK
  <2> QED BY <1>4, <2>1, <2>2, ChargeStep DEF DeductForQueued, Promise!Next
<1>5. CASE InsertEdition(c)
  <2>1. PICK m \in Mints : /\ mint[m].status = "absent"
                          /\ mint' = [mint EXCEPT ![m] = PendingMint(client[c].deduction, FALSE)]
                          /\ charge' = [charge EXCEPT ![client[c].deduction].mint = m]
    BY <1>5 DEF InsertEdition
  <2>2. Paid(client[c].deduction, NoMint)
    BY <1>5 DEF InsertEdition, IInv, ClientOK, RequestOK, NewMintOps
  <2> QED BY <1>5, <2>1, <2>2, AssignStep DEF InsertEdition, Paid, Promise!Next
<1>6. CASE CommitMintToCollection(c)
  <2>1. PICK m \in Mints : /\ mint[m].status = "absent"
                          /\ mint' = [mint EXCEPT ![m] = PendingMint(client[c].deduction, TRUE)]
                          /\ charge' = [charge EXCEPT ![client[c].deduction].mint = m]
    BY <1>6 DEF CommitMintToCollection
  <2>2. Paid(client[c].deduction, NoMint)
    BY <1>6 DEF CommitMintToCollection, IInv, ClientOK, RequestOK, NewMintOps
  <2> QED BY <1>6, <2>1, <2>2, AssignStep DEF CommitMintToCollection, Paid, Promise!Next
<1>7. CASE CommitQueueMint(c)
  <2>1. PICK m \in Mints : mint[m].status = "absent" /\ mint' = [mint EXCEPT ![m].status = "queued"]
    BY <1>7 DEF CommitQueueMint
  <2>2. Signature' = Signature /\ Created' = Created
    BY <2>1 DEF IInv, TypeOK, MintRow, Signature, Created
  <2> QED BY <1>7, <2>2, RowsKept DEF CommitQueueMint, Stutter, ChargeKept, SubmissionKept
<1>8. CASE CommitQueuedMint(c)
  <2>1. client[c].mint \in Mints
    BY <1>8 DEF CommitQueuedMint, TakesQueued, IInv, ClientOK, RequestOK, QueuedOps
  <2>2. /\ mint'[client[c].mint].status # "created"
        /\ mint'[client[c].mint].signature = mint[client[c].mint].signature
        /\ \A x \in Mints \ {client[c].mint} : mint'[x] = mint[x]
    BY <1>8, <2>1 DEF CommitQueuedMint, IInv, TypeOK, MintRow
  <2> QED BY <1>8, <2>1, <2>2, HideStep DEF CommitQueuedMint, IInv, TypeOK, Promise!Next
<1>9. CASE ResetToPending(c)
  <2>1. client[c].mint \in Mints
    BY <1>9 DEF ResetToPending, IInv, ClientOK, RequestOK, Taken
  <2>2. /\ mint'[client[c].mint].status # "created"
        /\ mint'[client[c].mint].signature = mint[client[c].mint].signature
        /\ \A x \in Mints \ {client[c].mint} : mint'[x] = mint[x]
    BY <1>9, <2>1 DEF ResetToPending, IInv, TypeOK, MintRow
  <2> QED BY <1>9, <2>1, <2>2, HideStep DEF ResetToPending, IInv, TypeOK, Promise!Next
<1>10. CASE Send(c)
  <2>1. PICK sent \in SUBSET {s \in Submissions : Unsent(s)} :
        \E pay \in [sent -> client[c].ready] :
          /\ \A s, t \in sent : pay[s] = pay[t] => s = t
          /\ \A d \in client[c].ready : \E s \in sent : pay[s] = d
          /\ submission' = [s \in Submissions |->
               IF s \in sent THEN Sent(charge[pay[s]].mint, pay[s], "request")
                             ELSE submission[s]]
    BY <1>10 DEF Send
  <2>2. PICK pay \in [sent -> client[c].ready] :
          \A s \in Submissions : submission'[s] =
            IF s \in sent THEN Sent(charge[pay[s]].mint, pay[s], "request") ELSE submission[s]
    BY <2>1
  <2>3. client[c].ready \subseteq Deductions
    BY DEF IInv, TypeOK, Client
  <2>4. pay \in [sent -> Deductions] /\ sent \in SUBSET Submissions
    BY <2>3
  <2>5. \A s \in sent : /\ submission[s].state = "unused"
                        /\ Paid(pay[s], charge[pay[s]].mint) /\ charge[pay[s]].mint \in Mints
    BY DEF IInv, ClientOK, RequestOK, Taken, Unsent
  <2>6. AskOf(sent, pay, "request")
    BY <1>10, <2>2, <2>4, <2>5 DEF Send, AskOf
  <2>7. Promise!Ask(sent, pay)
    BY <2>4, <2>6, AskStep
  <2> QED BY <2>4, <2>7 DEF Promise!Next
<1> QED BY <1>1, <1>2, <1>3, <1>4, <1>5, <1>6, <1>7, <1>8, <1>9, <1>10
       DEF Request, MintEdition, MintToCollection, QueueMintToDrop, RetryMintEdition,
           RetryMintToCollection, MintQueued, MintRandomQueued, MintRandomQueuedBatched, Begin,
           CommitEditionHistory, Enqueue, GiveUp

LEMMA JobStep ==
  ASSUME IInv, IInv', Job
  PROVE  PromiseStep
<1>1. CASE SaveUri
  BY <1>1, RowsKept DEF SaveUri, PromiseStep, Stutter, ChargeKept, SubmissionKept, MintKept
<1>2. CASE SubmitFromJob
  <2>1. PICK m \in uri, s \in Submissions :
          /\ <<"MintToCollection", m>> \in jobs
          /\ Unsent(s)
          /\ submission' = [submission EXCEPT ![s] = Sent(m, mint[m].deduction, "job")]
    BY <1>2 DEF SubmitFromJob
  <2>2. Taken(m) /\ Paid(mint[m].deduction, m)
    BY <2>1 DEF IInv, TypeOK, JobsOK, MintOK
  <2>3. PICK pay \in [{s} -> Deductions] : pay[s] = mint[m].deduction
    <3>1. [x \in {s} |-> mint[m].deduction] \in [{s} -> Deductions]
      BY <2>2 DEF Paid
    <3> QED BY <3>1
  <2>4. PICK sent \in SUBSET Submissions : sent = {s}
    OBVIOUS
  <2>5. AskOf(sent, pay, "job")
    BY <1>2, <2>1, <2>2, <2>3, <2>4 DEF SubmitFromJob, AskOf, Unsent, Paid, Taken, IInv, TypeOK
  <2>6. Promise!Ask(sent, pay)
    BY <2>3, <2>4, <2>5, AskStep
  <2> QED BY <2>3, <2>4, <2>6 DEF PromiseStep, Promise!Next
<1> QED BY <1>1, <1>2 DEF Job

LEMMA ResultStep ==
  ASSUME IInv, IInv', NEW s \in Submissions, Execute(s) \/ Progress(s) \/ HandlerFails(s)
  PROVE  PromiseStep
<1> USE DEF PromiseStep
<1>1. CASE UNCHANGED <<mint, charge, submission>>
  BY <1>1, RowsKept DEF Stutter, ChargeKept, SubmissionKept, MintKept
<1>2. CASE Execute(s)
  <2>1. PICK outcome \in {"succeeded", "failed"} :
          submission' = [submission EXCEPT ![s].state = outcome]
    BY <1>2 DEF Execute
  <2>2. Asked' = Asked /\ Asked[s] \in Mints
    BY <1>2, <2>1 DEF Execute, Asked, IInv, TypeOK, Submission, SubmissionOK, Taken
  <2>3. CASE outcome = "succeeded"
    <3>1. Minted' = Minted \cup {s}
      BY <2>1, <2>3 DEF Minted, IInv, TypeOK, Submission
    <3> QED BY <1>2, <2>2, <3>1, RowsKept
           DEF Execute, ChargeKept, MintKept, Promise!Next, Promise!Execute,
               Credit, Payee, Asked, Minted, Signature, Created
  <2>4. CASE outcome = "failed"
    <3>1. Minted' = Minted
      BY <1>2, <2>1, <2>4 DEF Execute, Minted, IInv, TypeOK, Submission
    <3> QED BY <1>2, <2>2, <3>1, RowsKept DEF Execute, Stutter, ChargeKept, MintKept
  <2> QED BY <2>3, <2>4
<1>3. CASE ConfirmDeduction(s)
  <2> DEFINE d == handler[s].deduction
  <2>1. /\ Paid(d, submission[s].mint) /\ Taken(submission[s].mint)
        /\ submission[s].state = "succeeded"
        /\ charge' = [charge EXCEPT ![d].state = "confirmed"]
    BY <1>3 DEF ConfirmDeduction, IInv, HandlerOK, SubmissionOK
  <2>2. /\ Credit[d] # "unused" /\ Payee[d] \in Mints
        /\ s \in Minted /\ Asked[s] = Payee[d]
    BY <2>1 DEF Paid, Taken, Credit, Payee, Minted, Asked
  <2>3. Credit' = [Credit EXCEPT ![d] = "confirmed"] /\ Payee' = Payee
    <3>1. /\ d \in Deductions /\ charge[d] \in Charge /\ charge \in [Deductions -> Charge]
      BY <2>1 DEF Paid, IInv, TypeOK
    <3>2. /\ charge'[d].state = "confirmed" /\ charge'[d].mint = charge[d].mint
          /\ \A x \in Deductions \ {d} : charge'[x] = charge[x]
      BY <2>1, <3>1 DEF Charge
    <3> QED BY <3>2 DEF Credit, Payee
  <2> QED BY <1>3, <2>1, <2>2, <2>3, RowsKept
         DEF ConfirmDeduction, Paid, SubmissionKept, MintKept, Promise!Next, Promise!Confirm,
             Credit, Payee, Asked, Minted, Signature, Created
<1>4. CASE WriteMint(s)
  <2> DEFINE m == submission[s].mint
  <2>1. Taken(m)
    BY <1>4 DEF WriteMint, IInv, HandlerOK, SubmissionOK
  <2>2. CASE handler[s].pc = "confirmed"
    <3>1. /\ submission[s].state = "succeeded"
          /\ mint' = [mint EXCEPT ![m].status = "created", ![m].signature = s]
      BY <1>4, <2>2 DEF WriteMint, IInv, HandlerOK
    <3>2. s \in Minted /\ Asked[s] = m
      BY <3>1 DEF Minted, Asked
    <3>3. Signature' = [Signature EXCEPT ![m] = s]
      <4>1. mint'[m].signature = s /\ \A x \in Mints \ {m} : mint'[x] = mint[x]
        BY <2>1, <3>1 DEF Taken, IInv, TypeOK, MintRow
      <4> QED BY <4>1 DEF Signature
    <3>4. Created' = Created \cup {m}
      <4>1. /\ m \in Mints /\ mint'[m].status = "created"
            /\ \A x \in Mints \ {m} : mint'[x] = mint[x]
        BY <2>1, <3>1 DEF Taken, IInv, TypeOK, MintRow
      <4> QED BY <4>1 DEF Created
    <3> QED BY <1>4, <3>2, <3>3, <3>4, RowsKept
           DEF WriteMint, ChargeKept, SubmissionKept, Promise!Next, Promise!Show,
               Credit, Payee, Asked, Minted, Signature, Created
  <2>3. CASE handler[s].pc = "read"
    <3>1. mint' = [mint EXCEPT ![m].status = "failed"]
      BY <1>4, <2>3 DEF WriteMint
    <3>2. /\ mint'[m].status # "created" /\ mint'[m].signature = mint[m].signature
          /\ \A x \in Mints \ {m} : mint'[x] = mint[x]
      BY <2>1, <3>1 DEF Taken, IInv, TypeOK, MintRow
    <3> QED BY <1>4, <2>1, <3>2, HideStep DEF WriteMint, Taken, IInv, TypeOK, Promise!Next
  <2> QED BY <1>4, <2>2, <2>3 DEF WriteMint
<1> QED BY <1>1, <1>2, <1>3, <1>4
       DEF Progress, ReadResult, WriteHistory, Acknowledge, HandlerFails

\* Whatever the sets of mints, requests, charges and submissions, every
\* behaviour of the mint lifecycle is one the promise allows.
THEOREM LifecycleKeepsPromise == Spec => KeepsPromise
<1>1. Init => Promise!Init
  BY DEF Init, Promise!Init
<1>2. IInv /\ IInv' /\ [Next]_vars => [Promise!Next]_(Promise!promise)
  <2> SUFFICES ASSUME IInv, IInv', [Next]_vars PROVE PromiseStep
    BY DEF PromiseStep, Stutter, Promise!promise, Credit, Payee, Asked, Minted, Signature, Created
  <2>1. CASE UNCHANGED vars
    BY <2>1, RowsKept DEF vars, PromiseStep, Stutter, ChargeKept, SubmissionKept, MintKept
  <2> QED BY <2>1, RequestStep, JobStep, ResultStep DEF Next
<1> QED BY <1>1, <1>2, SpecIInv, PTL DEF Spec, KeepsPromise, Promise!Spec

-----------------------------------------------------------------------------
(* What is recorded of an acknowledged success.                            *)

\* The history row of a request that has been charged is not there before the request
\* inserts it: a row that is there is never replaced.
FreshRow ==
  \A c \in Clients :
    client[c].pc \in {"write", "history"} /\ client[c].deduction \in Deductions =>
      history[client[c].deduction].mint = NoMint

\* Two requests have taken the mint from the queue.
TwoRows(m) == \E d, e \in Deductions : d # e /\ history[d].mint = m /\ history[e].mint = m

\* What the handler of a success has done so far is there to be seen.
Recorded(s) ==
  submission[s].state = "succeeded" =>
    /\ handler[s].pc \in {"confirmed", "mint_written", "history_written", "acked"} =>
         charge[handler[s].deduction].state = "confirmed"
    /\ handler[s].pc \in {"mint_written", "history_written", "acked"} =>
         mint[submission[s].mint].signature # NoSubmission
    /\ handler[s].pc \in {"history_written", "acked"} =>
         history[handler[s].history].signature # NoSubmission

RecordedOK == \A s \in Submissions : Recorded(s)

\* The deduction a handler has read is still the one its mint's row names, unless another
\* request has taken the mint from the queue since.
NamedOK ==
  \A s \in Submissions : handler[s].pc # "waiting" =>
    \A m \in Mints : m = submission[s].mint =>
      handler[s].deduction = mint[m].deduction \/ TwoRows(m)

RInv == IInv /\ FreshRow /\ RecordedOK /\ NamedOK /\ CreatedIsConfirmed

\* What is recorded stays recorded.
HistoryGrows ==
  \A d \in Deductions : history[d].mint # NoMint =>
    /\ history'[d].mint = history[d].mint
    /\ history[d].signature # NoSubmission => history'[d].signature # NoSubmission

MintGrows ==
  \A m \in Mints : mint[m].signature # NoSubmission => mint'[m].signature # NoSubmission

ChargeGrows ==
  \A d \in Deductions : charge[d].state = "confirmed" => charge'[d].state = "confirmed"

Grows == HistoryGrows /\ MintGrows /\ ChargeGrows

LEMMA UnchangedGrows ==
  /\ history' = history => HistoryGrows
  /\ mint' = mint => MintGrows
  /\ charge' = charge => ChargeGrows
  BY DEF HistoryGrows, MintGrows, ChargeGrows

\* A request that is charged charges a deduction that was not used for anything.
LEMMA DeductMoves ==
  ASSUME IInv, NEW c \in Clients, DeductForNew(c) \/ DeductForRetry(c) \/ DeductForQueued(c)
  PROVE  /\ UNCHANGED <<mint, history, submission, handler>> /\ ChargeGrows
         /\ \A e \in Clients \ {c} : client'[e] = client[e]
         /\ client'[c].pc \in {"write", "send"}
         /\ client'[c].pc = "write" => history[client'[c].deduction].mint = NoMint
<1>1. TypeOK /\ HistoryOK
  BY DEF IInv
<1>2. UNCHANGED <<mint, history, submission, handler>>
  BY DEF DeductForNew, DeductForRetry, DeductForQueued
<1>3. PICK d \in Deductions :
        /\ Unpaid(d)
        /\ \A x \in Deductions \ {d} : charge'[x] = charge[x]
        /\ client'[c].pc = "send" \/ (client'[c].pc = "write" /\ client'[c].deduction = d)
        /\ \A e \in Clients \ {c} : client'[e] = client[e]
  <2>1. CASE DeductForNew(c)
    <3>1. PICK d \in Deductions :
            /\ Unpaid(d)
            /\ charge' = [charge EXCEPT ![d].state = "pending"]
            /\ client' = [client EXCEPT ![c].deduction = d, ![c].pc = "write"]
      BY <2>1 DEF DeductForNew
    <3>2. client[c] \in Client
      BY <1>1 DEF TypeOK
    <3>3. /\ client'[c].pc = "write" /\ client'[c].deduction = d
          /\ \A e \in Clients \ {c} : client'[e] = client[e]
      BY <1>1, <3>1, <3>2 DEF TypeOK, Client
    <3>4. \A x \in Deductions \ {d} : charge'[x] = charge[x]
      BY <1>1, <3>1 DEF TypeOK
    <3> QED BY <3>1, <3>3, <3>4
  <2>2. CASE DeductForRetry(c)
    <3>1. PICK d \in Deductions :
            /\ Unpaid(d)
            /\ charge' = [charge EXCEPT ![d] = [state |-> "pending", mint |-> client[c].mint]]
            /\ client' = [client EXCEPT ![c].ready = {d}, ![c].pc = "send"]
      BY <2>2 DEF DeductForRetry
    <3>2. client[c] \in Client
      BY <1>1 DEF TypeOK
    <3>3. /\ client'[c].pc = "send"
          /\ \A e \in Clients \ {c} : client'[e] = client[e]
      BY <1>1, <3>1, <3>2 DEF TypeOK, Client
    <3>4. \A x \in Deductions \ {d} : charge'[x] = charge[x]
      BY <1>1, <3>1 DEF TypeOK
    <3> QED BY <3>1, <3>3, <3>4
  <2>3. CASE DeductForQueued(c)
    <3>1. PICK d \in Deductions, m \in client[c].todo \cap uri :
            /\ Unpaid(d)
            /\ charge' = [charge EXCEPT ![d] = [state |-> "pending", mint |-> m]]
            /\ client' = [client EXCEPT ![c].deduction = d, ![c].mint = m, ![c].pc = "write"]
      BY <2>3 DEF DeductForQueued
    <3>2. client[c] \in Client
      BY <1>1 DEF TypeOK
    <3>3. /\ client'[c].pc = "write" /\ client'[c].deduction = d
          /\ \A e \in Clients \ {c} : client'[e] = client[e]
      BY <1>1, <3>1, <3>2 DEF TypeOK, Client
    <3>4. \A x \in Deductions \ {d} : charge'[x] = charge[x]
      BY <1>1, <3>1 DEF TypeOK
    <3> QED BY <3>1, <3>3, <3>4
  <2> QED BY <2>1, <2>2, <2>3
<1>4. ChargeGrows
  BY <1>3 DEF ChargeGrows, Unpaid
<1>5. history[d].mint = NoMint
  BY <1>1, <1>3 DEF HistoryOK, Paid, Unpaid
<1> QED BY <1>2, <1>3, <1>4, <1>5

\* A mint that is inserted was not there, and no row of it is replaced.
LEMMA InsertMoves ==
  ASSUME IInv, FreshRow, NEW c \in Clients, InsertEdition(c) \/ CommitMintToCollection(c)
  PROVE  /\ Grows /\ UNCHANGED <<submission, handler>>
         /\ \E m \in Mints : ~Taken(m) /\ mint'[m].status = "pending" /\
              \A x \in Mints \ {m} : mint'[x] = mint[x]
         /\ \A d \in Deductions : d # client[c].deduction => history'[d] = history[d]
         /\ client[c].pc = "write" /\ client[c].deduction \in Deductions
         /\ client'[c].pc = "history" => history' = history
         /\ client'[c].pc \in {"history", "enqueue"}
         /\ client'[c].deduction = client[c].deduction
         /\ \A e \in Clients \ {c} : client'[e] = client[e]
<1>1. TypeOK /\ MintOK /\ RequestOK(c)
  BY DEF IInv, ClientOK
<1>2. PICK m \in Mints, next \in {"history", "enqueue"}, compressed \in BOOLEAN :
        /\ mint[m].status = "absent"
        /\ mint' = [mint EXCEPT ![m] = PendingMint(client[c].deduction, compressed)]
        /\ charge' = [charge EXCEPT ![client[c].deduction].mint = m]
        /\ client' = [client EXCEPT ![c].mint = m, ![c].pc = next]
        /\ \/ next = "history" /\ history' = history
           \/ /\ next = "enqueue"
              /\ history' = [history EXCEPT ![client[c].deduction] = PendingHistory(m)]
  BY DEF InsertEdition, CommitMintToCollection
<1>3. /\ UNCHANGED <<submission, handler>> /\ client[c].pc = "write"
      /\ client[c].deduction \in Deductions
  BY <1>1 DEF InsertEdition, CommitMintToCollection, RequestOK, NewMintOps, Paid
<1>4. ~Taken(m) /\ mint[m].signature = NoSubmission
  BY <1>1, <1>2 DEF MintOK, Taken
<1>5. mint'[m].status = "pending" /\ \A x \in Mints \ {m} : mint'[x] = mint[x]
  BY <1>1, <1>2 DEF TypeOK, PendingMint
<1>6. MintGrows
  BY <1>4, <1>5 DEF MintGrows
<1>7. ChargeGrows
  BY <1>1, <1>2 DEF ChargeGrows, TypeOK, Charge
<1>8. \A d \in Deductions : d # client[c].deduction => history'[d] = history[d]
  BY <1>1, <1>2 DEF TypeOK
<1>9. history[client[c].deduction].mint = NoMint
  BY <1>3 DEF FreshRow
<1>10. HistoryGrows
  BY <1>8, <1>9 DEF HistoryGrows
<1>11. /\ client'[c].pc = next /\ client'[c].deduction = client[c].deduction
       /\ \A e \in Clients \ {c} : client'[e] = client[e]
  BY <1>1, <1>2 DEF TypeOK, Client
<1> QED BY <1>2, <1>3, <1>4, <1>5, <1>6, <1>7, <1>8, <1>10, <1>11 DEF Grows

\* The row of a charged request is inserted once; a mint that is taken from the queue a
\* second time has two rows then.
LEMMA CommitMoves ==
  ASSUME IInv, FreshRow, NEW c \in Clients, CommitEditionHistory(c) \/ CommitQueuedMint(c)
  PROVE  /\ Grows /\ UNCHANGED <<submission, handler>>
         /\ \A m \in Mints :
              \/ mint'[m] = mint[m]
              \/ /\ m = client[c].mint /\ mint'[m].status = "pending"
                 /\ mint'[m].deduction = client[c].deduction
         /\ client[c].deduction \in Deductions
         /\ history[client[c].deduction].mint = NoMint
         /\ history'[client[c].deduction].mint = client[c].mint
         /\ client[c].pc \in {"write", "history"}
         /\ \A d \in Deductions : d # client[c].deduction => history'[d] = history[d]
         /\ client'[c].pc \in {"deduct", "send"}
         /\ \A e \in Clients \ {c} : client'[e] = client[e]
<1> DEFINE d == client[c].deduction
           m == client[c].mint
<1>1. TypeOK /\ RequestOK(c)
  BY DEF IInv, ClientOK
<1>2. /\ client[c].pc \in {"write", "history"} /\ d \in Deductions /\ m \in Mints
      /\ history' = [history EXCEPT ![d] = PendingHistory(m)]
      /\ UNCHANGED <<submission, handler, charge>>
  BY <1>1 DEF CommitEditionHistory, CommitQueuedMint, RequestOK, QueuedOps, TakesQueued, Paid, Taken
<1>3. history[d].mint = NoMint
  BY <1>2 DEF FreshRow
<1>4. /\ history'[d].mint = m
      /\ \A x \in Deductions : x # d => history'[x] = history[x]
  BY <1>1, <1>2 DEF TypeOK, PendingHistory
<1>5. HistoryGrows /\ ChargeGrows
  BY <1>2, <1>3, <1>4, UnchangedGrows DEF HistoryGrows
<1>6. /\ MintGrows
      /\ \A x \in Mints :
           \/ mint'[x] = mint[x]
           \/ /\ x = m /\ mint'[x].status = "pending"
              /\ mint'[x].deduction = d
  <2>1. CASE CommitEditionHistory(c)
    BY <2>1, UnchangedGrows DEF CommitEditionHistory
  <2>2. CASE CommitQueuedMint(c)
    <3>1. /\ mint'[m].status = "pending" /\ mint'[m].deduction = d
          /\ mint'[m].signature = mint[m].signature
          /\ \A x \in Mints : x # m => mint'[x] = mint[x]
      BY <1>1, <1>2, <2>2 DEF CommitQueuedMint, TypeOK, MintRow
    <3> QED BY <3>1 DEF MintGrows
  <2> QED BY <2>1, <2>2
<1>7. client'[c].pc \in {"deduct", "send"} /\ \A e \in Clients \ {c} : client'[e] = client[e]
  <2>1. client[c] \in Client
    BY <1>1 DEF TypeOK
  <2> QED BY <1>1, <2>1 DEF CommitEditionHistory, CommitQueuedMint, TypeOK, Client
<1> QED BY <1>2, <1>3, <1>4, <1>5, <1>6, <1>7 DEF Grows

\* The other steps of a request leave charges and history rows alone, and of the mints only
\* change the status, to one that is not CREATED.
OtherStep(c) ==
  \/ MintEdition(c) \/ MintToCollection(c) \/ QueueMintToDrop(c)
  \/ RetryMintEdition(c) \/ RetryMintToCollection(c)
  \/ MintQueued(c) \/ MintRandomQueued(c) \/ MintRandomQueuedBatched(c)
  \/ CommitQueueMint(c) \/ ResetToPending(c) \/ Enqueue(c) \/ Send(c) \/ GiveUp(c)

LEMMA OtherMoves ==
  ASSUME IInv, NEW c \in Clients, OtherStep(c)
  PROVE  /\ Grows /\ UNCHANGED <<charge, history, handler>>
         /\ \A m \in Mints :
              \/ mint'[m] = mint[m]
              \/ mint'[m].status # "created" /\ mint'[m].deduction = mint[m].deduction
         /\ \A s \in Submissions : ~Unsent(s) => submission'[s] = submission[s]
         /\ \A s \in Submissions : Unsent(s) => submission'[s].state # "succeeded"
         /\ \A e \in Clients \ {c} : client'[e] = client[e]
         /\ client'[c].pc # "history"
         /\ client'[c].pc = "write" => client'[c].deduction = NoDeduction
<1>1. TypeOK
  BY DEF IInv
<1>2. UNCHANGED <<charge, history, handler>>
  BY DEF OtherStep, MintEdition, MintToCollection, QueueMintToDrop, RetryMintEdition,
         RetryMintToCollection, MintQueued, MintRandomQueued, MintRandomQueuedBatched, Begin,
         CommitQueueMint, ResetToPending, Enqueue, Send, GiveUp
<1>3. CASE \E op, pc, m, todo : Begin(c, op, pc, m, todo) /\ pc \in {"deduct", "write"}
  <2>0. PICK op, pc, m, todo : Begin(c, op, pc, m, todo) /\ pc \in {"deduct", "write"}
    BY <1>3
  <2> DEFINE r == [op |-> op, pc |-> pc, mint |-> m, todo |-> todo,
                   deduction |-> NoDeduction, ready |-> {}]
  <2>1. client' = [client EXCEPT ![c] = r] /\ r.deduction = NoDeduction /\ r.pc # "history"
    BY <2>0 DEF Begin
  <2>2. UNCHANGED <<mint, submission>>
    BY <2>0 DEF Begin
  <2> HIDE DEF r
  <2>3. client'[c] = r /\ \A e \in Clients \ {c} : client'[e] = client[e]
    BY <1>1, <2>1 DEF TypeOK
  <2> QED BY <1>2, <2>1, <2>2, <2>3, UnchangedGrows DEF Grows, Unsent
<1>4. CASE CommitQueueMint(c)
  <2>1. PICK m \in Mints : mint' = [mint EXCEPT ![m].status = "queued"]
    BY <1>4 DEF CommitQueueMint
  <2>2. /\ mint'[m].status = "queued" /\ mint'[m].deduction = mint[m].deduction
        /\ mint'[m].signature = mint[m].signature
        /\ \A x \in Mints \ {m} : mint'[x] = mint[x]
    BY <1>1, <2>1 DEF TypeOK, MintRow
  <2>3. MintGrows
    BY <2>2 DEF MintGrows
  <2>4. /\ client'[c].pc = "enqueue" /\ submission' = submission
        /\ \A e \in Clients \ {c} : client'[e] = client[e]
    BY <1>1, <1>4 DEF CommitQueueMint, TypeOK, Client
  <2> QED BY <1>2, <2>2, <2>3, <2>4, UnchangedGrows DEF Grows, Unsent
<1>5. CASE ResetToPending(c)
  <2> DEFINE m == client[c].mint
  <2>1. /\ mint' = [mint EXCEPT ![m].status = "pending"] /\ submission' = submission
        /\ client' = [client EXCEPT ![c] = Idle]
    BY <1>5 DEF ResetToPending
  <2>2. m \in Mints
    BY <1>5 DEF IInv, ClientOK, RequestOK, ResetToPending, Taken
  <2>3. /\ mint'[m].status = "pending" /\ mint'[m].deduction = mint[m].deduction
        /\ mint'[m].signature = mint[m].signature
        /\ \A x \in Mints \ {m} : mint'[x] = mint[x]
    BY <1>1, <2>1, <2>2 DEF TypeOK, MintRow
  <2>4. MintGrows
    BY <2>3 DEF MintGrows
  <2>5. client'[c].pc = "idle" /\ \A e \in Clients \ {c} : client'[e] = client[e]
    BY <1>1, <2>1 DEF TypeOK, Idle
  <2> QED BY <1>2, <2>1, <2>3, <2>4, <2>5, UnchangedGrows DEF Grows, Unsent
<1>6. CASE Enqueue(c) \/ GiveUp(c)
  <2>1. UNCHANGED <<mint, submission>> /\ client' = [client EXCEPT ![c] = Idle]
    BY <1>6 DEF Enqueue, GiveUp
  <2>2. client'[c].pc = "idle" /\ \A e \in Clients \ {c} : client'[e] = client[e]
    BY <1>1, <2>1 DEF TypeOK, Idle
  <2> QED BY <1>2, <2>1, <2>2, UnchangedGrows DEF Grows, Unsent
<1>7. CASE Send(c)
  <2>1. /\ \A s \in Submissions : ~Unsent(s) => submission'[s] = submission[s]
        /\ \A s \in Submissions : Unsent(s) => submission'[s].state # "succeeded"
    <3>1. PICK sent \in SUBSET {s \in Submissions : Unsent(s)} :
            \E pay \in [sent -> client[c].ready] :
              submission' = [s \in Submissions |->
                IF s \in sent THEN Sent(charge[pay[s]].mint, pay[s], "request")
                              ELSE submission[s]]
      BY <1>7 DEF Send
    <3>2. PICK pay : submission' = [s \in Submissions |->
            IF s \in sent THEN Sent(charge[pay[s]].mint, pay[s], "request")
                          ELSE submission[s]]
      BY <3>1
    <3> QED BY <3>1, <3>2 DEF Sent, Unsent
  <2>2. client' = [client EXCEPT ![c] = IF IsRetry(client[c].op)
                                        THEN [client[c] EXCEPT !.pc = "reset", !.ready = {}]
                                        ELSE Idle]
        /\ mint' = mint
    BY <1>7 DEF Send
  <2>3. [client[c] EXCEPT !.pc = "reset", !.ready = {}].pc = "reset"
    BY <1>1 DEF TypeOK, Client
  <2>4. client'[c].pc \in {"reset", "idle"} /\ \A e \in Clients \ {c} : client'[e] = client[e]
    BY <1>1, <2>2, <2>3 DEF TypeOK, Idle
  <2> QED BY <1>2, <2>1, <2>2, <2>4, UnchangedGrows DEF Grows
<1> QED BY <1>3, <1>4, <1>5, <1>6, <1>7
       DEF OtherStep, MintEdition, MintToCollection, QueueMintToDrop, RetryMintEdition,
           RetryMintToCollection, MintQueued, MintRandomQueued, MintRandomQueuedBatched

\* FreshRow holds on while other requests insert their own rows.
LEMMA FreshFrame ==
  ASSUME IInv, FreshRow, NEW c \in Clients,
         \A e \in Clients \ {c} : client'[e] = client[e],
         \A d \in Deductions : d \notin Held(c) => history'[d] = history[d],
         client'[c].pc \in {"write", "history"} =>
           \/ client'[c].deduction \notin Deductions
           \/ history'[client'[c].deduction].mint = NoMint
  PROVE  FreshRow'
<1> SUFFICES ASSUME NEW e \in Clients, client'[e].pc \in {"write", "history"},
                    client'[e].deduction \in Deductions
             PROVE  history'[client'[e].deduction].mint = NoMint
  BY DEF FreshRow
<1>1. CASE e = c
  BY <1>1
<1>2. CASE e # c
  <2>1. client'[e] = client[e]
    BY <1>2
  <2>2. client[e].deduction \in Held(e)
    BY <2>1 DEF Held
  <2>3. client[e].deduction \notin Held(c)
    BY <1>2, <2>2 DEF IInv, HeldOK
  <2>4. history[client[e].deduction].mint = NoMint
    BY <2>1 DEF FreshRow
  <2> QED BY <2>1, <2>3, <2>4
<1> QED BY <1>1, <1>2

LEMMA TwoRowsGrow ==
  ASSUME HistoryGrows, NEW m \in Mints, TwoRows(m)
  PROVE  TwoRows(m)'
  BY NullAssumption DEF TwoRows, HistoryGrows

\* What is true of a delivery stays true while it waits for the next step of its handler.
LEMMA DeliveryFrame ==
  ASSUME RInv, Grows, NEW s \in Submissions, handler'[s] = handler[s],
         handler[s].pc # "waiting" => submission'[s] = submission[s]
  PROVE  Recorded(s)'
<1> SUFFICES ASSUME submission'[s].state = "succeeded", handler[s].pc # "waiting"
             PROVE  /\ handler[s].pc \in {"confirmed", "mint_written", "history_written", "acked"} =>
                         charge'[handler[s].deduction].state = "confirmed"
                    /\ handler[s].pc \in {"mint_written", "history_written", "acked"} =>
                         mint'[submission[s].mint].signature # NoSubmission
                    /\ handler[s].pc \in {"history_written", "acked"} =>
                         history'[handler[s].history].signature # NoSubmission
  BY DEF Recorded
<1>1. /\ handler[s].deduction \in Deductions /\ submission[s].mint \in Mints
      /\ handler[s].history \in Deductions
      /\ history[handler[s].history].mint = submission[s].mint
      /\ submission[s].state = "succeeded"
  BY DEF RInv, IInv, HandlerOK, SubmissionOK, Paid, Taken
<1>2. history[handler[s].history].mint # NoMint
  BY <1>1, NullAssumption
<1> QED BY <1>1, <1>2 DEF RInv, RecordedOK, Recorded, Grows, ChargeGrows, MintGrows, HistoryGrows

\* Steps of requests and jobs: no delivery moves.
LEMMA ResultsFrame ==
  ASSUME RInv, Grows, handler' = handler,
         \A s \in Submissions : handler[s].pc # "waiting" => submission'[s] = submission[s],
         \A m \in Mints :
           \/ mint'[m].status # "created" /\ mint'[m].deduction = mint[m].deduction
           \/ mint'[m].status # "created" /\ ~Taken(m)
           \/ mint'[m].status # "created" /\ \A d \in Deductions : history[d].mint = m => TwoRows(m)'
           \/ mint'[m] = mint[m]
  PROVE  RecordedOK' /\ NamedOK' /\ CreatedIsConfirmed'
<1>1. RecordedOK'
  BY DeliveryFrame DEF RecordedOK
<1>2. NamedOK'
  <2> SUFFICES ASSUME NEW s \in Submissions, handler[s].pc # "waiting",
                      NEW m \in Mints, m = submission[s].mint
               PROVE  handler[s].deduction = mint'[m].deduction \/ TwoRows(m)'
    BY DEF NamedOK
  <2>1. handler[s].deduction = mint[m].deduction \/ TwoRows(m)
    BY DEF RInv, NamedOK
  <2>2. TwoRows(m) => TwoRows(m)'
    BY TwoRowsGrow DEF Grows
  <2>3. /\ Taken(m) /\ handler[s].history \in Deductions
        /\ history[handler[s].history].mint = m
    BY DEF RInv, IInv, HandlerOK, SubmissionOK
  <2> QED BY <2>1, <2>2, <2>3
<1>3. CreatedIsConfirmed'
  <2> SUFFICES ASSUME NEW m \in Mints, mint'[m].status = "created"
               PROVE  charge'[mint'[m].deduction].state = "confirmed" \/ TwoRows(m)'
    BY DEF CreatedIsConfirmed, TwoRows
  <2>1. mint'[m] = mint[m]
    OBVIOUS
  <2>2. charge[mint[m].deduction].state = "confirmed" \/ TwoRows(m)
    BY <2>1 DEF RInv, CreatedIsConfirmed, TwoRows
  <2>3. mint[m].deduction \in Deductions
    BY <2>1 DEF RInv, IInv, MintOK, Taken, Paid
  <2> QED BY <2>1, <2>2, <2>3, TwoRowsGrow DEF Grows, ChargeGrows
<1> QED BY <1>1, <1>2, <1>3

LEMMA RequestRInv ==
  ASSUME RInv, NEW c \in Clients, Request(c)
  PROVE  FreshRow' /\ RecordedOK' /\ NamedOK' /\ CreatedIsConfirmed'
<1>0. IInv /\ FreshRow /\ TypeOK
  BY DEF RInv, IInv
<1>1. CASE DeductForNew(c) \/ DeductForRetry(c) \/ DeductForQueued(c)
  <2>1. Grows
    BY <1>0, <1>1, DeductMoves, UnchangedGrows DEF Grows
  <2>2. FreshRow'
    BY <1>0, <1>1, DeductMoves, FreshFrame
  <2>3. UNCHANGED <<mint, submission, handler>>
    BY <1>0, <1>1, DeductMoves
  <2> QED BY <2>1, <2>2, <2>3, ResultsFrame
<1>2. CASE InsertEdition(c) \/ CommitMintToCollection(c)
  <2>1. /\ Grows /\ UNCHANGED <<submission, handler>>
        /\ \A e \in Clients \ {c} : client'[e] = client[e]
    BY <1>0, <1>2, InsertMoves
  <2>2. PICK m \in Mints : /\ ~Taken(m) /\ mint'[m].status = "pending"
                          /\ \A x \in Mints \ {m} : mint'[x] = mint[x]
    BY <1>0, <1>2, InsertMoves
  <2>3. /\ client[c].pc = "write" /\ client[c].deduction \in Deductions
        /\ client'[c].deduction = client[c].deduction
        /\ client'[c].pc \in {"write", "history"} => history' = history
        /\ \A d \in Deductions : d # client[c].deduction => history'[d] = history[d]
    BY <1>0, <1>2, InsertMoves
  <2>4. client[c].deduction \in Held(c) /\ history[client[c].deduction].mint = NoMint
    BY <1>0, <2>3 DEF Held, FreshRow
  <2>5. FreshRow'
    BY <1>0, <2>1, <2>3, <2>4, FreshFrame
  <2> QED BY <2>1, <2>2, <2>5, ResultsFrame
<1>3. CASE CommitEditionHistory(c) \/ CommitQueuedMint(c)
  <2> PICK d, m : d = client[c].deduction /\ m = client[c].mint
    OBVIOUS
  <2>1. /\ Grows /\ UNCHANGED <<submission, handler>>
        /\ \A e \in Clients \ {c} : client'[e] = client[e]
        /\ client'[c].pc \in {"deduct", "send"}
    BY <1>0, <1>3, CommitMoves
  <2>2. /\ d \in Deductions /\ history[d].mint = NoMint /\ history'[d].mint = m
        /\ client[c].pc \in {"write", "history"}
        /\ \A x \in Deductions : x # d => history'[x] = history[x]
    BY <1>0, <1>3, CommitMoves
  <2>3. \A x \in Mints : mint'[x] = mint[x] \/ (x = m /\ mint'[x].status = "pending")
    BY <1>0, <1>3, CommitMoves
  <2>4. d \in Held(c)
    BY <2>2 DEF Held
  <2>5. FreshRow'
    BY <1>0, <2>1, <2>2, <2>4, FreshFrame
  <2>6. ASSUME NEW x \in Deductions, m \in Mints, history[x].mint = m PROVE TwoRows(m)'
    <3>1. x # d
      BY <2>2, <2>6, NullAssumption
    <3>2. history'[x].mint = m
      BY <2>2, <2>6, <3>1
    <3> QED BY <2>2, <3>1, <3>2 DEF TwoRows
  <2>7. ASSUME NEW x \in Mints
        PROVE  \/ mint'[x].status # "created" /\ \A y \in Deductions : history[y].mint = x => TwoRows(x)'
               \/ mint'[x] = mint[x]
    BY <2>3, <2>6
  <2> QED BY <2>1, <2>5, <2>7, ResultsFrame
<1>4. CASE OtherStep(c)
  <2>1. /\ Grows /\ UNCHANGED <<charge, history, handler>>
        /\ \A m \in Mints :
             \/ mint'[m] = mint[m]
             \/ mint'[m].status # "created" /\ mint'[m].deduction = mint[m].deduction
        /\ \A s \in Submissions : ~Unsent(s) => submission'[s] = submission[s]
    BY <1>0, <1>4, OtherMoves
  <2>2. /\ \A e \in Clients \ {c} : client'[e] = client[e]
        /\ client'[c].pc # "history"
        /\ client'[c].pc = "write" => client'[c].deduction = NoDeduction
    BY <1>0, <1>4, OtherMoves
  <2>3. FreshRow'
    BY <1>0, <2>1, <2>2, FreshFrame, NullAssumption
  <2>4. \A s \in Submissions : handler[s].pc # "waiting" => submission'[s] = submission[s]
    BY <1>0, <2>1 DEF IInv, HandlerOK, Unsent
  <2> QED BY <2>1, <2>3, <2>4, ResultsFrame
<1> QED BY <1>1, <1>2, <1>3, <1>4 DEF Request, OtherStep


LEMMA JobRInv ==
  ASSUME RInv, Job
  PROVE  FreshRow' /\ RecordedOK' /\ NamedOK' /\ CreatedIsConfirmed'
<1>1. UNCHANGED <<mint, history, charge, handler, client>>
  BY DEF Job, SaveUri, SubmitFromJob
<1>2. FreshRow'
  BY <1>1 DEF RInv, FreshRow
<1>3. \A s \in Submissions : ~Unsent(s) => submission'[s] = submission[s]
  <2>1. CASE SaveUri
    BY <2>1 DEF SaveUri
  <2>2. CASE SubmitFromJob
    <3>1. PICK m \in uri, s \in Submissions :
            /\ Unsent(s)
            /\ submission' = [submission EXCEPT ![s] = Sent(m, mint[m].deduction, "job")]
      BY <2>2 DEF SubmitFromJob
    <3> QED BY <3>1 DEF RInv, IInv, TypeOK
  <2> QED BY <2>1, <2>2 DEF Job
<1>4. \A s \in Submissions : handler[s].pc # "waiting" => submission'[s] = submission[s]
  BY <1>3 DEF RInv, IInv, HandlerOK, Unsent
<1> QED BY <1>1, <1>2, <1>4, UnchangedGrows, ResultsFrame DEF Grows

LEMMA ExecuteRInv ==
  ASSUME RInv, NEW s \in Submissions, Execute(s)
  PROVE  FreshRow' /\ RecordedOK' /\ NamedOK' /\ CreatedIsConfirmed'
<1>1. UNCHANGED <<mint, history, charge, handler, client>>
  BY DEF Execute
<1>2. FreshRow'
  BY <1>1 DEF RInv, FreshRow
<1>3. submission[s].state = "sent" /\ \A t \in Submissions \ {s} : submission'[t] = submission[t]
  BY DEF Execute, RInv, IInv, TypeOK
<1>4. \A t \in Submissions : handler[t].pc # "waiting" => submission'[t] = submission[t]
  BY <1>3 DEF RInv, IInv, HandlerOK
<1> QED BY <1>1, <1>2, <1>4, UnchangedGrows, ResultsFrame DEF Grows

\* A step of the handler of s: what it has to show for its own delivery and for the mints.
LEMMA HandlerFrame ==
  ASSUME RInv, Grows, NEW s \in Submissions, UNCHANGED <<submission, client>>,
         \A t \in Submissions \ {s} : handler'[t] = handler[t],
         \A d \in Deductions : history'[d].mint = history[d].mint,
         \A m \in Mints : mint'[m].deduction = mint[m].deduction,
         Recorded(s)',
         handler'[s].pc # "waiting" =>
           \A m \in Mints : m = submission[s].mint =>
             handler'[s].deduction = mint[m].deduction \/ TwoRows(m),
         \A m \in Mints : mint'[m].status = "created" =>
           \/ mint[m].status = "created"
           \/ mint[m].deduction \in Deductions /\ charge[mint[m].deduction].state = "confirmed"
           \/ TwoRows(m)
  PROVE  FreshRow' /\ RecordedOK' /\ NamedOK' /\ CreatedIsConfirmed'
<1>1. FreshRow'
  BY DEF RInv, FreshRow
<1>2. RecordedOK'
  BY DeliveryFrame DEF RecordedOK
<1>3. NamedOK'
  <2> SUFFICES ASSUME NEW t \in Submissions, handler'[t].pc # "waiting",
                      NEW m \in Mints, m = submission[t].mint
               PROVE  handler'[t].deduction = mint'[m].deduction \/ TwoRows(m)'
    BY DEF NamedOK
  <2>1. handler'[t].deduction = mint[m].deduction \/ TwoRows(m)
    BY DEF RInv, NamedOK
  <2> QED BY <2>1, TwoRowsGrow DEF Grows
<1>4. CreatedIsConfirmed'
  <2> SUFFICES ASSUME NEW m \in Mints, mint'[m].status = "created"
               PROVE  charge'[mint'[m].deduction].state = "confirmed" \/ TwoRows(m)'
    BY DEF CreatedIsConfirmed, TwoRows
  <2>1. mint[m].status = "created" =>
          /\ mint[m].deduction \in Deductions
          /\ charge[mint[m].deduction].state = "confirmed" \/ TwoRows(m)
    BY DEF RInv, CreatedIsConfirmed, TwoRows, IInv, MintOK, Taken, Paid
  <2> QED BY <2>1, TwoRowsGrow DEF Grows, ChargeGrows
<1> QED BY <1>1, <1>2, <1>3, <1>4

LEMMA ReadResultRInv ==
  ASSUME RInv, NEW s \in Submissions, ReadResult(s)
  PROVE  FreshRow' /\ RecordedOK' /\ NamedOK' /\ CreatedIsConfirmed'
<1>1. PICK d \in Deductions : handler' = [handler EXCEPT ![s] =
        [pc |-> "read", deduction |-> mint[submission[s].mint].deduction, history |-> d]]
  BY DEF ReadResult
<1>2. UNCHANGED <<mint, history, charge, submission, client>>
  BY DEF ReadResult
<1>3. /\ handler'[s].pc = "read" /\ handler'[s].deduction = mint[submission[s].mint].deduction
      /\ \A t \in Submissions \ {s} : handler'[t] = handler[t]
  BY <1>1 DEF RInv, IInv, TypeOK
<1>4. Recorded(s)'
  BY <1>3 DEF Recorded
<1> QED BY <1>2, <1>3, <1>4, UnchangedGrows, HandlerFrame DEF Grows

LEMMA ConfirmDeductionRInv ==
  ASSUME RInv, NEW s \in Submissions, ConfirmDeduction(s)
  PROVE  FreshRow' /\ RecordedOK' /\ NamedOK' /\ CreatedIsConfirmed'
<1>1. /\ UNCHANGED <<mint, history, submission, client>> /\ handler[s].pc = "read"
      /\ charge' = [charge EXCEPT ![handler[s].deduction].state = "confirmed"]
  BY DEF ConfirmDeduction
<1>2. /\ handler'[s].pc = "confirmed" /\ handler'[s].deduction = handler[s].deduction
      /\ \A t \in Submissions \ {s} : handler'[t] = handler[t]
  BY DEF ConfirmDeduction, RInv, IInv, TypeOK
<1>3. /\ charge'[handler[s].deduction].state = "confirmed"
      /\ \A d \in Deductions \ {handler[s].deduction} : charge'[d] = charge[d]
  <2>1. handler[s].deduction \in Deductions
    BY <1>1 DEF RInv, IInv, HandlerOK, Paid
  <2> QED BY <1>1, <2>1 DEF RInv, IInv, TypeOK, Charge
<1>4. Recorded(s)'
  BY <1>2, <1>3 DEF Recorded
<1>5. ChargeGrows
  BY <1>3 DEF ChargeGrows
<1>6. \A m \in Mints : m = submission[s].mint =>
        handler[s].deduction = mint[m].deduction \/ TwoRows(m)
  BY <1>1 DEF RInv, NamedOK
<1> QED BY <1>1, <1>2, <1>4, <1>5, <1>6, UnchangedGrows, HandlerFrame DEF Grows

LEMMA WriteMintRInv ==
  ASSUME RInv, NEW s \in Submissions, WriteMint(s)
  PROVE  FreshRow' /\ RecordedOK' /\ NamedOK' /\ CreatedIsConfirmed'
<1> PICK m : m = submission[s].mint
  OBVIOUS
<1>1. /\ UNCHANGED <<history, charge, submission, client>>
      /\ handler[s].pc \in {"read", "confirmed"}
  BY DEF WriteMint
<1>2. m \in Mints /\ handler[s].deduction \in Deductions
  BY <1>1 DEF RInv, IInv, HandlerOK, SubmissionOK, Paid, Taken
<1>3. /\ handler'[s].pc = "mint_written" /\ handler'[s].deduction = handler[s].deduction
      /\ \A t \in Submissions \ {s} : handler'[t] = handler[t]
  BY DEF WriteMint, RInv, IInv, TypeOK
<1>4. /\ mint'[m].deduction = mint[m].deduction
      /\ \A x \in Mints \ {m} : mint'[x] = mint[x]
      /\ \/ /\ handler[s].pc = "confirmed" /\ mint'[m].signature = s
         \/ /\ submission[s].state = "failed" /\ mint'[m].status = "failed"
            /\ mint'[m].signature = mint[m].signature
  BY <1>2 DEF WriteMint, RInv, IInv, TypeOK, MintRow
<1>5. MintGrows
  BY <1>4, NullAssumption DEF MintGrows
<1>6. Recorded(s)'
  <2>1. submission[s].state = "succeeded" => handler[s].pc = "confirmed" /\ mint'[m].signature = s
    BY <1>4
  <2>2. submission[s].state = "succeeded" => charge[handler[s].deduction].state = "confirmed"
    BY <2>1 DEF RInv, RecordedOK, Recorded
  <2> QED BY <1>1, <1>3, <2>1, <2>2, NullAssumption DEF Recorded
<1>7. \A x \in Mints : x = submission[s].mint =>
        handler[s].deduction = mint[x].deduction \/ TwoRows(x)
  BY <1>1 DEF RInv, NamedOK
<1>8. ASSUME NEW x \in Mints, mint'[x].status = "created"
      PROVE  \/ mint[x].status = "created"
             \/ mint[x].deduction \in Deductions /\ charge[mint[x].deduction].state = "confirmed"
             \/ TwoRows(x)
  <2>1. CASE x # m
    BY <1>4, <1>8, <2>1
  <2>2. CASE x = m
    <3>1. handler[s].pc = "confirmed"
      BY <1>4, <1>8, <2>2
    <3>2. submission[s].state = "succeeded"
      BY <3>1 DEF RInv, IInv, HandlerOK
    <3>3. charge[handler[s].deduction].state = "confirmed"
      BY <3>1, <3>2 DEF RInv, RecordedOK, Recorded
    <3> QED BY <1>2, <1>7, <2>2, <3>3
  <2> QED BY <2>1, <2>2
<1>9. Grows /\ \A d \in Deductions : history'[d].mint = history[d].mint
  BY <1>1, <1>5, UnchangedGrows DEF Grows
<1>10. \A x \in Mints : mint'[x].deduction = mint[x].deduction
  BY <1>4
<1> QED BY <1>1, <1>3, <1>6, <1>7, <1>8, <1>9, <1>10, HandlerFrame

LEMMA WriteHistoryRInv ==
  ASSUME RInv, NEW s \in Submissions, WriteHistory(s)
  PROVE  FreshRow' /\ RecordedOK' /\ NamedOK' /\ CreatedIsConfirmed'
<1> PICK h : h = handler[s].history
  OBVIOUS
<1>1. UNCHANGED <<mint, charge, submission, client>> /\ handler[s].pc = "mint_written"
  BY DEF WriteHistory
<1>2. h \in Deductions
  BY <1>1 DEF RInv, IInv, HandlerOK
<1>3. /\ handler'[s].pc = "history_written" /\ handler'[s].deduction = handler[s].deduction
      /\ handler'[s].history = h
      /\ \A t \in Submissions \ {s} : handler'[t] = handler[t]
  BY DEF WriteHistory, RInv, IInv, TypeOK
<1>4. /\ history'[h].mint = history[h].mint
      /\ \A d \in Deductions \ {h} : history'[d] = history[d]
      /\ IF submission[s].state = "succeeded"
         THEN history'[h].signature = s
         ELSE history'[h].signature = history[h].signature
  BY <1>2 DEF WriteHistory, RInv, IInv, TypeOK, HistoryRow
<1>5. HistoryGrows
  BY <1>4, NullAssumption DEF HistoryGrows
<1>6. Recorded(s)'
  BY <1>1, <1>3, <1>4, NullAssumption DEF RInv, RecordedOK, Recorded
<1>7. \A m \in Mints : m = submission[s].mint =>
        handler[s].deduction = mint[m].deduction \/ TwoRows(m)
  BY <1>1 DEF RInv, NamedOK
<1>8. Grows /\ \A d \in Deductions : history'[d].mint = history[d].mint
  BY <1>1, <1>4, <1>5, UnchangedGrows DEF Grows
<1> QED BY <1>1, <1>3, <1>6, <1>7, <1>8, HandlerFrame

LEMMA EndRInv ==
  ASSUME RInv, NEW s \in Submissions, Acknowledge(s) \/ HandlerFails(s)
  PROVE  FreshRow' /\ RecordedOK' /\ NamedOK' /\ CreatedIsConfirmed'
<1>1. UNCHANGED <<mint, history, charge, submission, client>>
  BY DEF Acknowledge, HandlerFails
<1>2. \A t \in Submissions \ {s} : handler'[t] = handler[t]
  BY DEF Acknowledge, HandlerFails, RInv, IInv, TypeOK
<1>3. \/ handler'[s].pc = "waiting"
      \/ /\ handler[s].pc = "history_written" /\ handler'[s].pc = "acked"
         /\ handler'[s].deduction = handler[s].deduction
         /\ handler'[s].history = handler[s].history
  <2>1. CASE Acknowledge(s)
    BY <2>1 DEF Acknowledge, RInv, IInv, TypeOK
  <2>2. CASE HandlerFails(s)
    BY <2>2 DEF HandlerFails, Waiting, RInv, IInv, TypeOK
  <2> QED BY <2>1, <2>2
<1>4. Recorded(s)'
  BY <1>1, <1>3 DEF Recorded, RInv, RecordedOK
<1>5. handler'[s].pc # "waiting" =>
        \A m \in Mints : m = submission[s].mint =>
          handler'[s].deduction = mint[m].deduction \/ TwoRows(m)
  BY <1>3 DEF RInv, NamedOK
<1> QED BY <1>1, <1>2, <1>4, <1>5, UnchangedGrows, HandlerFrame DEF Grows

LEMMA SpecRInv == Spec => []RInv
<1>1. Init => RInv
  <2> SUFFICES ASSUME Init PROVE RInv
    OBVIOUS
  <2>1. FreshRow /\ RecordedOK /\ NamedOK
    BY DEF Init, Idle, Waiting, FreshRow, RecordedOK, Recorded, NamedOK
  <2>2. CreatedIsConfirmed
    BY DEF Init, CreatedIsConfirmed
  <2> QED BY <2>1, <2>2, InitIInv DEF RInv
<1>2. RInv /\ [Next]_vars => RInv'
  <2> SUFFICES ASSUME RInv, [Next]_vars PROVE RInv'
    OBVIOUS
  <2>1. IInv'
    BY NextIInv DEF RInv
  <2>2. CASE \E c \in Clients : Request(c)
    BY <2>1, <2>2, RequestRInv DEF RInv
  <2>3. CASE Job
    BY <2>1, <2>3, JobRInv DEF RInv
  <2>4. CASE \E s \in Submissions : Execute(s) \/ Progress(s) \/ HandlerFails(s)
    BY <2>1, <2>4, ExecuteRInv, ReadResultRInv, ConfirmDeductionRInv, WriteMintRInv,
       WriteHistoryRInv, EndRInv DEF RInv, Progress
  <2>5. CASE UNCHANGED vars
    BY <2>1, <2>5 DEF RInv, vars, FreshRow, RecordedOK, Recorded, NamedOK, TwoRows,
       CreatedIsConfirmed
  <2> QED BY <2>2, <2>3, <2>4, <2>5 DEF Next
<1> QED BY <1>1, <1>2, PTL DEF Spec

\* However many deliveries of it failed half way, a success that has been acknowledged is
\* on the mint's row, on a history row and on a confirmed charge.
THEOREM AcknowledgedSuccessIsRecorded == Spec => []AcknowledgedIsRecorded
<1>1. RInv => AcknowledgedIsRecorded
  <2> SUFFICES ASSUME RInv, NEW s \in Submissions, handler[s].pc = "acked",
                      submission[s].state = "succeeded"
               PROVE  LET m == submission[s].mint
                      IN  /\ mint[m].signature # NoSubmission
                          /\ \E d \in Deductions : history[d].mint = m /\ history[d].signature # NoSubmission
                          /\ \E d \in Deductions : charge[d].mint = m /\ charge[d].state = "confirmed"
    BY DEF AcknowledgedIsRecorded
  <2>1. /\ Paid(handler[s].deduction, submission[s].mint) /\ handler[s].history \in Deductions
        /\ history[handler[s].history].mint = submission[s].mint
    BY DEF RInv, IInv, HandlerOK
  <2> QED BY <2>1 DEF RInv, RecordedOK, Recorded, Paid
<1> QED BY <1>1, SpecRInv, PTL

\* A mint that is shown CREATED has been paid for: the deduction its row names is
\* confirmed, unless two requests took the mint from the queue.
THEOREM CreatedMintIsPaid == Spec => []CreatedIsConfirmed
<1>1. RInv => CreatedIsConfirmed
  BY DEF RInv
<1> QED BY <1>1, SpecRInv, PTL

-----------------------------------------------------------------------------
(* One history row per mint.  Nothing keeps two requests that read a mint  *)
(* QUEUED from both taking it; without that, the record is unique.         *)

\* The transaction that takes a mint from the queue finds it still there.
TakesFindQueued ==
  \A c \in Clients : CommitQueuedMint(c) => mint[client[c].mint].status = "queued"

\* The mint a history row belongs to names the deduction of that row.
OneRow ==
  /\ \A d \in Deductions : history[d].mint # NoMint => mint[history[d].mint].deduction = d
  /\ \A d \in Deductions : history[d].status # "absent" => history[d].mint # NoMint

\* So does the mint of an edition whose row is still to be inserted.
EditionOK ==
  \A c \in Clients : client[c].pc = "history" =>
    mint[client[c].mint].deduction = client[c].deduction

HInv == RInv /\ OneRow /\ EditionOK

LEMMA OneRowFrame ==
  ASSUME HInv,
         \A m \in Mints : Taken(m) => mint'[m].deduction = mint[m].deduction,
         \A d \in Deductions : /\ history'[d].mint = history[d].mint
                               /\ history'[d].status # "absent" => history[d].mint # NoMint,
         \A c \in Clients : client'[c].pc = "history" => client'[c] = client[c]
  PROVE  OneRow' /\ EditionOK'
<1>1. OneRow'
  BY DEF HInv, RInv, IInv, HistoryOK, OneRow, Taken
<1>2. EditionOK'
  BY DEF HInv, RInv, IInv, ClientOK, RequestOK, EditionOK, Taken
<1> QED BY <1>1, <1>2

LEMMA InsertOneRow ==
  ASSUME HInv, NEW c \in Clients, InsertEdition(c) \/ CommitMintToCollection(c)
  PROVE  OneRow' /\ EditionOK'
<1> PICK d : d = client[c].deduction
  OBVIOUS
<1>1. IInv /\ TypeOK /\ RequestOK(c)
  BY DEF HInv, RInv, IInv, ClientOK
<1>2. PICK m \in Mints, next \in {"history", "enqueue"}, compressed \in BOOLEAN :
        /\ mint[m].status = "absent"
        /\ mint' = [mint EXCEPT ![m] = PendingMint(d, compressed)]
        /\ client' = [client EXCEPT ![c].mint = m, ![c].pc = next]
        /\ \/ next = "history" /\ history' = history
           \/ next = "enqueue" /\ history' = [history EXCEPT ![d] = PendingHistory(m)]
  BY DEF InsertEdition, CommitMintToCollection
<1>3. d \in Deductions
  BY <1>1 DEF InsertEdition, CommitMintToCollection, RequestOK, NewMintOps, Paid
<1>4. /\ mint'[m].deduction = d /\ ~Taken(m)
      /\ \A x \in Mints \ {m} : mint'[x] = mint[x]
  BY <1>1, <1>2 DEF TypeOK, PendingMint, Taken
<1>5. \A x \in Deductions : history[x].mint # m
  BY <1>1, <1>2, <1>4, NullAssumption DEF IInv, HistoryOK
<1>6. /\ client'[c].mint = m /\ client'[c].deduction = d
      /\ \A e \in Clients \ {c} : client'[e] = client[e]
  BY <1>1, <1>2 DEF TypeOK, Client
<1>7. EditionOK'
  <2> SUFFICES ASSUME NEW e \in Clients, client'[e].pc = "history"
               PROVE  mint'[client'[e].mint].deduction = client'[e].deduction
    BY DEF EditionOK
  <2>1. CASE e = c
    BY <1>4, <1>6, <2>1
  <2>2. CASE e # c
    <3>1. /\ client'[e] = client[e] /\ Taken(client[e].mint)
          /\ mint[client[e].mint].deduction = client[e].deduction
      BY <1>1, <1>6, <2>2 DEF IInv, ClientOK, RequestOK, HInv, EditionOK
    <3> QED BY <1>4, <3>1 DEF Taken
  <2> QED BY <2>1, <2>2
<1>8. OneRow'
  <2>1. ASSUME NEW x \in Deductions, history'[x] = history[x]
        PROVE  /\ history'[x].mint # NoMint => mint'[history'[x].mint].deduction = x
               /\ history'[x].status # "absent" => history'[x].mint # NoMint
    BY <1>1, <1>4, <1>5, <2>1 DEF HInv, OneRow, IInv, HistoryOK, Taken
  <2>2. \A x \in Deductions :
          history'[x] = history[x] \/ (x = d /\ history'[x] = PendingHistory(m))
    BY <1>1, <1>2, <1>3 DEF TypeOK
  <2>3. PendingHistory(m).mint = m
    BY DEF PendingHistory
  <2> QED BY <1>4, <2>1, <2>2, <2>3, NullAssumption DEF OneRow
<1> QED BY <1>7, <1>8

LEMMA CommitOneRow ==
  ASSUME HInv, TakesFindQueued, NEW c \in Clients,
         CommitEditionHistory(c) \/ CommitQueuedMint(c)
  PROVE  OneRow' /\ EditionOK'
<1> PICK d, m : d = client[c].deduction /\ m = client[c].mint
  OBVIOUS
<1>1. IInv /\ TypeOK /\ RequestOK(c) /\ OneRow /\ EditionOK
  BY DEF HInv, RInv, IInv, ClientOK
<1>2. /\ d \in Deductions /\ m \in Mints
      /\ history' = [history EXCEPT ![d] = PendingHistory(m)]
  BY <1>1 DEF CommitEditionHistory, CommitQueuedMint, RequestOK, QueuedOps, TakesQueued, Paid, Taken
<1>3. /\ \A x \in Mints \ {m} : mint'[x] = mint[x]
      /\ mint'[m].deduction = d
      /\ Taken(m) => mint[m].deduction = d
      /\ \A x \in Deductions : x # d => history[x].mint # m
  <2>1. CASE CommitEditionHistory(c)
    <3>1. mint' = mint /\ mint[m].deduction = d
      BY <1>1, <2>1 DEF CommitEditionHistory, EditionOK
    <3> QED BY <1>1, <1>2, <3>1, NullAssumption DEF OneRow
  <2>2. CASE CommitQueuedMint(c)
    <3>1. mint[m].status = "queued"
      BY <2>2 DEF TakesFindQueued
    <3>2. \A x \in Deductions : history[x].mint # m
      BY <1>1, <1>2, <3>1, NullAssumption DEF IInv, HistoryOK, Taken
    <3>3. mint'[m].deduction = d /\ \A x \in Mints \ {m} : mint'[x] = mint[x]
      BY <1>1, <1>2, <2>2 DEF CommitQueuedMint, TypeOK, MintRow
    <3> QED BY <3>1, <3>2, <3>3 DEF Taken
  <2> QED BY <2>1, <2>2
<1>4. /\ history'[d].mint = m
      /\ \A x \in Deductions : x # d => history'[x] = history[x]
  BY <1>1, <1>2 DEF TypeOK, PendingHistory
<1>5. OneRow'
  <2> SUFFICES ASSUME NEW x \in Deductions
               PROVE  /\ history'[x].mint # NoMint => mint'[history'[x].mint].deduction = x
                      /\ history'[x].status # "absent" => history'[x].mint # NoMint
    BY DEF OneRow
  <2>1. CASE x = d
    BY <1>2, <1>3, <1>4, <2>1, NullAssumption
  <2>2. CASE x # d
    BY <1>1, <1>3, <1>4, <2>2 DEF OneRow, IInv, HistoryOK, Taken
  <2> QED BY <2>1, <2>2
<1>6. EditionOK'
  <2>1. /\ client'[c].pc # "history"
        /\ \A e \in Clients \ {c} : client'[e] = client[e]
    BY <1>1, CommitMoves DEF HInv, RInv
  <2> SUFFICES ASSUME NEW e \in Clients \ {c}, client[e].pc = "history"
               PROVE  mint'[client[e].mint].deduction = client[e].deduction
    BY <2>1 DEF EditionOK
  <2>2. Taken(client[e].mint) /\ mint[client[e].mint].deduction = client[e].deduction
    BY <1>1 DEF IInv, ClientOK, RequestOK, EditionOK
  <2> QED BY <1>3, <2>2 DEF Taken
<1> QED BY <1>5, <1>6

LEMMA RequestOneRow ==
  ASSUME HInv, TakesFindQueued, NEW c \in Clients, Request(c)
  PROVE  OneRow' /\ EditionOK'
<1>0. IInv /\ FreshRow /\ OneRow
  BY DEF HInv, RInv
<1>1. CASE DeductForNew(c) \/ DeductForRetry(c) \/ DeductForQueued(c)
  <2>1. /\ UNCHANGED <<mint, history>> /\ client'[c].pc # "history"
        /\ \A e \in Clients \ {c} : client'[e] = client[e]
    BY <1>0, <1>1, DeductMoves
  <2> QED BY <1>0, <2>1, OneRowFrame DEF OneRow
<1>2. CASE InsertEdition(c) \/ CommitMintToCollection(c)
  BY <1>2, InsertOneRow
<1>3. CASE CommitEditionHistory(c) \/ CommitQueuedMint(c)
  BY <1>3, CommitOneRow
<1>4. CASE OtherStep(c)
  <2>1. /\ history' = history /\ client'[c].pc # "history"
        /\ \A m \in Mints : mint'[m].deduction = mint[m].deduction
        /\ \A e \in Clients \ {c} : client'[e] = client[e]
    BY <1>0, <1>4, OtherMoves
  <2> QED BY <1>0, <2>1, OneRowFrame DEF OneRow
<1> QED BY <1>1, <1>2, <1>3, <1>4 DEF Request, OtherStep

LEMMA ResultOneRow ==
  ASSUME HInv, NEW s \in Submissions, Progress(s)
  PROVE  OneRow' /\ EditionOK'
<1>0. TypeOK /\ HandlerOK /\ OneRow /\ IInv
  BY DEF HInv, RInv, IInv
<1>1. client' = client
  BY DEF Progress, ReadResult, ConfirmDeduction, WriteMint, WriteHistory, Acknowledge
<1>2. CASE WriteMint(s)
  <2>1. \A m \in Mints : mint'[m].deduction = mint[m].deduction
    <3> PICK m : m = submission[s].mint
      OBVIOUS
    <3>1. m \in Mints
      BY <1>0, <1>2 DEF WriteMint, HandlerOK, IInv, SubmissionOK, Taken
    <3>2. /\ mint'[m].deduction = mint[m].deduction
          /\ \A x \in Mints \ {m} : mint'[x] = mint[x]
      BY <1>0, <1>2, <3>1 DEF WriteMint, TypeOK, MintRow
    <3> QED BY <3>2
  <2>2. history' = history
    BY <1>2 DEF WriteMint
  <2> QED BY <1>0, <1>1, <2>1, <2>2, OneRowFrame DEF OneRow
<1>3. CASE WriteHistory(s)
  <2> PICK h : h = handler[s].history
    OBVIOUS
  <2>1. h \in Deductions /\ history[h].mint # NoMint
    BY <1>0, <1>3, NullAssumption DEF WriteHistory, HandlerOK, IInv, SubmissionOK, Taken
  <2>2. /\ history'[h].mint = history[h].mint
        /\ \A d \in Deductions \ {h} : history'[d] = history[d]
    BY <1>0, <1>3 DEF WriteHistory, TypeOK, HistoryRow
  <2>3. mint' = mint
    BY <1>3 DEF WriteHistory
  <2> QED BY <1>0, <1>1, <2>1, <2>2, <2>3, OneRowFrame DEF OneRow
<1>4. CASE ReadResult(s) \/ ConfirmDeduction(s) \/ Acknowledge(s)
  <2>1. UNCHANGED <<mint, history>>
    BY <1>4 DEF ReadResult, ConfirmDeduction, Acknowledge
  <2> QED BY <1>0, <1>1, <2>1, OneRowFrame DEF OneRow
<1> QED BY <1>2, <1>3, <1>4 DEF Progress

LEMMA SpecOneRow == Spec /\ [][TakesFindQueued]_vars => [](RInv /\ OneRow)
<1>1. Init => OneRow /\ EditionOK
  BY DEF Init, Idle, OneRow, EditionOK
<1>2. OneRow /\ EditionOK /\ RInv /\ [Next]_vars /\ [TakesFindQueued]_vars => (OneRow /\ EditionOK)'
  <2> SUFFICES ASSUME HInv, [Next]_vars, [TakesFindQueued]_vars PROVE OneRow' /\ EditionOK'
    BY DEF HInv
  <2>1. CASE \E c \in Clients : Request(c)
    <3>1. PICK c \in Clients : Request(c)
      BY <2>1
    <3>2. CASE TakesFindQueued
      BY <3>1, <3>2, RequestOneRow
    <3>3. CASE UNCHANGED vars
      BY <3>3 DEF vars, HInv, OneRow, EditionOK
    <3> QED BY <3>2, <3>3
  <2>2. CASE Job \/ \E s \in Submissions : Execute(s) \/ HandlerFails(s)
    <3>1. UNCHANGED <<mint, history, client>>
      BY <2>2 DEF Job, SaveUri, SubmitFromJob, Execute, HandlerFails
    <3> QED BY <3>1 DEF HInv, OneRow, EditionOK
  <2>3. CASE \E s \in Submissions : Progress(s)
    BY <2>3, ResultOneRow
  <2>4. CASE UNCHANGED vars
    BY <2>4 DEF vars, HInv, OneRow, EditionOK
  <2> QED BY <2>1, <2>2, <2>3, <2>4 DEF Next
<1> QED BY <1>1, <1>2, SpecRInv, PTL DEF Spec

\* As long as each mint is still queued when it is taken from the queue, mint_histories has
\* one row per mint, whatever editions, retries, jobs and results do meanwhile.
THEOREM HistoryIsUnique == Spec /\ [][TakesFindQueued]_vars => []OneHistoryPerMint
<1>1. OneRow => OneHistoryPerMint
  <2> SUFFICES ASSUME OneRow, NEW d \in Deductions, NEW e \in Deductions,
                      history[d].status # "absent", history[d].mint = history[e].mint
               PROVE  d = e
    BY DEF OneHistoryPerMint
  <2>1. history[d].mint # NoMint /\ history[e].mint # NoMint
    BY DEF OneRow
  <2>2. mint[history[d].mint].deduction = d /\ mint[history[e].mint].deduction = e
    BY <2>1 DEF OneRow
  <2> QED BY <2>2
<1> QED BY <1>1, SpecOneRow, PTL

\* Under the same condition a mint that is shown CREATED has been paid for by the very
\* deduction that its row names.
THEOREM CreatedMintIsPaidByItsRow ==
  Spec /\ [][TakesFindQueued]_vars =>
    [](\A m \in Mints : mint[m].status = "created" =>
                           charge[mint[m].deduction].state = "confirmed")
<1>1. RInv /\ OneRow =>
        \A m \in Mints : mint[m].status = "created" =>
                            charge[mint[m].deduction].state = "confirmed"
  <2> SUFFICES ASSUME RInv, OneRow, NEW m \in Mints, mint[m].status = "created",
                      NEW d \in Deductions, NEW e \in Deductions,
                      d # e, history[d].mint = m, history[e].mint = m
               PROVE  FALSE
    BY DEF RInv, CreatedIsConfirmed
  <2> QED BY NullAssumption DEF OneRow
<1> QED BY <1>1, SpecOneRow, PTL

\* With one request at a time, the mints a request has read QUEUED are queued until it
\* takes them itself.
QueueKept ==
  \A c \in Clients : client[c].op \in QueuedOps =>
    /\ client[c].todo \in SUBSET {m \in Mints : mint[m].status = "queued"}
    /\ client[c].pc = "write" => client[c].mint \in client[c].todo

\* Requests that run one after another never give a mint a second history row.
THEOREM HistoryIsUniqueAlone ==
  ASSUME \A c, e \in Clients : c = e
  PROVE  Spec => []OneHistoryPerMint
<1>1. Init => QueueKept
  BY DEF Init, Idle, QueueKept, QueuedOps
<1>2. IInv /\ QueueKept /\ [Next]_vars => QueueKept'
  <2> SUFFICES ASSUME IInv, QueueKept, [Next]_vars PROVE QueueKept'
    OBVIOUS
  <2>0. TypeOK
    BY DEF IInv
  <2>1. ASSUME NEW c \in Clients, Request(c) PROVE QueueKept'
    <3>0. \A e \in Clients : e = c
      OBVIOUS
    <3> SUFFICES ASSUME client'[c].op \in QueuedOps
                 PROVE  /\ client'[c].todo \in SUBSET {m \in Mints : mint'[m].status = "queued"}
                        /\ client'[c].pc = "write" => client'[c].mint \in client'[c].todo
      BY <3>0 DEF QueueKept
    <3>1. CASE MintEdition(c) \/ MintToCollection(c) \/ QueueMintToDrop(c)
      <4>1. client'[c].op \in {"mint_edition", "mint_to_collection", "queue_mint_to_drop"}
        BY <2>0, <3>1 DEF MintEdition, MintToCollection, QueueMintToDrop, Begin, TypeOK
      <4> QED BY <4>1 DEF QueuedOps
    <3>2. CASE RetryMintEdition(c) \/ RetryMintToCollection(c)
      <4>1. client'[c].op \in {"retry_mint_edition", "retry_mint_to_collection"}
        BY <2>0, <3>2 DEF RetryMintEdition, RetryMintToCollection, Begin, TypeOK
      <4> QED BY <4>1 DEF QueuedOps
    <3>3. CASE MintQueued(c) \/ MintRandomQueued(c)
      <4>1. PICK op, m : /\ m \in Mints /\ mint[m].status = "queued"
                         /\ Begin(c, op, "deduct", NoMint, {m})
        BY <2>0, <3>3 DEF MintQueued, MintRandomQueued, TypeOK
      <4>2. client'[c].todo = {m} /\ client'[c].pc = "deduct" /\ mint' = mint
        BY <2>0, <4>1 DEF Begin, TypeOK
      <4> QED BY <4>1, <4>2
    <3>4. CASE MintRandomQueuedBatched(c)
      <4>1. PICK batch \in SUBSET {m \in Mints : mint[m].status = "queued"} :
              Begin(c, "mint_random_queued_to_drop_batched", "deduct", NoMint, batch)
        BY <3>4 DEF MintRandomQueuedBatched
      <4>2. client'[c].todo = batch /\ client'[c].pc = "deduct" /\ mint' = mint
        BY <2>0, <4>1 DEF Begin, TypeOK
      <4> QED BY <4>2
    <3>5. CASE DeductForNew(c) \/ DeductForRetry(c)
      <4>1. client[c].op \notin QueuedOps
        BY <3>5 DEF DeductForNew, DeductForRetry, QueuedOps
      <4>2. CASE DeductForNew(c)
        BY <2>0, <4>1, <4>2 DEF DeductForNew, TypeOK, Client
      <4>3. CASE DeductForRetry(c)
        BY <2>0, <4>1, <4>3 DEF DeductForRetry, TypeOK, Client
      <4> QED BY <3>5, <4>2, <4>3
    <3>6. CASE DeductForQueued(c)
      <4>1. PICK d \in Deductions, m \in client[c].todo \cap uri :
              client' = [client EXCEPT ![c].deduction = d, ![c].mint = m, ![c].pc = "write"]
        BY <3>6 DEF DeductForQueued
      <4>2. /\ client'[c].op = client[c].op /\ client'[c].mint = m
            /\ client'[c].todo = client[c].todo /\ mint' = mint
        BY <2>0, <3>6, <4>1 DEF DeductForQueued, TypeOK, Client
      <4> QED BY <4>1, <4>2 DEF QueueKept
    <3>7. CASE InsertEdition(c) \/ CommitMintToCollection(c) \/ CommitQueueMint(c)
      <4>1. client'[c].op = client[c].op /\ client[c].op \notin QueuedOps
        <5>1. client[c].op \in {"mint_edition", "mint_to_collection", "queue_mint_to_drop"}
          BY <3>7 DEF InsertEdition, CommitMintToCollection, CommitQueueMint
        <5>2. \E m, pc : client' = [client EXCEPT ![c].mint = m, ![c].pc = pc]
          BY <3>7, Zenon DEF InsertEdition, CommitMintToCollection, CommitQueueMint
        <5>3. client'[c].op = client[c].op
          BY <2>0, <5>2 DEF TypeOK, Client
        <5> QED BY <5>1, <5>3 DEF QueuedOps
      <4> QED BY <4>1
    <3>8. CASE CommitEditionHistory(c)
      <4>1. /\ client'[c].op = client[c].op /\ client'[c].pc = "send"
            /\ client'[c].todo = client[c].todo /\ mint' = mint
        BY <2>0, <3>8 DEF CommitEditionHistory, TypeOK, Client
      <4> QED BY <4>1 DEF QueueKept
    <3>9. CASE CommitQueuedMint(c)
      <4> PICK m : m = client[c].mint
        OBVIOUS
      <4>1. \A x \in Mints \ {m} : mint'[x] = mint[x]
        BY <2>0, <3>9 DEF CommitQueuedMint, TypeOK
      <4>2. /\ client'[c].op = client[c].op /\ client'[c].todo = client[c].todo \ {m}
            /\ client'[c].pc \in {"send", "deduct"}
        BY <2>0, <3>9 DEF CommitQueuedMint, TypeOK, Client
      <4> QED BY <4>1, <4>2 DEF QueueKept
    <3>10. CASE Send(c)
      <4>1. client'[c].op = "none" \/ IsRetry(client'[c].op)
        BY <2>0, <3>10 DEF Send, Idle, TypeOK, Client
      <4> QED BY <4>1 DEF IsRetry, QueuedOps
    <3>11. CASE ResetToPending(c) \/ Enqueue(c) \/ GiveUp(c)
      <4>1. client'[c].op = "none"
        BY <2>0, <3>11 DEF ResetToPending, Enqueue, GiveUp, Idle, TypeOK
      <4> QED BY <4>1 DEF QueuedOps
    <3> QED BY <2>1, <3>1, <3>2, <3>3, <3>4, <3>5, <3>6, <3>7, <3>8, <3>9, <3>10, <3>11 DEF Request
  <2>2. CASE Job \/ \E s \in Submissions : Execute(s) \/ HandlerFails(s)
    <3>1. UNCHANGED <<mint, client>>
      BY <2>2 DEF Job, SaveUri, SubmitFromJob, Execute, HandlerFails
    <3> QED BY <3>1 DEF QueueKept
  <2>3. ASSUME NEW s \in Submissions, Progress(s) PROVE QueueKept'
    <3>1. client' = client
      BY <2>3 DEF Progress, ReadResult, ConfirmDeduction, WriteMint, WriteHistory, Acknowledge
    <3>2. \A m \in Mints : mint[m].status = "queued" => mint'[m] = mint[m]
      <4>1. CASE WriteMint(s)
        <5> PICK m : m = submission[s].mint
          OBVIOUS
        <5>1. Taken(m)
          BY <4>1 DEF WriteMint, IInv, HandlerOK, SubmissionOK
        <5>2. \A x \in Mints \ {m} : mint'[x] = mint[x]
          BY <2>0, <4>1 DEF WriteMint, TypeOK
        <5> QED BY <5>1, <5>2 DEF Taken
      <4>2. CASE ~WriteMint(s)
        BY <2>3, <4>2 DEF Progress, ReadResult, ConfirmDeduction, WriteHistory, Acknowledge
      <4> QED BY <4>1, <4>2
    <3> QED BY <3>1, <3>2 DEF QueueKept
  <2>4. CASE UNCHANGED vars
    BY <2>4 DEF vars, QueueKept
  <2> QED BY <2>1, <2>2, <2>3, <2>4 DEF Next
<1>3. QueueKept => TakesFindQueued
  BY DEF QueueKept, TakesFindQueued, CommitQueuedMint, TakesQueued, QueuedOps
<1> QED BY <1>1, <1>2, <1>3, SpecIInv, HistoryIsUnique, PTL DEF Spec
=============================================================================
