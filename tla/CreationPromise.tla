-------------------------- MODULE CreationPromise --------------------------
(***************************************************************************)
(* What the creation of a collection or a drop promises, whatever retries, *)
(* jobs and event handlers do to get there.  Each thing that others can    *)
(* see happens only after the one before it:                               *)
(*   - the chain is asked for a collection only once it is charged for;    *)
(*   - the charge is made final only when the chain has made it;           *)
(*   - other services are told of it only when the charge is final;        *)
(*   - clients see it as created only when the services have been told,    *)
(*     with an address that is its own on the chain;                       *)
(*   - a drop is open only when its collection has such an address.        *)
(* What was shown may be withdrawn, by a failure reported later or by a    *)
(* retry, but charges, addresses and what others were told may not.        *)
(* Creation is shown to keep it.                                           *)
(***************************************************************************)
CONSTANTS Collections, DropCollections, Submissions, NoCollection, NoSubmission

VARIABLES
  credit,     \* how far the charge for each collection has come
  asked,      \* the collection each submission is about
  made,       \* submissions the chain has executed
  announced,  \* collections that other services were told of
  address,    \* the address shown for each collection
  created,    \* collections shown as created
  open        \* drops shown as created

promise == <<credit, asked, made, announced, address, created, open>>

Init ==
  /\ credit = [k \in Collections |-> "none"]
  /\ asked = [s \in Submissions |-> NoCollection]
  /\ made = {}
  /\ announced = {}
  /\ address = [k \in Collections |-> NoSubmission]
  /\ created = {}
  /\ open = {}

Charge(k) ==
  /\ credit[k] = "none"
  /\ credit' = [credit EXCEPT ![k] = "pending"]
  /\ UNCHANGED <<asked, made, announced, address, created, open>>

Ask(s, k) ==
  /\ asked[s] = NoCollection /\ credit[k] # "none"
  /\ asked' = [asked EXCEPT ![s] = k]
  /\ UNCHANGED <<credit, made, announced, address, created, open>>

Make(s) ==
  /\ asked[s] \in Collections
  /\ made' = made \cup {s}
  /\ UNCHANGED <<credit, asked, announced, address, created, open>>

Confirm(s) ==
  /\ s \in made
  /\ credit' = [credit EXCEPT ![asked[s]] = "confirmed"]
  /\ UNCHANGED <<asked, made, announced, address, created, open>>

Announce(k) ==
  /\ credit[k] = "confirmed"
  /\ announced' = announced \cup {k}
  /\ UNCHANGED <<credit, asked, made, address, created, open>>

Show(s) ==
  /\ s \in made /\ asked[s] \in announced
  /\ address' = [address EXCEPT ![asked[s]] = s]
  /\ created' = created \cup {asked[s]}
  /\ UNCHANGED <<credit, asked, made, announced, open>>

Open(k) ==
  /\ address[k] # NoSubmission
  /\ open' = open \cup {k}
  /\ UNCHANGED <<credit, asked, made, announced, address, created>>

Hide(k) ==
  /\ created' = created \ {k}
  /\ UNCHANGED <<credit, asked, made, announced, address, open>>

Close(k) ==
  /\ open' = open \ {k}
  /\ UNCHANGED <<credit, asked, made, announced, address, created>>

Next ==
  \/ \E k \in Collections : Charge(k) \/ Announce(k) \/ Hide(k)
  \/ \E k \in DropCollections : Open(k) \/ Close(k)
  \/ \E s \in Submissions :
       Make(s) \/ Confirm(s) \/ Show(s) \/ \E k \in Collections : Ask(s, k)

Spec == Init /\ [][Next]_promise
=============================================================================
