---------------------------- MODULE MintPromise ----------------------------
(***************************************************************************)
(* What minting promises to an organisation, whatever requests, jobs and   *)
(* event handlers do to get there:                                         *)
(*   - nothing is handed to a blockchain before it has been charged for;   *)
(*   - a charge is made final only for a mint that reached the chain;      *)
(*   - a mint is shown as created only with the signature of a transaction *)
(*     the chain executed for it.                                          *)
(* The promise leaves open whether a charge, a submission or a shown       *)
(* status follows at all.  MintLifecycle is shown to keep it.              *)
(***************************************************************************)
CONSTANTS Mints, Deductions, Submissions, NoMint, NoSubmission

VARIABLES
  credit,     \* how far each charge has come
  payee,      \* the mint each charge is for, once it is known
  asked,      \* the mint each submission is about
  minted,     \* submissions the chain has executed
  signature,  \* the signature shown for each mint
  created     \* mints shown as created

promise == <<credit, payee, asked, minted, signature, created>>

Init ==
  /\ credit = [d \in Deductions |-> "unused"]
  /\ payee = [d \in Deductions |-> NoMint]
  /\ asked = [s \in Submissions |-> NoMint]
  /\ minted = {}
  /\ signature = [m \in Mints |-> NoSubmission]
  /\ created = {}

\* A charge is opened, for a mint that exists or one still to come.
Charge(d) ==
  /\ credit[d] = "unused"
  /\ credit' = [credit EXCEPT ![d] = "pending"]
  /\ \E m \in Mints \cup {NoMint} : payee' = [payee EXCEPT ![d] = m]
  /\ UNCHANGED <<asked, minted, signature, created>>

Assign(d, m) ==
  /\ credit[d] # "unused" /\ payee[d] = NoMint
  /\ payee' = [payee EXCEPT ![d] = m]
  /\ UNCHANGED <<credit, asked, minted, signature, created>>

\* Some submissions go out at once, each paid for by a charge for its mint.
Ask(sent, pay) ==
  /\ \A s \in sent : asked[s] = NoMint /\ credit[pay[s]] # "unused" /\ payee[pay[s]] \in Mints
  /\ asked' = [s \in Submissions |-> IF s \in sent THEN payee[pay[s]] ELSE asked[s]]
  /\ UNCHANGED <<credit, payee, minted, signature, created>>

Execute(s) ==
  /\ asked[s] \in Mints
  /\ minted' = minted \cup {s}
  /\ UNCHANGED <<credit, payee, asked, signature, created>>

Confirm(d) ==
  /\ credit[d] # "unused" /\ payee[d] \in Mints
  /\ \E s \in minted : asked[s] = payee[d]
  /\ credit' = [credit EXCEPT ![d] = "confirmed"]
  /\ UNCHANGED <<payee, asked, minted, signature, created>>

Show(s) ==
  /\ s \in minted
  /\ signature' = [signature EXCEPT ![asked[s]] = s]
  /\ created' = created \cup {asked[s]}
  /\ UNCHANGED <<credit, payee, asked, minted>>

\* The status may be withdrawn again (a failure reported later, a retry).
Hide(m) ==
  /\ created' = created \ {m}
  /\ UNCHANGED <<credit, payee, asked, minted, signature>>

Next ==
  \/ \E d \in Deductions : Charge(d) \/ Confirm(d) \/ \E m \in Mints : Assign(d, m)
  \/ \E sent \in SUBSET Submissions : \E pay \in [sent -> Deductions] : Ask(sent, pay)
  \/ \E s \in Submissions : Execute(s) \/ Show(s)
  \/ \E m \in Mints : Hide(m)

Spec == Init /\ [][Next]_promise
=============================================================================
