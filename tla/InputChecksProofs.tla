------------------------- MODULE InputChecksProofs -------------------------
(***************************************************************************)
(* Proofs about InputChecks: what is stored is what one accepted request   *)
(* gave, unless two replaced it at the same time, and little can fail once *)
(* a request is charged, for any number of requests, rows and inputs.      *)
(***************************************************************************)
EXTENDS InputChecks, TLAPS

USE InputsAssumption, AddressAssumption, TreasuryAssumption, LargestAssumption,
    NoValueAssumption

-----------------------------------------------------------------------------
(* The inductive invariant.                                                *)

Replacers == {"update_mint", "patch_collection", "patch_drop"}
Patches == {"patch_collection", "patch_drop"}

\* The verified creators of an accepted input.
Ours(chain, creators) ==
  chain = "solana" =>
    \A n \in DOMAIN creators :
      creators[n].verified => <<"solana", creators[n].address>> \in wallets

\* What a request was given has been accepted for the chain of its row.
Accepted(c) ==
  LET r == client[c] IN
  r.input.creators # NoValue =>
    ValidCreators(r.chain, r.input.creators) /\ Ours(r.chain, r.input.creators)

HasRow(c) ==
  LET r == client[c] IN
  /\ r.row # NoValue => stored[r.row] # NoValue /\ stored[r.row].chain = r.chain
  /\ r.op \in Replacers => r.row # NoValue
  /\ r.pc \in {"delete", "replace"} => r.op \in Replacers
  /\ r.op \notin Patches => r.input.creators # NoValue

\* A transaction replaces what is there, unless another one does.
SeenOK(c) ==
  LET r == client[c] IN
  r.pc = "replace" =>
    /\ r.input.creators = NoValue => r.seen = {}
    /\ r.input.creators # NoValue /\ r.row \notin raced => r.seen = stored[r.row].creators

Late(c) ==
  LET i == client[c].input IN
  client[c].pc = "refused" =>
    ~Fits(i.fee) \/ ~Fits(i.price) \/ GivenTwice(i.creators) \/ client[c].row \in raced

RequestOK(c) == client[c] # NoValue => Accepted(c) /\ HasRow(c) /\ SeenOK(c) /\ Late(c)

Gives(c, k) == Replacing(c, k) /\ client[c].input.creators # NoValue
Apart == \A c, d \in Clients : \A k \in Rows : c # d /\ Gives(c, k) /\ Gives(d, k) => k \in raced

IInv ==
  /\ TypeOK
  /\ \A c \in Clients : RequestOK(c)
  /\ Apart
  /\ VerifiedIsOurs
  /\ CreatorsAreOneRequests

-----------------------------------------------------------------------------
(* Facts about the operators.                                              *)

LEMMA InputType ==
  ASSUME NEW i \in Inputs
  PROVE  /\ i.creators # NoValue => i.creators \in Seq(Creator)
         /\ i \in Input
  BY DEF Input

\* A creator at another address.
LEMMA Moved ==
  ASSUME NEW x \in Creator, NEW a \in Addresses
  PROVE  /\ [x EXCEPT !.address = a] \in Creator
         /\ [x EXCEPT !.address = a].address = a
         /\ [x EXCEPT !.address = a].verified = x.verified
  BY DEF Creator

\* What is inserted are creators.
LEMMA GivenType ==
  ASSUME NEW i \in Inputs
  PROVE  /\ Given(i) \subseteq Creator
         /\ i.creators # NoValue => Lowered(i.creators) \subseteq Creator
  <1>1. CASE i.creators = NoValue
    BY <1>1 DEF Given
  <1>2. CASE i.creators # NoValue
    <2>1. i.creators \in Seq(Creator) BY <1>2, InputType
    <2>2. \A n \in DOMAIN i.creators : i.creators[n] \in Creator BY <2>1
    <2>3. Given(i) \subseteq Creator BY <1>2, <2>2 DEF Given
    <2>4. \A n \in DOMAIN i.creators : Normal[i.creators[n].address] \in Addresses
      BY <2>2 DEF Creator
    <2>5. Lowered(i.creators) \subseteq Creator
      <3> SUFFICES ASSUME NEW r \in Lowered(i.creators) PROVE r \in Creator
        OBVIOUS
      <3>1. PICK n \in DOMAIN i.creators :
              r = [i.creators[n] EXCEPT !.address = Normal[i.creators[n].address]]
        BY DEF Lowered
      <3> QED BY <2>2, <2>4, <3>1, Moved
    <2> QED BY <2>3, <2>5
  <1> QED BY <1>1, <1>2

\* On Solana what is inserted is what was given, and verified only if it is ours.
LEMMA VerifiedGiven ==
  ASSUME NEW i \in Inputs, i.creators # NoValue, ValidCreators("solana", i.creators),
         Ours("solana", i.creators),
         NEW r \in Given(i) \cup Lowered(i.creators), r.verified
  PROVE  <<"solana", r.address>> \in wallets
  <1>1. i.creators \in Seq(Creator) BY InputType
  <1>2. \A n \in DOMAIN i.creators :
          /\ i.creators[n] \in Creator
          /\ Normal[i.creators[n].address] = i.creators[n].address
    <2> TAKE n \in DOMAIN i.creators
    <2>1. i.creators[n].address \in WellFormed["solana"] BY DEF ValidCreators
    <2> QED BY <1>1, <2>1
  <1>3. PICK n \in DOMAIN i.creators : r.verified = i.creators[n].verified
                                       /\ r.address = i.creators[n].address
    <2>1. CASE r \in Given(i) BY <2>1 DEF Given
    <2>2. CASE r \in Lowered(i.creators)
      <3>1. PICK n \in DOMAIN i.creators :
              r = [i.creators[n] EXCEPT !.address = Normal[i.creators[n].address]]
        BY <2>2 DEF Lowered
      <3>2. i.creators[n] \in Creator /\ i.creators[n].address \in Addresses
        BY <1>2 DEF Creator
      <3>3. r = [i.creators[n] EXCEPT !.address = i.creators[n].address]
        BY <1>2, <3>1
      <3>4. r.address = i.creators[n].address BY <3>2, <3>3, Moved
      <3>5. r.verified = i.creators[n].verified BY <3>2, <3>3, Moved, Zenon
      <3> QED BY <3>4, <3>5
    <2> QED BY <2>1, <2>2
  <1> QED BY <1>3 DEF Ours

\* A step of another request that leaves the rows alone.
LEMMA OthersStay ==
  ASSUME NEW c, NEW d \in Clients, RequestOK(d), client'[d] = client[d],
         stored' = stored, wallets' = wallets, raced \subseteq raced'
  PROVE  RequestOK(d)'
  BY DEF RequestOK, Accepted, Ours, HasRow, SeenOK, Late

\* Nothing but a request changes, and it does not come to replace creators.
LEMMA RowsStay ==
  ASSUME IInv, UNCHANGED <<wallets, stored, raced>>, NEW c \in Clients,
         client' \in [Clients -> Client \cup {NoValue}],
         \A d \in Clients \ {c} : client'[d] = client[d],
         RequestOK(c)',
         client'[c] # NoValue => client'[c].pc # "replace"
  PROVE  IInv'
  <1>1. TypeOK' BY DEF IInv, TypeOK
  <1>2. \A d \in Clients : RequestOK(d)'
    <2> TAKE d \in Clients
    <2>1. CASE d = c BY <2>1
    <2>2. CASE d # c BY <2>2, OthersStay DEF IInv
    <2> QED BY <2>1, <2>2
  <1>3. Apart'
    <2>1. \A d \in Clients : \A k \in Rows : Gives(d, k)' => Gives(d, k)
      BY DEF Gives, Replacing
    <2> QED BY <2>1 DEF IInv, Apart
  <1>4. VerifiedIsOurs' BY DEF IInv, VerifiedIsOurs
  <1>5. CreatorsAreOneRequests' BY DEF IInv, CreatorsAreOneRequests
  <1> QED BY <1>1, <1>2, <1>3, <1>4, <1>5 DEF IInv

-----------------------------------------------------------------------------
(* The steps of a request.                                                 *)

\* A request that has been checked.
LEMMA Begins ==
  ASSUME IInv, NEW c \in Clients, NEW op \in Ops, NEW k \in Rows \cup {NoValue},
         NEW chain \in Chains, NEW i \in Inputs, NEW pc \in {"deduct", "delete"},
         Begin(c, op, k, chain, i, pc),
         k # NoValue => stored[k] # NoValue /\ stored[k].chain = chain,
         op \in Replacers => k # NoValue,
         pc = "delete" => op \in Replacers,
         op \notin Patches => i.creators # NoValue
  PROVE  IInv'
  <1> DEFINE r == [pc |-> pc, op |-> op, chain |-> chain, row |-> k, input |-> i, seen |-> {}]
  <1>1. client' = [client EXCEPT ![c] = r] /\ UNCHANGED <<wallets, stored, raced>>
    BY DEF Begin
  <1>2. r \in Client BY DEF Client
  <1>3. client' \in [Clients -> Client \cup {NoValue}]
    BY <1>1, <1>2 DEF IInv, TypeOK
  <1>4. client'[c] = r /\ \A d \in Clients \ {c} : client'[d] = client[d]
    BY <1>1 DEF IInv, TypeOK
  <1>5. i.creators # NoValue => ValidCreators(chain, i.creators) /\ Ours(chain, i.creators)
    <2>1. PICK owner \in Owners(chain) : Valid(chain, owner, i) BY DEF Begin
    <2> QED BY <2>1 DEF Owners, Valid, ValidVerification, Ours
  <1>6. RequestOK(c)'
    <2>1. Accepted(c)' BY <1>1, <1>4, <1>5 DEF Accepted, Ours
    <2>2. HasRow(c)' BY <1>1, <1>4 DEF HasRow
    <2>3. SeenOK(c)' /\ Late(c)' BY <1>4 DEF SeenOK, Late
    <2> QED BY <2>1, <2>2, <2>3 DEF RequestOK
  <1>7. client'[c].pc # "replace" BY <1>4
  <1> HIDE DEF r
  <1> QED BY <1>1, <1>3, <1>4, <1>6, <1>7, RowsStay

LEMMA Checks ==
  ASSUME IInv, NEW c \in Clients,
         \/ CreateCollection(c) \/ CreateDrop(c) \/ MintToCollection(c) \/ UpdateMint(c)
         \/ PatchCollection(c) \/ PatchDrop(c)
  PROVE  IInv'
  <1>0. /\ \A i \in Inputs : i.chain \in Chains
        /\ \A k \in Rows : stored[k] # NoValue => stored[k].chain \in Chains
    BY InputType DEF Input, IInv, TypeOK, Row
  <1>1. CASE CreateCollection(c)
    BY <1>0, <1>1, Begins DEF CreateCollection, Complete, Ops, Replacers, Patches
  <1>2. CASE CreateDrop(c)
    BY <1>0, <1>2, Begins DEF CreateDrop, Complete, Ops, Replacers, Patches
  <1>3. CASE MintToCollection(c)
    BY <1>0, <1>3, Begins
    DEF MintToCollection, CanMint, IsCollection, Complete, Ops, Replacers, Patches
  <1>4. CASE UpdateMint(c)
    BY <1>0, <1>4, Begins DEF UpdateMint, Complete, Ops, Replacers, Patches
  <1>5. CASE PatchCollection(c)
    BY <1>0, <1>5, Begins DEF PatchCollection, IsCollection, Ops, Replacers, Patches
  <1>6. CASE PatchDrop(c)
    BY <1>0, <1>6, Begins DEF PatchDrop, Ops, Replacers, Patches
  <1> QED BY <1>1, <1>2, <1>3, <1>4, <1>5, <1>6

LEMMA Deducts ==
  ASSUME IInv, NEW c \in Clients, Deduct(c)
  PROVE  IInv'
  <1> DEFINE pc == IF client[c].op = "update_mint" THEN "delete" ELSE "insert"
             r == [client[c] EXCEPT !.pc = pc]
  <1>1. client' = [client EXCEPT ![c] = r] /\ UNCHANGED <<wallets, stored, raced>>
    BY DEF Deduct
  <1>2. client[c] \in Client /\ client[c] # NoValue BY DEF IInv, TypeOK, Deduct
  <1>3. r \in Client BY <1>2 DEF Client
  <1>4. client' \in [Clients -> Client \cup {NoValue}]
    BY <1>1, <1>3 DEF IInv, TypeOK
  <1>5. client'[c] = r /\ \A d \in Clients \ {c} : client'[d] = client[d]
    BY <1>1 DEF IInv, TypeOK
  <1>6. /\ r.op = client[c].op /\ r.chain = client[c].chain /\ r.row = client[c].row
        /\ r.input = client[c].input /\ r.pc = pc
    BY <1>2 DEF Client
  <1>7. RequestOK(c)'
    <2>0. Accepted(c) /\ HasRow(c) BY <1>2 DEF IInv, RequestOK
    <2>1. Accepted(c)' BY <1>1, <1>5, <1>6, <2>0 DEF Accepted, Ours
    <2>2. HasRow(c)' BY <1>1, <1>5, <1>6, <2>0 DEF HasRow, Replacers
    <2>3. SeenOK(c)' /\ Late(c)' BY <1>5, <1>6 DEF SeenOK, Late
    <2> QED BY <2>1, <2>2, <2>3 DEF RequestOK
  <1>8. client'[c].pc # "replace" BY <1>5, <1>6
  <1> HIDE DEF r
  <1> QED BY <1>1, <1>4, <1>5, <1>7, <1>8, RowsStay

LEMMA Ends ==
  ASSUME IInv, NEW c \in Clients, End(c)
  PROVE  IInv'
  <1>1. client' = [client EXCEPT ![c] = NoValue] /\ UNCHANGED <<wallets, stored, raced>>
    BY DEF End, Done
  <1>2. client' \in [Clients -> Client \cup {NoValue}] BY <1>1 DEF IInv, TypeOK
  <1>3. client'[c] = NoValue /\ \A d \in Clients \ {c} : client'[d] = client[d]
    BY <1>1 DEF IInv, TypeOK
  <1>4. RequestOK(c)' BY <1>3 DEF RequestOK
  <1> QED BY <1>1, <1>2, <1>3, <1>4, RowsStay

-----------------------------------------------------------------------------
(* The steps that store.                                                   *)

\* A row that is added belongs to no request.
LEMMA Inserts ==
  ASSUME IInv, NEW c \in Clients, NEW op \in Ops, op \notin Replacers,
         NEW kind \in {"collection", "drop", "mint"}, NEW fits \in BOOLEAN,
         ~fits => ~Fits(client[c].input.fee) \/ ~Fits(client[c].input.price),
         Insert(c, op, kind, fits)
  PROVE  IInv'
  <1> DEFINE r == client[c]
             i == r.input
  <1>1. /\ r \in Client /\ r # NoValue /\ r.op = op /\ i \in Inputs /\ r.chain \in Chains
        /\ r.pc = "insert"
    BY DEF IInv, TypeOK, Insert, Client
  <1>2. Accepted(c) /\ HasRow(c) BY <1>1 DEF IInv, RequestOK
  <1>3. i.creators # NoValue /\ ValidCreators(r.chain, i.creators)
        /\ Ours(r.chain, i.creators)
    BY <1>1, <1>2 DEF Accepted, HasRow, Replacers, Patches
  <1>4. UNCHANGED <<wallets, raced>> BY DEF Insert
  <1>5. CASE ~(fits /\ ~GivenTwice(i.creators))
    <2> DEFINE s == [r EXCEPT !.pc = "refused"]
    <2>1. client' = [client EXCEPT ![c] = s] /\ stored' = stored
      BY <1>5 DEF Insert, Refuse
    <2>2. /\ s \in Client /\ s.pc = "refused" /\ s.op = r.op /\ s.chain = r.chain
          /\ s.row = r.row /\ s.input = i
      BY <1>1 DEF Client
    <2>3. client' \in [Clients -> Client \cup {NoValue}] BY <2>1, <2>2 DEF IInv, TypeOK
    <2>4. client'[c] = s /\ \A d \in Clients \ {c} : client'[d] = client[d]
      BY <2>1 DEF IInv, TypeOK
    <2>5. RequestOK(c)'
      <3>1. Accepted(c)' BY <1>2, <1>4, <2>2, <2>4 DEF Accepted, Ours
      <3>2. HasRow(c)' BY <1>2, <2>1, <2>2, <2>4 DEF HasRow
      <3>3. SeenOK(c)' BY <2>2, <2>4 DEF SeenOK
      <3>4. Late(c)' BY <1>5, <2>2, <2>4 DEF Late, Fits, GivenTwice
      <3> QED BY <3>1, <3>2, <3>3, <3>4 DEF RequestOK
    <2>6. client'[c].pc # "replace" BY <2>2, <2>4
    <2> HIDE DEF s
    <2> QED BY <1>4, <2>1, <2>3, <2>4, <2>5, <2>6, RowsStay
  <1>6. CASE fits /\ ~GivenTwice(i.creators)
    <2>1. PICK k \in Rows :
            /\ stored[k] = NoValue
            /\ stored' = [stored EXCEPT ![k] =
                 [kind |-> kind, chain |-> r.chain, created |-> FALSE,
                  creators |-> Lowered(i.creators),
                  compressed |-> kind = "mint" /\ i.compressed]]
            /\ client' = [client EXCEPT ![c] = NoValue]
      BY <1>6 DEF Insert, Done
    <2> DEFINE new == [kind |-> kind, chain |-> r.chain, created |-> FALSE,
                       creators |-> Lowered(i.creators),
                       compressed |-> kind = "mint" /\ i.compressed]
    <2>2. new \in Row
      <3>1. Lowered(i.creators) \subseteq Creator BY <1>1, <1>3, GivenType
      <3>2. i.compressed \in BOOLEAN BY <1>1, InputType DEF Input
      <3>3. (kind = "mint" /\ i.compressed) \in BOOLEAN BY <3>2
      <3> QED BY <1>1, <3>1, <3>3 DEF Row
    <2>3. /\ stored' \in [Rows -> Row \cup {NoValue}]
          /\ stored'[k].chain = r.chain /\ stored'[k].creators = Lowered(i.creators)
          /\ \A j \in Rows \ {k} : stored'[j] = stored[j]
      BY <2>1, <2>2 DEF IInv, TypeOK
    <2>4. /\ client' \in [Clients -> Client \cup {NoValue}] /\ client'[c] = NoValue
          /\ \A d \in Clients \ {c} : client'[d] = client[d]
      BY <2>1 DEF IInv, TypeOK
    <2>5. TypeOK' BY <1>4, <2>3, <2>4 DEF IInv, TypeOK
    <2>6. ASSUME NEW d \in Clients PROVE RequestOK(d)'
      <3>1. CASE client'[d] = NoValue BY <3>1 DEF RequestOK
      <3>2. CASE client'[d] # NoValue
        <4>1. client'[d] = client[d] /\ client[d] # NoValue BY <2>4, <3>2
        <4>2. Accepted(d) /\ HasRow(d) /\ SeenOK(d) /\ Late(d)
          BY <4>1 DEF IInv, RequestOK
        <4>3. client[d] \in Client BY <4>1 DEF IInv, TypeOK
        <4>4. client[d].row # NoValue =>
                client[d].row \in Rows /\ stored'[client[d].row] = stored[client[d].row]
          BY <2>1, <2>3, <4>2, <4>3 DEF HasRow, Client
        <4>5. Accepted(d)' BY <1>4, <4>1, <4>2 DEF Accepted, Ours
        <4>6. HasRow(d)' BY <4>1, <4>2, <4>4 DEF HasRow
        <4>7. SeenOK(d)'
          <5>1. client[d].pc = "replace" => client[d].row # NoValue BY <4>2 DEF HasRow
          <5> QED BY <1>4, <4>1, <4>2, <4>4, <5>1 DEF SeenOK
        <4>8. Late(d)' BY <1>4, <4>1, <4>2 DEF Late
        <4> QED BY <4>5, <4>6, <4>7, <4>8 DEF RequestOK
      <3> QED BY <3>1, <3>2
    <2>7. Apart'
      <3>1. \A d \in Clients : \A j \in Rows : Gives(d, j)' => Gives(d, j)
        BY <2>4 DEF Gives, Replacing
      <3> QED BY <1>4, <3>1 DEF IInv, Apart
    <2>8. VerifiedIsOurs'
      <3> SUFFICES ASSUME NEW j \in Rows, stored'[j] # NoValue, stored'[j].chain = "solana",
                          NEW x \in stored'[j].creators, x.verified
                   PROVE  <<"solana", x.address>> \in wallets'
        BY DEF VerifiedIsOurs
      <3>1. CASE j = k
        BY <1>1, <1>3, <1>4, <2>3, <3>1, VerifiedGiven
      <3>2. CASE j # k
        BY <1>4, <2>3, <3>2 DEF IInv, VerifiedIsOurs
      <3> QED BY <3>1, <3>2
    <2>9. CreatorsAreOneRequests'
      <3> SUFFICES ASSUME NEW j \in Rows, stored'[j] # NoValue, j \notin raced
                   PROVE  \E x \in Inputs :
                            /\ x.creators # NoValue
                            /\ ValidCreators(stored'[j].chain, x.creators)
                            /\ ~GivenTwice(x.creators)
                            /\ stored'[j].creators = Given(x)
                               \/ stored'[j].creators = Lowered(x.creators)
        BY <1>4 DEF CreatorsAreOneRequests
      <3>1. CASE j = k BY <1>1, <1>3, <1>6, <2>3, <3>1
      <3>2. CASE j # k BY <2>3, <3>2 DEF IInv, CreatorsAreOneRequests
      <3> QED BY <3>1, <3>2
    <2> QED BY <2>5, <2>6, <2>7, <2>8, <2>9 DEF IInv
  <1> QED BY <1>5, <1>6

LEMMA Deletes ==
  ASSUME IInv, NEW c \in Clients, DeleteCreators(c)
  PROVE  IInv'
  <1> DEFINE r == client[c]
             k == r.row
             given == r.input.creators # NoValue
             seen == IF given THEN stored[k].creators ELSE {}
             s == [[r EXCEPT !.pc = "replace"] EXCEPT !.seen = seen]
  <1>1. r \in Client /\ r # NoValue /\ r.pc = "delete" BY DEF IInv, TypeOK, DeleteCreators
  <1>2. Accepted(c) /\ HasRow(c) BY <1>1 DEF IInv, RequestOK
  <1>3. k \in Rows /\ stored[k] \in Row /\ stored[k] # NoValue
    BY <1>1, <1>2 DEF HasRow, Client, IInv, TypeOK
  <1>4. seen \subseteq Creator BY <1>3 DEF Row
  <1>5. client' = [client EXCEPT ![c] = s] /\ UNCHANGED <<wallets, stored>>
    BY DEF DeleteCreators
  <1>6. /\ s \in Client /\ s.pc = "replace" /\ s.op = r.op /\ s.chain = r.chain
        /\ s.row = k /\ s.input = r.input /\ s.seen = seen
    BY <1>1, <1>4 DEF Client
  <1>7. /\ client' \in [Clients -> Client \cup {NoValue}] /\ client'[c] = s
        /\ \A d \in Clients \ {c} : client'[d] = client[d]
    BY <1>5, <1>6 DEF IInv, TypeOK
  <1>8. /\ raced \subseteq raced' /\ raced' \subseteq Rows
        /\ \A d \in Clients \ {c} : given /\ Gives(d, k) => k \in raced'
    <2>1. raced \subseteq Rows BY DEF IInv, TypeOK
    <2> QED BY <1>3, <2>1 DEF DeleteCreators, Gives
  <1> HIDE DEF s
  <1>9. TypeOK' BY <1>5, <1>7, <1>8 DEF IInv, TypeOK
  <1>10. ASSUME NEW d \in Clients PROVE RequestOK(d)'
    <2>1. CASE d = c
      <3>1. Accepted(c)' BY <1>2, <1>5, <1>6, <1>7 DEF Accepted, Ours
      <3>2. HasRow(c)' BY <1>1, <1>2, <1>5, <1>6, <1>7 DEF HasRow
      <3>3. SeenOK(c)' BY <1>5, <1>6, <1>7 DEF SeenOK
      <3>4. Late(c)' BY <1>6, <1>7 DEF Late
      <3> QED BY <2>1, <3>1, <3>2, <3>3, <3>4 DEF RequestOK
    <2>2. CASE d # c
      <3>1. client'[d] = client[d] BY <1>7, <2>2
      <3>2. RequestOK(d) BY DEF IInv
      <3> QED BY <1>5, <1>8, <3>1, <3>2, OthersStay
    <2> QED BY <2>1, <2>2
  <1>11. Apart'
    <2> SUFFICES ASSUME NEW d \in Clients, NEW e \in Clients, NEW j \in Rows, d # e,
                        Gives(d, j)', Gives(e, j)'
                 PROVE  j \in raced'
      BY DEF Apart
    <2>1. \A x \in Clients \ {c} : Gives(x, j)' => Gives(x, j)
      BY <1>7 DEF Gives, Replacing
    <2>2. Gives(c, j)' => j = k /\ given BY <1>6, <1>7 DEF Gives, Replacing
    <2>3. CASE d = c BY <1>8, <2>1, <2>2, <2>3
    <2>4. CASE e = c BY <1>8, <2>1, <2>2, <2>4
    <2>5. CASE d # c /\ e # c BY <1>8, <2>1, <2>5 DEF IInv, Apart
    <2> QED BY <2>3, <2>4, <2>5
  <1>12. VerifiedIsOurs' BY <1>5 DEF IInv, VerifiedIsOurs
  <1>13. CreatorsAreOneRequests' BY <1>5, <1>8 DEF IInv, CreatorsAreOneRequests
  <1> QED BY <1>9, <1>10, <1>11, <1>12, <1>13 DEF IInv

\* Creators that are left are those of a row that is raced.
LEMMA Replaces ==
  ASSUME IInv, NEW c \in Clients, ReplaceCreators(c)
  PROVE  IInv'
  <1> DEFINE r == client[c]
             k == r.row
             i == r.input
  <1>1. r \in Client /\ r # NoValue /\ r.pc = "replace" /\ i \in Inputs
    BY DEF IInv, TypeOK, ReplaceCreators, Client
  <1>2. Accepted(c) /\ HasRow(c) /\ SeenOK(c) BY <1>1 DEF IInv, RequestOK
  <1>3. /\ k \in Rows /\ stored[k] \in Row /\ stored[k] # NoValue
        /\ stored[k].chain = r.chain
    BY <1>1, <1>2 DEF HasRow, Client, IInv, TypeOK
  <1>4. UNCHANGED <<wallets, raced>> BY DEF ReplaceCreators
  <1>5. k \notin raced /\ i.creators # NoValue => Left(c) = {}
    BY <1>1, <1>2 DEF SeenOK, Left
  <1>6. CASE ~(PatchFits(c) /\ ~Clashes(c))
    <2>1. stored' = stored BY <1>6 DEF ReplaceCreators
    <2>2. CASE r.op # "update_mint"
      <3>1. client' = [client EXCEPT ![c] = NoValue]
        BY <1>6, <2>2 DEF ReplaceCreators, Done
      <3>2. /\ client' \in [Clients -> Client \cup {NoValue}] /\ client'[c] = NoValue
            /\ \A d \in Clients \ {c} : client'[d] = client[d]
        BY <3>1 DEF IInv, TypeOK
      <3>3. RequestOK(c)' BY <3>2 DEF RequestOK
      <3> QED BY <1>4, <2>1, <3>2, <3>3, RowsStay
    <2>3. CASE r.op = "update_mint"
      <3> DEFINE s == [r EXCEPT !.pc = "refused"]
      <3>1. client' = [client EXCEPT ![c] = s]
        BY <1>6, <2>3 DEF ReplaceCreators, Refuse
      <3>2. /\ s \in Client /\ s.pc = "refused" /\ s.op = r.op /\ s.chain = r.chain
            /\ s.row = k /\ s.input = i
        BY <1>1 DEF Client
      <3>3. /\ client' \in [Clients -> Client \cup {NoValue}] /\ client'[c] = s
            /\ \A d \in Clients \ {c} : client'[d] = client[d]
        BY <3>1, <3>2 DEF IInv, TypeOK
      <3> HIDE DEF s
      <3>4. GivenTwice(i.creators) \/ k \in raced
        <4>1. i.creators # NoValue BY <1>2, <2>3 DEF HasRow, Patches
        <4>2. PatchFits(c) BY <2>3 DEF PatchFits
        <4>3. Clashes(c) BY <1>6, <4>2
        <4> QED BY <1>5, <4>1, <4>3 DEF Clashes
      <3>5. RequestOK(c)'
        <4>1. Accepted(c)' BY <1>2, <1>4, <3>2, <3>3 DEF Accepted, Ours
        <4>2. HasRow(c)' BY <1>2, <2>1, <3>2, <3>3 DEF HasRow
        <4>3. SeenOK(c)' BY <3>2, <3>3 DEF SeenOK
        <4>4. Late(c)' BY <1>4, <3>2, <3>3, <3>4 DEF Late, GivenTwice
        <4> QED BY <4>1, <4>2, <4>3, <4>4 DEF RequestOK
      <3>6. client'[c].pc # "replace" BY <3>2, <3>3
      <3> QED BY <1>4, <2>1, <3>3, <3>5, <3>6, RowsStay
    <2> QED BY <2>2, <2>3
  <1>7. CASE PatchFits(c) /\ ~Clashes(c)
    <2> DEFINE creators == Left(c) \cup Given(i)
               new == [stored[k] EXCEPT !.creators = creators]
    <2>1. /\ stored' = [stored EXCEPT ![k] = new]
          /\ client' = [client EXCEPT ![c] = NoValue]
      BY <1>7 DEF ReplaceCreators, Done
    <2>2. creators \subseteq Creator
      <3>1. Given(i) \subseteq Creator BY <1>1, GivenType
      <3>2. stored[k].creators \subseteq Creator BY <1>3 DEF Row
      <3> QED BY <3>1, <3>2 DEF Left
    <2>3. new \in Row /\ new.chain = stored[k].chain /\ new.creators = creators
      BY <1>3, <2>2 DEF Row
    <2>4. /\ stored' \in [Rows -> Row \cup {NoValue}]
          /\ stored'[k] = new /\ \A j \in Rows \ {k} : stored'[j] = stored[j]
      BY <1>3, <2>1, <2>3 DEF IInv, TypeOK
    <2>5. /\ client' \in [Clients -> Client \cup {NoValue}] /\ client'[c] = NoValue
          /\ \A d \in Clients \ {c} : client'[d] = client[d]
      BY <2>1 DEF IInv, TypeOK
    <2>6. new # NoValue BY <2>3
    <2> HIDE DEF new
    <2>7. TypeOK' BY <1>4, <2>4, <2>5 DEF IInv, TypeOK
    <2>8. i.creators = NoValue => creators = stored[k].creators
      BY <1>1, <1>2 DEF SeenOK, Left, Given
    <2>9. ASSUME NEW d \in Clients PROVE RequestOK(d)'
      <3>1. CASE client'[d] = NoValue BY <3>1 DEF RequestOK
      <3>2. CASE client'[d] # NoValue
        <4>1. client'[d] = client[d] /\ client[d] # NoValue /\ d # c BY <2>5, <3>2
        <4>2. Accepted(d) /\ HasRow(d) /\ SeenOK(d) /\ Late(d)
          BY <4>1 DEF IInv, RequestOK
        <4>3. client[d] \in Client BY <4>1 DEF IInv, TypeOK
        <4>4. Accepted(d)' BY <1>4, <4>1, <4>2 DEF Accepted, Ours
        <4>5. HasRow(d)'
          <5>1. client[d].row # NoValue => client[d].row \in Rows BY <4>3 DEF Client
          <5>2. client[d].row # NoValue =>
                  /\ stored'[client[d].row] # NoValue
                  /\ stored'[client[d].row].chain = stored[client[d].row].chain
            BY <2>3, <2>4, <2>6, <4>2, <5>1 DEF HasRow
          <5> QED BY <4>1, <4>2, <5>2 DEF HasRow
        <4>6. SeenOK(d)'
          <5> DEFINE j == client[d].row
          <5> SUFFICES ASSUME client[d].pc = "replace", client[d].input.creators # NoValue,
                              j \notin raced
                       PROVE  client[d].seen = stored'[j].creators
            BY <1>4, <4>1, <4>2 DEF SeenOK
          <5>1. j \in Rows /\ client[d].seen = stored[j].creators
            BY <4>2, <4>3 DEF SeenOK, HasRow, Client
          <5>2. CASE j # k BY <2>4, <5>1, <5>2
          <5>3. CASE j = k
            <6>1. Gives(d, k) BY <4>1, <5>3 DEF Gives, Replacing
            <6>2. i.creators # NoValue => Gives(c, k) BY <1>1 DEF Gives, Replacing
            <6>3. i.creators = NoValue BY <1>3, <4>1, <5>3, <6>1, <6>2 DEF IInv, Apart
            <6> QED BY <2>3, <2>4, <2>8, <5>1, <5>3, <6>3, <1>3
          <5> QED BY <5>2, <5>3
        <4>7. Late(d)' BY <1>4, <4>1, <4>2 DEF Late
        <4> QED BY <4>4, <4>5, <4>6, <4>7 DEF RequestOK
      <3> QED BY <3>1, <3>2
    <2>10. Apart'
      <3>1. \A d \in Clients : \A j \in Rows : Gives(d, j)' => Gives(d, j)
        BY <2>5 DEF Gives, Replacing
      <3> QED BY <1>4, <3>1 DEF IInv, Apart
    <2>11. VerifiedIsOurs'
      <3> SUFFICES ASSUME NEW j \in Rows, stored'[j] # NoValue, stored'[j].chain = "solana",
                          NEW x \in stored'[j].creators, x.verified
                   PROVE  <<"solana", x.address>> \in wallets'
        BY DEF VerifiedIsOurs
      <3>1. CASE j # k BY <1>4, <2>4, <3>1 DEF IInv, VerifiedIsOurs
      <3>2. CASE j = k
        <4>1. r.chain = "solana" /\ stored[k].chain = "solana" /\ x \in creators
          BY <1>3, <2>3, <2>4, <3>2
        <4>2. CASE x \in Left(c)
          BY <1>3, <1>4, <4>1, <4>2 DEF Left, IInv, VerifiedIsOurs
        <4>3. CASE x \in Given(i)
          <5>1. i.creators # NoValue BY <4>3 DEF Given
          <5>2. ValidCreators("solana", i.creators) /\ Ours("solana", i.creators)
            BY <1>2, <4>1, <5>1 DEF Accepted
          <5> QED BY <1>1, <1>4, <4>3, <5>1, <5>2, VerifiedGiven
        <4> QED BY <4>1, <4>2, <4>3
      <3> QED BY <3>1, <3>2
    <2>12. CreatorsAreOneRequests'
      <3> SUFFICES ASSUME NEW j \in Rows, stored'[j] # NoValue, j \notin raced
                   PROVE  \E x \in Inputs :
                            /\ x.creators # NoValue
                            /\ ValidCreators(stored'[j].chain, x.creators)
                            /\ ~GivenTwice(x.creators)
                            /\ stored'[j].creators = Given(x)
                               \/ stored'[j].creators = Lowered(x.creators)
        BY <1>4 DEF CreatorsAreOneRequests
      <3>1. CASE j # k BY <2>4, <3>1 DEF IInv, CreatorsAreOneRequests
      <3>2. CASE j = k /\ i.creators = NoValue
        <4>1. /\ stored'[k].creators = stored[k].creators
              /\ stored'[k].chain = stored[k].chain
          BY <2>3, <2>4, <2>8, <3>2
        <4> QED BY <1>3, <3>2, <4>1 DEF IInv, CreatorsAreOneRequests
      <3>3. CASE j = k /\ i.creators # NoValue
        <4>1. stored'[j].creators = Given(i) /\ stored'[j].chain = r.chain
          BY <1>3, <1>5, <2>3, <2>4, <3>3
        <4>2. ValidCreators(r.chain, i.creators) BY <1>2, <3>3 DEF Accepted
        <4>3. ~GivenTwice(i.creators) BY <1>7, <3>3 DEF Clashes
        <4> QED BY <1>1, <3>3, <4>1, <4>2, <4>3
      <3> QED BY <3>1, <3>2, <3>3
    <2> QED BY <2>7, <2>9, <2>10, <2>11, <2>12 DEF IInv
  <1> QED BY <1>6, <1>7

-----------------------------------------------------------------------------
(* The steps of others.                                                    *)

LEMMA Creates ==
  ASSUME IInv, NEW k \in Rows, BecomesCreated(k)
  PROVE  IInv'
  <1> DEFINE new == [stored[k] EXCEPT !.created = TRUE]
  <1>1. stored' = [stored EXCEPT ![k] = new] /\ UNCHANGED <<wallets, client, raced>>
    BY DEF BecomesCreated
  <1>2. stored[k] # NoValue /\ stored[k] \in Row BY DEF BecomesCreated, IInv, TypeOK
  <1>3. /\ new \in Row /\ new # NoValue /\ new.chain = stored[k].chain
        /\ new.creators = stored[k].creators
    BY <1>2 DEF Row
  <1> HIDE DEF new
  <1>4. stored' \in [Rows -> Row \cup {NoValue}] BY <1>1, <1>3 DEF IInv, TypeOK
  <1>5. \A j \in Rows :
          /\ stored'[j] # NoValue <=> stored[j] # NoValue
          /\ stored[j] # NoValue => /\ stored'[j].chain = stored[j].chain
                                    /\ stored'[j].creators = stored[j].creators
    BY <1>1, <1>2, <1>3 DEF IInv, TypeOK
  <1>6. TypeOK' BY <1>1, <1>4 DEF IInv, TypeOK
  <1>7. ASSUME NEW c \in Clients, client[c] # NoValue PROVE RequestOK(c)'
    <2>1. Accepted(c) /\ HasRow(c) /\ SeenOK(c) /\ Late(c) BY <1>7 DEF IInv, RequestOK
    <2>2. client[c].row # NoValue => client[c].row \in Rows
      BY <1>7 DEF IInv, TypeOK, Client
    <2>3. Accepted(c)' BY <1>1, <2>1 DEF Accepted, Ours
    <2>4. HasRow(c)' BY <1>1, <1>5, <2>1, <2>2 DEF HasRow
    <2>5. SeenOK(c)'
      <3>1. client[c].pc = "replace" => client[c].row # NoValue BY <2>1 DEF HasRow
      <3> QED BY <1>1, <1>5, <2>1, <2>2, <3>1 DEF SeenOK, HasRow
    <2>6. Late(c)' BY <1>1, <2>1 DEF Late
    <2> QED BY <2>3, <2>4, <2>5, <2>6 DEF RequestOK
  <1>8. \A c \in Clients : RequestOK(c)' BY <1>1, <1>7 DEF RequestOK
  <1>9. Apart' BY <1>1 DEF IInv, Apart, Gives, Replacing
  <1>10. VerifiedIsOurs' BY <1>1, <1>5 DEF IInv, VerifiedIsOurs
  <1>11. CreatorsAreOneRequests' BY <1>1, <1>5 DEF IInv, CreatorsAreOneRequests
  <1> QED BY <1>6, <1>8, <1>9, <1>10, <1>11 DEF IInv

LEMMA Reports ==
  ASSUME IInv, ProjectWalletCreated
  PROVE  IInv'
  <1>1. /\ wallets \subseteq wallets' /\ wallets' \subseteq Chains \X Addresses
        /\ UNCHANGED <<stored, client, raced>>
    BY DEF IInv, TypeOK, ProjectWalletCreated
  <1>2. TypeOK' BY <1>1 DEF IInv, TypeOK
  <1>3. \A c \in Clients : RequestOK(c)'
    <2> TAKE c \in Clients
    <2>1. RequestOK(c) BY DEF IInv
    <2>2. \A chain, creators : Ours(chain, creators) => Ours(chain, creators)'
      BY <1>1 DEF Ours
    <2> QED BY <1>1, <2>1, <2>2 DEF RequestOK, Accepted, HasRow, SeenOK, Late
  <1>4. Apart' BY <1>1 DEF IInv, Apart, Gives, Replacing
  <1>5. VerifiedIsOurs' BY <1>1 DEF IInv, VerifiedIsOurs
  <1>6. CreatorsAreOneRequests' BY <1>1 DEF IInv, CreatorsAreOneRequests
  <1> QED BY <1>2, <1>3, <1>4, <1>5, <1>6 DEF IInv

-----------------------------------------------------------------------------
(* The theorems.                                                           *)

LEMMA InitIInv == Init => IInv
  <1> SUFFICES ASSUME Init PROVE IInv
    OBVIOUS
  <1>1. TypeOK BY DEF Init, TypeOK
  <1>2. \A c \in Clients : RequestOK(c) BY DEF Init, RequestOK
  <1>3. Apart BY DEF Init, Apart, Gives, Replacing
  <1>4. VerifiedIsOurs /\ CreatorsAreOneRequests
    BY DEF Init, VerifiedIsOurs, CreatorsAreOneRequests
  <1> QED BY <1>1, <1>2, <1>3, <1>4 DEF IInv

LEMMA NextIInv == IInv /\ [Next]_vars => IInv'
  <1> SUFFICES ASSUME IInv, [Next]_vars PROVE IInv'
    OBVIOUS
  <1>1. ASSUME NEW c \in Clients,
               \/ CreateCollection(c) \/ CreateDrop(c) \/ MintToCollection(c)
               \/ UpdateMint(c) \/ PatchCollection(c) \/ PatchDrop(c)
        PROVE  IInv'
    BY <1>1, Checks
  <1>2. ASSUME NEW c \in Clients, Deduct(c) PROVE IInv' BY <1>2, Deducts
  <1>3. ASSUME NEW c \in Clients, InsertCollection(c) PROVE IInv'
    BY <1>3, Inserts DEF InsertCollection, Ops, Replacers
  <1>4. ASSUME NEW c \in Clients, InsertDrop(c) PROVE IInv'
    BY <1>4, Inserts DEF InsertDrop, Ops, Replacers, Fits
  <1>5. ASSUME NEW c \in Clients, InsertMint(c) PROVE IInv'
    BY <1>5, Inserts DEF InsertMint, Ops, Replacers, Fits
  <1>6. ASSUME NEW c \in Clients, DeleteCreators(c) PROVE IInv' BY <1>6, Deletes
  <1>7. ASSUME NEW c \in Clients, ReplaceCreators(c) PROVE IInv' BY <1>7, Replaces
  <1>8. ASSUME NEW c \in Clients, End(c) PROVE IInv' BY <1>8, Ends
  <1>9. ASSUME NEW k \in Rows, BecomesCreated(k) PROVE IInv' BY <1>9, Creates
  <1>10. CASE ProjectWalletCreated BY <1>10, Reports
  <1>11. CASE UNCHANGED vars
    <2>1. UNCHANGED <<wallets, stored, client, raced>> BY <1>11 DEF vars
    <2>2. TypeOK' BY <2>1 DEF IInv, TypeOK
    <2>3. \A c \in Clients : RequestOK(c)' BY <2>1, OthersStay DEF IInv
    <2>4. Apart' BY <2>1 DEF IInv, Apart, Gives, Replacing
    <2>5. VerifiedIsOurs' /\ CreatorsAreOneRequests'
      BY <2>1 DEF IInv, VerifiedIsOurs, CreatorsAreOneRequests
    <2> QED BY <2>2, <2>3, <2>4, <2>5 DEF IInv
  <1> QED
    BY <1>1, <1>2, <1>3, <1>4, <1>5, <1>6, <1>7, <1>8, <1>9, <1>10, <1>11 DEF Next

LEMMA AlwaysIInv == Spec => []IInv
  BY InitIInv, NextIInv, PTL DEF Spec

\* Rows, requests and wallets are of their types in every reachable state.
THEOREM ChecksTypeCorrect == Spec => []TypeOK
  <1>1. IInv => TypeOK BY DEF IInv
  <1> QED BY <1>1, AlwaysIInv, PTL

\* A request that was charged (create_collection, create_drop, mint_to_collection, update_mint)
\* is refused only for a number too large, an address given twice, or creators that another
\* request replaced at the same time.
THEOREM RefusedLate == Spec => []ChargedIsStored
  <1>1. IInv => ChargedIsStored
    BY DEF IInv, RequestOK, Late, ChargedIsStored
  <1> QED BY <1>1, AlwaysIInv, PTL

\* A creator on Solana that is stored as verified is a wallet of the project, however
\* requests overlap (validate_solana_creator_verification).
THEOREM VerifiedAreOurs == Spec => []VerifiedIsOurs
  <1>1. IInv => VerifiedIsOurs BY DEF IInv
  <1> QED BY <1>1, AlwaysIInv, PTL

\* The creators of a row are those of one accepted request, unless two requests replaced them
\* at the same time (patch_collection, patch_drop, update_mint).
THEOREM CreatorsOfOneRequest == Spec => []CreatorsAreOneRequests
  <1>1. IInv => CreatorsAreOneRequests BY DEF IInv
  <1> QED BY <1>1, AlwaysIInv, PTL
=============================================================================
