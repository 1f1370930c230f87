---------------------------- MODULE ImportProofs ----------------------------
(***************************************************************************)
(* Proofs about Import: however imports overlap and in whatever order the  *)
(* indexer's messages are handled and started over, what is inserted only  *)
(* in part is still being worked on, and nobody's collection goes but by   *)
(* an import of their own.  Where an import is repeated only when the one  *)
(* before is over, a collection and its mints have one row each, and what  *)
(* an import replaces leaves no metadata.                                  *)
(***************************************************************************)
EXTENDS Import, TLAPS

USE CertificateAssumption, IdAssumption, PairAssumption, MissingAssumption, HomeAssumption,
    ImportsAssumption

-----------------------------------------------------------------------------
(* The inductive invariant.                                                *)

\* A handler that inserts the owner is at one of the places.
Waits(o, places) == \E m \in Messages : Owner(m) = o /\ delivery[m] \in places

\* What a row lacks is what its handler inserts next, or what makes it start over.
Answered(o) ==
  /\ row[o] # "absent" /\ json[o] = "absent" => Waits(o, {"json", "again"})
  /\ row[o] = "bare" => Waits(o, {"json", "creators", "again"})
  /\ row[o] = "credited" /\ json[o] = "bare" /\ ~IsSparse(o) =>
       Waits(o, {"creators", "details", "again"})

Begun == \A m \in Messages : delivery[m] # "unsent" => announcement[m[1]] # NoId

\* An id that an import makes is used only once the import is announced.
Given(k) == \A n \in Announcements : k = <<n, Certificate>> => announcement[n] # NoId

NamesGiven ==
  /\ \A k \in Ids : row[k] # "absent" => Given(k)
  /\ \A n \in Announcements : announcement[n] # NoId => Given(announcement[n])

\* A request holds the id of its own pair's collection, and has read only mints of it.
RequestOK(c) ==
  /\ client[c].pc \in {"read", "replace"} => client[c].id # NoId
  /\ client[c].id # NoId => about[client[c].id] = client[c].for /\ Given(client[c].id)
  /\ client[c].pc = "replace" => client[c].seen \subseteq MintsOf(client[c].id)

Kept == NamesGiven /\ \A c \in Clients : RequestOK(c)

MInv == TypeOK /\ Begun /\ Kept /\ \A o \in Owners : Answered(o)

\* The ids of collections and of mints are kept apart.
LEMMA OwnersApart ==
  /\ Ids \cap MintIds = {} /\ MintIds \subseteq Messages
  /\ \A n \in Announcements : <<n, Certificate>> \in Ids /\ <<n, Certificate>> \in Messages
  /\ \A m \in Messages : m[2] # Certificate => m \in MintIds
  /\ \A m \in Messages : m[1] \in Announcements /\ m[2] \in Things
  BY DEF Ids, MintIds, Messages, Things

\* The rows a handler inserts are those of a collection or of a mint.
LEMMA OwnerType ==
  ASSUME TypeOK, Begun, NEW m \in Messages, delivery[m] # "unsent"
  PROVE  /\ Owner(m) \in Owners
         /\ m[2] = Certificate => Owner(m) = announcement[m[1]] /\ Owner(m) \in Ids
         /\ m[2] # Certificate => Owner(m) = m /\ m \in MintIds
         /\ m[2] \in Sparse <=> IsSparse(Owner(m))
  <1>1. CASE m[2] = Certificate
    <2>1. Owner(m) = announcement[m[1]] /\ Owner(m) \in Ids
      BY <1>1, OwnersApart DEF TypeOK, Begun, Owner
    <2> QED
      BY <1>1, <2>1 DEF Owners, IsSparse
  <1>2. CASE m[2] # Certificate
    BY <1>2, OwnersApart DEF Owner, Owners, IsSparse
  <1> QED
    BY <1>1, <1>2

LEMMA InitMInv == Init => MInv
  <1> SUFFICES ASSUME Init PROVE MInv
    OBVIOUS
  <1>1. TypeOK
    <2>1. about \in [Ids -> Pairs \cup {NoPair}]
      BY DEF Init
    <2>2. /\ row \in [Owners -> {"absent", "bare", "credited"}]
          /\ json \in [Owners -> {"absent", "bare", "complete"}]
          /\ drop \in SUBSET Ids /\ raced \in SUBSET Pairs
          /\ announcement \in [Announcements -> Ids \cup {NoId}]
          /\ delivery \in [Messages -> Delivery]
          /\ client \in [Clients -> Client]
      BY DEF Init, Ids, Delivery, Client, Idle
    <2> QED
      BY <2>1, <2>2 DEF TypeOK
  <1>2. Begun
    BY DEF Init, Begun
  <1>3. \A k \in Own : Given(k)
    BY OwnersApart DEF Given
  <1>4. Kept
    BY <1>3 DEF Init, Kept, NamesGiven, RequestOK, Idle, Owners
  <1>5. \A o \in Owners : Answered(o)
    BY DEF Init, Answered
  <1> QED
    BY <1>1, <1>2, <1>4, <1>5 DEF MInv

-----------------------------------------------------------------------------
(* Types, and which handlers have begun.                                   *)

LEMMA RequestTypes ==
  ASSUME MInv, NEW c \in Clients, Request(c)
  PROVE  TypeOK' /\ Begun'
  <1>0. TypeOK /\ Begun /\ RequestOK(c)
    BY DEF MInv, Kept
  <1> USE DEF TypeOK, Client
  <1>1. ASSUME NEW pair \in Imported, ImportSolanaCollection(c, pair)
        PROVE  TypeOK' /\ Begun'
    <2>1. Found(pair) \subseteq Ids /\ pair \in Pairs
      BY DEF Found
    <2> QED
      BY <1>0, <1>1, <2>1 DEF ImportSolanaCollection, Begun
  <1>2. CASE ReadMints(c)
    <2>1. {m \in MintsOf(client[c].id) : row[m] # "absent"} \subseteq MintIds
      BY DEF MintsOf
    <2>2. PICK seen \in SUBSET MintIds :
            client' = [client EXCEPT ![c].pc = "replace", ![c].seen = seen]
      BY <1>2, <2>1 DEF ReadMints
    <2>3. client[c] \in Client
      BY <1>0
    <2>4. [client[c] EXCEPT !.pc = "replace", !.seen = seen] \in Client
      BY <2>3
    <2>5. client' = [client EXCEPT ![c] = [client[c] EXCEPT !.pc = "replace", !.seen = seen]]
      BY <2>2
    <2>6. client' \in [Clients -> Client]
      BY <1>0, <2>4, <2>5
    <2>7. UNCHANGED <<about, row, json, drop, announcement, delivery, raced>>
      BY <1>2 DEF ReadMints
    <2> QED
      BY <1>0, <2>6, <2>7 DEF Begun
  <1>3. CASE Replace(c)
    <2>1. /\ row \in [Owners -> {"absent", "bare", "credited"}]
          /\ json \in [Owners -> {"absent", "bare", "complete"}]
          /\ client \in [Clients -> Client] /\ client[c] \in Client
          /\ drop \in SUBSET Ids
      BY <1>0
    <2>2. [client[c] EXCEPT !.pc = "send"] \in Client
      BY <2>1
    <2> HIDE DEF TypeOK, Client
    <2>3. row' \in [Owners -> {"absent", "bare", "credited"}]
      BY <1>3, <2>1 DEF Replace
    <2>4. json' \in [Owners -> {"absent", "bare", "complete"}]
      BY <1>3, <2>1 DEF Replace
    <2>5. client' \in [Clients -> Client] /\ drop' \in SUBSET Ids
      BY <1>3, <2>1, <2>2 DEF Replace
    <2>6. UNCHANGED <<about, announcement, delivery, raced>>
      BY <1>3 DEF Replace
    <2> QED
      BY <1>0, <2>3, <2>4, <2>5, <2>6 DEF TypeOK, Begun
  <1>4. CASE Announce(c)
    <2>1. client[c].id \in Ids \cup {NoId} /\ client[c].for \in Pairs \cup {NoPair}
      BY <1>0
    <2>2. PICK n \in Announcements, k \in Ids :
            /\ announcement[n] = NoId
            /\ about' = [about EXCEPT ![k] = client[c].for]
            /\ announcement' = [announcement EXCEPT ![n] = k]
      BY <1>4, <2>1, OwnersApart DEF Announce
    <2>3. about' \in [Ids -> Pairs \cup {NoPair}]
      BY <1>0, <2>1, <2>2
    <2>4. announcement' \in [Announcements -> Ids \cup {NoId}]
      BY <1>0, <2>2
    <2>5. Begun'
      BY <1>0, <1>4, <2>2, OwnersApart DEF Announce, Begun
    <2> QED
      BY <1>0, <1>4, <2>3, <2>4, <2>5 DEF Announce, Idle
  <1>5. CASE GiveUp(c)
    BY <1>0, <1>5 DEF GiveUp, Begun, Idle
  <1> QED
    BY <1>1, <1>2, <1>3, <1>4, <1>5 DEF Request

LEMMA HandlerTypes ==
  ASSUME TypeOK, Begun, NEW m \in Messages, Handle(m) \/ HandlerFails(m)
  PROVE  TypeOK' /\ Begun'
  <1> DEFINE o == Owner(m)
  <1>1. /\ delivery[m] # "unsent"
        /\ UNCHANGED <<about, drop, announcement, client, raced>>
    BY DEF Handle, HandlerFails, InsertCollection, InsertMint, InsertJson, InsertCreators,
         InsertDetails, Begins
  <1>2. o \in Owners
    BY <1>1, OwnerType
  <1>3. PICK next \in Delivery \ {"unsent"} : delivery' = [delivery EXCEPT ![m] = next]
    BY DEF Handle, HandlerFails, InsertCollection, InsertMint, InsertJson, InsertCreators,
         InsertDetails, Goes, Delivery
  <1>4. row' \in [Owners -> {"absent", "bare", "credited"}]
    <2>1. \/ row' = row
          \/ \E r \in {"bare", "credited"} : row' = [row EXCEPT ![o] = r]
      BY <1>1, OwnerType
      DEF Handle, HandlerFails, InsertCollection, InsertMint, InsertJson, InsertCreators,
          InsertDetails
    <2> QED
      BY <1>2, <2>1 DEF TypeOK
  <1>5. json' \in [Owners -> {"absent", "bare", "complete"}]
    <2>1. \/ json' = json
          \/ \E j \in {"bare", "complete"} : json' = [json EXCEPT ![o] = j]
      BY DEF Handle, HandlerFails, InsertCollection, InsertMint, InsertJson, InsertCreators,
           InsertDetails
    <2> QED
      BY <1>2, <2>1 DEF TypeOK
  <1>6. Begun'
    BY <1>1, <1>3 DEF Begun, TypeOK
  <1>7. delivery' \in [Messages -> Delivery]
    BY <1>3 DEF TypeOK
  <1> QED
    BY <1>1, <1>4, <1>5, <1>6, <1>7 DEF TypeOK

LEMMA IndexTypes ==
  ASSUME TypeOK, Begun, NEW n \in Announcements, Index(n)
  PROVE  TypeOK' /\ Begun'
  BY DEF Index, TypeOK, Begun, Delivery

-----------------------------------------------------------------------------
(* Ids and requests.                                                       *)

\* Whatever keeps what is announced and adds no row of another id.
LEMMA KeptFrame ==
  ASSUME TypeOK, Kept, UNCHANGED <<about, announcement, client>>,
         \A k \in Ids : row'[k] # "absent" => row[k] # "absent" \/ Given(k)
  PROVE  Kept'
  BY DEF Kept, NamesGiven, RequestOK, Given, MintsOf, TypeOK, Client

LEMMA RequestKept ==
  ASSUME MInv, NEW c \in Clients, Request(c)
  PROVE  Kept'
  <1>0. TypeOK /\ Begun /\ Kept /\ RequestOK(c)
    BY DEF MInv, Kept
  <1> USE DEF RequestOK, MintsOf
  <1>1. ASSUME NEW pair \in Imported, ImportSolanaCollection(c, pair)
        PROVE  Kept'
    <2> DEFINE r == client'[c]
    <2>0. /\ \/ \E k \in Found(pair) :
                  r = [pc |-> "read", for |-> pair, id |-> k, seen |-> {}]
             \/ r = [pc |-> "send", for |-> pair, id |-> NoId, seen |-> {}]
          /\ client' = [client EXCEPT ![c] = r]
          /\ UNCHANGED <<about, row, announcement>>
      BY <1>0, <1>1 DEF ImportSolanaCollection, TypeOK
    <2>1. /\ r.pc # "replace" /\ (r.pc = "read" => r.id # NoId)
          /\ r.id # NoId => r.id \in Ids /\ row[r.id] # "absent" /\ about[r.id] = r.for
      <3>1. ASSUME NEW k \in Found(pair),
                   r = [pc |-> "read", for |-> pair, id |-> k, seen |-> {}]
            PROVE  /\ r.pc = "read" /\ r.id = k /\ r.for = pair /\ k \in Ids /\ k # NoId
                   /\ row[k] # "absent" /\ about[k] = pair
        BY <3>1 DEF Found
      <3>2. ASSUME r = [pc |-> "send", for |-> pair, id |-> NoId, seen |-> {}]
            PROVE  r.pc = "send" /\ r.id = NoId
        BY <3>2
      <3> QED
        BY <2>0, <3>1, <3>2
    <2>2. NamesGiven'
      BY <1>0, <2>0, <2>1 DEF Kept, NamesGiven, Given
    <2>3. RequestOK(c)'
      BY <1>0, <2>0, <2>1 DEF Kept, NamesGiven, Given
    <2>4. ASSUME NEW d \in Clients \ {c} PROVE RequestOK(d)'
      <3>1. client'[d] = client[d]
        BY <1>0, <2>0, <2>1 DEF TypeOK
      <3> QED
        BY <1>0, <2>0, <2>1, <3>1 DEF Kept, Given
    <2> QED
      BY <2>2, <2>3, <2>4 DEF Kept
  <1>2. CASE ReadMints(c)
    BY <1>0, <1>2 DEF ReadMints, Kept, NamesGiven, Given, TypeOK, Client
  <1>3. CASE Replace(c)
    <2>1. /\ UNCHANGED <<about, announcement>>
          /\ \A k \in Ids : row'[k] # "absent" => row[k] # "absent"
          /\ client' = [client EXCEPT ![c].pc = "send"]
      BY <1>3 DEF Replace, Owners
    <2> QED
      BY <1>0, <2>1 DEF Kept, NamesGiven, Given, TypeOK, Client
  <1>4. CASE Announce(c)
    <2>1. PICK n \in Announcements, k \in Ids :
            /\ announcement[n] = NoId
            /\ client[c].id = NoId => k = <<n, Certificate>>
            /\ client[c].id # NoId => k = client[c].id
            /\ about' = [about EXCEPT ![k] = client[c].for]
            /\ announcement' = [announcement EXCEPT ![n] = k]
      <3>1. client[c].id \in Ids \cup {NoId}
        BY <1>0 DEF TypeOK, Client
      <3> QED
        BY <1>4, <3>1, OwnersApart DEF Announce
    <2>2. k # NoId /\ client' = [client EXCEPT ![c] = Idle] /\ UNCHANGED row
      BY <1>4 DEF Announce
    <2>3. client[c].id = NoId => ~Given(k)
      BY <2>1, OwnersApart DEF Given
    <2>4. \A j \in Ids : Given(j) => Given(j)'
      BY <1>0, <2>1, <2>2 DEF Given, TypeOK
    <2>5. Given(k)'
      <3>1. client[c].id # NoId => Given(k)
        BY <1>0, <2>1
      <3>2. client[c].id = NoId => k = <<n, Certificate>> /\ announcement'[n] # NoId
        BY <1>0, <2>1, <2>2 DEF TypeOK
      <3> QED
        BY <2>4, <3>1, <3>2, OwnersApart DEF Given
    <2>6. \A j \in Ids : Given(j) => about'[j] = about[j]
      BY <1>0, <2>1, <2>3 DEF TypeOK
    <2>7. NamesGiven'
      BY <1>0, <2>1, <2>2, <2>4, <2>5 DEF Kept, NamesGiven, TypeOK
    <2>8. ASSUME NEW d \in Clients PROVE RequestOK(d)'
      <3>1. CASE d = c
        BY <1>0, <2>2, <3>1 DEF TypeOK, Idle
      <3>2. CASE d # c
        <4>1. client'[d] = client[d] /\ client[d].id \in Ids \cup {NoId}
          BY <1>0, <2>2, <3>2 DEF TypeOK, Client
        <4>2. client[d].id # NoId => MintsOf(client[d].id) \subseteq MintsOf(client[d].id)'
          BY <1>0, <2>1, <4>1 DEF TypeOK
        <4> QED
          BY <1>0, <2>4, <2>6, <4>1, <4>2 DEF Kept
      <3> QED
        BY <3>1, <3>2
    <2> QED
      BY <2>7, <2>8 DEF Kept
  <1>5. CASE GiveUp(c)
    BY <1>0, <1>5 DEF GiveUp, Kept, NamesGiven, Given, TypeOK, Client, Idle
  <1> QED
    BY <1>1, <1>2, <1>3, <1>4, <1>5 DEF Request

LEMMA HandlerKept ==
  ASSUME TypeOK, Begun, Kept, NEW m \in Messages, Handle(m) \/ HandlerFails(m)
  PROVE  Kept'
  <1>1. UNCHANGED <<about, announcement, client>>
    BY DEF Handle, HandlerFails, InsertCollection, InsertMint, InsertJson, InsertCreators,
         InsertDetails
  <1>2. ASSUME NEW k \in Ids, row'[k] # "absent", row[k] = "absent"
        PROVE  Given(k)
    <2>1. InsertCollection(m)
      BY <1>2, OwnersApart
      DEF Handle, HandlerFails, InsertCollection, InsertMint, InsertJson, InsertCreators,
          InsertDetails, TypeOK, Owners
    <2>2. k = announcement[m[1]] /\ announcement[m[1]] # NoId
      BY <1>2, <2>1, OwnerType DEF InsertCollection, Begins, TypeOK, Owners
    <2> QED
      BY <2>2, OwnersApart DEF Kept, NamesGiven
  <1> QED
    BY <1>1, <1>2, KeptFrame

-----------------------------------------------------------------------------
(* What is inserted in part.                                               *)

\* A step of another handler leaves an owner's handlers where they are.
LEMMA WaitsOn ==
  ASSUME TypeOK, Begun, NEW o \in Owners, NEW S \in SUBSET (Delivery \ {"unsent"}),
         Waits(o, S), TypeOK',
         \A n \in Announcements : announcement[n] # NoId => announcement'[n] = announcement[n],
         \A m \in Messages : Owner(m) = o /\ delivery[m] \in S => delivery'[m] \in S
  PROVE  Waits(o, S)'
  <1>1. PICK m \in Messages : Owner(m) = o /\ delivery[m] \in S
    BY DEF Waits
  <1>2. announcement[m[1]] # NoId /\ m[1] \in Announcements
    BY <1>1, OwnersApart DEF Begun
  <1>3. Owner(m)' = o
    BY <1>1, <1>2 DEF Owner
  <1> QED
    BY <1>1, <1>3 DEF Waits

\* Imports that are not inserting.
LEMMA AnsweredOn ==
  ASSUME MInv, TypeOK', NEW o \in Owners,
         row'[o] # "absent" => row'[o] = row[o] /\ json'[o] = json[o],
         \A n \in Announcements : announcement[n] # NoId => announcement'[n] = announcement[n],
         \A m \in Messages : delivery[m] # "unsent" => delivery'[m] = delivery[m]
  PROVE  Answered(o)'
  <1>1. TypeOK /\ Begun /\ Answered(o)
    BY DEF MInv
  <1>2. \A S \in SUBSET (Delivery \ {"unsent"}) : Waits(o, S) => Waits(o, S)'
    BY <1>1, WaitsOn
  <1>3. /\ {"json", "again"} \in SUBSET (Delivery \ {"unsent"})
        /\ {"json", "creators", "again"} \in SUBSET (Delivery \ {"unsent"})
        /\ {"creators", "details", "again"} \in SUBSET (Delivery \ {"unsent"})
    BY DEF Delivery
  <1>4. /\ Waits(o, {"json", "again"}) => Waits(o, {"json", "again"})'
        /\ Waits(o, {"json", "creators", "again"}) => Waits(o, {"json", "creators", "again"})'
        /\ Waits(o, {"creators", "details", "again"}) => Waits(o, {"creators", "details", "again"})'
    BY <1>2, <1>3
  <1> QED
    BY <1>1, <1>4 DEF Answered, IsSparse

LEMMA RequestAnswered ==
  ASSUME MInv, NEW c \in Clients, Request(c), NEW o \in Owners
  PROVE  Answered(o)'
  <1>0. TypeOK /\ Kept
    BY DEF MInv
  <1>1. TypeOK'
    BY RequestTypes
  <1>2. UNCHANGED delivery
    BY DEF Request, ImportSolanaCollection, ReadMints, Replace, Announce, GiveUp
  <1>3. \A n \in Announcements : announcement[n] # NoId => announcement'[n] = announcement[n]
    BY <1>0 DEF Request, ImportSolanaCollection, ReadMints, Replace, Announce, GiveUp, TypeOK
  <1>4. row'[o] # "absent" => row'[o] = row[o] /\ json'[o] = json[o]
    <2>1. CASE Replace(c)
      BY <1>0, <2>1 DEF Replace, Deleted, Kept, RequestOK
    <2>2. CASE ~Replace(c)
      BY <2>2 DEF Request, ImportSolanaCollection, ReadMints, Announce, GiveUp
    <2> QED
      BY <2>1, <2>2
  <1> QED
    BY <1>1, <1>2, <1>3, <1>4, AnsweredOn

LEMMA IndexAnswered ==
  ASSUME MInv, NEW n \in Announcements, Index(n), NEW o \in Owners
  PROVE  Answered(o)'
  <1>1. TypeOK'
    BY IndexTypes DEF MInv
  <1>2. \A m \in Messages : delivery[m] # "unsent" => delivery'[m] = delivery[m]
    BY OwnersApart DEF Index, Messages, MInv, TypeOK
  <1> QED
    BY <1>1, <1>2, AnsweredOn DEF Index

LEMMA HandlerAnswered ==
  ASSUME MInv, NEW m \in Messages, Handle(m) \/ HandlerFails(m), NEW o \in Owners
  PROVE  Answered(o)'
  <1>0. TypeOK /\ Begun /\ TypeOK' /\ Answered(o)
    BY HandlerTypes DEF MInv
  <1>1. /\ delivery[m] # "unsent" /\ UNCHANGED announcement
        /\ \A i \in Messages : i # m => delivery'[i] = delivery[i]
        /\ delivery'[m] \in {"json", "creators", "details", "acked", "again"}
    BY <1>0
    DEF Handle, HandlerFails, InsertCollection, InsertMint, InsertJson, InsertCreators,
        InsertDetails, Begins, Goes, TypeOK
  <1>2. Owner(m) \in Owners /\ (m[2] \in Sparse <=> IsSparse(Owner(m)))
    BY <1>0, <1>1, OwnerType
  <1>3. \A i \in Messages : Owner(i)' = Owner(i)
    BY <1>1 DEF Owner
  <1>4. ASSUME NEW S \in SUBSET Delivery, Waits(o, S), delivery[m] \in S => delivery'[m] \in S
        PROVE  Waits(o, S)'
    BY <1>1, <1>3, <1>4 DEF Waits
  <1>5. ASSUME NEW S \in SUBSET Delivery, Owner(m) = o, delivery'[m] \in S
        PROVE  Waits(o, S)'
    BY <1>3, <1>5 DEF Waits
  <1>6. /\ {"json", "again"} \in SUBSET Delivery
        /\ {"json", "creators", "again"} \in SUBSET Delivery
        /\ {"creators", "details", "again"} \in SUBSET Delivery
    BY DEF Delivery
  <1>7. CASE Owner(m) # o
    <2>1. row'[o] = row[o] /\ json'[o] = json[o]
      BY <1>0, <1>7, <1>1, OwnerType
      DEF Handle, HandlerFails, InsertCollection, InsertMint, InsertJson, InsertCreators,
          InsertDetails, TypeOK
    <2>2. \A S \in SUBSET Delivery : Waits(o, S) => Waits(o, S)'
      BY <1>1, <1>3, <1>7 DEF Waits
    <2>3. /\ Waits(o, {"json", "again"}) => Waits(o, {"json", "again"})'
          /\ Waits(o, {"json", "creators", "again"}) => Waits(o, {"json", "creators", "again"})'
          /\ Waits(o, {"creators", "details", "again"}) =>
               Waits(o, {"creators", "details", "again"})'
      BY <1>6, <2>2
    <2> QED
      BY <1>0, <2>1, <2>3 DEF Answered, IsSparse
  <1>8. CASE Owner(m) = o
    <2>1. CASE InsertCollection(m) \/ InsertMint(m)
      <3>1. row'[o] = "bare" /\ delivery'[m] = "json"
        BY <1>0, <1>1, <1>2, <1>8, <2>1, OwnerType DEF InsertCollection, InsertMint, Goes, TypeOK
      <3> QED
        BY <1>5, <1>6, <1>8, <3>1 DEF Answered
    <2>2. CASE InsertJson(m)
      <3>1. row' = row /\ json'[o] = "bare" /\ delivery'[m] = "creators"
        BY <1>0, <1>2, <1>8, <2>2 DEF InsertJson, Goes, TypeOK
      <3> QED
        BY <1>5, <1>6, <1>8, <3>1 DEF Answered
    <2>3. CASE InsertCreators(m)
      <3>1. /\ row[o] = "bare" /\ row'[o] = "credited" /\ json' = json
            /\ delivery[m] = "creators" /\ delivery'[m] = "details"
        BY <1>0, <1>2, <1>8, <2>3 DEF InsertCreators, Goes, TypeOK
      <3>2. json[o] = "absent" => Waits(o, {"json", "again"})'
        BY <1>0, <1>4, <1>6, <3>1 DEF Answered
      <3>3. Waits(o, {"creators", "details", "again"})'
        BY <1>5, <1>6, <1>8, <3>1
      <3> QED
        BY <3>1, <3>2, <3>3 DEF Answered
    <2>4. CASE InsertDetails(m)
      <3>1. /\ row' = row /\ delivery[m] = "details"
            /\ \/ IsSparse(o) /\ json' = json
               \/ json[o] # "absent" /\ json'[o] = "complete"
        BY <1>0, <1>2, <1>8, <2>4 DEF InsertDetails, Goes, TypeOK
      <3>2. /\ Waits(o, {"json", "again"}) => Waits(o, {"json", "again"})'
            /\ Waits(o, {"json", "creators", "again"}) => Waits(o, {"json", "creators", "again"})'
        BY <1>4, <1>6, <3>1
      <3> QED
        BY <1>0, <3>1, <3>2 DEF Answered, IsSparse
    <2>5. CASE HandlerFails(m)
      <3>1. delivery'[m] = "again"
        BY <1>0, <2>5 DEF HandlerFails, Goes, TypeOK
      <3> QED
        BY <1>5, <1>6, <1>8, <3>1 DEF Answered
    <2> QED
      BY <2>1, <2>2, <2>3, <2>4, <2>5 DEF Handle
  <1> QED
    BY <1>7, <1>8

-----------------------------------------------------------------------------
(* The theorems.                                                           *)

LEMMA NextMInv == MInv /\ [Next]_vars => MInv'
  <1> SUFFICES ASSUME MInv, [Next]_vars PROVE MInv'
    OBVIOUS
  <1>0. TypeOK /\ Begun /\ Kept
    BY DEF MInv
  <1>1. CASE UNCHANGED vars
    BY <1>1
    DEF vars, MInv, TypeOK, Begun, Kept, NamesGiven, Given, RequestOK, MintsOf, Answered, Waits,
        Owner, IsSparse
  <1>2. ASSUME NEW c \in Clients, Request(c) PROVE MInv'
    BY <1>2, RequestTypes, RequestKept, RequestAnswered DEF MInv
  <1>3. ASSUME NEW n \in Announcements, Index(n) PROVE MInv'
    <2>1. Kept'
      BY <1>0, <1>3, KeptFrame DEF Index
    <2> QED
      BY <1>0, <1>3, <2>1, IndexTypes, IndexAnswered DEF MInv
  <1>4. ASSUME NEW m \in Messages, Handle(m) \/ HandlerFails(m) PROVE MInv'
    BY <1>0, <1>4, HandlerTypes, HandlerKept, HandlerAnswered DEF MInv
  <1> QED
    BY <1>1, <1>2, <1>3, <1>4 DEF Next

LEMMA SpecMInv == Spec => []MInv
  BY InitMInv, NextMInv, PTL DEF Spec

\* Every reachable state of the imports has its type.
THEOREM ImportTypeCorrect == Spec => []TypeOK
  <1>1. MInv => TypeOK
    BY DEF MInv
  <1> QED
    BY SpecMInv, <1>1, PTL

\* However many requests and deliveries run at the same time, and wherever a
\* handler is interrupted: while a row, its metadata, its creators or the
\* details are missing, the message that brings them is not acknowledged.
THEOREM HalfImportIsOpen == Spec => []HalfImportedIsOpen
  <1>1. MInv => HalfImportedIsOpen
    <2> SUFFICES ASSUME MInv PROVE HalfImportedIsOpen
      OBVIOUS
    <2>0. TypeOK /\ Begun /\ \A o \in Owners : Answered(o)
      BY DEF MInv
    <2>1. ASSUME NEW o \in Owners, Half(o)
          PROVE  \E m \in Messages : Owner(m) = o /\ Open(m)
      <3>1. Waits(o, {"json", "creators", "details", "again"})
        BY <2>0, <2>1 DEF Half, Whole, Answered, Waits, TypeOK
      <3> QED
        BY <3>1 DEF Waits, Open
    <2>2. ASSUME NEW k \in Ids, Half(k)
          PROVE  \E n \in Announcements : announcement[n] = k /\ Open(<<n, Certificate>>)
      <3>1. PICK m \in Messages : Owner(m) = k /\ Open(m)
        BY <2>1, <2>2 DEF Owners
      <3>2. m[2] = Certificate /\ announcement[m[1]] = k
        BY <2>0, <3>1, OwnersApart, OwnerType DEF Open
      <3>3. m[1] \in Announcements /\ m = <<m[1], Certificate>>
        BY <3>2 DEF Messages
      <3> QED
        BY <3>1, <3>2, <3>3
    <2>3. ASSUME NEW i \in MintIds, Half(i) PROVE Open(i)
      <3>1. PICK m \in Messages : Owner(m) = i /\ Open(m)
        BY <2>1, <2>3 DEF Owners
      <3>2. m = i
        BY <2>0, <3>1, OwnersApart, OwnerType DEF Open
      <3> QED
        BY <3>1, <3>2
    <2> QED
      BY <2>2, <2>3 DEF HalfImportedIsOpen
  <1> QED
    BY SpecMInv, <1>1, PTL

\* No import deletes the collection of another project, or of another address.
THEOREM OthersStay == Spec => OtherProjectsStay
  <1> DEFINE Step == \A k \in Ids : row[k] # "absent" /\ row'[k] = "absent" =>
                       \E c \in Clients : client[c].pc = "replace" /\ client[c].for = about[k]
  <1>1. MInv /\ [Next]_vars => [Step]_vars
    <2> SUFFICES ASSUME MInv, Next, NEW k \in Ids, row[k] # "absent", row'[k] = "absent"
                 PROVE  \E c \in Clients : client[c].pc = "replace" /\ client[c].for = about[k]
      OBVIOUS
    <2>0. TypeOK /\ Begun /\ Kept
      BY DEF MInv
    <2>1. ASSUME NEW m \in Messages, Handle(m) \/ HandlerFails(m) PROVE FALSE
      BY <2>0, <2>1
      DEF Handle, HandlerFails, InsertCollection, InsertMint, InsertJson, InsertCreators,
          InsertDetails, TypeOK, Owners
    <2>2. PICK c \in Clients : Replace(c)
      BY <2>1 DEF Next, Request, ImportSolanaCollection, ReadMints, Announce, GiveUp, Index
    <2>3. k = client[c].id
      BY <2>2, OwnersApart DEF Replace, Owners, MintsOf
    <2> QED
      BY <2>0, <2>2, <2>3 DEF Replace, Kept, RequestOK
  <1> QED
    BY SpecMInv, <1>1, PTL DEF Spec, OtherProjectsStay

-----------------------------------------------------------------------------
(* Imports that are not repeated before they are over.                     *)

\* The announced import n of the pair is not over.
Going(n, pair) == IsFor(n, pair) /\ \E x \in Things : delivery[<<n, x>>] # "acked"

\* One thing at a time happens to the pair.
Alone(pair) ==
  /\ \A c, e \in Clients : client[c].for = pair /\ client[e].for = pair => c = e
  /\ \A n \in Announcements : Going(n, pair) =>
       /\ \A c \in Clients : client[c].for # pair
       /\ \A i \in Announcements : Going(i, pair) => n = i

\* The mints that are there for the pair.
MintsFor(pair) == {m \in MintIds : row[m] # "absent" /\ IsFor(m[1], pair)}

\* What is there is from the last import that was announced, and gone when the next is.
FromOne(pair) ==
  /\ \A j, k \in Found(pair) : j = k
  /\ \A m, i \in MintsFor(pair) : m[1] = i[1]
  /\ \A n \in Announcements : Going(n, pair) =>
       /\ Found(pair) \subseteq {announcement[n]}
       /\ \A m \in MintsFor(pair) : m[1] = n
  /\ \A c \in Clients : client[c].for = pair =>
       /\ client[c].pc = "send" => Found(pair) = {}
       /\ client[c].pc \in {"read", "replace"} => client[c].id \in Found(pair)
       /\ client[c].pc = "replace" => MintsFor(pair) \subseteq client[c].seen

\* No metadata without its row, and none about to be inserted.
Clean(pair) ==
  /\ \A k \in Ids : about[k] = pair /\ json[k] # "absent" => row[k] # "absent"
  /\ \A m \in MintIds : IsFor(m[1], pair) /\ json[m] # "absent" => row[m] # "absent"
  /\ \A m \in Messages : IsFor(m[1], pair) /\ delivery[m] \in {"json", "creators", "details"} =>
       row[Owner(m)] # "absent"

\* A mint is there only with its collection (foreign key).
MintsKept ==
  \A m \in MintIds : row[m] # "absent" =>
    announcement[m[1]] # NoId /\ row[announcement[m[1]]] # "absent"

\* An import that is not announced has made nothing.
Unmade ==
  \A n \in Announcements : announcement[n] = NoId =>
    /\ about[<<n, Certificate>>] = NoPair
    /\ \A x \in Things : json[<<n, x>>] = "absent"

Undisturbed(pair) == Alone(pair) /\ FromOne(pair) /\ Clean(pair)

UInv ==
  /\ MInv /\ MintsKept /\ Unmade
  /\ \A pair \in Pairs \ raced : Undisturbed(pair)

\* Whatever inserts and deletes no row of the pair, and starts nothing for it.
LEMMA PairFrame ==
  ASSUME NEW pair, Undisturbed(pair),
         \A k \in Ids : row'[k] # "absent" /\ about'[k] = pair
                          <=> row[k] # "absent" /\ about[k] = pair,
         \A n \in Announcements : IsFor(n, pair) => announcement'[n] = announcement[n],
         \A n \in Announcements : Going(n, pair)' => Going(n, pair),
         \A c \in Clients : client'[c].for = pair => client'[c] = client[c],
         \A m \in MintIds : row'[m] # "absent" /\ IsFor(m[1], pair)'
                              <=> row[m] # "absent" /\ IsFor(m[1], pair),
         Clean(pair)'
  PROVE  Undisturbed(pair)'
  <1>1. Found(pair)' = Found(pair)
    BY DEF Found
  <1>2. MintsFor(pair)' = MintsFor(pair)
    BY DEF MintsFor
  <1>3. Alone(pair)'
    BY DEF Undisturbed, Alone
  <1>4. FromOne(pair)'
    <2>1. /\ \A j, k \in Found(pair) : j = k
          /\ \A m, i \in MintsFor(pair) : m[1] = i[1]
      BY DEF Undisturbed, FromOne
    <2>2. ASSUME NEW n \in Announcements, Going(n, pair)'
          PROVE  /\ Found(pair) \subseteq {announcement'[n]}
                 /\ \A m \in MintsFor(pair) : m[1] = n
      <3>1. Going(n, pair)
        BY <2>2
      <3>2. announcement'[n] = announcement[n]
        BY <3>1 DEF Going
      <3> QED BY <3>1, <3>2 DEF Undisturbed, FromOne
    <2>3. ASSUME NEW c \in Clients, client'[c].for = pair
          PROVE  /\ client'[c].pc = "send" => Found(pair) = {}
                 /\ client'[c].pc \in {"read", "replace"} => client'[c].id \in Found(pair)
                 /\ client'[c].pc = "replace" => MintsFor(pair) \subseteq client'[c].seen
      BY <2>3 DEF Undisturbed, FromOne
    <2> QED BY <1>1, <1>2, <2>1, <2>2, <2>3 DEF FromOne
  <1> QED BY <1>3, <1>4 DEF Undisturbed

\* The same where no name changes.
LEMMA UndisturbedFrame ==
  ASSUME NEW pair, Undisturbed(pair), UNCHANGED <<about, announcement>>,
         \A n \in Announcements : Going(n, pair)' => Going(n, pair),
         \A c \in Clients : client'[c].for = pair => client'[c] = client[c],
         \A k \in Ids : about[k] = pair => (row'[k] = "absent" <=> row[k] = "absent"),
         \A m \in MintIds : IsFor(m[1], pair) => (row'[m] = "absent" <=> row[m] = "absent"),
         Clean(pair)'
  PROVE  Undisturbed(pair)'
  <1>1. \A n : IsFor(n, pair)' <=> IsFor(n, pair)
    BY DEF IsFor
  <1>2. \A k \in Ids : row'[k] # "absent" /\ about'[k] = pair
                         <=> row[k] # "absent" /\ about[k] = pair
    OBVIOUS
  <1>3. \A m \in MintIds : row'[m] # "absent" /\ IsFor(m[1], pair)'
                             <=> row[m] # "absent" /\ IsFor(m[1], pair)
    BY <1>1
  <1> QED BY <1>2, <1>3, PairFrame

LEMMA CleanFrame ==
  ASSUME NEW pair, Clean(pair), UNCHANGED <<about, announcement>>,
         \A o \in Owners : row[o] # "absent" => row'[o] # "absent",
         \A o \in Owners : json'[o] # "absent" => json[o] # "absent",
         \A m \in Messages : delivery'[m] \in {"json", "creators", "details"} =>
           delivery[m] \in {"json", "creators", "details"},
         \A m \in Messages : delivery[m] # "unsent" => Owner(m) \in Owners
  PROVE  Clean(pair)'
  <1>1. \A n : IsFor(n, pair)' <=> IsFor(n, pair)
    BY DEF IsFor
  <1>2. \A m \in Messages : Owner(m)' = Owner(m)
    BY DEF Owner
  <1>3. \A k \in Ids : about'[k] = pair /\ json'[k] # "absent" => row'[k] # "absent"
    BY DEF Clean, Owners
  <1>4. \A m \in MintIds : IsFor(m[1], pair)' /\ json'[m] # "absent" => row'[m] # "absent"
    BY <1>1 DEF Clean, Owners
  <1>5. \A m \in Messages :
          IsFor(m[1], pair)' /\ delivery'[m] \in {"json", "creators", "details"} =>
            row'[Owner(m)] # "absent"
    BY <1>1 DEF Clean
  <1> QED BY <1>2, <1>3, <1>4, <1>5 DEF Clean

\* What a handler leaves alone, and that it takes up what is not over.
LEMMA HandlerMoves ==
  ASSUME UInv, NEW m \in Messages, Handle(m) \/ HandlerFails(m)
  PROVE  /\ UNCHANGED <<about, announcement, client, raced>>
         /\ delivery[m] \notin {"unsent", "acked"}
         /\ \A i \in Messages \ {m} : delivery'[i] = delivery[i]
         /\ \A n \in Announcements, pair \in Pairs : Going(n, pair)' => Going(n, pair)
         /\ announcement[m[1]] # NoId
         /\ \A pair : IsFor(m[1], pair) => Going(m[1], pair)
  <1>0. TypeOK /\ Begun
    BY DEF UInv, MInv
  <1>1. /\ UNCHANGED <<about, announcement, client, raced>>
        /\ delivery[m] \notin {"unsent", "acked"}
    BY DEF Handle, HandlerFails, InsertCollection, InsertMint, InsertJson, InsertCreators,
           InsertDetails, Begins
  <1>2. \E next : Goes(m, next)
    BY DEF Handle, HandlerFails, InsertCollection, InsertMint, InsertJson, InsertCreators,
           InsertDetails
  <1>3. \A i \in Messages \ {m} : delivery'[i] = delivery[i]
    BY <1>0, <1>2 DEF Goes, TypeOK
  <1>4. \A n \in Announcements, pair \in Pairs : Going(n, pair)' => Going(n, pair)
    <2> SUFFICES ASSUME NEW n \in Announcements, NEW pair \in Pairs, Going(n, pair)'
                 PROVE  Going(n, pair)
      OBVIOUS
    <2>1. IsFor(n, pair)
      BY <1>1 DEF Going, IsFor
    <2>2. PICK x \in Things : delivery'[<<n, x>>] # "acked"
      BY DEF Going
    <2>3. <<n, x>> \in Messages
      BY DEF Messages
    <2>4. delivery[<<n, x>>] # "acked"
      BY <1>1, <1>3, <2>2, <2>3
    <2> QED BY <2>1, <2>4 DEF Going
  <1>5. announcement[m[1]] # NoId
    BY <1>0, <1>1 DEF Begun
  <1>6. ASSUME NEW pair, IsFor(m[1], pair) PROVE Going(m[1], pair)
    <2>1. m[2] \in Things /\ m = <<m[1], m[2]>>
      BY DEF Messages
    <2> QED BY <1>1, <1>6, <2>1 DEF Going
  <1> QED BY <1>1, <1>3, <1>4, <1>5, <1>6

LEMMA InsertCollectionU ==
  ASSUME UInv, NEW m \in Messages, InsertCollection(m),
         NEW pair \in Pairs, Undisturbed(pair)
  PROVE  Undisturbed(pair)'
  <1> PICK n, k : n = m[1] /\ k = announcement[n]
    OBVIOUS
  <1>0. TypeOK /\ Begun
    BY DEF UInv, MInv
  <1>1. /\ UNCHANGED <<about, announcement, client, json>>
        /\ \A i \in Messages \ {m} : delivery'[i] = delivery[i]
        /\ \A i \in Announcements : Going(i, pair)' => Going(i, pair)
        /\ n \in Announcements
        /\ IsFor(n, pair) => Going(n, pair)
    BY HandlerMoves, OwnersApart DEF Handle, InsertCollection
  <1>2. /\ m[2] = Certificate /\ Owner(m) = k /\ k \in Ids /\ k \in Owners
    BY <1>0, OwnerType DEF InsertCollection, Begins, Owners
  <1>3. row'[k] = "bare" /\ \A o \in Owners \ {k} : row'[o] = row[o]
    BY <1>0, <1>2 DEF InsertCollection, TypeOK
  <1>4. k # NoId
    BY <1>2
  <1>5. \A i \in MintIds : i \in Owners \ {k}
    BY <1>2, OwnersApart DEF Owners
  <1>6. Clean(pair)'
    <2>1. \A i : IsFor(i, pair)' <=> IsFor(i, pair)
      BY <1>1 DEF IsFor
    <2>2. \A i \in Messages : Owner(i)' = Owner(i)
      BY <1>1 DEF Owner
    <2>3. \A o \in Owners : row[o] # "absent" => row'[o] # "absent"
      BY <1>3
    <2>4. \A j \in Ids : about'[j] = pair /\ json'[j] # "absent" => row'[j] # "absent"
      BY <1>1, <2>3 DEF Undisturbed, Clean, Owners
    <2>5. \A i \in MintIds : IsFor(i[1], pair)' /\ json'[i] # "absent" => row'[i] # "absent"
      BY <1>1, <2>1, <2>3 DEF Undisturbed, Clean, Owners
    <2>6. ASSUME NEW i \in Messages, IsFor(i[1], pair),
                 delivery'[i] \in {"json", "creators", "details"}
          PROVE  row'[Owner(i)] # "absent"
      <3>1. CASE i = m
        BY <1>2, <1>3, <3>1
      <3>2. CASE i # m
        <4>1. delivery'[i] = delivery[i] /\ Owner(i) \in Owners
          BY <1>0, <1>1, <2>6, <3>2, OwnerType
        <4> QED BY <2>3, <2>6, <4>1 DEF Undisturbed, Clean
      <3> QED BY <3>1, <3>2
    <2> QED BY <2>1, <2>2, <2>4, <2>5, <2>6 DEF Clean
  <1>7. CASE ~IsFor(n, pair)
    <2>1. about[k] # pair
      BY <1>4, <1>7 DEF IsFor
    <2>2. \A j \in Ids : about[j] = pair => row'[j] = row[j]
      BY <1>3, <2>1 DEF Owners
    <2>3. \A i \in MintIds : row'[i] = row[i]
      BY <1>3, <1>5
    <2> QED BY <1>1, <1>6, <2>2, <2>3, UndisturbedFrame
  <1>8. CASE IsFor(n, pair)
    <2>0. Going(n, pair) /\ n \in Announcements
      BY <1>1, <1>8
    <2>1. /\ \A c \in Clients : client'[c].for # pair
          /\ \A i \in Announcements : Going(i, pair)' => i = n
          /\ Found(pair) \subseteq {k}
          /\ \A i \in MintsFor(pair) : i[1] = n
      <3>1. \A c \in Clients : client[c].for # pair
        BY <2>0 DEF Undisturbed, Alone
      <3>2. \A i \in Announcements : Going(i, pair) => n = i
        BY <2>0 DEF Undisturbed, Alone
      <3>3. Found(pair) \subseteq {announcement[n]} /\ \A i \in MintsFor(pair) : i[1] = n
        BY <2>0 DEF Undisturbed, FromOne
      <3> QED BY <1>1, <3>1, <3>2, <3>3
    <2>2. Found(pair)' \subseteq {k}
      BY <1>1, <1>3, <2>1 DEF Found, Owners
    <2>3. MintsFor(pair)' \subseteq MintsFor(pair)
      BY <1>1, <1>3, <1>5 DEF MintsFor, IsFor
    <2>4. Alone(pair)'
      BY <2>1 DEF Alone
    <2>5. FromOne(pair)'
      BY <1>1, <2>1, <2>2, <2>3 DEF FromOne
    <2> QED BY <1>6, <2>4, <2>5 DEF Undisturbed
  <1> QED BY <1>7, <1>8

LEMMA InsertMintU ==
  ASSUME UInv, NEW m \in Messages, InsertMint(m),
         NEW pair \in Pairs, Undisturbed(pair)
  PROVE  Undisturbed(pair)'
  <1> PICK n : n = m[1]
    OBVIOUS
  <1>0. TypeOK /\ Begun
    BY DEF UInv, MInv
  <1>1. /\ UNCHANGED <<about, announcement, client, json>>
        /\ \A i \in Messages \ {m} : delivery'[i] = delivery[i]
        /\ \A i \in Announcements : Going(i, pair)' => Going(i, pair)
        /\ n \in Announcements
        /\ IsFor(n, pair) => Going(n, pair)
    BY HandlerMoves, OwnersApart DEF Handle, InsertMint
  <1>2. m \in MintIds /\ Owner(m) = m /\ m \in Owners /\ m \notin Ids
    BY OwnersApart DEF InsertMint, Owner, Owners
  <1>3. row'[m] = "bare" /\ \A o \in Owners \ {m} : row'[o] = row[o]
    BY <1>0, <1>2 DEF InsertMint, TypeOK
  <1>4. \A j \in Ids : row'[j] = row[j]
    BY <1>2, <1>3 DEF Owners
  <1>5. Clean(pair)'
    <2>1. \A i : IsFor(i, pair)' <=> IsFor(i, pair)
      BY <1>1 DEF IsFor
    <2>2. \A i \in Messages : Owner(i)' = Owner(i)
      BY <1>1 DEF Owner
    <2>3. \A o \in Owners : row[o] # "absent" => row'[o] # "absent"
      BY <1>3
    <2>4. \A j \in Ids : about'[j] = pair /\ json'[j] # "absent" => row'[j] # "absent"
      BY <1>1, <2>3 DEF Undisturbed, Clean, Owners
    <2>5. \A i \in MintIds : IsFor(i[1], pair)' /\ json'[i] # "absent" => row'[i] # "absent"
      BY <1>1, <2>1, <2>3 DEF Undisturbed, Clean, Owners
    <2>6. ASSUME NEW i \in Messages, IsFor(i[1], pair),
                 delivery'[i] \in {"json", "creators", "details"}
          PROVE  row'[Owner(i)] # "absent"
      <3>1. CASE i = m
        BY <1>2, <1>3, <3>1
      <3>2. CASE i # m
        <4>1. delivery'[i] = delivery[i] /\ Owner(i) \in Owners
          BY <1>0, <1>1, <2>6, <3>2, OwnerType
        <4> QED BY <2>3, <2>6, <4>1 DEF Undisturbed, Clean
      <3> QED BY <3>1, <3>2
    <2> QED BY <2>1, <2>2, <2>4, <2>5, <2>6 DEF Clean
  <1>6. CASE ~IsFor(n, pair)
    <2>1. \A i \in MintIds : IsFor(i[1], pair) => row'[i] = row[i]
      BY <1>3, <1>6 DEF Owners
    <2> QED BY <1>1, <1>4, <1>5, <2>1, UndisturbedFrame
  <1>7. CASE IsFor(n, pair)
    <2>0. Going(n, pair) /\ n \in Announcements
      BY <1>1, <1>7
    <2>1. /\ \A c \in Clients : client'[c].for # pair
          /\ \A i \in Announcements : Going(i, pair)' => i = n
          /\ Found(pair) \subseteq {announcement[n]}
          /\ \A i \in MintsFor(pair) : i[1] = n
      <3>1. \A c \in Clients : client[c].for # pair
        BY <2>0 DEF Undisturbed, Alone
      <3>2. \A i \in Announcements : Going(i, pair) => n = i
        BY <2>0 DEF Undisturbed, Alone
      <3>3. Found(pair) \subseteq {announcement[n]} /\ \A i \in MintsFor(pair) : i[1] = n
        BY <2>0 DEF Undisturbed, FromOne
      <3> QED BY <1>1, <3>1, <3>2, <3>3
    <2>2. Found(pair)' = Found(pair)
      BY <1>1, <1>4 DEF Found
    <2>3. MintsFor(pair)' \subseteq MintsFor(pair) \cup {m}
      BY <1>1, <1>3 DEF MintsFor, IsFor, Owners
    <2>4. \A i \in MintsFor(pair)' : i[1] = n
      BY <2>1, <2>3
    <2>5. Alone(pair)'
      BY <2>1 DEF Alone
    <2>6. FromOne(pair)'
      BY <1>1, <2>1, <2>2, <2>4 DEF FromOne
    <2> QED BY <1>5, <2>5, <2>6 DEF Undisturbed
  <1> QED BY <1>6, <1>7

LEMMA InsertJsonU ==
  ASSUME UInv, NEW m \in Messages, InsertJson(m),
         NEW pair \in Pairs, Undisturbed(pair)
  PROVE  Undisturbed(pair)'
  <1>0. TypeOK /\ Begun
    BY DEF UInv, MInv
  <1>1. /\ UNCHANGED <<about, announcement, client, row>>
        /\ delivery[m] = "json" /\ delivery' = [delivery EXCEPT ![m] = "creators"]
        /\ json' = [json EXCEPT ![Owner(m)] = "bare"]
        /\ \A i \in Announcements : Going(i, pair)' => Going(i, pair)
    BY HandlerMoves DEF Handle, InsertJson, Goes
  <1>2. /\ Owner(m) \in Owners
        /\ m[2] = Certificate => Owner(m) = announcement[m[1]] /\ Owner(m) \in Ids
        /\ m[2] # Certificate => Owner(m) = m /\ m \in MintIds
    BY <1>0, <1>1, OwnerType
  <1>3. \A o \in Owners \ {Owner(m)} : json'[o] = json[o]
    BY <1>0, <1>1 DEF TypeOK
  <1>4. IsFor(m[1], pair) => row[Owner(m)] # "absent"
    BY <1>1 DEF Undisturbed, Clean
  <1>5. \A i : IsFor(i, pair)' <=> IsFor(i, pair)
    BY <1>1 DEF IsFor
  <1>6. Clean(pair)'
    <2>1. ASSUME NEW k \in Ids, about[k] = pair, json'[k] # "absent" PROVE row[k] # "absent"
      <3>1. CASE k = Owner(m)
        <4>1. IsFor(m[1], pair)
          BY <1>2, <2>1, <3>1, OwnersApart DEF IsFor
        <4> QED BY <1>4, <3>1, <4>1
      <3>2. CASE k # Owner(m)
        BY <1>3, <2>1, <3>2 DEF Undisturbed, Clean, Owners
      <3> QED BY <3>1, <3>2
    <2>2. ASSUME NEW i \in MintIds, IsFor(i[1], pair), json'[i] # "absent"
          PROVE  row[i] # "absent"
      <3>1. CASE i = Owner(m)
        BY <1>2, <1>4, <2>2, <3>1, OwnersApart
      <3>2. CASE i # Owner(m)
        BY <1>3, <2>2, <3>2 DEF Undisturbed, Clean, Owners
      <3> QED BY <3>1, <3>2
    <2>3. \A i \in Messages : delivery'[i] \in {"json", "creators", "details"} =>
            delivery[i] \in {"json", "creators", "details"}
      BY <1>0, <1>1 DEF TypeOK
    <2>4. \A i \in Messages : Owner(i)' = Owner(i)
      BY <1>1 DEF Owner
    <2>5. \A i \in Messages :
            IsFor(i[1], pair) /\ delivery'[i] \in {"json", "creators", "details"} =>
              row[Owner(i)] # "absent"
      BY <2>3 DEF Undisturbed, Clean
    <2> QED BY <1>1, <1>5, <2>1, <2>2, <2>4, <2>5 DEF Clean
  <1> QED BY <1>1, <1>6, UndisturbedFrame

LEMMA CompleteU ==
  ASSUME UInv, NEW m \in Messages, InsertCreators(m) \/ InsertDetails(m) \/ HandlerFails(m),
         NEW pair \in Pairs, Undisturbed(pair)
  PROVE  Undisturbed(pair)'
  <1>0. TypeOK /\ Begun
    BY DEF UInv, MInv
  <1>1. /\ UNCHANGED <<about, announcement, client>>
        /\ \A i \in Announcements : Going(i, pair)' => Going(i, pair)
        /\ delivery[m] # "unsent"
    BY HandlerMoves DEF Handle
  <1>2. Owner(m) \in Owners
    BY <1>0, <1>1, OwnerType
  <1>3. /\ \A o \in Owners : row'[o] = "absent" <=> row[o] = "absent"
        /\ \A o \in Owners : json'[o] # "absent" => json[o] # "absent"
        /\ \A i \in Messages : delivery'[i] \in {"json", "creators", "details"} =>
             delivery[i] \in {"json", "creators", "details"}
    <2>1. CASE InsertCreators(m)
      BY <1>0, <1>2, <2>1 DEF InsertCreators, Goes, TypeOK
    <2>2. CASE InsertDetails(m)
      BY <1>0, <1>2, <2>2 DEF InsertDetails, Goes, TypeOK
    <2>3. CASE HandlerFails(m)
      BY <1>0, <1>2, <2>3 DEF HandlerFails, Goes, TypeOK
    <2> QED BY <2>1, <2>2, <2>3
  <1>4. Clean(pair)'
    <2>1. \A i \in Messages : delivery[i] # "unsent" => Owner(i) \in Owners
      BY <1>0, OwnerType
    <2> QED BY <1>1, <1>3, <2>1, CleanFrame DEF Undisturbed
  <1> QED BY <1>1, <1>3, <1>4, UndisturbedFrame DEF Owners

\* Handlers only add rows, and metadata only of imports that are announced.
LEMMA HandlerU ==
  ASSUME UInv, NEW m \in Messages, Handle(m) \/ HandlerFails(m)
  PROVE  UInv'
  <1>0. TypeOK /\ Begun /\ MInv /\ Kept
    BY DEF UInv, MInv
  <1>1. /\ UNCHANGED <<about, announcement, client, raced>>
        /\ delivery[m] \notin {"unsent", "acked"}
        /\ announcement[m[1]] # NoId
    BY HandlerMoves
  <1>2. /\ Owner(m) \in Owners
        /\ m[2] = Certificate => Owner(m) = announcement[m[1]] /\ Owner(m) \in Ids
        /\ m[2] # Certificate => Owner(m) = m /\ m \in MintIds
    BY <1>0, <1>1, OwnerType
  <1>3. MInv'
    BY <1>0, HandlerTypes, HandlerKept, HandlerAnswered DEF MInv
  <1>4. MintsKept'
    <2>1. \A o \in Owners : row[o] # "absent" => row'[o] # "absent"
      BY <1>0, <1>2
      DEF Handle, HandlerFails, InsertCollection, InsertMint, InsertJson, InsertCreators,
          InsertDetails, TypeOK
    <2>2. ASSUME NEW i \in MintIds, row'[i] # "absent", row[i] = "absent"
          PROVE  announcement[i[1]] # NoId /\ row[announcement[i[1]]] # "absent"
      <3>1. InsertMint(m)
        BY <1>0, <1>2, <2>2, OwnersApart
        DEF Handle, HandlerFails, InsertCollection, InsertMint, InsertJson, InsertCreators,
            InsertDetails, TypeOK, Owners
      <3>2. i = m
        BY <1>0, <2>2, <3>1 DEF InsertMint, TypeOK, Owners
      <3> QED BY <1>1, <3>1, <3>2 DEF InsertMint
    <2>3. ASSUME NEW i \in MintIds, row'[i] # "absent"
          PROVE  announcement'[i[1]] # NoId /\ row'[announcement'[i[1]]] # "absent"
      <3>1. announcement[i[1]] # NoId /\ row[announcement[i[1]]] # "absent"
        BY <2>2, <2>3 DEF UInv, MintsKept
      <3>2. announcement[i[1]] \in Owners
        BY <1>0, <3>1, OwnersApart DEF TypeOK, Owners, MintIds
      <3> QED BY <1>1, <2>1, <3>1, <3>2
    <2> QED BY <2>3 DEF MintsKept
  <1>5. Unmade'
    <2> SUFFICES ASSUME NEW n \in Announcements, announcement[n] = NoId, NEW x \in Things
                 PROVE  json'[<<n, x>>] = "absent"
      BY <1>1 DEF UInv, Unmade
    <2>1. json[<<n, x>>] = "absent" /\ <<n, x>> \in Owners
      BY OwnersApart DEF UInv, Unmade, Owners, Messages, Things, Ids, MintIds
    <2>2. Owner(m) # <<n, x>>
      <3>1. CASE m[2] = Certificate
        <4>1. x \in Assets => <<n, x>> \in MintIds
          BY DEF MintIds
        <4>2. x \notin Assets => x = Certificate
          BY DEF Things
        <4>3. Given(Owner(m))
          BY <1>0, <1>1, <1>2, <3>1, OwnersApart DEF Kept, NamesGiven
        <4> QED BY <1>2, <3>1, <4>1, <4>2, <4>3, OwnersApart DEF Given
      <3>2. CASE m[2] # Certificate
        BY <1>1, <1>2, <3>2
      <3> QED BY <3>1, <3>2
    <2> QED
      BY <1>0, <1>2, <2>1, <2>2
      DEF Handle, HandlerFails, InsertCollection, InsertMint, InsertJson, InsertCreators,
          InsertDetails, TypeOK
  <1>6. \A pair \in Pairs \ raced : Undisturbed(pair)'
    BY InsertCollectionU, InsertMintU, InsertJsonU, CompleteU DEF Handle, UInv
  <1> QED BY <1>1, <1>3, <1>4, <1>5, <1>6 DEF UInv

LEMMA IndexU ==
  ASSUME UInv, NEW n \in Announcements, Index(n)
  PROVE  UInv'
  <1>0. TypeOK /\ Begun /\ MInv /\ Kept
    BY DEF UInv, MInv
  <1>1. MInv'
    <2>1. Kept'
      BY <1>0, KeptFrame DEF Index
    <2> QED BY <1>0, <2>1, IndexTypes, IndexAnswered DEF MInv
  <1>2. UNCHANGED <<about, row, json, announcement, client, raced>>
    BY DEF Index
  <1>3. MintsKept' /\ Unmade'
    BY <1>2 DEF UInv, MintsKept, Unmade
  <1>4. \A i \in Messages : delivery'[i] # delivery[i] =>
          delivery[i] = "unsent" /\ delivery'[i] = "waiting"
    BY OwnersApart DEF Index, Messages
  <1>5. ASSUME NEW pair \in Pairs, Undisturbed(pair) PROVE Undisturbed(pair)'
    <2>1. \A i : IsFor(i, pair)' <=> IsFor(i, pair)
      BY <1>2 DEF IsFor
    <2>2. ASSUME NEW i \in Announcements, Going(i, pair)' PROVE Going(i, pair)
      <3>1. PICK x \in Things : delivery'[<<i, x>>] # "acked"
        BY <2>2 DEF Going
      <3>2. delivery[<<i, x>>] # "acked"
        BY <1>4, <3>1 DEF Messages
      <3> QED BY <2>1, <2>2, <3>2 DEF Going
    <2>3. Clean(pair)'
      <3>1. \A i \in Messages : delivery'[i] \in {"json", "creators", "details"} =>
              delivery[i] \in {"json", "creators", "details"}
        BY <1>4
      <3>2. \A i \in Messages : delivery[i] # "unsent" => Owner(i) \in Owners
        BY <1>0, OwnerType
      <3> QED BY <1>2, <1>5, <3>1, <3>2, CleanFrame DEF Undisturbed
    <2> QED BY <1>2, <1>5, <2>2, <2>3, UndisturbedFrame
  <1> QED BY <1>1, <1>2, <1>3, <1>5 DEF UInv

\* A mint of the pair is there with a collection of the pair.
LEMMA MintsHaveTheirs ==
  ASSUME UInv, NEW pair, NEW m \in MintsFor(pair)
  PROVE  m \in MintIds /\ announcement[m[1]] \in Found(pair)
  <1>1. m \in MintIds /\ row[m] # "absent" /\ IsFor(m[1], pair)
    BY DEF MintsFor
  <1>2. m[1] \in Announcements /\ announcement[m[1]] # NoId /\ row[announcement[m[1]]] # "absent"
    BY <1>1, OwnersApart DEF UInv, MintsKept
  <1>3. announcement[m[1]] \in Ids
    BY <1>2 DEF UInv, MInv, TypeOK
  <1> QED BY <1>1, <1>2, <1>3 DEF Found, IsFor

\* Steps of a request that touch no row.
LEMMA LookU ==
  ASSUME UInv, MInv', NEW c \in Clients,
         UNCHANGED <<about, row, json, announcement, delivery>>, raced \subseteq raced',
         NEW r, client' = [client EXCEPT ![c] = r],
         \A pair \in Pairs \ raced' : r.for = pair =>
           /\ \A d \in Clients \ {c} : client[d].for # pair
           /\ \A n \in Announcements : ~Going(n, pair)
           /\ r.pc = "send" => Found(pair) = {}
           /\ r.pc \in {"read", "replace"} => r.id \in Found(pair)
           /\ r.pc = "replace" => MintsFor(pair) \subseteq r.seen
  PROVE  UInv'
  <1>0. TypeOK
    BY DEF UInv, MInv
  <1>1. client'[c] = r /\ \A d \in Clients \ {c} : client'[d] = client[d]
    BY <1>0 DEF TypeOK
  <1>2. MintsKept' /\ Unmade'
    BY DEF UInv, MintsKept, Unmade
  <1>3. ASSUME NEW pair \in Pairs \ raced' PROVE Undisturbed(pair)'
    <2>0. Undisturbed(pair)
      BY <1>3 DEF UInv
    <2>1. \A n : IsFor(n, pair)' <=> IsFor(n, pair)
      BY DEF IsFor
    <2>2. \A n : Going(n, pair)' <=> Going(n, pair)
      BY <2>1 DEF Going
    <2>3. Clean(pair)'
      <3>1. \A m : Owner(m)' = Owner(m)
        BY DEF Owner
      <3> QED BY <2>0, <2>1, <3>1 DEF Undisturbed, Clean
    <2>4. CASE r.for # pair
      <3>1. \A d \in Clients : client'[d].for = pair => client'[d] = client[d]
        BY <1>1, <2>4
      <3> QED BY <2>0, <2>2, <2>3, <3>1, UndisturbedFrame
    <2>5. CASE r.for = pair
      <3>1. /\ \A d \in Clients : client'[d].for = pair => d = c
            /\ \A n \in Announcements : ~Going(n, pair)'
        BY <1>1, <1>3, <2>2, <2>5
      <3>2. Found(pair)' = Found(pair) /\ MintsFor(pair)' = MintsFor(pair)
        BY <2>1 DEF Found, MintsFor
      <3>3. Alone(pair)'
        BY <3>1 DEF Alone
      <3>4. /\ \A j, k \in Found(pair) : j = k
            /\ \A m, i \in MintsFor(pair) : m[1] = i[1]
        BY <2>0 DEF Undisturbed, FromOne
      <3>5. /\ r.pc = "send" => Found(pair) = {}
            /\ r.pc \in {"read", "replace"} => r.id \in Found(pair)
            /\ r.pc = "replace" => MintsFor(pair) \subseteq r.seen
        BY <1>3, <2>5
      <3>6. FromOne(pair)'
        BY <1>1, <3>1, <3>2, <3>4, <3>5 DEF FromOne
      <3> QED BY <2>3, <3>3, <3>6 DEF Undisturbed
    <2> QED BY <2>4, <2>5
  <1> QED BY <1>2, <1>3 DEF UInv

LEMMA ImportU ==
  ASSUME UInv, MInv', NEW c \in Clients, NEW pair \in Imported,
         ImportSolanaCollection(c, pair)
  PROVE  UInv'
  <1>1. /\ UNCHANGED <<about, row, json, announcement, delivery>>
        /\ raced' = IF Unfinished(pair) THEN raced \cup {pair} ELSE raced
        /\ pair \in Pairs
    BY DEF ImportSolanaCollection
  <1>2. PICK r : /\ client' = [client EXCEPT ![c] = r] /\ r.for = pair
                 /\ \/ r.pc = "read" /\ r.id \in Found(pair)
                    \/ r.pc = "send" /\ Found(pair) = {}
    <2>1. ASSUME NEW k \in Found(pair), NEW r,
                 r = [pc |-> "read", for |-> pair, id |-> k, seen |-> {}]
          PROVE  r.for = pair /\ r.pc = "read" /\ r.id \in Found(pair)
      BY <2>1
    <2>2. ASSUME NEW r, r = [pc |-> "send", for |-> pair, id |-> NoId, seen |-> {}]
          PROVE  r.for = pair /\ r.pc = "send"
      BY <2>2
    <2>3. \/ \E k \in Found(pair) : \E r :
               /\ r = [pc |-> "read", for |-> pair, id |-> k, seen |-> {}]
               /\ client' = [client EXCEPT ![c] = r]
          \/ \E r :
               /\ r = [pc |-> "send", for |-> pair, id |-> NoId, seen |-> {}]
               /\ client' = [client EXCEPT ![c] = r] /\ Found(pair) = {}
      BY DEF ImportSolanaCollection
    <2> QED BY <2>1, <2>2, <2>3
  <1>3. ASSUME NEW p \in Pairs \ raced', r.for = p
        PROVE  /\ \A d \in Clients \ {c} : client[d].for # p
               /\ \A n \in Announcements : ~Going(n, p)
    <2>1. p = pair /\ ~Unfinished(pair)
      BY <1>1, <1>2, <1>3
    <2> QED BY <2>1 DEF Unfinished, Going
  <1> QED BY <1>1, <1>2, <1>3, LookU

LEMMA ReadMintsU ==
  ASSUME UInv, MInv', NEW c \in Clients, ReadMints(c)
  PROVE  UInv'
  <1>0. TypeOK /\ client[c] \in Client
    BY DEF UInv, MInv, TypeOK
  <1>1. UNCHANGED <<about, row, json, announcement, delivery, raced>> /\ client[c].pc = "read"
    BY DEF ReadMints
  <1>2. PICK S : S = {m \in MintsOf(client[c].id) : row[m] # "absent"}
    OBVIOUS
  <1>3. PICK r : r = [client[c] EXCEPT !.pc = "replace", !.seen = S]
    OBVIOUS
  <1>4. client' = [client EXCEPT ![c] = r]
    BY <1>0, <1>2, <1>3 DEF ReadMints, TypeOK
  <1>5. r.for = client[c].for /\ r.pc = "replace" /\ r.id = client[c].id /\ r.seen = S
    BY <1>0, <1>3 DEF Client
  <1>6. ASSUME NEW pair \in Pairs \ raced', r.for = pair
        PROVE  /\ \A d \in Clients \ {c} : client[d].for # pair
               /\ \A n \in Announcements : ~Going(n, pair)
               /\ r.id \in Found(pair)
               /\ MintsFor(pair) \subseteq r.seen
    <2>0. Undisturbed(pair) /\ client[c].for = pair
      BY <1>1, <1>5, <1>6 DEF UInv
    <2>1. /\ \A d \in Clients \ {c} : client[d].for # pair
          /\ \A n \in Announcements : ~Going(n, pair)
      BY <2>0 DEF Undisturbed, Alone
    <2>2. r.id \in Found(pair) /\ \A j, k \in Found(pair) : j = k
      BY <1>1, <1>5, <2>0 DEF Undisturbed, FromOne
    <2>3. ASSUME NEW m \in MintsFor(pair) PROVE m \in S
      <3>1. m \in MintIds /\ announcement[m[1]] = client[c].id
        BY <1>5, <2>2, MintsHaveTheirs
      <3> QED BY <1>2, <3>1 DEF MintsOf, MintsFor
    <2> QED BY <1>5, <2>1, <2>2, <2>3
  <1>7. \A pair \in Pairs \ raced' : r.for = pair =>
          /\ \A d \in Clients \ {c} : client[d].for # pair
          /\ \A n \in Announcements : ~Going(n, pair)
          /\ r.pc = "send" => Found(pair) = {}
          /\ r.pc \in {"read", "replace"} => r.id \in Found(pair)
          /\ r.pc = "replace" => MintsFor(pair) \subseteq r.seen
    BY <1>5, <1>6
  <1>8. UNCHANGED <<about, row, json, announcement, delivery>> /\ raced \subseteq raced'
    BY <1>1
  <1> QED BY <1>4, <1>7, <1>8, LookU

LEMMA GiveUpU ==
  ASSUME UInv, MInv', NEW c \in Clients, GiveUp(c)
  PROVE  UInv'
  <1>1. /\ UNCHANGED <<about, row, json, announcement, delivery, raced>>
        /\ client' = [client EXCEPT ![c] = Idle]
    BY DEF GiveUp
  <1>2. \A pair \in Pairs : Idle.for # pair
    BY DEF Idle
  <1> QED BY <1>1, <1>2, LookU

LEMMA ReplaceU ==
  ASSUME UInv, MInv', NEW c \in Clients, Replace(c)
  PROVE  UInv'
  <1> PICK k, p, r : /\ k = client[c].id /\ p = client[c].for
                     /\ r = [client[c] EXCEPT !.pc = "send"]
    OBVIOUS
  <1>0. TypeOK /\ client[c] \in Client /\ RequestOK(c)
    BY DEF UInv, MInv, TypeOK, Kept
  <1>1. /\ UNCHANGED <<about, announcement, delivery, raced>>
        /\ client[c].pc = "replace"
        /\ k \in Ids /\ about[k] = p /\ client[c].seen \subseteq MintsOf(k)
    BY <1>0 DEF Replace, RequestOK, Client
  <1>2. client' = [client EXCEPT ![c] = r] /\ r.for = p /\ r.pc = "send"
    BY <1>0 DEF Replace, Client, TypeOK
  <1>3. client'[c] = r /\ \A d \in Clients \ {c} : client'[d] = client[d]
    BY <1>0, <1>2 DEF TypeOK
  <1>4. /\ row'[k] = "absent" /\ \A j \in Ids \ {k} : row'[j] = row[j]
        /\ \A m \in MintsOf(k) : row'[m] = "absent"
        /\ \A m \in MintIds \ MintsOf(k) : row'[m] = row[m]
    BY <1>1, OwnersApart DEF Replace, MintsOf, Owners
  <1>5. /\ json'[k] = "absent" /\ \A j \in Ids \ {k} : json'[j] = json[j]
        /\ \A m \in client[c].seen : json'[m] = "absent"
        /\ \A m \in MintIds \ client[c].seen : json'[m] = json[m]
    BY <1>1, OwnersApart DEF Replace, MintsOf, Owners, Deleted
  <1>6. MintsKept'
    <2>1. ASSUME NEW m \in MintIds, row'[m] # "absent"
          PROVE  announcement[m[1]] # NoId /\ row'[announcement[m[1]]] # "absent"
      <3>1. row[m] # "absent" /\ m \notin MintsOf(k)
        BY <1>4, <2>1
      <3>2. announcement[m[1]] # NoId /\ row[announcement[m[1]]] # "absent"
        BY <3>1 DEF UInv, MintsKept
      <3>3. announcement[m[1]] \in Ids \ {k}
        BY <1>0, <3>1, <3>2, OwnersApart DEF TypeOK, MintsOf
      <3> QED BY <1>4, <3>2, <3>3
    <2> QED BY <1>1, <2>1 DEF MintsKept
  <1>7. Unmade'
    <2>1. \A o \in Owners : json'[o] # "absent" => json[o] # "absent"
      BY DEF Replace
    <2>2. \A n \in Announcements, x \in Things : <<n, x>> \in Owners
      BY DEF Owners, Ids, MintIds, Things
    <2> QED BY <1>1, <2>1, <2>2 DEF UInv, Unmade
  <1>8. ASSUME NEW pair \in Pairs \ raced PROVE Undisturbed(pair)'
    <2>0. Undisturbed(pair)
      BY <1>8 DEF UInv
    <2>1. \A n : IsFor(n, pair)' <=> IsFor(n, pair)
      BY <1>1 DEF IsFor
    <2>2. \A n : Going(n, pair)' <=> Going(n, pair)
      BY <1>1, <2>1 DEF Going
    <2>3. \A m : Owner(m)' = Owner(m)
      BY <1>1 DEF Owner
    <2>4. CASE pair # p
      <3>1. \A m \in MintIds : IsFor(m[1], pair) => m \notin MintsOf(k)
        BY <1>1, <2>4 DEF IsFor, MintsOf
      <3>2. \A j \in Ids : about[j] = pair => row'[j] = row[j] /\ json'[j] = json[j]
        BY <1>1, <1>4, <1>5, <2>4
      <3>3. \A m \in MintIds : IsFor(m[1], pair) => row'[m] = row[m] /\ json'[m] = json[m]
        BY <1>1, <1>4, <1>5, <3>1
      <3>4. \A d \in Clients : client'[d].for = pair => client'[d] = client[d]
        BY <1>2, <1>3, <2>4
      <3>5. ASSUME NEW m \in Messages, IsFor(m[1], pair),
                   delivery[m] \in {"json", "creators", "details"}
            PROVE  row'[Owner(m)] # "absent"
        <4>1. row[Owner(m)] # "absent" /\ delivery[m] # "unsent"
          BY <2>0, <3>5 DEF Undisturbed, Clean
        <4>2. CASE m[2] = Certificate
          <5>1. Owner(m) \in Ids /\ about[Owner(m)] = pair
            BY <3>5, <4>1, <4>2, OwnerType DEF UInv, MInv, IsFor
          <5> QED BY <3>2, <4>1, <5>1
        <4>3. CASE m[2] # Certificate
          <5>1. Owner(m) = m /\ m \in MintIds
            BY <4>1, <4>3, OwnerType DEF UInv, MInv
          <5> QED BY <3>3, <3>5, <4>1, <5>1
        <4> QED BY <4>2, <4>3
      <3>6. Clean(pair)'
        BY <1>1, <2>0, <2>1, <2>3, <3>2, <3>3, <3>5 DEF Undisturbed, Clean
      <3> QED BY <1>1, <2>0, <2>2, <3>2, <3>3, <3>4, <3>6, UndisturbedFrame
    <2>5. CASE pair = p
      <3>0. client[c].for = pair
        BY <2>5
      <3>1. /\ \A d \in Clients : client'[d].for = pair => d = c
            /\ \A n \in Announcements : ~Going(n, pair)
        BY <1>3, <2>0, <3>0 DEF Undisturbed, Alone
      <3>2. /\ k \in Found(pair) /\ MintsFor(pair) \subseteq client[c].seen
            /\ \A j \in Found(pair) : j = k
        BY <1>1, <2>0, <3>0 DEF Undisturbed, FromOne
      <3>3. Found(pair)' = {}
        BY <1>1, <1>4, <3>2 DEF Found
      <3>4. ASSUME NEW m \in MintsFor(pair)' PROVE FALSE
        <4>1. m \in MintIds /\ row'[m] # "absent" /\ IsFor(m[1], pair)
          BY <2>1, <3>4 DEF MintsFor
        <4>2. row[m] # "absent" /\ m \notin MintsOf(k)
          BY <1>4, <4>1
        <4>3. m \in MintsFor(pair)
          BY <4>1, <4>2 DEF MintsFor
        <4> QED BY <3>2, <4>1, <4>2, <4>3, MintsHaveTheirs DEF MintsOf
      <3>5. Clean(pair)'
        <4>1. ASSUME NEW j \in Ids, about[j] = pair, json'[j] # "absent" PROVE FALSE
          <5>1. j # k /\ json[j] # "absent"
            BY <1>5, <4>1
          <5>2. row[j] # "absent"
            BY <2>0, <4>1, <5>1 DEF Undisturbed, Clean
          <5> QED BY <3>2, <4>1, <5>1, <5>2 DEF Found
        <4>2. ASSUME NEW m \in MintIds, IsFor(m[1], pair), json'[m] # "absent" PROVE FALSE
          <5>1. m \notin client[c].seen /\ json[m] # "absent"
            BY <1>5, <4>2
          <5>2. row[m] # "absent"
            BY <2>0, <4>2, <5>1 DEF Undisturbed, Clean
          <5> QED BY <3>2, <4>2, <5>1, <5>2 DEF MintsFor
        <4>3. ASSUME NEW m \in Messages, IsFor(m[1], pair), delivery[m] # "acked" PROVE FALSE
          <5>1. m = <<m[1], m[2]>> /\ m[1] \in Announcements /\ m[2] \in Things
            BY DEF Messages
          <5>2. Going(m[1], pair)
            BY <4>3, <5>1 DEF Going
          <5> QED BY <3>1, <5>1, <5>2
        <4> QED BY <1>1, <2>1, <4>1, <4>2, <4>3 DEF Clean
      <3>6. Alone(pair)'
        BY <2>2, <3>1 DEF Alone
      <3>7. FromOne(pair)'
        BY <1>2, <1>3, <2>2, <3>1, <3>3, <3>4 DEF FromOne
      <3> QED BY <3>5, <3>6, <3>7 DEF Undisturbed
    <2> QED BY <2>4, <2>5
  <1> QED BY <1>1, <1>6, <1>7, <1>8 DEF UInv

LEMMA AnnounceU ==
  ASSUME UInv, MInv', NEW c \in Clients, Announce(c)
  PROVE  UInv'
  <1> PICK p : p = client[c].for
    OBVIOUS
  <1>0. TypeOK /\ Begun /\ Kept /\ client[c] \in Client /\ RequestOK(c)
    BY DEF UInv, MInv, TypeOK, Kept
  <1>1. PICK n \in Announcements, k \in Ids :
          /\ announcement[n] = NoId
          /\ client[c].id = NoId => k = <<n, Certificate>>
          /\ client[c].id # NoId => k = client[c].id
          /\ about' = [about EXCEPT ![k] = p]
          /\ announcement' = [announcement EXCEPT ![n] = k]
    <2>1. client[c].id \in Ids \cup {NoId}
      BY <1>0 DEF Client
    <2> QED BY <2>1, OwnersApart DEF Announce
  <1>2. /\ UNCHANGED <<row, json, delivery, raced>> /\ client[c].pc = "send"
        /\ client'[c] = Idle /\ \A d \in Clients \ {c} : client'[d] = client[d]
    BY <1>0 DEF Announce, TypeOK
  <1>3. /\ announcement'[n] = k /\ about'[k] = p /\ k # NoId
        /\ \A i \in Announcements \ {n} : announcement'[i] = announcement[i]
        /\ \A j \in Ids \ {k} : about'[j] = about[j]
    BY <1>0, <1>1 DEF TypeOK
  \* Whatever has been named is about the same pair as before.
  <1>4. ASSUME NEW j \in Ids, Given(j) PROVE about'[j] = about[j]
    <2>1. client[c].id # NoId => about[k] = p
      BY <1>0, <1>1 DEF RequestOK
    <2>2. client[c].id = NoId => j # k
      BY <1>1, <1>4 DEF Given
    <2> QED BY <1>3, <2>1, <2>2
  <1>5. \A j \in Ids : row[j] # "absent" => about'[j] = about[j]
    BY <1>0, <1>4 DEF Kept, NamesGiven
  <1>6. \A i \in Announcements : announcement[i] # NoId =>
          /\ i # n /\ announcement'[i] = announcement[i]
          /\ about'[announcement[i]] = about[announcement[i]]
    BY <1>0, <1>1, <1>3, <1>4 DEF Kept, NamesGiven, TypeOK
  <1>7. \A j \in Ids : json[j] # "absent" => about'[j] = about[j]
    <2>1. client[c].id = NoId => json[k] = "absent"
      BY <1>1 DEF UInv, Unmade, Things
    <2>2. client[c].id # NoId => about'[k] = about[k]
      BY <1>0, <1>1, <1>3 DEF RequestOK
    <2> QED BY <1>3, <2>1, <2>2
  <1>8. \A i \in Announcements, pair \in Pairs : i # n => (IsFor(i, pair)' <=> IsFor(i, pair))
    BY <1>3, <1>6 DEF IsFor
  <1>9. MintsKept'
    BY <1>2, <1>6, OwnersApart DEF UInv, MintsKept
  <1>10. Unmade'
    <2> SUFFICES ASSUME NEW i \in Announcements, announcement'[i] = NoId
                 PROVE  /\ about'[<<i, Certificate>>] = NoPair
                        /\ \A x \in Things : json'[<<i, x>>] = "absent"
      BY DEF Unmade
    <2>1. announcement[i] = NoId /\ i # n
      BY <1>3
    <2>2. k # <<i, Certificate>>
      BY <1>0, <1>1, <2>1 DEF RequestOK, Given
    <2> QED BY <1>2, <1>3, <2>1, <2>2, OwnersApart DEF UInv, Unmade
  <1>11. ASSUME NEW pair \in Pairs \ raced PROVE Undisturbed(pair)'
    <2>0. Undisturbed(pair)
      BY <1>11 DEF UInv
    <2>1. \A j \in Ids : row'[j] # "absent" /\ about'[j] = pair
                           <=> row[j] # "absent" /\ about[j] = pair
      BY <1>2, <1>5
    <2>2. ASSUME NEW m \in MintIds
          PROVE  row'[m] # "absent" /\ IsFor(m[1], pair)'
                   <=> row[m] # "absent" /\ IsFor(m[1], pair)
      <3>1. row[m] # "absent" => m[1] \in Announcements /\ m[1] # n
        BY <1>1, OwnersApart DEF UInv, MintsKept
      <3> QED BY <1>2, <1>8, <3>1
    <2>3. Clean(pair)'
      <3>1. \A j \in Ids : about'[j] = pair /\ json'[j] # "absent" => row'[j] # "absent"
        BY <1>2, <1>7, <2>0 DEF Undisturbed, Clean
      <3>2. ASSUME NEW m \in MintIds, IsFor(m[1], pair)', json'[m] # "absent"
            PROVE  row'[m] # "absent"
        <4>1. m[1] \in Announcements /\ m[2] \in Things /\ m = <<m[1], m[2]>>
          BY DEF MintIds, Things
        <4>2. m[1] # n
          <5>1. \A x \in Things : json[<<n, x>>] = "absent"
            BY <1>1 DEF UInv, Unmade
          <5> QED BY <1>2, <3>2, <4>1, <5>1
        <4> QED BY <1>2, <1>8, <2>0, <3>2, <4>1, <4>2 DEF Undisturbed, Clean
      <3>3. ASSUME NEW m \in Messages, IsFor(m[1], pair)',
                   delivery[m] \in {"json", "creators", "details"}
            PROVE  row[Owner(m)'] # "absent"
        <4>1. m[1] \in Announcements /\ announcement[m[1]] # NoId
          BY <1>0, <3>3, OwnersApart DEF Begun
        <4>2. m[1] # n /\ Owner(m)' = Owner(m)
          BY <1>6, <4>1 DEF Owner
        <4> QED BY <1>8, <2>0, <3>3, <4>1, <4>2 DEF Undisturbed, Clean
      <3> QED BY <1>2, <3>1, <3>2, <3>3 DEF Clean
    <2>4. ASSUME NEW i \in Announcements, i # n, Going(i, pair)' PROVE Going(i, pair)
      BY <1>2, <1>8, <2>4 DEF Going
    <2>5. \A d \in Clients : client'[d].for = pair => client'[d] = client[d] /\ d # c
      BY <1>2 DEF Idle
    <2>6. CASE pair # p
      <3>1. ~IsFor(n, pair)'
        BY <1>3, <2>6 DEF IsFor
      <3>2. \A i \in Announcements : Going(i, pair)' => Going(i, pair)
        BY <2>4, <3>1 DEF Going
      <3>3. \A i \in Announcements : IsFor(i, pair) => announcement'[i] = announcement[i]
        BY <1>6 DEF IsFor
      <3> QED BY <2>0, <2>1, <2>2, <2>3, <2>5, <3>2, <3>3, PairFrame
    <2>7. CASE pair = p
      <3>0. client[c].for = pair
        BY <2>7
      <3>1. /\ \A d \in Clients : client'[d].for # pair
            /\ \A i \in Announcements : ~Going(i, pair)
        BY <2>0, <2>5, <3>0 DEF Undisturbed, Alone
      <3>2. Found(pair) = {}
        BY <1>2, <2>0, <3>0 DEF Undisturbed, FromOne
      <3>3. MintsFor(pair) = {}
        BY <3>2, MintsHaveTheirs
      <3>4. Found(pair)' = {} /\ MintsFor(pair)' = {}
        BY <2>1, <2>2, <3>2, <3>3 DEF Found, MintsFor
      <3>5. Alone(pair)'
        BY <2>4, <3>1 DEF Alone
      <3>6. FromOne(pair)'
        BY <3>1, <3>4 DEF FromOne
      <3> QED BY <2>3, <3>5, <3>6 DEF Undisturbed
    <2> QED BY <2>6, <2>7
  <1> QED BY <1>2, <1>9, <1>10, <1>11 DEF UInv

LEMMA InitUInv == Init => UInv
  <1> SUFFICES ASSUME Init PROVE UInv
    OBVIOUS
  <1>1. MInv
    BY InitMInv
  <1>2. /\ \A o \in Owners : row[o] # "absent" => o \in Own
        /\ \A o \in Owners : json[o] # "absent" => o \in Own
        /\ \A k \in Own : row[k] = "absent" <=> json[k] = "absent"
    BY DEF Init, Owners, Ids
  <1>3. /\ \A k \in Own : about[k] = Home[k] /\ k \in Ids
        /\ \A n \in Announcements : announcement[n] = NoId /\ about[<<n, Certificate>>] = NoPair
        /\ \A c \in Clients : client[c].for = NoPair
    BY OwnersApart DEF Init, Ids, Idle
  <1>4. \A n \in Announcements, x \in Things : <<n, x>> \in Owners /\ <<n, x>> \notin Own
    BY DEF Owners, Ids, MintIds, Things, Messages
  <1>5. MintsKept
    BY <1>2, OwnersApart DEF MintsKept, Owners
  <1>6. Unmade
    BY <1>2, <1>3, <1>4 DEF Unmade
  <1>7. ASSUME NEW pair \in Pairs PROVE Undisturbed(pair)
    <2>1. \A n \in Announcements : ~IsFor(n, pair)
      BY <1>3 DEF IsFor
    <2>2. \A j \in Found(pair) : j \in Own /\ Home[j] = pair
      BY <1>2, <1>3 DEF Found, Owners
    <2>3. MintsFor(pair) = {}
      BY <2>1, OwnersApart DEF MintsFor
    <2>4. Alone(pair)
      BY <1>3, <2>1 DEF Alone, Going
    <2>5. FromOne(pair)
      BY <1>3, <2>1, <2>2, <2>3 DEF FromOne, Going
    <2>6. Clean(pair)
      BY <1>2, <2>1, OwnersApart DEF Clean, Owners
    <2> QED BY <2>4, <2>5, <2>6 DEF Undisturbed
  <1> QED BY <1>1, <1>5, <1>6, <1>7 DEF UInv

LEMMA NextUInv == UInv /\ [Next]_vars => UInv'
  <1> SUFFICES ASSUME UInv, [Next]_vars PROVE UInv'
    OBVIOUS
  <1>0. MInv'
    BY NextMInv DEF UInv
  <1>1. CASE UNCHANGED vars
    <2>1. UNCHANGED <<about, row, json, announcement, delivery, client, raced>>
      BY <1>1 DEF vars
    <2>2. \A pair : /\ \A n : Going(n, pair)' <=> Going(n, pair)
                    /\ \A n : IsFor(n, pair)' <=> IsFor(n, pair)
      BY <2>1 DEF Going, IsFor
    <2>3. \A m : Owner(m)' = Owner(m)
      BY <2>1 DEF Owner
    <2>4. \A pair : Found(pair)' = Found(pair) /\ MintsFor(pair)' = MintsFor(pair)
      BY <2>1, <2>2 DEF Found, MintsFor
    <2>5. \A pair : Undisturbed(pair) => Undisturbed(pair)'
      BY <2>1, <2>2, <2>3, <2>4 DEF Undisturbed, Alone, FromOne, Clean
    <2> QED BY <1>0, <2>1, <2>5 DEF UInv, MintsKept, Unmade
  <1>2. ASSUME NEW c \in Clients, Request(c) PROVE UInv'
    BY <1>0, <1>2, ImportU, ReadMintsU, ReplaceU, AnnounceU, GiveUpU DEF Request
  <1> QED BY <1>1, <1>2, IndexU, HandlerU DEF Next

LEMMA SpecUInv == Spec => []UInv
  BY InitUInv, NextUInv, PTL DEF Spec

\* A collection that is imported again only when the import before is over has one row, and
\* each of its mints one: the search and the replacement of one request meet neither another
\* request for the collection nor handlers that are still inserting what is to be replaced.
THEOREM UndisturbedImportsOnce == Spec => []ImportedOnce
  <1>1. UInv => ImportedOnce
    <2> SUFFICES ASSUME UInv, NEW pair \in Pairs \ raced
                 PROVE  /\ \A j, k \in Found(pair) : j = k
                        /\ \A m, i \in MintIds :
                             /\ row[m] # "absent" /\ row[i] # "absent" /\ m[2] = i[2]
                             /\ IsFor(m[1], pair) /\ IsFor(i[1], pair)
                             => m = i
      BY DEF ImportedOnce
    <2>1. FromOne(pair)
      BY DEF UInv, Undisturbed
    <2>2. \A m, i \in MintIds : m[1] = i[1] /\ m[2] = i[2] => m = i
      BY DEF MintIds
    <2> QED BY <2>1, <2>2 DEF FromOne, MintsFor
  <1> QED BY SpecUInv, <1>1, PTL

\* Such a collection leaves no metadata behind when it is deleted, neither its own nor that of
\* a mint: every mint that goes with the row was there when the mints were read.
THEOREM UndisturbedLeavesNothing == Spec => []NoLeftovers
  <1>1. UInv => NoLeftovers
    BY DEF UInv, Undisturbed, Clean, NoLeftovers
  <1> QED BY SpecUInv, <1>1, PTL

=============================================================================
