------------------------- MODULE DropMintingProofs -------------------------
(***************************************************************************)
(* Proofs about DropMinting: for any number of requests, the status shown  *)
(* agrees with the check, a shutdown is final and editions stay within the *)
(* number of mints ever made; for one request at a time, editions are      *)
(* unique until a mint is switched away, and mint_edition keeps the supply *)
(* by itself.                                                              *)
(***************************************************************************)
EXTENDS DropMinting, FiniteSetTheorems, TLAPS

USE MaxTimeAssumption, SuppliesAssumption, NoSupplyAssumption, NoTimeAssumption,
    NoMintAssumption, MintsAssumption

-----------------------------------------------------------------------------
(* Counting.                                                               *)

\* The number of mints is a number.
LEMMA TotalIsNat == TotalMints \in Nat
  <1>1. IsFiniteSet(Rows("minted"))
    BY FS_Subset DEF Rows
  <1> QED
    BY <1>1, FS_CardinalityType DEF TotalMints

\* So is the number of mints that the collection ever had, which is not smaller.
LEMMA EverIsNat == Cardinality(Ever) \in Nat /\ TotalMints <= Cardinality(Ever)
  <1>1. /\ IsFiniteSet(Ever)
        /\ Rows("minted") \subseteq Ever
    BY FS_Subset DEF Rows, Ever
  <1> QED
    BY <1>1, FS_CardinalityType, FS_Subset DEF TotalMints

\* A row that becomes minted adds one to both numbers.
LEMMA OneMore ==
  ASSUME NEW m \in Mints, NEW row \in Row, TypeOK,
         mint[m].status \notin {"minted", "switched"}, row.status = "minted",
         mint' = [mint EXCEPT ![m] = row]
  PROVE  /\ Rows("minted")' = Rows("minted") \cup {m}
         /\ Rows("switched")' = Rows("switched")
         /\ Ever' = Ever \cup {m}
         /\ TotalMints' = TotalMints + 1
         /\ Cardinality(Ever)' = Cardinality(Ever) + 1
  <1>1. /\ IsFiniteSet(Rows("minted")) /\ m \notin Rows("minted")
        /\ IsFiniteSet(Ever) /\ m \notin Ever
    BY FS_Subset DEF Rows, Ever
  <1>2. /\ Rows("minted")' = Rows("minted") \cup {m}
        /\ Rows("switched")' = Rows("switched")
    BY DEF Rows, TypeOK
  <1>3. Ever' = Ever \cup {m}
    BY <1>2 DEF Ever
  <1>4. /\ Cardinality(Rows("minted") \cup {m}) = Cardinality(Rows("minted")) + 1
        /\ Cardinality(Ever \cup {m}) = Cardinality(Ever) + 1
    BY <1>1, FS_AddElement
  <1> QED
    BY <1>2, <1>3, <1>4 DEF TotalMints

\* Nothing else counts.
LEMMA SameTotal ==
  ASSUME UNCHANGED mint
  PROVE  /\ Rows("minted")' = Rows("minted")
         /\ Rows("switched")' = Rows("switched")
         /\ Ever' = Ever
         /\ TotalMints' = TotalMints
         /\ Cardinality(Ever)' = Cardinality(Ever)
  BY DEF Rows, Ever, TotalMints

\* A mint that is queued is not counted.
LEMMA QueuedDoesNotCount ==
  ASSUME NEW m \in Mints, TypeOK, QueueMintToDrop(m)
  PROVE  /\ Rows("minted")' = Rows("minted")
         /\ Rows("switched")' = Rows("switched")
         /\ Ever' = Ever
         /\ TotalMints' = TotalMints
         /\ Cardinality(Ever)' = Cardinality(Ever)
  <1>1. /\ Rows("minted")' = Rows("minted")
        /\ Rows("switched")' = Rows("switched")
    BY DEF QueueMintToDrop, Rows, TypeOK
  <1> QED
    BY <1>1 DEF Ever, TotalMints

\* A mint that is switched is one less, and was there nevertheless.
LEMMA SwitchedCounts ==
  ASSUME NEW m \in Mints, TypeOK, SwitchCollection(m)
  PROVE  /\ Rows("minted")' \subseteq Rows("minted")
         /\ m \in Rows("switched")'
         /\ Ever' = Ever
         /\ TotalMints' <= TotalMints
         /\ Cardinality(Ever)' = Cardinality(Ever)
  <1>1. /\ Rows("minted")' = Rows("minted") \ {m}
        /\ Rows("switched")' = Rows("switched") \cup {m}
        /\ m \in Rows("minted")
    BY DEF SwitchCollection, Rows, TypeOK, Row
  <1>2. Ever' = Ever
    BY <1>1 DEF Ever
  <1>3. IsFiniteSet(Rows("minted")) /\ IsFiniteSet(Rows("minted")')
    BY <1>1, FS_Subset DEF Rows
  <1>4. TotalMints' <= TotalMints
    BY <1>1, <1>3, FS_Subset, FS_CardinalityType DEF TotalMints
  <1> QED
    BY <1>1, <1>2, <1>4

\* A queued mint becomes a minted one; of any other row the take changes nothing.
LEMMA TakenCounts ==
  ASSUME NEW c \in Clients, TypeOK, CommitQueuedMint(c)
  PROVE  \/ UNCHANGED mint
         \/ \E m \in Mints, row \in Row :
              /\ mint[m].status \in {"absent", "queued"}
              /\ row.status = "minted" /\ row.edition = mint[m].edition
              /\ mint' = [mint EXCEPT ![m] = row]
              /\ m = client[c].mint
  <1> DEFINE m == client[c].mint
             row == [mint[m] EXCEPT !.status = "minted"]
  <1>1. CASE m \in Mints /\ mint[m].status \in {"absent", "queued"}
    <2>1. /\ row \in Row /\ row.status = "minted" /\ row.edition = mint[m].edition
          /\ mint' = [mint EXCEPT ![m] = row]
      BY <1>1 DEF CommitQueuedMint, TypeOK, Row
    <2> QED
      BY <1>1, <2>1
  <1>2. CASE ~(m \in Mints /\ mint[m].status \in {"absent", "queued"})
    BY <1>2 DEF CommitQueuedMint, TypeOK, Row
  <1> QED
    BY <1>1, <1>2

-----------------------------------------------------------------------------
(* Types.                                                                  *)

LEMMA InitType == Init => TypeOK
  <1> SUFFICES ASSUME Init PROVE TypeOK
    OBVIOUS
  <1>1. /\ Absent \in Row
        /\ Idle \in Client
        /\ 0 \in Time
    BY DEF Absent, Row, Idle, Client, Time
  <1> QED
    BY <1>1 DEF Init, TypeOK

LEMMA NextType == TypeOK /\ [Next]_vars => TypeOK'
  <1> SUFFICES ASSUME TypeOK, [Next]_vars PROVE TypeOK'
    OBVIOUS
  <1> USE DEF TypeOK, CreationStatus
  <1>1. CASE Tick
    BY <1>1 DEF Tick, Time
  <1>2. CASE DropNext
    <2>1. CASE DropCreated
      BY <2>1 DEF DropCreated, Drop
    <2>2. CASE RetryDrop
      BY <2>2 DEF RetryDrop, Drop
    <2>3. CASE PauseDrop
      BY <2>3 DEF PauseDrop, Drop
    <2>4. CASE ResumeDrop
      BY <2>4 DEF ResumeDrop, Drop
    <2>5. CASE ShutdownDrop
      BY <2>5 DEF ShutdownDrop, Drop
    <2>6. CASE PatchDrop
      BY <2>6 DEF PatchDrop, Drop
    <2>7. CASE CollectionCreated
      BY <2>7 DEF CollectionCreated, Drop
    <2> QED
      BY <1>2, <2>1, <2>2, <2>3, <2>4, <2>5, <2>6, <2>7 DEF DropNext
  <1>3. ASSUME NEW c \in Clients, MintEdition(c) PROVE TypeOK'
    BY <1>3 DEF MintEdition, Begin, Idle, Client
  <1>4. ASSUME NEW c \in Clients, CountMints(c) PROVE TypeOK'
    <2>1. TotalMints + 1 \in Int
      BY TotalIsNat
    <2>2. client'[c] \in Client
      BY <1>4, <2>1 DEF CountMints, Client, Idle
    <2> QED
      BY <1>4, <2>2 DEF CountMints
  <1>5. ASSUME NEW c \in Clients, NEW m \in Mints, InsertEdition(c, m) PROVE TypeOK'
    <2>1. [status |-> "minted", edition |-> client[c].edition] \in Row
      BY DEF Row, Client
    <2>2. Idle \in Client
      BY DEF Idle, Client
    <2> QED
      BY <1>5, <2>1, <2>2 DEF InsertEdition
  <1>6. ASSUME NEW c \in Clients, GiveUp(c) PROVE TypeOK'
    BY <1>6 DEF GiveUp, Idle, Client
  <1>7. ASSUME NEW m \in Mints, QueueMintToDrop(m) PROVE TypeOK'
    BY <1>7 DEF QueueMintToDrop, Row, DefaultEdition
  <1>8. ASSUME NEW c \in Clients, NEW m \in Mints, MintQueued(c, m) PROVE TypeOK'
    BY <1>8 DEF MintQueued, Begin, Client
  <1>9. ASSUME NEW c \in Clients, CommitQueuedMint(c) PROVE TypeOK'
    <2>1. mint' \in [Mints -> Row]
      BY <1>9, TakenCounts
    <2> QED
      BY <1>9, <2>1 DEF CommitQueuedMint, Idle, Client
  <1>10. ASSUME NEW m \in Mints, SwitchCollection(m) PROVE TypeOK'
    BY <1>10 DEF SwitchCollection, Row
  <1>11. ASSUME NEW c \in Clients, MintToCollection(c) PROVE TypeOK'
    BY <1>11 DEF MintToCollection, Begin, Idle, Client
  <1>12. ASSUME NEW c \in Clients, NEW m \in Mints, CommitMintToCollection(c, m)
         PROVE  TypeOK'
    BY <1>12 DEF CommitMintToCollection, Row, DefaultEdition, Idle, Client
  <1>13. CASE UNCHANGED vars
    BY <1>13 DEF vars
  <1> QED
    BY <1>1, <1>2, <1>3, <1>4, <1>5, <1>6, <1>7, <1>8, <1>9, <1>10, <1>11, <1>12, <1>13
    DEF Next, QueueNext, CollectionNext, EditionNext

\* Every reachable state of a drop and its requests has its type.
THEOREM DropTypeCorrect == Spec => []TypeOK
  BY InitType, NextType, PTL DEF Spec

-----------------------------------------------------------------------------
(* The status and the check.                                               *)

\* In every state, whatever the caches hold, the field `status` reads MINTING or
\* MINTED exactly when mint_edition's check would pass, but for the instant of the
\* end; and of an edition drop with a current count it tells the two apart as
\* mint_edition does.
THEOREM StatusAndCheckAgree == Spec => []StatusAgrees
  <1>1. TypeOK => StatusAgrees
    <2> SUFFICES ASSUME TypeOK,
                        NEW total \in Supplies \cup (0 .. Cardinality(Mints)),
                        NEW shown \in Supplies \cup (0 .. Cardinality(Mints))
                 PROVE  LET status == Status(drop, now, total, shown) IN
                        /\ status \in {"minting", "minted"} /\ drop.end # now
                             <=> CheckDropStatus(drop, now)
                        /\ status \in {"minting", "minted"} /\ drop.type = "edition"
                             /\ total = TotalMints /\ shown = supply
                             => (status = "minted" <=> SoldOut(TotalMints))
      BY DEF StatusAgrees
    <2>1. SoldOut(TotalMints) => TotalMints > 0
      BY TotalIsNat DEF SoldOut, TypeOK
    <2>2. /\ now \in Int
          /\ drop.start # NoTime => drop.start \in Int
          /\ drop.end # NoTime => drop.end \in Int
          /\ drop.creation \in {"pending", "created", "failed"}
          /\ drop.paused \in BOOLEAN
          /\ drop.shutdown \in BOOLEAN
      BY DEF TypeOK, Drop, CreationStatus, Time
    <2>3. Status(drop, now, total, shown) \in {"minting", "minted"} /\ drop.end # now
            <=> CheckDropStatus(drop, now)
      BY <2>2 DEF CheckDropStatus, Status
    <2>4. ASSUME Status(drop, now, total, shown) \in {"minting", "minted"},
                 total = TotalMints, shown = supply
          PROVE  Status(drop, now, total, shown) = "minted" <=> SoldOut(TotalMints)
      <3>1. Status(drop, now, total, shown) =
              IF supply # NoSupply /\ supply = TotalMints /\ TotalMints > 0
              THEN "minted" ELSE "minting"
        BY <2>2, <2>4 DEF Status
      <3> QED
        BY <2>1, <3>1 DEF SoldOut
    <2> QED
      BY <2>3, <2>4
  <1> QED
    BY <1>1, DropTypeCorrect, PTL

-----------------------------------------------------------------------------
(* A shutdown.                                                             *)

\* Whatever is done to it, a drop that is shut down stays so and admits no
\* further request for an edition.
THEOREM ShutdownStays == Spec => ShutdownIsFinal
  <1>1. TypeOK /\ [Next]_vars
          => [drop.shutdown => drop'.shutdown /\ Admitted' \subseteq Admitted]_vars
    <2> SUFFICES ASSUME TypeOK, Next, drop.shutdown
                 PROVE  drop'.shutdown /\ Admitted' \subseteq Admitted
      OBVIOUS
    <2>1. CASE Tick
      BY <2>1 DEF Tick, Admitted
    <2>2. CASE DropNext
      BY <2>2 DEF TypeOK, Drop, DropNext, DropCreated, RetryDrop, CollectionCreated, PauseDrop,
                  ResumeDrop, ShutdownDrop, PatchDrop, Admitted
    <2>3. CASE QueueNext
      <3>1. UNCHANGED drop
        BY <2>3 DEF QueueNext, QueueMintToDrop, MintQueued, CommitQueuedMint
      <3>2. ASSUME NEW b \in Admitted' PROVE b \in Admitted
        <4>1. CASE UNCHANGED client
          BY <4>1 DEF Admitted
        <4>2. ASSUME NEW c \in Clients, NEW m \in Mints, MintQueued(c, m) PROVE b \in Admitted
          BY <4>2 DEF MintQueued, Begin, TypeOK, Admitted
        <4>3. ASSUME NEW c \in Clients, CommitQueuedMint(c) PROVE b \in Admitted
          BY <4>3 DEF CommitQueuedMint, TypeOK, Idle, Admitted
        <4> QED
          BY <2>3, <4>1, <4>2, <4>3 DEF QueueNext, QueueMintToDrop
      <3> QED
        BY <3>1, <3>2
    <2>4. ASSUME NEW c \in Clients, EditionNext(c)
          PROVE  drop'.shutdown /\ Admitted' \subseteq Admitted
      <3>1. ~MintEdition(c)
        BY DEF MintEdition, CheckDropStatus
      <3> QED
        BY <2>4, <3>1 DEF TypeOK, EditionNext, CountMints, InsertEdition, GiveUp, Idle,
                          Client, Admitted
    <2>5. CASE CollectionNext
      <3>1. UNCHANGED drop
        BY <2>5 DEF CollectionNext, SwitchCollection, MintToCollection, CommitMintToCollection
      <3>2. Admitted' \subseteq Admitted
        BY <2>5 DEF CollectionNext, SwitchCollection, MintToCollection, CommitMintToCollection,
                    Begin, TypeOK, Idle, Admitted
      <3> QED
        BY <3>1, <3>2
    <2> QED
      BY <2>1, <2>2, <2>3, <2>4, <2>5 DEF Next
  <1> QED
    BY <1>1, DropTypeCorrect, PTL DEF Spec, ShutdownIsFinal

-----------------------------------------------------------------------------
(* Editions, for any number of requests.                                   *)

\* A mint has no number of its own before it is minted.
Unnumbered ==
  \A m \in Mints : mint[m].status \in {"absent", "queued"} => mint[m].edition = DefaultEdition

\* How a step may change the mints.
LEMMA MintSteps ==
  ASSUME [Next]_vars
  PROVE  \/ UNCHANGED mint
         \/ \E c \in Clients, m \in Mints : InsertEdition(c, m)
         \/ \E c \in Clients, m \in Mints : CommitMintToCollection(c, m)
         \/ \E c \in Clients : CommitQueuedMint(c)
         \/ \E m \in Mints : QueueMintToDrop(m)
         \/ \E m \in Mints : SwitchCollection(m)
  BY DEF Next, vars, Tick, DropNext, DropCreated, RetryDrop, CollectionCreated, PauseDrop,
         ResumeDrop, ShutdownDrop, PatchDrop, QueueNext, CollectionNext, EditionNext,
         MintEdition, CountMints, GiveUp, MintQueued, MintToCollection

\* The supply is that of the creation.
LEMMA SupplyStays ==
  ASSUME [Next]_vars
  PROVE  supply' = supply
  BY DEF Next, vars, Tick, DropNext, DropCreated, RetryDrop, CollectionCreated, PauseDrop,
         ResumeDrop, ShutdownDrop, PatchDrop, QueueNext, CollectionNext, EditionNext,
         MintEdition, CountMints, InsertEdition, GiveUp, QueueMintToDrop, MintQueued,
         CommitQueuedMint, MintToCollection, CommitMintToCollection, SwitchCollection

LEMMA NextUnnumbered == TypeOK /\ Unnumbered /\ [Next]_vars => Unnumbered'
  <1> SUFFICES ASSUME TypeOK, Unnumbered, [Next]_vars PROVE Unnumbered'
    OBVIOUS
  <1> USE DEF Unnumbered, TypeOK
  <1>1. CASE UNCHANGED mint
    BY <1>1
  <1>2. ASSUME NEW c \in Clients, NEW m \in Mints, InsertEdition(c, m) PROVE Unnumbered'
    BY <1>2 DEF InsertEdition
  <1>3. ASSUME NEW m \in Mints, QueueMintToDrop(m) PROVE Unnumbered'
    BY <1>3 DEF QueueMintToDrop
  <1>4. ASSUME NEW c \in Clients, CommitQueuedMint(c) PROVE Unnumbered'
    BY <1>4, TakenCounts
  <1>5. ASSUME NEW c \in Clients, NEW m \in Mints, CommitMintToCollection(c, m)
        PROVE  Unnumbered'
    BY <1>5 DEF CommitMintToCollection
  <1>6. ASSUME NEW m \in Mints, SwitchCollection(m) PROVE Unnumbered'
    BY <1>6 DEF SwitchCollection, Row
  <1> QED
    BY <1>1, <1>2, <1>3, <1>4, <1>5, <1>6, MintSteps

DInv == TypeOK /\ Unnumbered /\ EditionWithinTotal

LEMMA InitDInv == Init => DInv
  BY InitType
  DEF Init, DInv, Unnumbered, DefaultEdition, EditionWithinTotal, Ever, Counted, Rows,
      Absent, Idle

\* A row inserted with the default number keeps every number within the total.
LEMMA DefaultKeepsWithin ==
  ASSUME DInv, NEW m \in Mints, NEW row \in Row, mint[m].status \in {"absent", "queued"},
         row.status = "minted", row.edition = DefaultEdition,
         mint' = [mint EXCEPT ![m] = row],
         \A b \in Counted' : b \in Counted /\ client'[b] = client[b]
  PROVE  EditionWithinTotal'
  <1>0. TypeOK /\ Cardinality(Ever) \in Nat
    BY EverIsNat DEF DInv
  <1>1. Ever' = Ever \cup {m} /\ Cardinality(Ever)' = Cardinality(Ever) + 1
    BY <1>0, OneMore
  <1>2. \A n \in Ever' : mint'[n].edition \in Int /\ mint'[n].edition <= Cardinality(Ever)'
    <2>1. mint'[m].edition = DefaultEdition
      BY <1>0 DEF TypeOK
    <2>2. \A n \in Ever : mint[n].edition \in Int /\ mint[n].edition <= Cardinality(Ever)
      BY <1>0 DEF DInv, EditionWithinTotal, TypeOK, Row, Ever, Rows
    <2>3. \A n \in Ever : n # m => mint'[n] = mint[n]
      BY <1>0 DEF TypeOK, Ever, Rows
    <2> QED
      BY <1>0, <1>1, <2>1, <2>2, <2>3 DEF DefaultEdition
  <1>3. \A b \in Counted' : client[b].edition \in Int
    BY <1>0 DEF TypeOK, Client, Counted
  <1>4. \A b \in Counted' : client'[b].edition <= Cardinality(Ever)' + 1
    BY <1>0, <1>1, <1>3 DEF DInv, EditionWithinTotal
  <1> QED
    BY <1>2, <1>4 DEF EditionWithinTotal

LEMMA NextWithin == DInv /\ [Next]_vars => EditionWithinTotal'
  <1> SUFFICES ASSUME DInv, [Next]_vars PROVE EditionWithinTotal'
    OBVIOUS
  <1> USE DEF DInv, EditionWithinTotal
  <1>0. /\ TypeOK /\ TotalMints \in Nat /\ Cardinality(Ever) \in Nat
        /\ TotalMints <= Cardinality(Ever)
    BY TotalIsNat, EverIsNat
  <1>1. CASE Tick \/ DropNext \/ UNCHANGED vars
    <2>1. UNCHANGED <<mint, client>>
      BY <1>1 DEF Tick, DropNext, DropCreated, RetryDrop, CollectionCreated, PauseDrop,
                  ResumeDrop, ShutdownDrop, PatchDrop, vars
    <2> QED
      BY <2>1, SameTotal DEF Counted
  <1>2. ASSUME NEW c \in Clients,
               MintEdition(c) \/ CountMints(c) \/ GiveUp(c) \/ MintToCollection(c)
        PROVE  EditionWithinTotal'
    <2>1. /\ UNCHANGED mint
          /\ \A b \in Counted' : \/ b \in Counted /\ client'[b] = client[b]
                              \/ client'[b].edition = TotalMints + 1
      BY <1>0, <1>2 DEF MintEdition, Begin, CountMints, GiveUp, MintToCollection, Counted,
                        TypeOK, Client, Idle
    <2> QED
      BY <1>0, <2>1, SameTotal
  <1>3. ASSUME NEW c \in Clients, NEW m \in Mints, InsertEdition(c, m)
        PROVE  EditionWithinTotal'
    <2> DEFINE row == [status |-> "minted", edition |-> client[c].edition]
    <2>1. /\ c \in Counted
          /\ client[c].edition \in Int
          /\ row \in Row
      BY <1>0, <1>3 DEF InsertEdition, Counted, TypeOK, Client, Row
    <2>2. /\ Ever' = Ever \cup {m}
          /\ Cardinality(Ever)' = Cardinality(Ever) + 1
      BY <1>0, <1>3, <2>1, OneMore DEF InsertEdition
    <2>3. \A n \in Ever' : mint'[n].edition \in Int /\ mint'[n].edition <= Cardinality(Ever) + 1
      <3>1. mint'[m].edition = client[c].edition
        BY <1>0, <1>3 DEF InsertEdition, TypeOK
      <3>2. \A n \in Ever : mint[n].edition \in Int /\ mint[n].edition <= Cardinality(Ever)
        BY <1>0 DEF TypeOK, Row, Ever, Rows
      <3>3. \A n \in Ever : n # m => mint'[n] = mint[n]
        BY <1>0, <1>3 DEF InsertEdition, TypeOK, Ever, Rows
      <3>4. client[c].edition <= Cardinality(Ever) + 1
        BY <2>1
      <3>5. \A n \in Ever' : n = m \/ (n \in Ever /\ n # m)
        BY <2>2
      <3>6. \A n \in Ever : n # m => mint'[n].edition \in Int /\ mint'[n].edition <= Cardinality(Ever) + 1
        BY <1>0, <3>2, <3>3
      <3>7. mint'[m].edition \in Int /\ mint'[m].edition <= Cardinality(Ever) + 1
        BY <2>1, <3>1, <3>4
      <3> QED
        BY <3>5, <3>6, <3>7
    <2>4. \A b \in Counted' : b \in Counted /\ client'[b] = client[b] /\ client[b].edition \in Int
      BY <1>0, <1>3 DEF InsertEdition, Counted, TypeOK, Client, Idle
    <2>5. \A b \in Counted' : client'[b].edition <= Cardinality(Ever)' + 1
      BY <1>0, <2>2, <2>4
    <2>6. \A n \in Ever' : mint'[n].edition <= Cardinality(Ever)'
      BY <2>2, <2>3
    <2> QED
      BY <2>5, <2>6
  <1>4. ASSUME NEW m \in Mints, QueueMintToDrop(m) PROVE EditionWithinTotal'
    <2>1. /\ \A n \in Ever : mint'[n] = mint[n]
          /\ UNCHANGED client
      BY <1>0, <1>4 DEF QueueMintToDrop, TypeOK, Rows, Ever
    <2> QED
      BY <1>0, <1>4, <2>1, QueuedDoesNotCount DEF Counted
  <1>5. ASSUME NEW c \in Clients, NEW m \in Mints, MintQueued(c, m)
        PROVE  EditionWithinTotal'
    <2>1. UNCHANGED mint /\ \A b \in Counted' : b \in Counted /\ client'[b] = client[b]
      BY <1>0, <1>5 DEF MintQueued, Begin, Counted, TypeOK, Client, Idle
    <2> QED
      BY <2>1, SameTotal
  <1>6. ASSUME NEW c \in Clients, CommitQueuedMint(c) PROVE EditionWithinTotal'
    <2>1. \A b \in Counted' : b \in Counted /\ client'[b] = client[b]
      BY <1>0, <1>6 DEF CommitQueuedMint, Counted, TypeOK, Client, Idle
    <2>2. CASE UNCHANGED mint
      BY <1>0, <2>1, <2>2, SameTotal
    <2>3. ASSUME NEW m \in Mints, NEW row \in Row,
                 mint[m].status \in {"absent", "queued"},
                 row.status = "minted", row.edition = mint[m].edition,
                 mint' = [mint EXCEPT ![m] = row]
          PROVE  EditionWithinTotal'
      <3>1. row.edition = DefaultEdition
        BY <2>3 DEF Unnumbered
      <3> QED
        BY <2>1, <2>3, <3>1, DefaultKeepsWithin
    <2> QED
      BY <1>0, <1>6, <2>2, <2>3, TakenCounts
  <1>7. ASSUME NEW c \in Clients, NEW m \in Mints, CommitMintToCollection(c, m)
        PROVE  EditionWithinTotal'
    <2> DEFINE row == [status |-> "minted", edition |-> DefaultEdition]
    <2>1. /\ row \in Row /\ row.status = "minted" /\ row.edition = DefaultEdition
          /\ mint[m].status = "absent"
          /\ mint' = [mint EXCEPT ![m] = row]
      BY <1>7 DEF CommitMintToCollection, Row, DefaultEdition
    <2>2. \A b \in Counted' : b \in Counted /\ client'[b] = client[b]
      BY <1>0, <1>7 DEF CommitMintToCollection, Counted, TypeOK, Client, Idle
    <2> QED
      BY <2>1, <2>2, DefaultKeepsWithin
  <1>8. ASSUME NEW m \in Mints, SwitchCollection(m) PROVE EditionWithinTotal'
    <2>1. \A n \in Mints : mint'[n].edition = mint[n].edition
      BY <1>0, <1>8 DEF SwitchCollection, TypeOK, Row
    <2>2. /\ Ever' = Ever /\ Cardinality(Ever)' = Cardinality(Ever)
          /\ UNCHANGED client
      BY <1>0, <1>8, SwitchedCounts DEF SwitchCollection
    <2>3. Ever \subseteq Mints
      BY DEF Ever, Rows
    <2> QED
      BY <2>1, <2>2, <2>3 DEF Counted
  <1> QED
    BY <1>1, <1>2, <1>3, <1>4, <1>5, <1>6, <1>7, <1>8
    DEF Next, QueueNext, CollectionNext, EditionNext

LEMMA SpecDInv == Spec => []DInv
  <1>1. DInv /\ [Next]_vars => DInv'
    BY NextType, NextUnnumbered, NextWithin DEF DInv
  <1> QED
    BY InitDInv, <1>1, PTL DEF Spec

\* However many requests run at once, and whatever else adds mints or takes them
\* away, no edition number is above the number of mints that ever were or are about
\* to be.
THEOREM EditionsStayWithinTotal == Spec => []EditionWithinTotal
  <1>1. DInv => EditionWithinTotal
    BY DEF DInv
  <1> QED
    BY <1>1, SpecDInv, PTL

-----------------------------------------------------------------------------
(* One request for a mint at a time.                                       *)

InTurn == \A b, c \in Clients : client[b] # Idle /\ client[c] # Idle => b = c

\* The number a request has counted is still the next one when it inserts.
CountedIsNext ==
  \A c \in Counted : client[c].edition = TotalMints + 1

\* A mint that a request has taken from the queue is there.
TakenIsThere ==
  \A c \in Clients : client[c].pc = "taken" =>
    client[c].mint \in Mints /\ mint[client[c].mint].status # "absent"

TurnInv == NoneSwitched => EditionsUnique /\ CountedIsNext

SerialInv == TakenIsThere /\ (~overlapped => InTurn /\ TurnInv)

LEMMA InitSerial == Init => SerialInv
  BY DEF Init, SerialInv, TurnInv, InTurn, TakenIsThere, EditionsUnique, CountedIsNext, Minted,
         Counted, Rows, Absent, Idle

LEMMA NextTaken == DInv /\ TakenIsThere /\ [Next]_vars => TakenIsThere'
  <1> SUFFICES ASSUME DInv, TakenIsThere, [Next]_vars PROVE TakenIsThere'
    OBVIOUS
  <1>0. TypeOK
    BY DEF DInv
  <1> DEFINE Stays == \A m \in Mints : mint[m].status # "absent" => mint'[m].status # "absent"
             Takes == \A c \in Clients : client'[c].pc = "taken" =>
               \/ client'[c] = client[c]
               \/ client'[c].mint \in Mints /\ mint[client'[c].mint].status = "queued"
  <1>1. CASE UNCHANGED <<mint, client>>
    BY <1>1 DEF TakenIsThere
  <1>2. ASSUME NEW c \in Clients, EditionNext(c) PROVE Stays /\ Takes
    <2>1. Stays
      BY <1>0, <1>2
      DEF EditionNext, MintEdition, CountMints, InsertEdition, GiveUp, TypeOK
    <2>2. \A d \in Clients : d # c => client'[d] = client[d]
      BY <1>0, <1>2
      DEF EditionNext, MintEdition, Begin, CountMints, InsertEdition, GiveUp, TypeOK
    <2>3. client'[c].pc # "taken"
      BY <1>0, <1>2
      DEF EditionNext, MintEdition, Begin, CountMints, InsertEdition, GiveUp, TypeOK, Idle
    <2> QED
      BY <2>1, <2>2, <2>3
  <1>3. ASSUME NEW m \in Mints, QueueMintToDrop(m) \/ SwitchCollection(m) PROVE Stays /\ Takes
    BY <1>0, <1>3 DEF QueueMintToDrop, SwitchCollection, TypeOK, Row
  <1>4. ASSUME NEW c \in Clients, NEW m \in Mints, MintQueued(c, m) PROVE Stays /\ Takes
    BY <1>0, <1>4 DEF MintQueued, Begin, TypeOK
  <1>5. ASSUME NEW c \in Clients, CommitQueuedMint(c) PROVE Stays /\ Takes
    <2>1. Stays
      BY <1>0, <1>5, TakenCounts DEF TypeOK, Row
    <2>2. Takes
      BY <1>0, <1>5 DEF CommitQueuedMint, TypeOK, Idle
    <2> QED
      BY <2>1, <2>2
  <1>6. ASSUME NEW c \in Clients, MintToCollection(c) PROVE Stays /\ Takes
    BY <1>0, <1>6 DEF MintToCollection, Begin, TypeOK, Idle
  <1>7. ASSUME NEW c \in Clients, NEW m \in Mints, CommitMintToCollection(c, m)
        PROVE  Stays /\ Takes
    BY <1>0, <1>7 DEF CommitMintToCollection, TypeOK, Idle
  <1>8. UNCHANGED <<mint, client>> \/ (Stays /\ Takes)
    BY <1>2, <1>3, <1>4, <1>5, <1>6, <1>7
    DEF Next, vars, Tick, DropNext, DropCreated, RetryDrop, CollectionCreated, PauseDrop,
        ResumeDrop, ShutdownDrop, PatchDrop, QueueNext, CollectionNext
  <1> QED
    BY <1>1, <1>8 DEF TakenIsThere

\* Whoever begins while nobody else is under way keeps the turns.
LEMMA TurnsKept ==
  ASSUME TypeOK, ~overlapped => InTurn, [Next]_vars, ~overlapped'
  PROVE  ~overlapped /\ InTurn'
  <1>1. CASE UNCHANGED <<client, overlapped>>
    BY <1>1 DEF InTurn
  <1>2. ASSUME NEW c \in Clients, NEW begun \in Client, Begin(c, begun)
        PROVE  ~overlapped /\ InTurn'
    BY <1>2 DEF Begin, InTurn, TypeOK
  <1>3. ASSUME NEW c \in Clients, client[c] # Idle,
               \E after \in Client : client' = [client EXCEPT ![c] = after],
               UNCHANGED overlapped
        PROVE  ~overlapped /\ InTurn'
    BY <1>3 DEF InTurn, TypeOK
  <1>4. ASSUME NEW c \in Clients, EditionNext(c) PROVE ~overlapped /\ InTurn'
    <2>1. CASE MintEdition(c)
      <3>1. [Idle EXCEPT !.pc = "admitted"] \in Client
        BY DEF Idle, Client
      <3> QED
        BY <1>2, <2>1, <3>1 DEF MintEdition
    <2>2. CASE CountMints(c) \/ GiveUp(c) \/ \E m \in Mints : InsertEdition(c, m)
      <3>1. Idle \in Client /\ TotalMints + 1 \in Int /\ client[c] # Idle
        BY <2>2, TotalIsNat DEF CountMints, GiveUp, InsertEdition, Idle, Client
      <3>2. [pc |-> "counted", edition |-> TotalMints + 1, mint |-> NoMint] \in Client
        BY <3>1 DEF Client
      <3>3. \E after \in Client : client' = [client EXCEPT ![c] = after]
        BY <2>2, <3>1, <3>2 DEF CountMints, GiveUp, InsertEdition
      <3> QED
        BY <1>3, <2>2, <3>1, <3>3 DEF CountMints, GiveUp, InsertEdition
    <2> QED
      BY <1>4, <2>1, <2>2 DEF EditionNext
  <1>5. ASSUME NEW c \in Clients, NEW m \in Mints, MintQueued(c, m)
        PROVE  ~overlapped /\ InTurn'
    <2>1. [pc |-> "taken", edition |-> -1, mint |-> m] \in Client
      BY DEF Client
    <2> QED
      BY <1>2, <1>5, <2>1 DEF MintQueued
  <1>6. ASSUME NEW c \in Clients, CommitQueuedMint(c) PROVE ~overlapped /\ InTurn'
    <2>1. Idle \in Client /\ client[c] # Idle
      BY <1>6 DEF CommitQueuedMint, Idle, Client
    <2> QED
      BY <1>3, <1>6, <2>1 DEF CommitQueuedMint
  <1>7. ASSUME NEW c \in Clients, MintToCollection(c) PROVE ~overlapped /\ InTurn'
    <2>1. [Idle EXCEPT !.pc = "accepted"] \in Client
      BY DEF Idle, Client
    <2> QED
      BY <1>2, <1>7, <2>1 DEF MintToCollection
  <1>8. ASSUME NEW c \in Clients, NEW m \in Mints, CommitMintToCollection(c, m)
        PROVE  ~overlapped /\ InTurn'
    <2>1. Idle \in Client /\ client[c] # Idle
      BY <1>8 DEF CommitMintToCollection, Idle, Client
    <2> QED
      BY <1>3, <1>8, <2>1 DEF CommitMintToCollection
  <1> QED
    BY <1>1, <1>4, <1>5, <1>6, <1>7, <1>8
    DEF Next, vars, Tick, DropNext, DropCreated, RetryDrop, CollectionCreated, PauseDrop,
        ResumeDrop, ShutdownDrop, PatchDrop, QueueNext, QueueMintToDrop, CollectionNext,
        SwitchCollection

\* When a request that is alone becomes idle, nobody has a number any more.
LEMMA NobodyCounted ==
  ASSUME TypeOK, InTurn, NEW c \in Clients, client[c] # Idle,
         client' = [client EXCEPT ![c] = Idle]
  PROVE  Counted' = {}
  BY DEF InTurn, TypeOK, Counted, Idle

\* A row with the default number is not compared.
LEMMA DefaultKeepsUnique ==
  ASSUME TypeOK, EditionsUnique, NEW m \in Mints, NEW row \in Row,
         mint[m].status \in {"absent", "queued"},
         row.status = "minted", row.edition = DefaultEdition,
         mint' = [mint EXCEPT ![m] = row]
  PROVE  EditionsUnique'
  <1>1. Rows("minted")' = Rows("minted") \cup {m}
    BY OneMore
  <1>2. mint'[m].edition = DefaultEdition
    BY DEF TypeOK
  <1>3. \A n \in Rows("minted") : n # m => mint'[n] = mint[n]
    BY DEF TypeOK, Rows
  <1> QED
    BY <1>1, <1>2, <1>3 DEF EditionsUnique, Minted

\* No mint comes back from another collection.
LEMMA SwitchedStay ==
  ASSUME TypeOK, [Next]_vars
  PROVE  Rows("switched") \subseteq Rows("switched")'
  <1>1. CASE UNCHANGED mint
    BY <1>1, SameTotal
  <1>2. ASSUME NEW c \in Clients, CommitQueuedMint(c)
        PROVE  Rows("switched") \subseteq Rows("switched")'
    BY <1>2, TakenCounts, SameTotal, OneMore
  <1>3. ASSUME NEW c \in Clients, NEW m \in Mints,
               InsertEdition(c, m) \/ CommitMintToCollection(c, m)
        PROVE  Rows("switched") \subseteq Rows("switched")'
    BY <1>3 DEF InsertEdition, CommitMintToCollection, Rows, TypeOK
  <1>4. ASSUME NEW m \in Mints, QueueMintToDrop(m) \/ SwitchCollection(m)
        PROVE  Rows("switched") \subseteq Rows("switched")'
    BY <1>4 DEF QueueMintToDrop, SwitchCollection, Rows, TypeOK, Row
  <1> QED
    BY <1>1, <1>2, <1>3, <1>4, MintSteps

LEMMA NextSerial ==
  ASSUME DInv, InTurn, EditionsUnique, CountedIsNext, NoneSwitched, NoneSwitched', [Next]_vars
  PROVE  EditionsUnique' /\ CountedIsNext'
  <1> DEFINE Serial == EditionsUnique /\ CountedIsNext
  <1> USE DEF EditionsUnique, CountedIsNext, Minted
  <1>0. TypeOK /\ TotalMints \in Nat
    BY TotalIsNat DEF DInv
  <1>1. CASE Tick \/ DropNext \/ UNCHANGED vars
    <2>1. UNCHANGED <<mint, client>>
      BY <1>1 DEF Tick, DropNext, DropCreated, RetryDrop, CollectionCreated, PauseDrop,
                  ResumeDrop, ShutdownDrop, PatchDrop, vars
    <2> QED
      BY <2>1, SameTotal DEF Counted
  <1>2. ASSUME NEW c \in Clients,
               MintEdition(c) \/ CountMints(c) \/ GiveUp(c) \/ MintToCollection(c)
        PROVE  Serial'
    <2>1. /\ UNCHANGED mint
          /\ \A b \in Counted' :
               \/ b \in Counted /\ client'[b] = client[b]
               \/ client'[b].edition = TotalMints + 1
      BY <1>0, <1>2 DEF MintEdition, Begin, CountMints, GiveUp, MintToCollection, Counted,
                        TypeOK, Client, Idle
    <2> QED
      BY <1>0, <2>1, SameTotal
  <1>3. ASSUME NEW c \in Clients, NEW m \in Mints, InsertEdition(c, m)
        PROVE  Serial'
    <2> DEFINE row == [status |-> "minted", edition |-> client[c].edition]
    <2>1. /\ c \in Counted
          /\ client[c].edition = TotalMints + 1
          /\ row \in Row
          /\ mint[m].status = "absent"
          /\ mint' = [mint EXCEPT ![m] = row]
      BY <1>0, <1>3 DEF InsertEdition, Counted, TypeOK, Client, Row
    <2>2. Rows("minted")' = Rows("minted") \cup {m}
      BY <1>0, <2>1, OneMore
    <2>3. Ever = Rows("minted") /\ Cardinality(Ever) = TotalMints
      BY DEF Ever, NoneSwitched, TotalMints
    <2>4. \A n \in Rows("minted") :
            n # m /\ mint'[n] = mint[n] /\ mint[n].edition \in Int /\ mint[n].edition <= TotalMints
      BY <1>0, <2>1, <2>3 DEF DInv, EditionWithinTotal, TypeOK, Row, Rows
    <2>5. mint'[m].edition = TotalMints + 1
      BY <1>0, <2>1 DEF TypeOK
    <2>6. Counted' = {}
      <3>1. client[c] # Idle /\ client' = [client EXCEPT ![c] = Idle]
        BY <1>3 DEF InsertEdition, Idle
      <3> QED
        BY <1>0, <3>1, NobodyCounted
    <2>7. EditionsUnique'
      BY <1>0, <2>2, <2>4, <2>5
    <2> QED
      BY <2>6, <2>7
  <1>4. ASSUME NEW m \in Mints, QueueMintToDrop(m) PROVE Serial'
    <2>1. \A n \in Rows("minted") : mint'[n] = mint[n]
      BY <1>0, <1>4 DEF QueueMintToDrop, TypeOK, Rows
    <2> QED
      BY <1>4, <2>1, QueuedDoesNotCount, <1>0 DEF QueueMintToDrop, Counted
  <1>5. ASSUME NEW c \in Clients, NEW m \in Mints, MintQueued(c, m)
        PROVE  Serial'
    <2>1. /\ UNCHANGED mint
          /\ \A b \in Counted' : b \in Counted /\ client'[b] = client[b]
      BY <1>0, <1>5 DEF MintQueued, Begin, Counted, TypeOK, Client, Idle
    <2> QED
      BY <2>1, SameTotal
  <1>6. ASSUME NEW c \in Clients, CommitQueuedMint(c) PROVE Serial'
    <2>1. Counted' = {}
      <3>1. client[c] # Idle /\ client' = [client EXCEPT ![c] = Idle]
        BY <1>6 DEF CommitQueuedMint, Idle
      <3> QED
        BY <1>0, <3>1, NobodyCounted
    <2>2. CASE UNCHANGED mint
      BY <2>1, <2>2, SameTotal
    <2>3. ASSUME NEW m \in Mints, NEW row \in Row,
                 mint[m].status \in {"absent", "queued"},
                 row.status = "minted", row.edition = mint[m].edition,
                 mint' = [mint EXCEPT ![m] = row]
          PROVE  EditionsUnique'
      <3>1. row.edition = DefaultEdition
        BY <2>3 DEF DInv, Unnumbered
      <3> QED
        BY <1>0, <2>3, <3>1, DefaultKeepsUnique
    <2>4. EditionsUnique'
      BY <1>0, <1>6, <2>2, <2>3, TakenCounts
    <2> QED
      BY <2>1, <2>4
  <1>7. ASSUME NEW c \in Clients, NEW m \in Mints, CommitMintToCollection(c, m)
        PROVE  Serial'
    <2> DEFINE row == [status |-> "minted", edition |-> DefaultEdition]
    <2>1. Counted' = {}
      <3>1. client[c] # Idle /\ client' = [client EXCEPT ![c] = Idle]
        BY <1>7 DEF CommitMintToCollection, Idle
      <3> QED
        BY <1>0, <3>1, NobodyCounted
    <2>2. /\ row \in Row /\ row.status = "minted" /\ row.edition = DefaultEdition
          /\ mint[m].status = "absent"
          /\ mint' = [mint EXCEPT ![m] = row]
      BY <1>7 DEF CommitMintToCollection, Row, DefaultEdition
    <2> QED
      BY <1>0, <2>1, <2>2, DefaultKeepsUnique
  <1>8. ASSUME NEW m \in Mints, SwitchCollection(m) PROVE FALSE
    BY <1>0, <1>8, SwitchedCounts DEF NoneSwitched
  <1> QED
    BY <1>1, <1>2, <1>3, <1>4, <1>5, <1>6, <1>7, <1>8
    DEF Next, QueueNext, CollectionNext, EditionNext

LEMMA SpecSerialInv == Spec => [](DInv /\ SerialInv)
  <1>1. DInv /\ SerialInv /\ [Next]_vars => SerialInv'
    <2> SUFFICES ASSUME DInv, SerialInv, [Next]_vars PROVE SerialInv'
      OBVIOUS
    <2>1. TakenIsThere'
      BY NextTaken DEF SerialInv
    <2>2. ASSUME ~overlapped' PROVE InTurn' /\ TurnInv'
      <3>1. ~overlapped /\ InTurn /\ InTurn'
        BY <2>2, TurnsKept DEF DInv, SerialInv
      <3>2. NoneSwitched' => NoneSwitched
        BY SwitchedStay DEF DInv, NoneSwitched
      <3>3. ASSUME NoneSwitched' PROVE EditionsUnique' /\ CountedIsNext'
        BY <3>1, <3>2, <3>3, NextSerial DEF SerialInv, TurnInv
      <3> QED
        BY <3>1, <3>3 DEF TurnInv
    <2> QED
      BY <2>1, <2>2 DEF SerialInv
  <1> QED
    BY InitSerial, <1>1, SpecDInv, PTL DEF Spec

\* While requests for mints do not overlap, and as long as no mint is switched to
\* another collection, they give every edition number once.
THEOREM EditionsUniqueInTurn == Spec => []UniqueInTurn
  <1>1. SerialInv => UniqueInTurn
    BY DEF SerialInv, TurnInv, UniqueInTurn
  <1> QED
    BY <1>1, SpecSerialInv, PTL

-----------------------------------------------------------------------------
(* The supply.                                                             *)

\* A request that has a number found the supply not reached.
SupplyInv ==
  ~overlapped /\ AllNumbered /\ supply # NoSupply =>
    /\ TotalMints <= supply
    /\ Counted # {} => TotalMints < supply

\* Rows are there for good, and keep their numbers.
LEMMA NumberedBefore ==
  ASSUME TypeOK, Unnumbered, [Next]_vars, AllNumbered'
  PROVE  AllNumbered
  <1> SUFFICES ASSUME NEW m \in Mints, mint[m].status # "absent",
                      mint[m].edition = DefaultEdition
               PROVE  FALSE
    BY DEF AllNumbered
  <1>1. mint'[m].status # "absent" /\ mint'[m].edition = mint[m].edition
    <2>1. CASE UNCHANGED mint
      BY <2>1
    <2>2. ASSUME NEW c \in Clients, NEW n \in Mints,
                 InsertEdition(c, n) \/ CommitMintToCollection(c, n)
          PROVE  mint'[m] = mint[m]
      BY <2>2 DEF InsertEdition, CommitMintToCollection, TypeOK
    <2>3. ASSUME NEW c \in Clients, CommitQueuedMint(c)
          PROVE  mint'[m].status # "absent" /\ mint'[m].edition = mint[m].edition
      BY <2>3, TakenCounts DEF TypeOK
    <2>4. ASSUME NEW n \in Mints, QueueMintToDrop(n) \/ SwitchCollection(n)
          PROVE  mint'[m].status # "absent" /\ mint'[m].edition = mint[m].edition
      BY <2>4 DEF QueueMintToDrop, SwitchCollection, TypeOK, Row
    <2> QED
      BY <2>1, <2>2, <2>3, <2>4, MintSteps
  <1> QED
    BY <1>1 DEF AllNumbered

\* As long as every mint has a number, only mint_edition adds one, and only what is
\* switched away is one less.
LEMMA NumberedSteps ==
  ASSUME TypeOK, Unnumbered, TakenIsThere, [Next]_vars, AllNumbered'
  PROVE  \/ UNCHANGED mint
         \/ \E c \in Clients, m \in Mints : InsertEdition(c, m)
         \/ \E m \in Mints : SwitchCollection(m)
  <1>1. ASSUME NEW m \in Mints, QueueMintToDrop(m) PROVE FALSE
    <2>1. mint'[m] = [status |-> "queued", edition |-> DefaultEdition]
      BY <1>1 DEF QueueMintToDrop, TypeOK
    <2> QED
      BY <2>1 DEF AllNumbered
  <1>2. ASSUME NEW c \in Clients, NEW m \in Mints, CommitMintToCollection(c, m) PROVE FALSE
    <2>1. mint'[m] = [status |-> "minted", edition |-> DefaultEdition]
      BY <1>2 DEF CommitMintToCollection, TypeOK
    <2> QED
      BY <2>1 DEF AllNumbered
  <1>3. ASSUME NEW c \in Clients, CommitQueuedMint(c) PROVE UNCHANGED mint
    <2>1. ASSUME NEW m \in Mints, NEW row \in Row,
                 mint[m].status \in {"absent", "queued"},
                 row.status = "minted", row.edition = mint[m].edition,
                 mint' = [mint EXCEPT ![m] = row]
          PROVE  FALSE
      <3>1. mint'[m].status = "minted" /\ mint'[m].edition = DefaultEdition
        BY <2>1 DEF TypeOK, Unnumbered
      <3> QED
        BY <3>1 DEF AllNumbered
    <2> QED
      BY <1>3, <2>1, TakenCounts
  <1> QED
    BY <1>1, <1>2, <1>3, MintSteps

\* A request gets a number only where the supply is not reached.
LEMMA CountedSteps ==
  ASSUME TypeOK, [Next]_vars, UNCHANGED mint, Counted' # {}
  PROVE  Counted # {} \/ ~SoldOut(TotalMints)
  <1>1. CASE UNCHANGED client
    BY <1>1 DEF Counted
  <1>2. ASSUME NEW c \in Clients, EditionNext(c) PROVE Counted # {} \/ ~SoldOut(TotalMints)
    BY <1>2 DEF EditionNext, MintEdition, Begin, CountMints, InsertEdition, GiveUp, TypeOK,
                Client, Idle, Counted
  <1>3. ASSUME NEW c \in Clients, NEW m \in Mints, MintQueued(c, m)
        PROVE  Counted # {}
    BY <1>3 DEF MintQueued, Begin, TypeOK, Counted
  <1>4. ASSUME NEW c \in Clients, CommitQueuedMint(c) PROVE Counted # {}
    BY <1>4 DEF CommitQueuedMint, TypeOK, Idle, Counted
  <1>5. ASSUME NEW c \in Clients, MintToCollection(c) PROVE Counted # {}
    BY <1>5 DEF MintToCollection, Begin, TypeOK, Idle, Counted
  <1>6. ASSUME NEW c \in Clients, NEW m \in Mints, CommitMintToCollection(c, m)
        PROVE  Counted # {}
    BY <1>6 DEF CommitMintToCollection, TypeOK, Idle, Counted
  <1> QED
    BY <1>1, <1>2, <1>3, <1>4, <1>5, <1>6
    DEF Next, vars, Tick, DropNext, DropCreated, RetryDrop, CollectionCreated, PauseDrop,
        ResumeDrop, ShutdownDrop, PatchDrop, QueueNext, QueueMintToDrop, CollectionNext,
        SwitchCollection

LEMMA NextSupply ==
  ASSUME DInv, SerialInv, SupplyInv, [Next]_vars
  PROVE  SupplyInv'
  <1> SUFFICES ASSUME ~overlapped', AllNumbered', supply' # NoSupply
               PROVE  /\ TotalMints' <= supply'
                      /\ Counted' # {} => TotalMints' < supply'
    BY DEF SupplyInv
  <1>0. /\ TypeOK /\ Unnumbered /\ TakenIsThere
        /\ TotalMints \in Nat
        /\ supply' = supply /\ supply \in Nat
        /\ ~overlapped /\ InTurn
        /\ AllNumbered
    <2>1. TypeOK /\ Unnumbered /\ TakenIsThere /\ supply' = supply
      BY SupplyStays DEF DInv, SerialInv
    <2>2. supply \in Nat
      BY <2>1 DEF TypeOK
    <2> QED
      BY <2>1, <2>2, TotalIsNat, TurnsKept, NumberedBefore DEF SerialInv
  <1>1. /\ TotalMints <= supply
        /\ Counted # {} => TotalMints < supply
    BY <1>0 DEF SupplyInv
  <1>2. CASE UNCHANGED mint
    <2>1. TotalMints' = TotalMints
      BY <1>2, SameTotal
    <2>2. Counted' # {} => TotalMints < supply
      BY <1>0, <1>1, <1>2, CountedSteps DEF SoldOut
    <2> QED
      BY <1>0, <1>1, <2>1, <2>2
  <1>3. ASSUME NEW c \in Clients, NEW m \in Mints, InsertEdition(c, m)
        PROVE  TotalMints' <= supply' /\ Counted' = {}
    <2> DEFINE row == [status |-> "minted", edition |-> client[c].edition]
    <2>1. /\ c \in Counted /\ row \in Row /\ mint[m].status = "absent"
          /\ mint' = [mint EXCEPT ![m] = row]
      BY <1>0, <1>3 DEF InsertEdition, Counted, TypeOK, Client, Row
    <2>2. TotalMints' = TotalMints + 1
      BY <1>0, <2>1, OneMore
    <2>3. Counted' = {}
      <3>1. client[c] # Idle /\ client' = [client EXCEPT ![c] = Idle]
        BY <1>3 DEF InsertEdition, Idle
      <3> QED
        BY <1>0, <3>1, NobodyCounted
    <2> QED
      BY <1>0, <1>1, <2>1, <2>2, <2>3
  <1>4. ASSUME NEW m \in Mints, SwitchCollection(m)
        PROVE  TotalMints' <= TotalMints /\ Counted' = Counted
    BY <1>0, <1>4, SwitchedCounts DEF SwitchCollection, Counted
  <1>5. TotalMints' \in Nat
    <2>1. IsFiniteSet(Rows("minted")')
      BY FS_Subset DEF Rows
    <2> QED
      BY <2>1, FS_CardinalityType DEF TotalMints
  <1> QED
    BY <1>0, <1>1, <1>2, <1>3, <1>4, <1>5, NumberedSteps

LEMMA SpecSupplyInv == Spec => [](DInv /\ SerialInv /\ SupplyInv)
  <1>1. Init => SupplyInv
    <2> SUFFICES ASSUME Init PROVE SupplyInv
      OBVIOUS
    <2>1. Rows("minted") = {} /\ Counted = {}
      BY DEF Init, Rows, Absent, Counted, Idle
    <2>2. TotalMints = 0
      BY <2>1, FS_EmptySet DEF TotalMints
    <2> QED
      BY <2>1, <2>2, SuppliesAssumption DEF Init, SupplyInv
  <1>2. DInv /\ SerialInv /\ SupplyInv /\ [Next]_vars => SupplyInv'
    BY NextSupply
  <1> QED
    BY <1>1, <1>2, SpecSerialInv, PTL DEF Spec

\* While requests do not overlap and every mint is an edition, the supply is never
\* exceeded, also after mints were switched away.
THEOREM InTurnNotOversold == Spec => []NotOversold
  <1>1. SupplyInv => NotOversold
    BY DEF SupplyInv, NotOversold
  <1> QED
    BY <1>1, SpecSupplyInv, PTL

\* And once the supply is reached, nothing is minted any more, unless a mint is
\* switched away.
THEOREM InTurnSoldOut == Spec => SoldOutIsFinal
  <1>1. DInv /\ SerialInv /\ SupplyInv /\ SupplyInv' /\ [Next]_vars
          => [~overlapped' /\ AllNumbered' /\ NoneSwitched' /\ supply # NoSupply
                /\ TotalMints >= supply
                => TotalMints' = supply' /\ Counted' = {}]_vars
    <2> SUFFICES ASSUME DInv, SerialInv, SupplyInv, SupplyInv', [Next]_vars,
                        ~overlapped', AllNumbered', NoneSwitched', supply # NoSupply,
                        TotalMints >= supply
                 PROVE  TotalMints' = supply' /\ Counted' = {}
      OBVIOUS
    <2>1. /\ TypeOK /\ Unnumbered /\ TakenIsThere
          /\ TotalMints \in Nat /\ supply' = supply /\ supply \in Nat
      <3>1. TypeOK /\ supply' = supply
        BY SupplyStays DEF DInv
      <3> QED
        BY <3>1, TotalIsNat DEF DInv, SerialInv, TypeOK
    <2>2. /\ TotalMints' \in Nat
          /\ TotalMints' <= supply'
          /\ Counted' # {} => TotalMints' < supply'
      <3>1. IsFiniteSet(Rows("minted")')
        BY FS_Subset DEF Rows
      <3> QED
        BY <2>1, <3>1, FS_CardinalityType DEF SupplyInv, TotalMints
    <2>3. TotalMints <= TotalMints'
      <3>1. CASE UNCHANGED mint
        BY <2>1, <3>1, SameTotal
      <3>2. ASSUME NEW c \in Clients, NEW m \in Mints, InsertEdition(c, m)
            PROVE  TotalMints' = TotalMints + 1
        <4>1. /\ [status |-> "minted", edition |-> client[c].edition] \in Row
              /\ mint[m].status = "absent"
          BY <2>1, <3>2 DEF InsertEdition, TypeOK, Client, Row
        <4> QED
          BY <2>1, <3>2, <4>1, OneMore DEF InsertEdition
      <3>3. ASSUME NEW m \in Mints, SwitchCollection(m) PROVE FALSE
        BY <2>1, <3>3, SwitchedCounts DEF NoneSwitched
      <3> QED
        BY <2>1, <3>1, <3>2, <3>3, NumberedSteps
    <2> QED
      BY <2>1, <2>2, <2>3
  <1> QED
    BY <1>1, SpecSupplyInv, PTL DEF Spec, SoldOutIsFinal

=============================================================================
