------------------------- MODULE MCCollectionCache -------------------------
(* Model checking of CollectionCache: an edition drop and an open drop.    *)
(* Either becomes a collection without a drop when it is imported.         *)
EXTENDS CollectionCache, TLC

CONSTANTS edition, open

AllCollections == {edition, open}
MCKind == (edition :> "edition") @@ (open :> "open")

MCSymmetry == Permutations(Mints) \cup Permutations(Clients)

\* Of what happened to a number TLC tells apart whether it excuses the number: steps add to
\* the ghosts, copy them or empty them, and the properties ask for nothing else.
Excused(entry, events) == events \cap (Silent(entry) \cup {"deleted", "error"}) # {}

MCView ==
  <<kind, mint, cache, client,
    [k \in Collections |-> [entry \in LoadOps |-> Excused(entry, missed[k][entry])]],
    [c \in Clients |-> Excused(client[c].op, unseen[c])]>>
=============================================================================
