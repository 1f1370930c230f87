--------------------------- MODULE MCInputChecks ---------------------------
(* Instances of InputChecks for TLC: a project with a wallet on Solana and *)
(* one on Polygon, and requests at the edges of what is accepted.          *)
EXTENDS InputChecks, TLC

CONSTANTS k1, k2, c1, c2, ours, other, upper, lower

MCRows == {k1, k2}
MCClients == {c1, c2}
MCAddresses == {ours, other, upper, lower}
MCWellFormed == [chain \in Chains |->
  CASE chain = "solana" -> {ours, other} [] chain = "polygon" -> {upper, lower} [] OTHER -> {}]
MCNormal == [a \in MCAddresses |-> IF a = upper THEN lower ELSE a]
MCTreasury == {<<"solana", ours>>, <<"polygon", upper>>}

Plain == [chain |-> "solana", creators |-> NoValue, json |-> NoValue, type |-> "edition",
          supply |-> 1, price |-> NoValue, fee |-> NoValue, end |-> NoValue,
          compressed |-> FALSE]
Creator1(a, verified, share) == [address |-> a, verified |-> verified, share |-> share]
Of(first, second) == [Plain EXCEPT !.creators = <<first, second>>, !.json = "fine"]
OfOne(creator) == [Plain EXCEPT !.creators = <<creator>>, !.json = "fine"]

MCInputs == {
  \* a patch of nothing
  Plain,
  \* a creator verified that is not the owner
  Of(Creator1(ours, TRUE, 50), Creator1(other, TRUE, 50)),
  \* the largest fee and price, a drop of any number
  [OfOne(Creator1(other, FALSE, 100))
     EXCEPT !.type = "open", !.supply = 0, !.price = 2, !.fee = 2, !.end = "future",
            !.compressed = TRUE],
  \* shares of 356 percent, a fee and a price too large for a drop or a new mint
  [Of(Creator1(ours, TRUE, 200), Creator1(other, FALSE, 156)) EXCEPT !.fee = 3, !.price = 3],
  \* an address twice; for a drop, no edition
  [Of(Creator1(other, FALSE, 50), Creator1(other, FALSE, 50)) EXCEPT !.supply = 0],
  \* Polygon: a long name is accepted, two creators and a Solana address are not
  [OfOne(Creator1(upper, FALSE, 100)) EXCEPT !.chain = "polygon", !.json = "long"],
  [Of(Creator1(upper, FALSE, 50), Creator1(lower, FALSE, 50)) EXCEPT !.chain = "polygon"],
  [OfOne(Creator1(other, FALSE, 100)) EXCEPT !.chain = "polygon"],
  \* no address of an image
  [OfOne(Creator1(ours, TRUE, 100)) EXCEPT !.json = "no_url"]}

MCSymmetry == Permutations(MCRows) \cup Permutations(MCClients)
=============================================================================
