--------------------------- MODULE MCDropMinting ---------------------------
(* Model checking of DropMinting: ids are interchangeable, times and        *)
(* supplies are small numbers.                                              *)
EXTENDS DropMinting, TLC

MCSymmetry == Permutations(Mints) \cup Permutations(Clients)

EditionOps == {"mint_edition"}
EveryOp == AllOps
SmallSupplies == {1, 2, NoSupply}
OneSupply == {1}
=============================================================================
