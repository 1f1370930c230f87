--------------------------- MODULE MCAssetChanges ---------------------------
(* Model checking of AssetChanges: ids are interchangeable, wallets are not *)
(* (one is in customer_wallets).                                            *)
EXTENDS AssetChanges, TLC

MCSymmetry ==
  Permutations(Requests) \cup Permutations(Submissions) \cup Permutations(Collections)

EveryOp == AllOps
UpdateOps == {"update_mint", "retry_update_mint"}
PatchOps == {"update_mint"} \cup Patches
MoveOps == {"transfer_asset", "switch_collection"}
=============================================================================
