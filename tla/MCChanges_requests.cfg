SPECIFICATION Spec
CONSTANTS
  Requests = {r1, r2}
  Submissions = {s1, s2}
  Collections = {k1, k2}
  Wallets = {w1, w2}
  HubWallets = {w1}
  MaxMoves = 1
  MaxCopies = 2
  Ops <- EveryOp
  Mint = Mint
  First = First
  NoUri = NoUri
  NoAsset = NoAsset
  NoRequest = NoRequest
  NoWallet = NoWallet
  NoData = NoData
SYMMETRY MCSymmetry
INVARIANTS UpdateIsWhole NoUriIsOpen ConfirmedIsOnChain AcknowledgedIsRecorded OwnerWasOnChain
PROPERTIES CollectionFollowsChain
CHECK_DEADLOCK FALSE
