\* Two threads: can the target be a peer that was dropped?
CONSTANTS
  Thread = {"t1", "t2"}
  Peer = {"p1", "p2"}
  Networks = {"mainnet", "testnet"}
  NoPeer = "none"
  Kind = {"cat", "nft"}
  Id = {"i1", "i2"}
  Label = {"l1", "l2"}
  Address = {"a1"}
  MaxIndex = 3
INIT Init
NEXT Next
INVARIANT TargetStillKnown
CHECK_DEADLOCK FALSE
