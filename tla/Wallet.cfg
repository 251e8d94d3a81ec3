\* One key beyond the signer's gap, sums beyond u64, retries and a reorg.
CONSTANTS
  Max64 = 15
  CoinCap = 2
  EngineKeys = {"w1", "w2", "w3"}
  EngineNetwork = "main"
  SignerKeys = {"w1", "w2"}
  SignerNetwork = "main"
  Assets = {"cat"}
  MaxSubmits = 2
  MaxRounds = 2
  Wallets = {"small", "large", "beyond", "rich"}
  CoinId = {"c1", "c2"}
  Hint = {"h1", "h2"}
  Heights = {1, 2}
  Batches <- PeerAnswers
  Thread = {"t1", "t2"}
  Peer = {"p1", "p2"}
  Networks = {"mainnet", "testnet"}
  NoPeer = "none"
  Kind = {"cat", "nft"}
  Id = {"i1", "i2"}
  Label = {"l1", "l2"}
  Address = {"a1"}
  MaxIndex = 3
  Opener = {"store", "log"}
  Newest = 3
  MaxProcesses = 3
  client1 = client1
  client2 = client2
  Client = {client1, client2}
  PendingTTL = 2
  MaxBuilds = 2
  MaxNow = 2
  MaxRestarts = 1
INIT Init
NEXT Next
INVARIANTS TypeOK NothingUnseen ConservesValue SettlementTied EngineBuiltSigns SignedIsValid PaidAtMostOnce SelectionSound FoundAsAnnounced PeersOnNetwork TargetKnownUnlessOvertaken UpgradedOnce KeptApart FreshKept NeverTwice NeverLate Reclaimed
SYMMETRY ClientSymmetry
CHECK_DEADLOCK FALSE
