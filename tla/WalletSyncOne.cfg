\* One caller of the sync engine; the chain moves while it runs.
CONSTANTS
  c1 = c1
  c2 = c2
  t1 = t1
  t2 = t2
  NoCoin = NoCoin
  Coin = {c1, c2}
  Task = {t1}
  MaxHeight = 2
  MaxReorgs = 1
SPECIFICATION FairSpec
INVARIANTS TypeOK StoreOnChain PeakOnChain EventsMatchStore SyncedAtTarget
PROPERTIES BookedOnce Converges
CHECK_DEADLOCK FALSE
