\* Two callers of the sync engine on one store.
CONSTANTS
  c1 = c1
  c2 = c2
  t1 = t1
  t2 = t2
  NoCoin = NoCoin
  Coin = {c1}
  Task = {t1, t2}
  MaxHeight = 2
  MaxReorgs = 1
SPECIFICATION Spec
INVARIANT StoreOnChain
CHECK_DEADLOCK FALSE
