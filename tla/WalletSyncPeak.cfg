\* Two callers of the sync engine on one store.
CONSTANTS
  c1 = c1
  c2 = c2
  t1 = t1
  t2 = t2
  NoCoin = NoCoin
  Coin = {c1, c2}
  Task = {t1}
  MaxHeight = 2
  MaxReorgs = 0
SPECIFICATION Spec
INVARIANT PeakIsProcessed
CHECK_DEADLOCK FALSE
