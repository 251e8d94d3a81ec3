\* The durable store with two failing statements or crashes.
CONSTANTS
  c1 = c1
  c2 = c2
  NoCoin = NoCoin
  Coin = {c1, c2}
  MaxHeight = 2
  MaxFaults = 2
SPECIFICATION Spec
INVARIANTS TypeOK RetryCompletes
PROPERTIES PeakFallsLast ImplementsCoinStore
SYMMETRY CoinSymmetry
