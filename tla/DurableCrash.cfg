\* One fault: is a rollback all or nothing?
CONSTANTS
  c1 = c1
  c2 = c2
  NoCoin = NoCoin
  Coin = {c1, c2}
  MaxHeight = 2
  MaxFaults = 1
SPECIFICATION Spec
INVARIANT AllOrNothing
CHECK_DEADLOCK FALSE
