\* One publisher and a restart: does the durable log keep every event it accepted?
CONSTANTS
  p1 = p1
  p2 = p2
  s1 = s1
  s2 = s2
  funds = funds
  tip = tip
  NoEvent = NoEvent
  Publisher = {p1}
  Subscriber = {s1}
  Kind = {funds, tip}
  Interest <- MCTipOnly
  Source <- MCRing
  BufferCapacity = 1
  HistoryCapacity = 3
  StorageReliable = TRUE
  MaxCursor = 3
  MaxRestarts = 1
SPECIFICATION Spec
INVARIANT DurableRetainsAll
CHECK_DEADLOCK FALSE
