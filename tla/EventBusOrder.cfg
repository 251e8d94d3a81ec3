\* Two publishers: is the catch-up answer in cursor order?
CONSTANTS
  p1 = p1
  p2 = p2
  s1 = s1
  s2 = s2
  funds = funds
  tip = tip
  NoEvent = NoEvent
  Publisher = {p1, p2}
  Subscriber = {s1}
  Kind = {funds, tip}
  Interest <- MCTipOnly
  Source <- MCRing
  BufferCapacity = 1
  HistoryCapacity = 3
  StorageReliable = TRUE
  MaxCursor = 3
  MaxRestarts = 0
SPECIFICATION Spec
INVARIANT CatchUpInCursorOrder
CHECK_DEADLOCK FALSE
