\* One publisher, no restart, a reliable durable log.
CONSTANTS
  p1 = p1
  p2 = p2
  s1 = s1
  s2 = s2
  funds = funds
  tip = tip
  NoEvent = NoEvent
  Publisher = {p1}
  Subscriber = {s1, s2}
  Kind = {funds, tip}
  Interest <- MCInterest
  Source <- MCSource
  BufferCapacity = 2
  HistoryCapacity = 3
  StorageReliable = TRUE
  MaxCursor = 4
  MaxRestarts = 0
SPECIFICATION FairSpec
INVARIANTS GapFree CatchUpInCursorOrder DurableRetainsAll
PROPERTIES FirstSeenInOrder Delivered ImplementsEventStream
CHECK_DEADLOCK FALSE
