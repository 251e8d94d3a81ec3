\* Two publishers on clones of one sink, appends that may fail, a restart.
CONSTANTS
  p1 = p1
  p2 = p2
  s1 = s1
  s2 = s2
  funds = funds
  tip = tip
  NoEvent = NoEvent
  Publisher = {p1, p2}
  Subscriber = {s1}
  Kind = {funds, tip}
  Interest <- MCTipOnly
  Source <- MCRing
  BufferCapacity = 1
  HistoryCapacity = 2
  StorageReliable = FALSE
  MaxCursor = 3
  MaxRestarts = 1
SPECIFICATION Spec
INVARIANTS TypeOK RingBounded UniqueCursors RecordedBeforeSent FilteredView
SYMMETRY PublisherSymmetry
CHECK_DEADLOCK FALSE
