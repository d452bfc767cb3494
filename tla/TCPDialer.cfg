SPECIFICATION FairSpec

CONSTANTS
  Dials = {d1, d2}
  NAddrs = 2
  Concurrency = 1
  Timeout = 2
  Chans = {c1, c2}
  NoChan = NoChan
  Empty = Empty
  MaxTime = 5

INVARIANT TypeOK
INVARIANT SlotsHeld
INVARIANT OwnResult
INVARIANT TwiceTimeout
PROPERTY EveryDialEnds
PROPERTY SlotsComeBack

\* Calls end, and the clock stops at its bound.
CHECK_DEADLOCK FALSE
