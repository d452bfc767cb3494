SPECIFICATION FairSpec

CONSTANTS
  Capacity = 2
  MaxBytes = 3
  MaxWrite = 2
  MaxRead = 2
  Deadlines = {"nil", "timer", "closed"}

INVARIANT TypeOK
PROPERTY EofAfterData
PROPERTY ImplementsStream
PROPERTY CloseUnblocks
PROPERTY DeadlineUnblocks

\* No call is made after Close any more.
CHECK_DEADLOCK FALSE
