SPECIFICATION FairSpec

CONSTANTS
  Calls = {p1, p2}
  Polls = {}
  NoCall = NoCall
  MaxPendingRequests = 1
  MaxGens = 1
  Faults = {"dial", "write", "read"}

PROPERTY EveryCallReturns
PROPERTY ShutdownCompletes
PROPERTY ImplementsService

\* Once every call has returned the goroutines of an idle connection wait.
CHECK_DEADLOCK FALSE
