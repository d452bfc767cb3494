SPECIFICATION Spec

CONSTANTS
  Calls = {p1, p2, p3}
  Polls = {}
  NoCall = NoCall
  MaxPendingRequests = 1
  MaxGens = 2
  Faults = {"idle"}

SYMMETRY Symmetry
INVARIANT ResponseMatch

\* Once every call has returned the goroutines of an idle connection wait.
CHECK_DEADLOCK FALSE
