SPECIFICATION Spec

CONSTANTS
  Calls = {p1, p2, p3}
  Polls = {q1}
  NoCall = NoCall
  MaxPendingRequests = 1
  MaxGens = 1
  Faults = {"dial", "write", "read", "interim", "overread", "idle"}

SYMMETRY Symmetry
INVARIANT TypeOK
INVARIANT WorkAccounted
INVARIANT PipelineOrder
INVARIANT ResponseMatch

\* Once every call has returned the goroutines of an idle connection wait.
CHECK_DEADLOCK FALSE
