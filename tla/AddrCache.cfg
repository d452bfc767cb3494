SPECIFICATION Spec

CONSTANTS
  Callers = {p1, p2, p3}
  Entries = {e1, e2, e3, e4, e5}
  NoEntry = NoEntry
  Duration = 2
  Period = 1
  MaxTime = 8

SYMMETRY Symmetry

INVARIANT TypeOK
INVARIANT PendingHasRefresher
INVARIANT OneRefresher
INVARIANT AgeOfUsed

\* The clock stops at its bound.
CHECK_DEADLOCK FALSE
