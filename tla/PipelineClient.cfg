SPECIFICATION Spec

CONSTANTS
  Calls = {p1, p2, p3}
  NoCall = NoCall
  Poll = Poll
  Callers = 2
  MaxConns = 3
  MaxPendingRequests = 1

INVARIANT TypeOK
INVARIANT ConnsBounded
INVARIANT CountedOnce
INVARIANT WorksHeld
PROPERTY SettledOnce

\* All calls return.
CHECK_DEADLOCK FALSE
