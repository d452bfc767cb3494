SPECIFICATION FairSpec

CONSTANTS
  Requests = {"raw", "nobody", "body"}
  Responses <- Answers
  HasDeadline = TRUE
  MaxRedirects = 1
  MaxWrites = 3

INVARIANT TypeOK
INVARIANT ResponseForRequest
INVARIANT AtStatusLine
PROPERTY OwnBody
PROPERTY DoReturns

\* A caller may stop using the connection.
CHECK_DEADLOCK FALSE
