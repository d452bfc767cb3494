SPECIFICATION Spec

CONSTANTS
  Requests = {"raw", "body"}
  Responses = {"length", "redirect"}
  HasDeadline = FALSE
  MaxRedirects = 1
  MaxWrites = 2

INVARIANT RedirectReachesServer

\* A caller may stop using the connection.
CHECK_DEADLOCK FALSE
