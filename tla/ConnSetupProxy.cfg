\* The same calls: what the comment in httpDialer says of its connection.
SPECIFICATION Spec
CONSTANTS
  RawCalls <- MCRawCalls
  PipeCalls <- MCPipeCalls
  Mixes <- MCMixes
INVARIANT ProxyConnClosed
\* Every call may have ended.
CHECK_DEADLOCK FALSE
