\* Two raw calls on one Options, or three pipeline calls on one pool of channels,
\* or one of each.
SPECIFICATION FairSpec
CONSTANTS
  RawCalls <- MCRawCalls
  PipeCalls <- MCPipeCalls
  Mixes <- MCMixes
INVARIANTS TypeOK ConnOwned OwnHandshake NilDialer
 
\* Every call may have ended.
CHECK_DEADLOCK FALSE
