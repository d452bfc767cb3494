\* Every way to make a request, from raw bytes that disturb each search.
SPECIFICATION Spec
CONSTANTS
  NHosts = 2
  Heads <- MCHeads
  Bodies <- MCBodies
  Lengths <- MCLengths
  NoValue = NoValue
INVARIANTS TypeOK Framed HostSet
\* A behaviour ends with its request.
CHECK_DEADLOCK FALSE
