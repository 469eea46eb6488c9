\* No faults: a well-behaved client and every bind succeeding.  The
\* detached remote-ports thread may wait in accept forever.
CONSTANTS
  OpN = OpN
  OpI = OpI
  OpO = OpO
  NoDataOps <- MCNoDataOps
  DataInOps <- MCDataInOps
  DataOutOps <- MCDataOutOps
  RemoteOps <- MCRemoteOps
  MaxTx = 3
  Fragmenting = FALSE
  ResourceFaults = FALSE
SPECIFICATION Spec
CHECK_DEADLOCK FALSE
INVARIANT RemotePortsListening
