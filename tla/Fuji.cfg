\* All faults on: short reads, a failing pthread_create or secondary bind, data-out.  The
\* run ends when the command connection is gone on both sides, and the
\* detached remote-ports thread may still wait in accept: no deadlock check.
CONSTANTS
  OpN = OpN
  OpI = OpI
  OpO = OpO
  NoDataOps <- MCNoDataOps
  DataInOps <- MCDataInOps
  DataOutOps <- MCDataOutOps
  RemoteOps <- MCRemoteOps
  MaxTx = 3
  Fragmenting = TRUE
  ResourceFaults = TRUE
SPECIFICATION Spec
CHECK_DEADLOCK FALSE
INVARIANT TypeOK
PROPERTY TransactionRefined
