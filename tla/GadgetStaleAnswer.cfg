CONSTANTS
  OpN = OpN
  OpI = OpI
  OpO = OpO
  T1 = T1
  T2 = T2
  NoDataOps <- MCNoDataOps
  DataInOps <- MCDataInOps
  DataOutOps = {}
  Threads <- MCThreads
  MaxTx = 3
  MaxConfigs = 2
  ReconfigValues = {0, 2}
  EndpointFaults = FALSE
SPECIFICATION Spec
\* No data-out operation: the stale answer needs only two io threads and
\* operations answered by the device at once.
INVARIANT ResponsesInOrder
CHECK_DEADLOCK FALSE
