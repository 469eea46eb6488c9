\* init_ep may fail; the host re-sends SET_CONFIGURATION once.
CONSTANTS
  OpN = OpN
  OpI = OpI
  OpO = OpO
  T1 = T1
  T2 = T2
  NoDataOps <- MCNoDataOps
  DataInOps <- MCDataInOps
  DataOutOps = {}
  Threads <- MCThreads
  MaxTx = 1
  MaxConfigs = 2
  ReconfigValues = {2}
  EndpointFaults = TRUE
SPECIFICATION Spec
PROPERTY IoThreadOnConfiguredEndpoints
\* A failed init_ep leaves no io thread and a host waiting for ever; that
\* state has no successor.
CHECK_DEADLOCK FALSE
