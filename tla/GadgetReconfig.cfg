CONSTANTS
  OpN = OpN
  OpI = OpI
  OpO = OpO
  T1 = T1
  T2 = T2
  NoDataOps <- MCNoDataOps
  DataInOps <- MCDataInOps
  DataOutOps = {}
  Threads <- MCThreads
  MaxTx = 3
  MaxConfigs = 2
  ReconfigValues = {2}
  EndpointFaults = FALSE
SPECIFICATION Spec
PROPERTY EveryCommandAnswered
\* The outcome under test is a gadget with no io thread left and a host
\* waiting on it for ever; that state has no successor.
CHECK_DEADLOCK FALSE
