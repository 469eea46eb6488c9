CONSTANTS
  OpN = OpN
  OpI = OpI
  OpO = OpO
  T1 = T1
  T2 = T2
  NoDataOps <- MCNoDataOps
  DataInOps <- MCDataInOps
  DataOutOps <- MCDataOutOps
  Threads <- MCThreads
  MaxTx = 1
  MaxConfigs = 1
  ReconfigValues = {}
  EndpointFaults = FALSE
SPECIFICATION Spec
PROPERTY EveryCommandAnswered
