CONSTANTS
  OpN = OpN
  OpI = OpI
  OpO = OpO
  T1 = T1
  T2 = T2
  NoDataOps <- MCNoDataOps
  DataInOps <- MCDataInOps
  DataOutOps <- MCDataOutOps
  Threads <- MCThreads
  MaxTx = 3
  MaxConfigs = 2
  ReconfigValues = {0, 2}
  EndpointFaults = FALSE
SPECIFICATION Spec
PROPERTY AnsweredInFirstConfiguration
\* After a second SET_CONFIGURATION the gadget can end with no io thread and
\* the host waiting for ever (GadgetReconfig.cfg); that state has no
\* successor.
CHECK_DEADLOCK FALSE
