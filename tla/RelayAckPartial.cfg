CONSTANTS
  OpN = OpN
  OpI = OpI
  OpO = OpO
  NoDataOps <- MCNoDataOps
  DataInOps <- MCDataInOps
  DataOutOps = {}
  MaxTx = 1
  Fragmenting = FALSE
  AckPartials = {8}
SPECIFICATION Spec
PROPERTY SessionEstablished
