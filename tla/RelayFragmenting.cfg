CONSTANTS
  OpN = OpN
  OpI = OpI
  OpO = OpO
  NoDataOps <- MCNoDataOps
  DataInOps <- MCDataInOps
  DataOutOps = {}
  MaxTx = 1
  Fragmenting = TRUE
  AckPartials = {}
SPECIFICATION Spec
INVARIANT NoSpuriousTeardown
