CONSTANTS
  OpN = OpN
  OpI = OpI
  OpO = OpO
  NoDataOps <- MCNoDataOps
  DataInOps <- MCDataInOps
  DataOutOps <- MCDataOutOps
  MaxTx = 3
  Fragmenting = TRUE
  AckPartials = {8}
SPECIFICATION Spec
INVARIANT TypeOK
PROPERTY TransactionRefined
