--------------------------- MODULE MC_UsbGadgetIo ---------------------------
EXTENDS UsbGadgetIo

CONSTANTS OpN, OpI, OpO, T1, T2

MCNoDataOps  == {OpN}
MCDataInOps  == {OpI}
MCDataOutOps == {OpO}
MCThreads    == {T1, T2}

=============================================================================
