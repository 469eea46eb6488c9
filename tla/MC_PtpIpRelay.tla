--------------------------- MODULE MC_PtpIpRelay ---------------------------
(***************************************************************************)
(* Instantiates PtpIpRelay for TLC: one operation of each kind as a model *)
(* value.                                                                  *)
(***************************************************************************)
EXTENDS PtpIpRelay

CONSTANTS OpN, OpI, OpO

MCNoDataOps  == {OpN}
MCDataInOps  == {OpI}
MCDataOutOps == {OpO}

=============================================================================
