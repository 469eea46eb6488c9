---------------------------- MODULE MC_FujiRelay ----------------------------
(***************************************************************************)
(* Instantiates FujiRelay for TLC: one operation of each kind as a model   *)
(* value; the no-data operation is the one that asks for remote ports.     *)
(***************************************************************************)
EXTENDS FujiRelay

CONSTANTS OpN, OpI, OpO

MCNoDataOps  == {OpN}
MCDataInOps  == {OpI}
MCDataOutOps == {OpO}
MCRemoteOps  == {OpN}

=============================================================================
