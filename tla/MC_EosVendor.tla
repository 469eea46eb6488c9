---------------------------- MODULE MC_EosVendor ----------------------------
(* Model-checking instance of EosVendor: two property codes (one of them   *)
(* the capture destination), three generic opcodes, enough data phases to *)
(* overflow the ten-entry queue and enough viewfinder calls to pass the    *)
(* warm-up threshold.                                                      *)
EXTENDS EosVendor

CONSTANTS CapDest, Aperture, RemoteMode, EventMode, OtherEosOp

\* The queue run sets one property code: values are serial numbers, so
\* the order of changes stays observable.
MCQueueCodes == {CapDest}
MCPropCodes  == {CapDest, Aperture}
MCGenericOps == {RemoteMode, EventMode, OtherEosOp}
=============================================================================
