------------------------------ MODULE PtpDevice ------------------------------
(***************************************************************************)
(* The emulated camera behind vcam_write / vcam_read, as both transports   *)
(* (the PTP/IP relay of ptpip.c and the USB gadget of otg.c) see it: a     *)
(* container written to it is dispatched by its code, and what it answers  *)
(* is queued in inbulk for the transport to read.  The device core is not  *)
(* in this repository; its behaviour is taken from the specification.      *)
(***************************************************************************)
EXTENDS Naturals, Sequences, PtpBridge

CONSTANTS
  NoDataOps,    \* operations answered by a response only
  DataInOps,    \* operations whose data phase goes device -> initiator
  DataOutOps    \* operations whose data phase goes initiator -> device

Ops == NoDataOps \cup DataInOps \cup DataOutOps
ASSUME NoDataOps \cap DataInOps = {} /\ NoDataOps \cap DataOutOps = {}
       /\ DataInOps \cap DataOutOps = {}

VARIABLES
  inbulk,    \* containers queued for vcam_read
  pending    \* the command waiting for its data phase, or None

None  == [type |-> "None"]
RC_OK == "OK"

DevPayload       == <<7>>   \* the data phase the device sends
InitiatorPayload == <<9>>   \* the data phase an initiator sends

Response(tx) == UsbPacket("Response", RC_OK, tx, <<>>)

DeviceInit == inbulk = <<>> /\ pending = None

\* A command: answered at once, with the data container first for a data-in
\* operation; a data-out operation waits for its data container.
DeviceCommand(u) ==
  CASE u.code \in NoDataOps ->
         /\ inbulk' = Append(inbulk, Response(u.transaction))
         /\ UNCHANGED pending
    [] u.code \in DataInOps ->
         /\ inbulk' = inbulk \o
              << UsbPacket("Data", u.code, u.transaction, DevPayload),
                 Response(u.transaction) >>
         /\ UNCHANGED pending
    [] u.code \in DataOutOps ->
         /\ pending' = u
         /\ UNCHANGED inbulk

\* The data container of the pending command completes it; anything else
\* is ignored.
DeviceData(u) ==
  IF pending # None /\ u.type = "Data" /\ u.transaction = pending.transaction
    THEN /\ inbulk' = Append(inbulk, Response(u.transaction))
         /\ pending' = None
    ELSE UNCHANGED <<inbulk, pending>>

\* vcam_write of one container.
DeviceWrite(u) ==
  IF u.type = "Command" THEN DeviceCommand(u) ELSE DeviceData(u)

=============================================================================
