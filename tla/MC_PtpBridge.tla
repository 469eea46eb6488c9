---------------------------- MODULE MC_PtpBridge ----------------------------
(***************************************************************************)
(* Checks the conversions of PtpBridge over every container of a bounded  *)
(* set.  The state is the container being converted: the device emits    *)
(* USB containers one after another.                                       *)
(***************************************************************************)
EXTENDS PtpBridge

CONSTANTS
  Codes,         \* operation / response codes
  Transactions,  \* transaction ids
  Words,         \* values of a parameter word
  Bytes,         \* values of a payload byte
  MaxParams,     \* bound: parameters of a command or response (PTP: 5)
  MaxPayload     \* bound: bytes of a data payload

VARIABLE pkt

BoundedSeqs(S, n) == UNION {[1 .. m -> S] : m \in 0 .. n}

\* Well-formed containers, as the device's ptp_response/ptp_senddata build
\* them.
Inputs ==
  {UsbPacket(t, c, x, b) : t \in {"Command", "Response"}, c \in Codes,
                           x \in Transactions, b \in BoundedSeqs(Words, MaxParams)}
  \cup
  {UsbPacket("Data", c, x, b) : c \in Codes, x \in Transactions,
                                b \in BoundedSeqs(Bytes, MaxPayload)}

Init == pkt \in Inputs
Next == pkt' \in Inputs
Spec == Init /\ [][Next]_pkt

-----------------------------------------------------------------------------
\* (spec 8, round trip) A command container sent over PTP/IP and converted
\* back by conv_ip_cmd_packet_to_usb is the container the device built:
\* the parameter count derived on both sides agrees.
CommandRoundTrip ==
  pkt.type = "Command" => IpCmdToUsb(UsbToIp(pkt)[1]) = pkt

\* (spec 8, data split) conv_usb_packet_to_ip turns a data container into
\* a start packet whose announced length is the payload length and an end
\* packet whose length covers its header and the payload, both carrying the
\* container's transaction, and the payload unchanged.
DataSplit ==
  pkt.type = "Data" =>
    LET ip == UsbToIp(pkt)  payload == pkt.body IN
    /\ Len(ip) = 2
    /\ ip[1].type = "DataStart" /\ ip[2].type = "DataEnd"
    /\ ip[1].transaction = pkt.transaction
    /\ ip[2].transaction = pkt.transaction
    /\ ip[1].total = Len(payload)
    /\ ip[2].length = EndDataHeaderSize + Len(payload)
    /\ ip[2].payload = payload

=============================================================================
