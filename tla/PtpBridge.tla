------------------------------ MODULE PtpBridge ------------------------------
(***************************************************************************)
(* The conversions of src/src/usb2ip.c between the USB bulk container the *)
(* emulated device reads and writes and the PTP/IP packets of the TCP      *)
(* transport.  A packet is a record of its header fields and its body: the *)
(* parameter words of a command or response, or the payload bytes of a     *)
(* data phase.  Lengths are byte counts, computed as the code computes     *)
(* them from the length field, in 32-bit unsigned arithmetic where the    *)
(* code's is.                                                              *)
(***************************************************************************)
EXTENDS Naturals, Sequences

\* Header sizes of the packed wire structs.
BulkHeaderSize    == 12  \* struct PtpBulkContainer before params[]
IpCmdHeaderSize   == 18  \* struct PtpIpBulkContainer before params[]
IpRespHeaderSize  == 14  \* the length malloc'd for a PtpIpResponseContainer
StartDataSize     == 20  \* sizeof(struct PtpIpStartDataPacket)
EndDataHeaderSize == 12  \* sizeof(struct PtpIpEndDataPacket)

\* (a - b) / 4 with the subtraction in uint32_t, for a, b < 2^31: a
\* negative difference wraps to d + 2^32, whose quarter is d \div 4 + 2^30.
U32SubDiv4(a, b) ==
  LET d == a - b IN IF d >= 0 THEN d \div 4 ELSE d \div 4 + 1073741824

\* A USB bulk container as the device builds it.
UsbPacket(type, code, tx, body) ==
  [length |-> BulkHeaderSize
              + (IF type = "Data" THEN Len(body) ELSE 4 * Len(body)),
   type |-> type, code |-> code, transaction |-> tx, body |-> body]

\* The return value of a C function that falls off its end: bytes nobody
\* wrote.
Indeterminate == [type |-> "Indeterminate"]

-----------------------------------------------------------------------------
(***************************************************************************)
(* USB -> PTP/IP (conv_usb_packet_to_ip).  The result is the sequence of   *)
(* packets written to the socket: two for a data container, one for a      *)
(* command or response, none for the NULL returned on an unknown type.     *)
(***************************************************************************)

\* int param_length = (c->length - 12) / 4
UsbParamCount(c) == U32SubDiv4(c.length, BulkHeaderSize)

\* Mutant of the data branch: the payload length taken with the PTP/IP
\* command header size instead of the bulk header size.
DataToIpWrongHeader(c) ==
  LET len == c.length - IpCmdHeaderSize IN
  << [length |-> StartDataSize, type |-> "DataStart",
      transaction |-> c.transaction, total |-> len],
     [length |-> EndDataHeaderSize + len, type |-> "DataEnd",
      transaction |-> c.transaction, payload |-> SubSeq(c.body, 1, len)] >>

\* A data container: a start packet announcing the payload length, and an
\* end packet carrying the payload, both with the container's transaction.
DataToIp(c) ==
  LET len == c.length - BulkHeaderSize IN
  << [length |-> StartDataSize, type |-> "DataStart",
      transaction |-> c.transaction, total |-> len],
     [length |-> EndDataHeaderSize + len, type |-> "DataEnd",
      transaction |-> c.transaction, payload |-> SubSeq(c.body, 1, len)] >>

\* A response: resp is malloc'd with 14 bytes and keeps only the code and
\* the transaction; no parameter is copied.
ResponseToIp(c) ==
  << [length |-> IpRespHeaderSize, type |-> "CmdResponse",
      code |-> c.code, transaction |-> c.transaction, params |-> <<>>] >>

\* Mutant of the command branch: the request length written without the
\* parameters.
CommandToIpNoParamLength(c) ==
  LET n == UsbParamCount(c) IN
  << [length |-> IpCmdHeaderSize, type |-> "CmdRequest",
      data_phase |-> "Uninitialized", code |-> c.code,
      transaction |-> c.transaction, params |-> SubSeq(c.body, 1, n)] >>

\* A command: a request with the same parameters, whose data_phase field is
\* never written.
CommandToIp(c) ==
  LET n == UsbParamCount(c) IN
  << [length |-> IpCmdHeaderSize + 4 * n, type |-> "CmdRequest",
      data_phase |-> "Uninitialized", code |-> c.code,
      transaction |-> c.transaction, params |-> SubSeq(c.body, 1, n)] >>

\* conv_usb_packet_to_ip: the packets written to the socket, none for the
\* NULL returned on an unknown container type.
UsbToIp(c) ==
  CASE c.type = "Data"     -> DataToIp(c)
    [] c.type = "Response" -> ResponseToIp(c)
    [] c.type = "Command"  -> CommandToIp(c)
    [] OTHER               -> << >>

-----------------------------------------------------------------------------
(***************************************************************************)
(* PTP/IP -> USB.                                                          *)
(***************************************************************************)

\* int param_length = (bc->length - 18) / 4, the subtraction unsigned.
IpParamCount(p) == U32SubDiv4(p.length, IpCmdHeaderSize)

\* conv_ip_cmd_packet_to_usb, for the command requests it is called on: a
\* bulk command with the request's code, transaction and first
\* param_length parameters.
IpCmdToUsb(p) ==
  LET n == IpParamCount(p) IN
  [length |-> BulkHeaderSize + 4 * n, type |-> "Command", code |-> p.code,
   transaction |-> p.transaction, body |-> SubSeq(p.params, 1, n)]

\* conv_ip_data_packets_to_usb has an empty body: what it returns, and the
\* length it leaves unset, are whatever the registers held.
IpDataToUsb(ds, de) == Indeterminate

=============================================================================
