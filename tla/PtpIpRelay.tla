----------------------------- MODULE PtpIpRelay -----------------------------
(***************************************************************************)
(* The generic PTP/IP transport of src/src/ptpip.c: one main thread that   *)
(* alternates tcp_receive_all and tcp_send_all on the command connection,  *)
(* bridging each packet to the emulated device with PtpBridge, and an     *)
(* event thread spawned after the first exchange that accepts the event   *)
(* connection on the same listening socket and acknowledges it.  The      *)
(* device is reached through synchronous vcam_write / vcam_read calls of   *)
(* the main thread; its output queue is inbulk.  The client is a PTP/IP    *)
(* initiator: init request, event connection, then one operation at a     *)
(* time.                                                                    *)
(*                                                                         *)
(* Streams are sequences of whole packets.  A recv that returns fewer      *)
(* bytes than asked (possible whenever Fragmenting) is one outcome of a   *)
(* read; a send of the init acknowledgement may write any size in         *)
(* AckPartials first.                                                      *)
(***************************************************************************)
EXTENDS Naturals, Sequences, PtpDevice

CONSTANTS
  MaxTx,        \* bound: operations the client issues
  Fragmenting,  \* whether a recv may return a short count
  AckPartials   \* sizes a partial send of the init acknowledgement may have

ASSUME Fragmenting \in BOOLEAN

InitAckSize == 46   \* sizeof(socket_init_resp) in ptpip_generic_main

VARIABLES
  rpc,                       \* main thread: where in the loop it is
  first_write,               \* Priv.first_write
  left_of_init_packet,       \* Priv.left_of_init_packet
  have_setup_events_socket,  \* local of ptpip_generic_main
  ds_buf,                    \* buffer_ds while the data end is read
  listening,                 \* the PTP/IP server socket
  epc,                       \* event thread
  ev_conn,                   \* the client's event connection
  c2s, s2c,                  \* command connection, each direction
  ev_c2s, ev_s2c,            \* event connection, each direction
  cpc,                       \* client
  ctx, cop,                  \* client: outstanding transaction and opcode
  got,                       \* client: packets received for it
  ack_got,                   \* client: init acknowledgement bytes received
  cclosed                    \* client has closed its sockets

relay  == <<rpc, first_write, left_of_init_packet, have_setup_events_socket,
            ds_buf, listening>>
device == <<inbulk, pending>>
net    == <<c2s, s2c, ev_c2s, ev_s2c, ev_conn>>
client == <<cpc, ctx, cop, got, ack_got, cclosed>>
vars   == <<relay, epc, device, net, client>>

\* PTP/IP packets that only the handshakes use.
InitCmdReq   == [type |-> "InitCmdReq"]
InitEventReq == [type |-> "InitEventReq"]
InitEventAck == [type |-> "InitEventAck"]
AckBytes(k)  == [type |-> "InitCmdAck", n |-> k]

\* Data phase indicator of a PTP/IP command request: 2 announces data
\* from the initiator.
DataPhase(op) == IF op \in DataOutOps THEN 2 ELSE 1

CmdRequest(tx, op) ==
  [length |-> IpCmdHeaderSize, type |-> "CmdRequest",
   data_phase |-> DataPhase(op), code |-> op, transaction |-> tx,
   params |-> <<>>]

-----------------------------------------------------------------------------

\* ptpip_cmd_write: the first write of the connection is the init request,
\* which is swallowed; every later one goes to the device.
CmdWrite(u) ==
  IF first_write
    THEN /\ first_write' = FALSE
         /\ UNCHANGED device
    ELSE /\ DeviceWrite(u)
         /\ UNCHANGED first_write

-----------------------------------------------------------------------------
(***************************************************************************)
(* Main thread.                                                            *)
(***************************************************************************)

\* The err: path of ptpip_generic_main: both sockets closed, main returns.
Teardown ==
  /\ rpc' = "closed"
  /\ listening' = "closed"

\* tcp_receive_single_packet cannot deliver the next packet: a short read
\* of the length or of the body, or the peer closed (recv returning 0 ten
\* times).
FramerFails ==
  \/ c2s # <<>> /\ Fragmenting
  \/ c2s = <<>> /\ cclosed

\* A send to the client; once the client has closed, it either vanishes or
\* fails.
SendOk(pkts) ==
  /\ ~cclosed
  /\ s2c' = s2c \o pkts
SendLost == cclosed /\ UNCHANGED s2c

\* After the first tcp_send_all the main loop starts the event thread.
SpawnEventThread ==
  IF ~have_setup_events_socket
    THEN /\ have_setup_events_socket' = TRUE
         /\ epc' = "accept"
    ELSE UNCHANGED <<have_setup_events_socket, epc>>

\* tcp_receive_all, first packet: a command request is bridged and written
\* to the device, the init request written as is; a data phase announced by
\* the request is read next.
RelayRecv ==
  /\ rpc = "recv"
  /\ \/ /\ FramerFails
        /\ Teardown
        /\ UNCHANGED <<first_write, left_of_init_packet,
                       have_setup_events_socket, ds_buf, device, c2s>>
     \/ /\ c2s # <<>>
        /\ c2s' = Tail(c2s)
        /\ LET p == Head(c2s) IN
           CASE p.type = "CmdRequest" ->
                  /\ CmdWrite(IpCmdToUsb(p))
                  /\ rpc' = IF p.data_phase = 2 THEN "recv_ds" ELSE "send"
             [] p.type = "InitCmdReq" ->
                  /\ CmdWrite(p)
                  /\ rpc' = "send"
        /\ UNCHANGED <<left_of_init_packet, have_setup_events_socket,
                       ds_buf, listening>>
  /\ UNCHANGED <<epc, s2c, ev_c2s, ev_s2c, ev_conn, client>>

\* tcp_receive_all, data start packet.
RelayRecvDataStart ==
  /\ rpc = "recv_ds"
  /\ \/ /\ FramerFails
        /\ Teardown
        /\ UNCHANGED <<ds_buf, c2s>>
     \/ /\ c2s # <<>>
        /\ c2s' = Tail(c2s)
        /\ IF Head(c2s).type = "DataStart"
             THEN /\ ds_buf' = Head(c2s)
                  /\ rpc' = "recv_de"
                  /\ UNCHANGED listening
             ELSE /\ Teardown
                  /\ UNCHANGED ds_buf
  /\ UNCHANGED <<first_write, left_of_init_packet, have_setup_events_socket,
                 epc, device, s2c, ev_c2s, ev_s2c, ev_conn, client>>

\* tcp_receive_all, data end packet: the pair is joined by
\* conv_ip_data_packets_to_usb and written to the device.  Writing its
\* indeterminate result either kills the process or hands the device bytes
\* that are not a container of the client's.
RelayRecvDataEnd ==
  /\ rpc = "recv_de"
  /\ \/ /\ FramerFails
        /\ Teardown
        /\ UNCHANGED <<c2s, device, epc>>
     \/ /\ c2s # <<>>
        /\ c2s' = Tail(c2s)
        /\ IF Head(c2s).type = "DataEnd"
             THEN LET u == IpDataToUsb(ds_buf, Head(c2s)) IN
                  \/ /\ Teardown               \* the process crashes
                     /\ epc' = "exited"
                     /\ UNCHANGED device
                  \/ /\ DeviceWrite(u)
                     /\ rpc' = "send"
                     /\ UNCHANGED <<listening, epc>>
             ELSE /\ Teardown
                  /\ UNCHANGED <<device, epc>>
  /\ ds_buf' = None
  /\ UNCHANGED <<first_write, left_of_init_packet, have_setup_events_socket,
                 s2c, ev_c2s, ev_s2c, ev_conn, client>>

\* Mutant: the response behind a data container is left in the device.
AfterSendNoResponse(c) == "recv"

\* As per the PTP/IP data phase, a data container with a non-zero code is
\* followed by its response within the same tcp_send_all.
AfterSend(c) ==
  IF c.type = "Data" /\ c.code # 0 THEN "send_resp" ELSE "recv"

\* tcp_send_all: the rest of the init acknowledgement while any is left;
\* otherwise one container read from the device, bridged and sent.  A data
\* container is followed by its response (RelaySendResponse).  The main
\* loop then starts the event thread once.
RelaySend ==
  /\ rpc = "send"
  /\ \/ /\ left_of_init_packet > 0
        /\ \E k \in {left_of_init_packet} \cup
                    {a \in AckPartials : a < left_of_init_packet} :
             /\ left_of_init_packet' = left_of_init_packet - k
             /\ \/ SendOk(<<AckBytes(k)>>) /\ rpc' = "recv"
                   /\ UNCHANGED listening
                \/ SendLost /\ rpc' = "recv" /\ UNCHANGED listening
                \/ cclosed /\ Teardown /\ UNCHANGED s2c
        /\ UNCHANGED inbulk
     \/ /\ left_of_init_packet = 0
        /\ inbulk = <<>>
        /\ Teardown
        /\ UNCHANGED <<left_of_init_packet, inbulk, s2c>>
     \/ /\ left_of_init_packet = 0
        /\ inbulk # <<>>
        /\ inbulk' = Tail(inbulk)
        /\ LET c == Head(inbulk)  next == AfterSend(c) IN
           \/ SendOk(UsbToIp(c)) /\ rpc' = next /\ UNCHANGED listening
           \/ SendLost /\ rpc' = next /\ UNCHANGED listening
           \/ cclosed /\ Teardown /\ UNCHANGED s2c
        /\ UNCHANGED left_of_init_packet
  /\ IF rpc' = "recv" THEN SpawnEventThread
     ELSE UNCHANGED <<have_setup_events_socket, epc>>
  /\ UNCHANGED <<first_write, ds_buf, pending, c2s, ev_c2s, ev_s2c,
                 ev_conn, client>>

\* tcp_send_all after a data container: the response read and sent.
RelaySendResponse ==
  /\ rpc = "send_resp"
  /\ \/ /\ inbulk = <<>>
        /\ Teardown
        /\ UNCHANGED <<inbulk, s2c>>
     \/ /\ inbulk # <<>>
        /\ inbulk' = Tail(inbulk)
        /\ \/ SendOk(UsbToIp(Head(inbulk))) /\ rpc' = "recv"
              /\ UNCHANGED listening
           \/ SendLost /\ rpc' = "recv" /\ UNCHANGED listening
           \/ cclosed /\ Teardown /\ UNCHANGED s2c
  /\ IF rpc' = "recv" THEN SpawnEventThread
     ELSE UNCHANGED <<have_setup_events_socket, epc>>
  /\ UNCHANGED <<first_write, left_of_init_packet, ds_buf, pending,
                 c2s, ev_c2s, ev_s2c, ev_conn, client>>

-----------------------------------------------------------------------------
(***************************************************************************)
(* Event thread (bind_event_socket_thread, ack_event_socket).              *)
(***************************************************************************)

\* accept on the shared server socket; once main has closed it, accept
\* fails, the recv on -1 fails and the thread returns.
EvAccept ==
  /\ epc = "accept"
  /\ \/ /\ listening = "closed"
        /\ epc' = "exited"
        /\ UNCHANGED ev_conn
     \/ /\ listening = "open"
        /\ ev_conn = "pending"
        /\ ev_conn' = "accepted"
        /\ epc' = "recv"
  /\ UNCHANGED <<relay, device, c2s, s2c, ev_c2s, ev_s2c, client>>

\* ack_event_socket: a single recv must return the 12-byte init event
\* request, a single send the 8-byte ack; on failure the thread returns
\* without closing the event socket.  Then it sleeps forever.
EvRecvInit ==
  /\ epc = "recv"
  /\ \/ /\ ev_c2s # <<>>
        /\ ev_c2s' = Tail(ev_c2s)
        /\ \/ /\ ~cclosed
              /\ ev_s2c' = Append(ev_s2c, InitEventAck)
              /\ epc' = "idle"
           \/ /\ cclosed                  \* the ack vanishes, or send fails
              /\ epc' \in {"idle", "exited"}
              /\ UNCHANGED ev_s2c
     \/ /\ ev_c2s # <<>>
        /\ Fragmenting
        /\ epc' = "exited"
        /\ UNCHANGED <<ev_c2s, ev_s2c>>
     \/ /\ ev_c2s = <<>>
        /\ cclosed
        /\ epc' = "exited"
        /\ UNCHANGED <<ev_c2s, ev_s2c>>
  /\ UNCHANGED <<relay, device, c2s, s2c, ev_conn, client>>

-----------------------------------------------------------------------------
(***************************************************************************)
(* The PTP/IP initiator.                                                   *)
(***************************************************************************)

ClientInit ==
  /\ cpc = "init"
  /\ c2s' = Append(c2s, InitCmdReq)
  /\ cpc' = "await_ack"
  /\ UNCHANGED <<relay, epc, device, s2c, ev_c2s, ev_s2c, ev_conn,
                 ctx, cop, got, ack_got, cclosed>>

\* The init acknowledgement is read until all of its bytes are in.
ClientRecvAck ==
  /\ cpc = "await_ack"
  /\ s2c # <<>>
  /\ s2c' = Tail(s2c)
  /\ ack_got' = ack_got + Head(s2c).n
  /\ cpc' = IF ack_got' = InitAckSize THEN "ev_connect" ELSE "await_ack"
  /\ UNCHANGED <<relay, epc, device, c2s, ev_c2s, ev_s2c, ev_conn,
                 ctx, cop, got, cclosed>>

\* Connect the event channel and send its init request; refused once the
\* server socket is closed.
ClientEventConnect ==
  /\ cpc = "ev_connect"
  /\ \/ /\ listening = "open"
        /\ ev_conn' = "pending"
        /\ ev_c2s' = Append(ev_c2s, InitEventReq)
        /\ cpc' = "await_ev_ack"
        /\ UNCHANGED cclosed
     \/ /\ listening = "closed"
        /\ cpc' = "closed"
        /\ cclosed' = TRUE
        /\ UNCHANGED <<ev_conn, ev_c2s>>
  /\ UNCHANGED <<relay, epc, device, c2s, s2c, ev_s2c, ctx, cop, got, ack_got>>

ClientRecvEventAck ==
  /\ cpc = "await_ev_ack"
  /\ ev_s2c # <<>>
  /\ ev_s2c' = Tail(ev_s2c)
  /\ cpc' = "ready"
  /\ UNCHANGED <<relay, epc, device, c2s, s2c, ev_c2s, ev_conn,
                 ctx, cop, got, ack_got, cclosed>>

\* One operation: the request, and for an operation with data from the
\* initiator the start and end data packets right behind it.
ClientSend(op) ==
  LET tx == ctx + 1 IN
  /\ cpc = "ready"
  /\ ctx < MaxTx
  /\ c2s' = c2s \o <<CmdRequest(tx, op)>> \o
            (IF op \in DataOutOps
               THEN DataToIp(UsbPacket("Data", op, tx, InitiatorPayload))
               ELSE <<>>)
  /\ ctx' = tx
  /\ cop' = op
  /\ got' = <<>>
  /\ cpc' = "await_resp"
  /\ UNCHANGED <<relay, epc, device, s2c, ev_c2s, ev_s2c, ev_conn,
                 ack_got, cclosed>>

\* Packets of the operation are read until its response.
ClientRecv ==
  /\ cpc = "await_resp"
  /\ s2c # <<>>
  /\ s2c' = Tail(s2c)
  /\ got' = Append(got, Head(s2c))
  /\ cpc' = IF Head(s2c).type = "CmdResponse" THEN "ready" ELSE "await_resp"
  /\ UNCHANGED <<relay, epc, device, c2s, ev_c2s, ev_s2c, ev_conn,
                 ctx, cop, ack_got, cclosed>>

\* The application closes its connections, at any time.
ClientClose ==
  /\ ~cclosed
  /\ cclosed' = TRUE
  /\ cpc' = "closed"
  /\ UNCHANGED <<relay, epc, device, net, ctx, cop, got, ack_got>>

\* The command connection reaches end of stream after the server closed it.
ClientSeesEOF ==
  /\ ~cclosed
  /\ cpc \in {"await_ack", "await_resp", "ready"}
  /\ rpc = "closed"
  /\ s2c = <<>>
  /\ cclosed' = TRUE
  /\ cpc' = "closed"
  /\ UNCHANGED <<relay, epc, device, net, ctx, cop, got, ack_got>>

\* Both ends have let go of the command connection: nothing more happens.
Terminated ==
  /\ cclosed
  /\ rpc = "closed"
  /\ epc \in {"none", "idle", "exited"}
  /\ UNCHANGED vars

-----------------------------------------------------------------------------

\* Mutant: the acknowledgement's length is not the size of its bytes.
RelayInitAckOversized ==
  /\ rpc = "recv"
  /\ first_write = TRUE
  /\ left_of_init_packet = InitAckSize + 2
  /\ have_setup_events_socket = FALSE
  /\ ds_buf = None
  /\ listening = "open"
  /\ epc = "none"

\* ptpip_generic_main up to its loop: Priv set up, the client accepted.
RelayInit ==
  /\ rpc = "recv"
  /\ first_write = TRUE
  /\ left_of_init_packet = InitAckSize
  /\ have_setup_events_socket = FALSE
  /\ ds_buf = None
  /\ listening = "open"
  /\ epc = "none"

Init ==
  /\ RelayInit
  /\ ev_conn = "none"
  /\ DeviceInit
  /\ c2s = <<>> /\ s2c = <<>> /\ ev_c2s = <<>> /\ ev_s2c = <<>>
  /\ cpc = "init"
  /\ ctx = 0
  /\ cop = None
  /\ got = <<>>
  /\ ack_got = 0
  /\ cclosed = FALSE

Next ==
  \/ RelayRecv \/ RelayRecvDataStart \/ RelayRecvDataEnd
  \/ RelaySend \/ RelaySendResponse
  \/ EvAccept \/ EvRecvInit
  \/ ClientInit \/ ClientRecvAck \/ ClientEventConnect \/ ClientRecvEventAck
  \/ \E op \in Ops : ClientSend(op)
  \/ ClientRecv \/ ClientClose \/ ClientSeesEOF
  \/ Terminated

\* Every thread that is not waiting for its peer gets to run; the client
\* is not obliged to issue another operation or to close.
Fairness ==
  /\ WF_vars(RelayRecv) /\ WF_vars(RelayRecvDataStart)
  /\ WF_vars(RelayRecvDataEnd) /\ WF_vars(RelaySend)
  /\ WF_vars(RelaySendResponse)
  /\ WF_vars(EvAccept) /\ WF_vars(EvRecvInit)
  /\ WF_vars(ClientInit) /\ WF_vars(ClientRecvAck)
  /\ WF_vars(ClientEventConnect) /\ WF_vars(ClientRecvEventAck)
  /\ WF_vars(ClientRecv) /\ WF_vars(ClientSeesEOF)

Spec == Init /\ [][Next]_vars /\ Fairness

-----------------------------------------------------------------------------
(***************************************************************************)
(* Properties.                                                             *)
(***************************************************************************)

Phases == {"init", "await_ack", "ev_connect", "await_ev_ack", "ready",
           "await_resp", "closed"}

TypeOK ==
  /\ rpc \in {"recv", "recv_ds", "recv_de", "send", "send_resp", "closed"}
  /\ first_write \in BOOLEAN
  /\ left_of_init_packet \in 0 .. InitAckSize
  /\ have_setup_events_socket \in BOOLEAN
  /\ listening \in {"open", "closed"}
  /\ epc \in {"none", "accept", "recv", "idle", "exited"}
  /\ ev_conn \in {"none", "pending", "accepted"}
  /\ cpc \in Phases
  /\ ctx \in 0 .. MaxTx
  /\ ack_got \in 0 .. InitAckSize
  /\ cclosed \in BOOLEAN

\* The packets of an operation as the client must see them: data start,
\* data end and response for an operation with data from the device, the
\* response alone otherwise; all with the operation's transaction.
ExpectedTypes(op) ==
  IF op \in DataInOps THEN <<"DataStart", "DataEnd", "CmdResponse">>
  ELSE <<"CmdResponse">>

\* The client's view of the session, mapped to the abstract transaction:
\* its phase, its transaction and operation, and the kind and transaction
\* of every packet it has received for the operation.
TxnPhase ==
  CASE cpc \in {"init", "await_ack", "ev_connect", "await_ev_ack"} -> "connecting"
    [] cpc = "ready"      -> "idle"
    [] cpc = "await_resp" -> "busy"
    [] cpc = "closed"     -> "closed"

Txn == INSTANCE PtpTransaction
         WITH phase <- TxnPhase, tx <- ctx, op <- cop, NoOp <- None,
              Answer <- ExpectedTypes,
              answered <- [i \in 1 .. Len(got) |->
                             [type |-> got[i].type,
                              transaction |-> got[i].transaction]]

\* The relay implements a PTP transaction channel (PtpTransaction): across
\* every interleaving of the main thread, the event thread and the client,
\* with short reads, partial acks and data-out operations, the client gets
\* each operation's packets in order with its transaction id, and an
\* outstanding operation is always answered or the connection lost.
TransactionRefined == Txn!Spec

\* The PTP/IP session set-up (init acknowledgement, then event channel
\* acknowledgement) eventually completes, unless the connection goes away.
SessionEstablished ==
  cpc \in {"await_ack", "ev_connect", "await_ev_ack"}
    ~> cpc \in {"ready", "closed"}

\* The relay tears the command connection down only after the client has
\* closed it: no framing failure ends a session of a well-behaved client.
NoSpuriousTeardown == rpc = "closed" => cclosed

=============================================================================
