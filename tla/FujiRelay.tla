------------------------------ MODULE FujiRelay ------------------------------
(***************************************************************************)
(* The Fujifilm transport of src/src/fujiip.c.  The client speaks raw USB  *)
(* bulk containers over TCP, so nothing is bridged: fuji_wifi_main accepts *)
(* one command connection and loops tcp_recieve_all (one container from    *)
(* the client, plus the data phase that follows a command the device has  *)
(* not answered) then tcp_send_all (one container from the device, plus   *)
(* the response behind a data container).  The first container written   *)
(* is the client's init packet, swallowed; the first bytes read are the   *)
(* canned init acknowledgement.  Once the device sets                     *)
(* fuji_open_remote_port, the loop starts a thread that creates the event *)
(* and video listening sockets and accepts one connection on each.        *)
(*                                                                         *)
(* Streams are sequences of whole containers; a short recv (possible      *)
(* whenever Fragmenting) is one outcome of a read.  pthread_create and    *)
(* the bind of a secondary port may fail when ResourceFaults.             *)
(***************************************************************************)
EXTENDS Naturals, Sequences, PtpDevice

CONSTANTS
  MaxTx,        \* bound: operations the client issues
  RemoteOps,    \* operations after which the device asks for remote ports
  Fragmenting,  \* whether a recv may return a short count
  ResourceFaults  \* whether pthread_create or a secondary bind may fail

ASSUME Fragmenting \in BOOLEAN /\ ResourceFaults \in BOOLEAN

Channels == {"event", "video"}

VARIABLES
  fpc,                    \* main thread: where in its loop it is
  first_write,            \* static of ptpip_cmd_write
  ack_left,               \* left_of_init_packet > 0
  fuji_open_remote_port,  \* set to 1 by the device, 2 once handled
  apc,                    \* the remote-ports thread
  sock,                   \* its listening sockets, per channel
  c2s, s2c,               \* command connection, each direction
  cpc,                    \* client
  ctx, cop,               \* client: outstanding transaction and opcode
  got,                    \* client: containers received for it
  announced,              \* client: the device has offered remote ports
  conn,                   \* client: its secondary connections
  cclosed                 \* client has closed its command connection

main   == <<fpc, first_write, ack_left, fuji_open_remote_port>>
device == <<inbulk, pending>>
remote == <<apc, sock>>
client == <<cpc, ctx, cop, got, announced, conn, cclosed>>
vars   == <<main, device, remote, c2s, s2c, client>>

\* The init packet: its type and code fields (type 1 as a u32) make code 0.
InitPacket == [type |-> "Init", code |-> 0]
AckPacket  == [type |-> "Ack"]

-----------------------------------------------------------------------------
(***************************************************************************)
(* Main thread.                                                            *)
(***************************************************************************)

\* ptpip_cmd_write: the first write is swallowed; every later one goes to
\* the device, which sets fuji_open_remote_port on a RemoteOps command.
CmdWrite(u) ==
  IF first_write
    THEN /\ first_write' = FALSE
         /\ UNCHANGED <<device, fuji_open_remote_port>>
    ELSE /\ DeviceWrite(u)
         /\ fuji_open_remote_port' =
              IF u.type = "Command" /\ u.code \in RemoteOps
                 /\ fuji_open_remote_port = 0
                THEN 1 ELSE fuji_open_remote_port
         /\ UNCHANGED first_write

\* goto err: both sockets closed and fuji_wifi_main returns; the remote-ports
\* thread is detached and goes on.
Teardown == fpc' = "closed"

\* The recv of a container cannot deliver it: a short read of the body
\* (a short read of the length is retried once), or the peer closed
\* (recv returning 0 ten times).
FramerFails ==
  \/ c2s # <<>> /\ Fragmenting
  \/ c2s = <<>> /\ cclosed

\* Mutant: the data phase is expected whenever the command's code is set.
DataPhaseNoQueueCheck(u) == u.code # 0

\* Detect data phase from vcam: the device has queued nothing for a
\* container with a non-zero code.
DataPhaseDue(u) == inbulk' = <<>> /\ u.code # 0

\* tcp_recieve_all: one container, written to the device; if it leaves
\* the device silent, the data phase is read next.
FujiRecvAll ==
  /\ fpc = "recv"
  /\ \/ /\ FramerFails
        /\ Teardown
        /\ UNCHANGED <<first_write, fuji_open_remote_port, device, c2s>>
     \/ /\ c2s # <<>>
        /\ c2s' = Tail(c2s)
        /\ CmdWrite(Head(c2s))
        /\ fpc' = IF DataPhaseDue(Head(c2s)) THEN "recv_data" ELSE "send"
  /\ UNCHANGED <<ack_left, remote, s2c, client>>

\* The data phase: its length and its body, each in a single recv that
\* must return all of it, then written to the device.
FujiRecvData ==
  /\ fpc = "recv_data"
  /\ \/ /\ FramerFails
        /\ Teardown
        /\ UNCHANGED <<first_write, fuji_open_remote_port, device, c2s>>
     \/ /\ c2s # <<>>
        /\ c2s' = Tail(c2s)
        /\ CmdWrite(Head(c2s))
        /\ fpc' = "send"
  /\ UNCHANGED <<ack_left, remote, s2c, client>>

\* Mutant: the increment of fuji_open_remote_port outside its if.
SpawnRemotePortsCountAlways ==
  /\ fuji_open_remote_port' = fuji_open_remote_port + 1
  /\ IF fuji_open_remote_port = 1
       THEN apc' \in {"sock_event"} \cup (IF ResourceFaults THEN {"none"} ELSE {})
       ELSE UNCHANGED apc

\* After tcp_send_all the loop starts the remote-ports thread once; a
\* failed pthread_create is ignored.
SpawnRemotePorts ==
  IF fuji_open_remote_port = 1
    THEN /\ fuji_open_remote_port' = 2
         /\ apc' \in {"sock_event"} \cup (IF ResourceFaults THEN {"none"} ELSE {})
    ELSE UNCHANGED <<fuji_open_remote_port, apc>>

\* send(): checked only for size <= 0; to a closed peer it vanishes or
\* fails.
Send(c, next) ==
  \/ ~cclosed /\ s2c' = Append(s2c, c) /\ fpc' = next
  \/ cclosed /\ UNCHANGED s2c /\ fpc' \in {next, "closed"}

\* As per spec, a data container with a non-zero code is followed by its
\* response.
AfterSend(c) == IF c.type = "Data" /\ c.code # 0 THEN "send_resp" ELSE "recv"

\* tcp_send_all: the init acknowledgement while any of it is left, else a
\* container from the device (none queued: the read fails).
FujiSendAll ==
  /\ fpc = "send"
  /\ \/ /\ ack_left
        /\ ack_left' = FALSE
        /\ Send(AckPacket, "recv")
        /\ UNCHANGED inbulk
     \/ /\ ~ack_left
        /\ inbulk = <<>>
        /\ Teardown
        /\ UNCHANGED <<ack_left, inbulk, s2c>>
     \/ /\ ~ack_left
        /\ inbulk # <<>>
        /\ inbulk' = Tail(inbulk)
        /\ Send(Head(inbulk), AfterSend(Head(inbulk)))
        /\ UNCHANGED ack_left
  /\ IF fpc' = "recv" THEN SpawnRemotePorts
     ELSE UNCHANGED <<fuji_open_remote_port, apc>>
  /\ UNCHANGED <<first_write, pending, sock, c2s, client>>

\* tcp_send_all after a data container: the response read and sent.
FujiSendResponse ==
  /\ fpc = "send_resp"
  /\ \/ /\ inbulk = <<>>
        /\ Teardown
        /\ UNCHANGED <<inbulk, s2c>>
     \/ /\ inbulk # <<>>
        /\ inbulk' = Tail(inbulk)
        /\ Send(Head(inbulk), "recv")
  /\ IF fpc' = "recv" THEN SpawnRemotePorts
     ELSE UNCHANGED <<fuji_open_remote_port, apc>>
  /\ UNCHANGED <<first_write, ack_left, pending, sock, c2s, client>>

-----------------------------------------------------------------------------
(***************************************************************************)
(* The remote-ports thread (fuji_accept_remote_ports_thread).              *)
(***************************************************************************)

\* new_ptp_tcp_socket for the event port, then for the video port: a socket
\* that binds listens; one that does not is -1.
FujiNewSocket ==
  /\ apc \in {"sock_event", "sock_video"}
  /\ LET ch == IF apc = "sock_event" THEN "event" ELSE "video" IN
     \E s \in {"listening"} \cup (IF ResourceFaults THEN {"failed"} ELSE {}) :
       sock' = [sock EXCEPT ![ch] = s]
  /\ apc' = IF apc = "sock_event" THEN "sock_video" ELSE "accept_event"
  /\ UNCHANGED <<main, device, c2s, s2c, client>>

\* accept on the channel's socket: it waits for the client's connection;
\* on a socket that failed it returns -1 and the process aborts.
FujiAccept ==
  /\ apc \in {"accept_event", "accept_video"}
  /\ LET ch == IF apc = "accept_event" THEN "event" ELSE "video" IN
     \/ /\ sock[ch] = "failed"
        /\ apc' = "aborted"
        /\ fpc' = "closed"
        /\ UNCHANGED conn
     \/ /\ sock[ch] = "listening"
        /\ conn[ch] = "pending"
        /\ conn' = [conn EXCEPT ![ch] = "accepted"]
        /\ apc' = IF ch = "event" THEN "accept_video" ELSE "liveview"
        /\ UNCHANGED fpc
  /\ UNCHANGED <<first_write, ack_left, fuji_open_remote_port, sock, device,
                 c2s, s2c, cpc, ctx, cop, got, announced, cclosed>>

-----------------------------------------------------------------------------
(***************************************************************************)
(* The Fuji application.                                                   *)
(***************************************************************************)

ClientInit ==
  /\ cpc = "init"
  /\ c2s' = Append(c2s, InitPacket)
  /\ cpc' = "await_ack"
  /\ UNCHANGED <<main, device, remote, s2c, ctx, cop, got, announced, conn,
                 cclosed>>

ClientRecvAck ==
  /\ cpc = "await_ack"
  /\ s2c # <<>>
  /\ s2c' = Tail(s2c)
  /\ cpc' = "ready"
  /\ UNCHANGED <<main, device, remote, c2s, ctx, cop, got, announced, conn,
                 cclosed>>

\* One operation: the command, and for data from the initiator the data
\* container right behind it.
ClientSend(op) ==
  LET tx == ctx + 1 IN
  /\ cpc = "ready"
  /\ ctx < MaxTx
  /\ c2s' = c2s \o <<UsbPacket("Command", op, tx, <<>>)>> \o
            (IF op \in DataOutOps
               THEN <<UsbPacket("Data", op, tx, InitiatorPayload)>>
               ELSE <<>>)
  /\ ctx' = tx
  /\ cop' = op
  /\ got' = <<>>
  /\ cpc' = "await_resp"
  /\ UNCHANGED <<main, device, remote, s2c, announced, conn, cclosed>>

\* Containers of the operation are read until its response; the response
\* to a RemoteOps operation tells the client the remote ports are offered.
ClientRecv ==
  /\ cpc = "await_resp"
  /\ s2c # <<>>
  /\ s2c' = Tail(s2c)
  /\ got' = Append(got, Head(s2c))
  /\ cpc' = IF Head(s2c).type = "Response" THEN "ready" ELSE "await_resp"
  /\ announced' = \/ announced
                  \/ Head(s2c).type = "Response" /\ cop \in RemoteOps
  /\ UNCHANGED <<main, device, remote, c2s, ctx, cop, conn, cclosed>>

\* Once offered, the client connects the event port, then the video port;
\* a connection to a port nobody listens on is refused.
ClientConnect(ch) ==
  /\ announced
  /\ conn[ch] = "none"
  /\ ch = "video" => conn["event"] \in {"pending", "accepted"}
  /\ conn' = [conn EXCEPT ![ch] =
                 IF sock[ch] = "listening" THEN "pending" ELSE "refused"]
  /\ UNCHANGED <<main, device, remote, c2s, s2c, cpc, ctx, cop, got,
                 announced, cclosed>>

\* The application closes its command connection, at any time.
ClientClose ==
  /\ ~cclosed
  /\ cclosed' = TRUE
  /\ cpc' = "closed"
  /\ UNCHANGED <<main, device, remote, c2s, s2c, ctx, cop, got, announced,
                 conn>>

\* End of stream after the server has closed the command connection.
ClientSeesEOF ==
  /\ ~cclosed
  /\ fpc = "closed"
  /\ s2c = <<>>
  /\ cclosed' = TRUE
  /\ cpc' = "closed"
  /\ UNCHANGED <<main, device, remote, c2s, s2c, ctx, cop, got, announced,
                 conn>>

-----------------------------------------------------------------------------

\* fuji_wifi_main up to its loop: vcam opened, the client accepted.
FujiInit ==
  /\ fpc = "recv"
  /\ first_write = TRUE
  /\ ack_left = TRUE
  /\ fuji_open_remote_port = 0
  /\ apc = "none"
  /\ sock = [ch \in Channels |-> "none"]

Init ==
  /\ FujiInit
  /\ DeviceInit
  /\ c2s = <<>> /\ s2c = <<>>
  /\ cpc = "init"
  /\ ctx = 0
  /\ cop = None
  /\ got = <<>>
  /\ announced = FALSE
  /\ conn = [ch \in Channels |-> "none"]
  /\ cclosed = FALSE

Next ==
  \/ FujiRecvAll \/ FujiRecvData \/ FujiSendAll \/ FujiSendResponse
  \/ FujiNewSocket \/ FujiAccept
  \/ ClientInit \/ ClientRecvAck
  \/ \E op \in Ops : ClientSend(op)
  \/ ClientRecv \/ \E ch \in Channels : ClientConnect(ch)
  \/ ClientClose \/ ClientSeesEOF

\* Every thread that is not waiting on its peer gets to run; the client is
\* not obliged to issue another operation, to connect or to close.
Fairness ==
  /\ WF_vars(FujiRecvAll) /\ WF_vars(FujiRecvData)
  /\ WF_vars(FujiSendAll) /\ WF_vars(FujiSendResponse)
  /\ WF_vars(FujiNewSocket) /\ WF_vars(FujiAccept)
  /\ WF_vars(ClientInit) /\ WF_vars(ClientRecvAck) /\ WF_vars(ClientRecv)
  /\ WF_vars(ClientSeesEOF)

Spec == Init /\ [][Next]_vars /\ Fairness

-----------------------------------------------------------------------------
(***************************************************************************)
(* Properties.                                                             *)
(***************************************************************************)

TypeOK ==
  /\ fpc \in {"recv", "recv_data", "send", "send_resp", "closed"}
  /\ first_write \in BOOLEAN
  /\ ack_left \in BOOLEAN
  /\ fuji_open_remote_port \in 0 .. 2
  /\ apc \in {"none", "sock_event", "sock_video", "accept_event",
              "accept_video", "liveview", "aborted"}
  /\ sock \in [Channels -> {"none", "listening", "failed"}]
  /\ cpc \in {"init", "await_ack", "ready", "await_resp", "closed"}
  /\ ctx \in 0 .. MaxTx
  /\ announced \in BOOLEAN
  /\ conn \in [Channels -> {"none", "pending", "accepted", "refused"}]
  /\ cclosed \in BOOLEAN

\* The containers that answer an operation: data then response for data
\* from the device, the response alone otherwise.
ExpectedTypes(op) ==
  IF op \in DataInOps THEN <<"Data", "Response">> ELSE <<"Response">>

TxnPhase ==
  CASE cpc \in {"init", "await_ack"} -> "connecting"
    [] cpc = "ready"      -> "idle"
    [] cpc = "await_resp" -> "busy"
    [] cpc = "closed"     -> "closed"

Txn == INSTANCE PtpTransaction
         WITH phase <- TxnPhase, tx <- ctx, op <- cop, NoOp <- None,
              Answer <- ExpectedTypes,
              answered <- [i \in 1 .. Len(got) |->
                             [type |-> got[i].type,
                              transaction |-> got[i].transaction]]

\* The Fuji loop implements a PTP transaction channel (PtpTransaction):
\* with its one-container-per-turn alternation, the data phase guessed from
\* the device's silence (fujiip.c:117), short reads and the remote-ports
\* thread aborting the process, the client gets each operation's
\* containers in order with its transaction id, and an outstanding
\* operation is always answered or the connection lost.
TransactionRefined == Txn!Spec

\* Every connection the client makes to a remote port it was offered is
\* accepted: the listening sockets exist by the time the client learns of
\* them from the response to the operation that asked for them.
RemotePortsListening == \A ch \in Channels : conn[ch] # "refused"

=============================================================================
