----------------------------- MODULE UsbGadgetIo -----------------------------
(***************************************************************************)
(* The USB gadget transport of src/src/otg.c.  The ep0 thread (handle_ep0, *)
(* handle_setup_request) serves the host's control requests; on           *)
(* SET_CONFIGURATION it raises thread_args.stop, sleeps 200 ms, opens the  *)
(* bulk endpoints unless fd_in is already set, clears stop and starts an   *)
(* io_thread.  Each io_thread loops: read one bulk-OUT transfer, hand it  *)
(* to vcam_write, then write the whole of the device's inbulk to bulk-IN  *)
(* and set nrinbulk to 0; ret, the result of that write, is tested at the *)
(* top of the next iteration.  All io threads share thread_args: the stop *)
(* flag and the endpoint descriptors.                                      *)
(*                                                                         *)
(* The host is the environment: it configures the device, then issues one  *)
(* PTP operation at a time as bulk containers and reads bulk-IN until the  *)
(* response; while idle it may send another SET_CONFIGURATION.             *)
(***************************************************************************)
EXTENDS Naturals, Sequences, FiniteSets, PtpDevice

CONSTANTS
  Threads,         \* identities for the io threads pthread_create starts
  MaxTx,           \* bound: operations the host issues
  MaxConfigs,      \* bound: SET_CONFIGURATION requests the host sends
  ReconfigValues,  \* values a later SET_CONFIGURATION may carry
  EndpointFaults   \* whether opening or configuring an endpoint may fail

CONFIG_VALUE == 2

ASSUME ReconfigValues \subseteq {CONFIG_VALUE, 0} /\ EndpointFaults \in BOOLEAN

VARIABLES
  stop,      \* thread_args.stop
  fds,       \* thread_args.fd_in/fd_out: "unset" (0), "open", "closed" (-1),
             \* or "half": fd_in open, a later endpoint not configured
  tpc,       \* io thread -> where it is
  ret,       \* io thread -> sign of its local ret
  buf,       \* io thread -> the transfer in its local buffer, or None
  ep0,       \* ep0 thread: "idle", or "sleep" inside SET_CONFIGURATION
  setup,     \* the SET_CONFIGURATION value ep0 has to serve: {} or {v}
  ctrl,      \* any other control request ep0 has to serve: {} or {r}
  nconf,     \* SET_CONFIGURATION requests sent so far
  bulkout,   \* host -> device transfers on ep2out
  bulkin,    \* device -> host containers on ep1in
  hpc,       \* host: "unconfigured", "configuring", "ready", "await"
  htx, hop,  \* host: outstanding transaction and opcode
  hgot       \* host: containers received for it

gadget == <<stop, fds, tpc, ret, buf, ep0>>
host   == <<setup, ctrl, nconf, bulkout, bulkin, hpc, htx, hop, hgot>>
vars   == <<gadget, inbulk, pending, host>>

Live == {"start", "loop", "blocked", "vcam", "write", "reset", "exit"}

-----------------------------------------------------------------------------
(***************************************************************************)
(* io_thread.                                                              *)
(***************************************************************************)

\* The two selects before the loop: the write select returns 1 on an open
\* endpoint and fails on a closed one.
IoStart(t) ==
  /\ tpc[t] = "start"
  /\ tpc' = [tpc EXCEPT ![t] = "loop"]
  /\ ret' = [ret EXCEPT ![t] = IF fds = "open" THEN "pos" ELSE "neg"]
  /\ UNCHANGED <<stop, fds, ep0, buf, inbulk, pending, host>>

\* while (!stop) with ret == 0: `continue` re-tests stop and nothing else.
IoSpin(t) ==
  /\ tpc[t] = "loop"
  /\ ~stop
  /\ ret[t] = "zero"
  /\ UNCHANGED vars

\* The loop head: leave on stop or on an error, otherwise read.  A read on
\* a closed or unconfigured endpoint fails at once; vcam_write of the negative count fails
\* and the loop breaks.
IoLoop(t) ==
  /\ tpc[t] = "loop"
  /\ stop \/ ret[t] # "zero"
  /\ tpc' = [tpc EXCEPT ![t] =
               IF ~stop /\ ret[t] = "pos" /\ fds = "open" THEN "blocked"
               ELSE "exit"]
  /\ UNCHANGED <<stop, fds, ret, buf, ep0, inbulk, pending, host>>

\* read() returns one bulk-OUT transfer into the thread's buffer.
IoRead(t) ==
  /\ tpc[t] = "blocked"
  /\ bulkout # <<>>
  /\ buf' = [buf EXCEPT ![t] = Head(bulkout)]
  /\ bulkout' = Tail(bulkout)
  /\ tpc' = [tpc EXCEPT ![t] = "vcam"]
  /\ UNCHANGED <<stop, fds, ret, ep0, inbulk, pending, setup, ctrl, nconf,
                 bulkin, hpc, htx, hop, hgot>>

\* vcam_write hands the buffer to the device, which queues its answer in
\* the shared inbulk.  Nothing orders it against another thread's steps.
IoVcamWrite(t) ==
  /\ tpc[t] = "vcam"
  /\ DeviceWrite(buf[t])
  /\ buf' = [buf EXCEPT ![t] = None]
  /\ tpc' = [tpc EXCEPT ![t] = "write"]
  /\ UNCHANGED <<stop, fds, ret, ep0, host>>

\* poll, then write(fd_in, inbulk, nrinbulk): what inbulk holds now goes
\* to the host, an empty queue is a write of 0 bytes, a closed endpoint
\* fails.
IoWrite(t) ==
  /\ tpc[t] = "write"
  /\ bulkin' = IF fds = "open" THEN bulkin \o inbulk ELSE bulkin
  /\ ret' = [ret EXCEPT ![t] = CASE fds # "open"  -> "neg"
                                 [] inbulk = <<>> -> "zero"
                                 [] OTHER         -> "pos"]
  /\ tpc' = [tpc EXCEPT ![t] = "reset"]
  /\ UNCHANGED <<stop, fds, buf, ep0, inbulk, pending, setup, ctrl, nconf,
                 bulkout, hpc, htx, hop, hgot>>

\* nrinbulk = 0, a separate store: whatever inbulk holds by now is dropped,
\* written or not.
IoReset(t) ==
  /\ tpc[t] = "reset"
  /\ inbulk' = <<>>
  /\ tpc' = [tpc EXCEPT ![t] = "loop"]
  /\ UNCHANGED <<stop, fds, ret, buf, ep0, pending, host>>

\* After the loop: close both endpoints and set the shared fds to -1.
IoExit(t) ==
  /\ tpc[t] = "exit"
  /\ fds' = "closed"
  /\ tpc' = [tpc EXCEPT ![t] = "done"]
  /\ UNCHANGED <<stop, ret, buf, ep0, inbulk, pending, host>>

-----------------------------------------------------------------------------
(***************************************************************************)
(* ep0: USB_REQ_SET_CONFIGURATION in handle_setup_request.                 *)
(***************************************************************************)

\* case CONFIG_VALUE, first half: raise stop and sleep "for termination".
SetConfigBegin ==
  /\ ep0 = "idle"
  /\ setup = {CONFIG_VALUE}
  /\ stop' = TRUE
  /\ ep0' = "sleep"
  /\ UNCHANGED <<fds, tpc, ret, buf, inbulk, pending, host>>

\* init_ep: open and configure ep1in, ep2out and ep3in, in that order.  A
\* failed open of ep1in leaves fd_in at -1; any later failure leaves fd_in
\* open and set.  Either failure returns -1.
InitEp ==
  fds' \in {"open"} \cup (IF EndpointFaults THEN {"closed", "half"} ELSE {})

\* fd_in > 0: the endpoints are taken to be configured already.
FdInSet == fds \in {"open", "half"}

\* The request is acknowledged whatever its outcome.
AckConfig ==
  /\ ep0' = "idle"
  /\ setup' = {}
  /\ hpc' = "ready"

\* Mutant: stop is left raised when the new thread starts.
SetConfigEndKeepsStop ==
  /\ ep0 = "sleep"
  /\ \/ FdInSet /\ UNCHANGED fds
     \/ ~FdInSet /\ InitEp
  /\ IF FdInSet \/ fds' = "open"
       THEN \E t \in Threads :
              /\ tpc[t] = "none"
              /\ tpc' = [tpc EXCEPT ![t] = "start"]
       ELSE UNCHANGED tpc
  /\ AckConfig
  /\ UNCHANGED <<stop, ret, buf, inbulk, pending, ctrl, nconf, bulkout, bulkin, htx, hop,
                 hgot>>

\* Second half: status is 0 when fd_in is already set, else init_ep's
\* result; on status 0 stop is cleared and an io thread started.  The
\* request is acknowledged either way.
SetConfigEnd ==
  /\ ep0 = "sleep"
  /\ \/ FdInSet /\ UNCHANGED fds
     \/ ~FdInSet /\ InitEp
  /\ IF FdInSet \/ fds' = "open"
       THEN /\ stop' = FALSE
            /\ \E t \in Threads :
                 /\ tpc[t] = "none"
                 /\ tpc' = [tpc EXCEPT ![t] = "start"]
       ELSE UNCHANGED <<stop, tpc>>
  /\ AckConfig
  /\ UNCHANGED <<ret, buf, inbulk, pending, ctrl, nconf, bulkout, bulkin, htx, hop, hgot>>

\* The control requests handle_setup_request serves besides
\* SET_CONFIGURATION.
ControlRequests == {"GET_DESCRIPTOR", "GET_INTERFACE", "SET_INTERFACE",
                    "MTP_REQ_CANCEL", "MTP_REQ_GET_DEVICE_STATUS"}

\* USB_REQ_GET_DESCRIPTOR: a string descriptor is written back; a string
\* that is not found, or any other descriptor, falls to the stall.  Either
\* way only ep0 is written.
SetupGetDescriptor ==
  /\ ep0 = "idle"
  /\ ctrl = {"GET_DESCRIPTOR"}
  /\ ctrl' = {}
  /\ UNCHANGED <<gadget, inbulk, pending, setup, nconf, bulkout, bulkin, hpc,
                 htx, hop, hgot>>

\* GET_INTERFACE answers 0; SET_INTERFACE clears the halt of the three
\* shared endpoint descriptors, open or not, and acknowledges;
\* MTP_REQ_CANCEL is only logged; anything else, the device status
\* request included, is stalled.  None of them touches the io thread, its
\* endpoints' state, or the device's transaction.
SetupOther ==
  /\ ep0 = "idle"
  /\ \E r \in ctrl : r # "GET_DESCRIPTOR"
  /\ ctrl' = {}
  /\ UNCHANGED <<gadget, inbulk, pending, setup, nconf, bulkout, bulkin, hpc,
                 htx, hop, hgot>>

\* case 0: raise stop and acknowledge.
SetConfigZero ==
  /\ ep0 = "idle"
  /\ setup = {0}
  /\ stop' = TRUE
  /\ setup' = {}
  /\ hpc' = "unconfigured"
  /\ UNCHANGED <<fds, tpc, ret, buf, ep0, inbulk, pending, ctrl, nconf, bulkout, bulkin,
                 htx, hop, hgot>>

-----------------------------------------------------------------------------
(***************************************************************************)
(* The USB host.                                                           *)
(***************************************************************************)

\* Enumeration configures the device; once configured and idle the host
\* may send another SET_CONFIGURATION.
HostSetConfig(v) ==
  /\ nconf < MaxConfigs
  /\ ctrl = {}
  /\ \/ hpc = "unconfigured" /\ v = CONFIG_VALUE
     \/ hpc = "ready" /\ v \in ReconfigValues
  /\ setup' = {v}
  /\ nconf' = nconf + 1
  /\ hpc' = "configuring"
  /\ UNCHANGED <<gadget, inbulk, pending, ctrl, bulkout, bulkin, htx, hop,
                 hgot>>

\* A configured host may send any other control request on ep0 while an
\* operation runs or between operations, one control transfer at a time.
HostControl(r) ==
  /\ hpc \in {"ready", "await"}
  /\ setup = {} /\ ctrl = {}
  /\ ctrl' = {r}
  /\ UNCHANGED <<gadget, inbulk, pending, setup, nconf, bulkout, bulkin, hpc,
                 htx, hop, hgot>>

\* One operation: the command container, and for a data-out operation the
\* data container behind it.
HostSend(op) ==
  LET tx == htx + 1 IN
  /\ hpc = "ready"
  /\ htx < MaxTx
  /\ bulkout' = bulkout \o <<UsbPacket("Command", op, tx, <<>>)>> \o
                (IF op \in DataOutOps
                   THEN <<UsbPacket("Data", op, tx, InitiatorPayload)>>
                   ELSE <<>>)
  /\ htx' = tx
  /\ hop' = op
  /\ hgot' = <<>>
  /\ hpc' = "await"
  /\ UNCHANGED <<gadget, inbulk, pending, ctrl, setup, nconf, bulkin>>

\* Bulk-IN is read until the response of the operation.
HostRecv ==
  /\ hpc = "await"
  /\ bulkin # <<>>
  /\ bulkin' = Tail(bulkin)
  /\ hgot' = Append(hgot, Head(bulkin))
  /\ hpc' = IF Head(bulkin).type = "Response" THEN "ready" ELSE "await"
  /\ UNCHANGED <<gadget, inbulk, pending, ctrl, setup, nconf, bulkout, htx, hop>>

\* The host has nothing more to do and the gadget waits for it for ever.
HostDone ==
  /\ nconf = MaxConfigs
  /\ \/ hpc = "unconfigured"
     \/ hpc = "ready" /\ htx = MaxTx
  /\ UNCHANGED vars

-----------------------------------------------------------------------------

\* The static thread_args is zero: stop 0, fd_in 0; no io thread yet.
Init ==
  /\ stop = FALSE
  /\ fds = "unset"
  /\ tpc = [t \in Threads |-> "none"]
  /\ ret = [t \in Threads |-> "pos"]
  /\ buf = [t \in Threads |-> None]
  /\ ep0 = "idle"
  /\ DeviceInit
  /\ setup = {}
  /\ ctrl = {}
  /\ nconf = 0
  /\ bulkout = <<>>
  /\ bulkin = <<>>
  /\ hpc = "unconfigured"
  /\ htx = 0
  /\ hop = None
  /\ hgot = <<>>

Next ==
  \/ \E t \in Threads :
       IoStart(t) \/ IoSpin(t) \/ IoLoop(t) \/ IoRead(t) \/ IoVcamWrite(t)
       \/ IoWrite(t) \/ IoReset(t) \/ IoExit(t)
  \/ SetConfigBegin \/ SetConfigEnd \/ SetConfigZero
  \/ SetupGetDescriptor \/ SetupOther
  \/ \E v \in {CONFIG_VALUE, 0} : HostSetConfig(v)
  \/ \E r \in ControlRequests : HostControl(r)
  \/ \E op \in Ops : HostSend(op)
  \/ HostRecv
  \/ HostDone

\* Every thread blocked in a system call returns once its input is there,
\* and the ep0 thread's sleep ends; the host reads what it is sent but is
\* never obliged to issue a request.
Fairness ==
  /\ \A t \in Threads :
       /\ WF_vars(IoStart(t)) /\ WF_vars(IoLoop(t)) /\ WF_vars(IoRead(t))
       /\ WF_vars(IoVcamWrite(t)) /\ WF_vars(IoWrite(t))
       /\ WF_vars(IoReset(t)) /\ WF_vars(IoExit(t))
  /\ WF_vars(SetConfigBegin) /\ WF_vars(SetConfigEnd) /\ WF_vars(SetConfigZero)
  /\ WF_vars(SetupGetDescriptor) /\ WF_vars(SetupOther)
  /\ WF_vars(HostRecv)

Spec == Init /\ [][Next]_vars /\ Fairness

-----------------------------------------------------------------------------
(***************************************************************************)
(* Properties.                                                             *)
(***************************************************************************)

\* The containers that answer an operation over USB.
ExpectedUsb(op) ==
  IF op \in DataInOps THEN <<"Data", "Response">> ELSE <<"Response">>

\* Everything the host has read for its current operation, or has still to
\* read, is that operation's answer in order and carries its transaction:
\* the io threads, which share inbulk and nrinbulk without a lock and
\* write the queue before they reset it, never send an answer twice, late
\* or to the wrong operation, whatever the interleaving with
\* SET_CONFIGURATION.
ResponsesInOrder ==
  htx > 0 /\ hpc \in {"await", "ready"} =>
    LET seen == hgot \o bulkin IN
    /\ Len(seen) <= Len(ExpectedUsb(hop))
    /\ \A i \in 1 .. Len(seen) :
         /\ seen[i].type = ExpectedUsb(hop)[i]
         /\ seen[i].transaction = htx

\* Every operation the host issues on a configured gadget is eventually
\* answered: some io thread reads its containers and writes the answer.
EveryCommandAnswered == hpc = "await" ~> hpc = "ready"

\* Within the configuration set at enumeration, every operation without a
\* data phase from the host is answered: the io thread started by
\* SET_CONFIGURATION reads each command and writes each answer.
AnsweredInFirstConfiguration ==
  hpc = "await" /\ hop \notin DataOutOps /\ nconf = 1 ~> hpc = "ready"


\* SET_CONFIGURATION skips init_ep when fd_in > 0, taking the endpoints to
\* be configured already: ep0 only ever starts an io thread on a fully
\* opened and configured endpoint set, whatever an earlier init_ep did.
IoThreadOnConfiguredEndpoints ==
  [][\A t \in Threads : tpc[t] = "none" /\ tpc'[t] = "start" => fds' = "open"]_vars

=============================================================================
