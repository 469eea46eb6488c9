# TLA+ models of vusb

vusb emulates a PTP camera (a "vcam") to client software. The client reaches it in one of three ways:

- **USB gadget:** `src/src/otg.c`.
- **libusb shim:** `src/usb/libusb.c`.
- **PTP/IP over TCP:** the generic driver `src/src/ptpip.c` or the Fuji variant `src/src/fujiip.c`.

In the PTP/IP case, every packet the client sends goes through `src/src/usb2ip.c`. That file converts it to the USB bulk-container form that the emulated device accepts through `vcam_write`. The device queues its answer in `inbulk`, and the driver reads the answer with `vcam_read` and converts it back.

The device core is not part of this repository: the vcam library with `vcam_write`, the opcode dispatch, `ptp_response`, `CHECK_PARAM_COUNT` and OpenSession. The vendor handlers that sit on top of it are in `src/src/canon.c`, dispatched through the tables of `src/src/opcodes.h`.

## Inventory

| Part | Source | State | Operations | Module |
|---|---|---|---|---|
| Vendor state engine | canon.c | `eos_info`: first_events, lv_ready, queue[10], queue_length, calls_to_liveview | generic ops, SetDevicePropValueEx (command and data phase), RemoteRelease, GetViewFinderData, GetEvent | `EosVendor` |
| Packet bridge | usb2ip.c | none (pure) | IP command → USB, IP data start+end → USB, USB → IP | `PtpBridge` |
| Generic PTP/IP driver | ptpip.c | Priv (first_write, left_of_init_packet), have_setup_events_socket, the sockets, the event thread | tcp_receive_all, tcp_send_all, framer, event thread, teardown | `PtpIpRelay` |
| Fuji PTP/IP driver | fujiip.c | static first_write, left_of_init_packet, fuji_open_remote_port, the event and video listening sockets | tcp_recieve_all (with the data phase), tcp_send_all (with the response after data), the remote-ports spawn, the remote-ports thread | `FujiRelay` |
| USB gadget I/O | otg.c | thread_args (stop, fds), nrinbulk | io_thread loop, SET_CONFIGURATION (CONFIG_VALUE and 0, init_ep failures), the other ep0 control requests | `UsbGadgetIo` (partly) |
| Emulated device | vcam core (outside `src/`) | inbulk, the command awaiting its data | vcam_write, vcam_read | `PtpDevice` (from the spec) |
| libusb shim | usb/libusb.c | none | pass-through to vcam_read/vcam_write | not modelled |
| Opcode tables | opcodes.h | static data | dispatch by opcode | the Canon table is `EosVendor`'s `Next` |

How the parts interact:

- **Generic driver threads:** the generic driver's main thread alternates two steps:
  - receive one client packet and write it to the device;
  - read one device container and send it to the client.

  After the first exchange, the main thread starts an event thread. That thread accepts the client's event connection on the same listening socket and acknowledges it.
- **Fuji driver threads:** the client speaks raw bulk containers, so nothing is bridged. The main thread alternates one container from the client (plus the data phase, when the device has queued nothing after a command) and one container to the client (plus the response behind a data container). Once the device sets `fuji_open_remote_port`, the main thread starts a thread that binds and listens on the event and video ports and accepts one connection on each.
- **USB gadget threads:** the ep0 thread serves control requests. On SET_CONFIGURATION it raises `thread_args.stop`, sleeps 200 ms, opens the endpoints unless `fd_in` is already set, clears stop and starts an io_thread. Every io_thread shares `thread_args`. Each one reads a bulk-OUT transfer, passes it to `vcam_write`, and writes the whole of the device's `inbulk` to bulk-IN.
- **Ownership:** the vendor state is touched only by the device, which is called synchronously from the main thread.
- **Hard behaviours:**
  - TCP short reads and partial sends;
  - the two-thread start-up of the session;
  - a data phase from the client;
  - the device's answer to a data phase being a data container followed by its response;
  - vendor state that outlives a session.

## Modules

### `EosVendor`

**State.** `first_events`, `lv_ready`, `queue` and `calls_to_liveview` are the fields of `eos_info`. The history variables are:

- `accepted`: changes enqueued.
- `delivered`: changes reported by GetEvent.
- `nsets`: data phases handled.

**Abstractions:**

- A property value is the serial number of the data phase that carried it, so that order is observable.
- A reply is a response code plus the kind of data phase: none, the snapshot blob, the JPEG, or a sequence of event records.

**Actions.** One action per handler:

- `EosGeneric(op, nparams)`
- `EosSetProperty`
- `EosSetPropertyPayload(code)`
- `EosRemoteRelease`
- `EosViewfinderData`
- `EosEvents(nparams)`

The param-count check is `ParamCountError`. `OpenSession` and `CloseSession` come from the vcam core and are modelled from the spec: they do not touch `eos_info`, which is exactly what the code does.

**Dispatch.** `opcodes.h` routes GetEvent to `vusb_ptp_eos_events`, which is defined outside `src/`. canon.c's static `ptp_eos_events` is called by nothing under `src/`. The model takes canon.c's handler, which is the behaviour spec §4.4 describes. This is listed as a hazard.

### `PtpBridge`

This module has no variables. Each conversion of usb2ip.c is an operator over record-valued packets, and lengths are computed as the code computes them:

- `IpParamCount` and `UsbParamCount` are `(length - header) / 4` in uint32 arithmetic (`U32SubDiv4`).
- `CommandToIp` leaves `data_phase` uninitialised.
- `ResponseToIp` keeps no parameters.
- `IpDataToUsb` is `Indeterminate`, because the function has no body.

`MC_PtpBridge` makes the packet under conversion a variable that ranges over every container of a bounded set.

### `PtpIpRelay`

**Processes.** There are three:

- The **main thread**, whose position is `rpc`, with these actions:
  - `RelayRecv`: the first packet of tcp_receive_all.
  - `RelayRecvDataStart` and `RelayRecvDataEnd`: its data-phase branch.
  - `RelaySend`: tcp_send_all, either the init-ack path or one container.
  - `RelaySendResponse`: the response that follows a data container.
- The **event thread** (`epc`): `EvAccept`, then `EvRecvInit` (ack_event_socket).
- The **PTP/IP client**, which is the environment and is not code of this repository. It sends the init request, collects the 46-byte acknowledgement, connects the event channel, then issues one operation at a time. It may close at any moment.

**Streams.** Each direction of each connection (`c2s`, `s2c`, `ev_c2s`, `ev_s2c`) is a sequence of whole packets built with `PtpBridge`.

**Failure modes.** Two constants turn them on:

- `Fragmenting`: any recv may come back short. `FramerFails` is the union of tcp_receive_single_packet's failure returns: a short length, a short body, or the peer closed.
- `AckPartials`: the init acknowledgement may first be sent in pieces of these sizes.

**Device.** The relay extends `PtpDevice` (below). `CmdWrite` is `ptpip_cmd_write`, which swallows the first write. Every error return of the main loop is `Teardown`: both sockets are closed and main returns. Once the listening socket is closed, the event thread's accept fails.

**Terminal state.** `Terminated` is the final state: the client is closed, main has returned, and the event thread is idle or gone. This state is a real end of the program, so deadlock checking stays on.

**Refinement.** `Txn == INSTANCE PtpTransaction WITH ...` maps the client's view to the abstract channel:

- `cpc` maps to the phase: handshake states are "connecting", `ready` is "idle", `await_resp` is "busy", `closed` is "closed".
- `ctx` and `cop` map to the abstract transaction and operation.
- `got` maps to `answered`, projected to each packet's kind and transaction.

`TransactionRefined == Txn!Spec` is checked as a PROPERTY. It covers the abstract steps and the abstract fairness: an outstanding operation is answered or the connection is lost.

### `PtpTransaction`

This is the abstract specification of a PTP transport, as seen by its initiator:

- `Connect` completes the session set-up.
- `Request(o)` issues the next transaction.
- `Deliver` hands over the next packet of that operation's answer.
- `Lose` drops the connection.

Only a busy channel is owed progress: `WF(busy /\ (Deliver \/ Lose))`.

### `PtpDevice`

This is the emulated device behind `vcam_write`. It is modelled from the spec, because the vcam core is outside `src/`:

- a command with no data phase queues a response;
- a data-in command queues a data container and then a response;
- a data-out command waits for its data container.

`PtpIpRelay`, `FujiRelay` and `UsbGadgetIo` all extend it, so the three transports drive the same device.

### `FujiRelay`

This models `fuji_wifi_main` and its helpers in fujiip.c:

- `fpc` is the main thread's place in its loop. `first_write` is the static of `ptpip_cmd_write`; `ack_left` stands for `left_of_init_packet > 0`.
- `FujiRecvAll` is `tcp_recieve_all` up to line 117: a short body read or a closed peer tears down (`FramerFails`), else the container goes through `CmdWrite`. `DataPhaseDue` is the test of line 117 (`nrinbulk == 0 && code != 0`), which sends the thread to `FujiRecvData`, lines 117-145.
- `FujiSendAll` is `tcp_send_all`: the canned ack while any is left, else one container from the device, with teardown when none is queued. `FujiSendResponse` is lines 177-205. Sends are checked only for `<= 0`.
- `SpawnRemotePorts` is lines 382-385 with `fuji_accept_remote_ports`: one spawn, and a failed `pthread_create` is ignored.
- `FujiNewSocket` and `FujiAccept` are the remote-ports thread. An accept on a socket whose bind failed returns -1 and `abort()` ends the process, command session included.
- The device sets `fuji_open_remote_port` on a command in `RemoteOps`. That code is in the vcam core, outside `src/`, and is taken from spec §4.
- The client sends an init packet (code 0, swallowed by the first write), takes the ack, then runs one operation at a time. After the response to a `RemoteOps` operation it connects the event port and then the video port; a connect to a port nobody listens on is refused.

`TransactionRefined` maps the client's view onto `PtpTransaction` with `Answer <- ExpectedTypes` (data then response, or the response alone).

### `UsbGadgetIo`

**State.**

- `stop` is `thread_args.stop`.
- `fds` is the shared `fd_in`/`fd_out`: "unset" for the static 0, "open", "closed" for -1, or "half" when `init_ep` stored `fd_in` and then failed on a later endpoint.
- `tpc[t]` and `ret[t]` are each io thread's position and the sign of its local `ret`.
- `ep0` marks the ep0 thread inside the 200 ms sleep.
- `ctrl` is a control request other than SET_CONFIGURATION that ep0 has still to serve.

**io_thread actions:**

- `IoStart`: the two selects.
- `IoSpin`: the `ret == 0` `continue`.
- `IoLoop`: the loop head and the read call.
- `IoRead`: the read returns one transfer into the thread's buffer (`buf`).
- `IoVcamWrite`: `vcam_write` hands it to the device, which queues its answer in the shared `inbulk`.
- `IoWrite`: the poll and `write(fd_in, inbulk, nrinbulk)`.
- `IoReset`: `nrinbulk = 0`.

Each is a step of its own: the io threads share the device's `inbulk` and `nrinbulk` without a lock, so another thread may run between the read and `vcam_write`, and between the write and the reset.
- `IoExit`: both descriptors closed and set to -1.

**SET_CONFIGURATION actions:**

- `SetConfigBegin`: stop is raised and the ep0 thread sleeps.
- `SetConfigEnd`: `init_ep` runs if `fd_in <= 0` (`InitEp`); `status` is 0 when `fd_in` was already set (`FdInSet`). On status 0 stop is cleared and a thread is created. The request is acknowledged either way (`AckConfig`).
- `InitEp`: with `EndpointFaults`, the open of ep1in may fail (`fd_in` stays -1, "closed") or a later open or descriptor write may fail (`fd_in` stays set, "half").
- `SetConfigZero`: wValue 0.

**Other control requests:** `SetupGetDescriptor` (a string descriptor or a stall) and `SetupOther` (GET_INTERFACE, SET_INTERFACE's CLEAR_HALT, MTP_REQ_CANCEL, which is only logged, and the stall for anything else). Neither touches the io thread's state; they occupy the ep0 thread, which serves one request at a time.

**Host.** The USB host is the environment. It configures the device, issues one operation at a time as bulk containers, reads bulk-IN until the response, and while idle may send one more SET_CONFIGURATION (`ReconfigValues`). Once configured it may send any other control request (`HostControl`), one at a time, during or between operations.

**Assumptions:**

- A read blocked before the descriptors were closed keeps waiting for the next transfer.
- A read on a closed descriptor fails, and `vcam_write` of the negative count fails.

## Runs

Each run below was checked with `tlc -workers 2`.

| Run | Cfg | Expect | What it shows |
|---|---|---|---|
| eos_queue | EosQueue.cfg | pass | Across any interleaving of handlers and sessions, `NoChangeLost` holds: accepted = delivered ∘ queue, so no poll (snapshot or drain) loses or repeats an accepted change. `TypeOK` bounds the queue at 10. |
| bridge | Bridge.cfg | pass | Command round trip, and the data container split into start and end packets. |
| relay | Relay.cfg | pass | With short reads, partial init acks and data-out operations, the relay refines `PtpTransaction`. Every operation gets its own packets in order, with its transaction id, and is answered or the connection is lost. |
| relay_fragmenting | RelayFragmenting.cfg | violation | A packet split by TCP tears down a live session. |
| relay_ack_partial | RelayAckPartial.cfg | violation | A partial send of the init ack stalls the handshake forever. |
| fuji | Fuji.cfg | pass | With short reads, data-out operations, a failed `pthread_create` and a failed secondary bind (which aborts the process), the Fuji loop refines `PtpTransaction`. The data phase guessed from the device's silence is right for every operation kind. |
| fuji_remote_ports | FujiRemotePorts.cfg | violation | With no fault on, the response that offers the remote ports reaches the client before the remote-ports thread has bound them, and the client's connect is refused. |
| gadget | Gadget.cfg | pass | With the io thread's four steps interleaved, control requests at any point and a second SET_CONFIGURATION (0 or 2), every operation without a host data phase issued in the first configuration is answered. |
| gadget_data_out | GadgetDataOut.cfg | violation | An operation with a host data phase is never answered. The device queues nothing after the command, so the write of 0 bytes sets `ret = 0`, and the loop spins without reading the data. |
| gadget_reconfig | GadgetReconfig.cfg | violation | A second SET_CONFIGURATION can leave no io thread. The old thread saw `stop` and closes the descriptors after `fd_in > 0` was tested, under the new thread, which then fails and exits too. |
| gadget_endpoint_faults | GadgetEndpointFaults.cfg | violation | `init_ep` fails after storing `fd_in`; SET_CONFIGURATION is still acknowledged. The host's next SET_CONFIGURATION finds `fd_in > 0`, skips `init_ep` and starts an io thread on endpoints never configured (7 states). |
| gadget_stale_answer | GadgetStaleAnswer.cfg | violation | After a second SET_CONFIGURATION two io threads serve the endpoints. One writes the response; the host reads it and sends its next command; the other thread reads it and the device queues the new response behind the old one before the first thread resets `nrinbulk`. The second thread then writes both, and the host reads the previous operation's response for its current one. No data-out operation is needed. |

Every property of a passing run has a mutant in `PROJECT.json`. Each mutant is a plausible bug in the mapped definition, such as:

- a dropped capacity check;
- a queue not cleared;
- the wrong header size;
- the response after data skipped;
- stop left raised for the new io thread;
- `fuji_open_remote_port` incremented outside its `if`;
- the Fuji data-phase test without `nrinbulk == 0`.

## Bounds

**EosVendor:**

- `MaxSets = 11` with one property code, so the queue fills, a change is dropped, and a drain follows.
- `MaxLiveview = 16`, one call past the 15-call gate.

**PtpBridge:**

- Up to 5 parameters, which is the PTP maximum.
- Payloads of up to 3 bytes.

**PtpIpRelay:**

- `MaxTx = 3`: enough for operations of every kind after the handshake, all three faults on.
- One partial-ack size. A second size adds only more interleavings of the same stall.

**FujiRelay:**

- `MaxTx = 3` and one operation of each kind, the no-data one being the one that offers the remote ports. An operation can thus run before, during and after the remote-ports thread's start.
- `CHECK_DEADLOCK FALSE`: once both ends have let go of the command connection nothing more happens, and the detached remote-ports thread may still wait in `accept`.

**UsbGadgetIo:**

- Two thread identities, one per SET_CONFIGURATION that can start a thread. `MaxConfigs = 2`, with the second request carrying 0 or 2.
- `MaxTx = 3`.
- The pass run interleaves every control request with every point of an operation and of a re-configuration.
- `GadgetEndpointFaults.cfg`: `MaxTx = 1`, `ReconfigValues = {2}`, `EndpointFaults = TRUE`; two SET_CONFIGURATIONs are all the failure needs. The other gadget cfgs keep `EndpointFaults = FALSE`, so that `AnsweredInFirstConfiguration` is about a first configuration that succeeded.
- The pass run reaches two io threads blocked in or past read at once, and the exit race.
- `GadgetStaleAnswer.cfg` is `Gadget.cfg` without data-out operations: the stale answer needs two operations answered at once and a second thread.
- `CHECK_DEADLOCK FALSE` in the gadget cfgs. The exit race leaves a state with no io thread and a waiting host, which has no successor, and that state is what `gadget_reconfig` reports.

## Fairness

- Weak fairness is assumed for every step of the main thread and the event thread. Each is a blocking call that returns once its input is present.
- Weak fairness is assumed for the client's reads and handshake steps.
- The client is never obliged to issue an operation or to close, so `ClientSend` and `ClientClose` have no fairness.
- The liveness properties (`TransactionRefined`'s fairness and `SessionEstablished`) therefore hold only if the relay itself makes progress.
- `FujiRelay` has the same fairness: every main-thread and remote-ports-thread step, and the client's reads, are weakly fair. Connecting the remote ports, issuing operations and closing are the client's choice.
- Weak fairness is assumed for every io-thread step and every ep0 step of `UsbGadgetIo`. Each is a system call that returns once its input is there, a store to memory, or the end of a sleep. The host's reads of bulk-IN are fair, and its requests are not. `IoSpin` needs no fairness: it changes nothing.

## Not modelled, and the plan

**Not modelled:**

- Descriptor tables, logging and socket creation options.
- The libusb shim, which has no state.
- In otg.c:
  - The contents of the descriptors GET_DESCRIPTOR and GET_INTERFACE write, and the halt state SET_INTERFACE clears: the io thread's model has no halted endpoint.
  - A host that cancels an operation (MTP_REQ_CANCEL, only logged) and abandons it: the device would still answer it, which a host that waits for every answer never meets.
  - `kill_sig`, main's descriptor set-up, and the CONNECT, DISCONNECT and SUSPEND events, which only log.
  - A host that stops reading bulk-IN, where the write would fail with EAGAIN and drop `inbulk`.
- The data race on `thread_args.stop`: a compiler may hoist the load out of the `ret == 0` spin. The model re-reads `stop` on every iteration.

- In fujiip.c:
  - the discovery, registration and tether options, which call code outside `src/`;
  - `ptp_fuji_liveview`, outside `src/`;
  - the outcomes of the uninitialised `packet_length` after ten empty reads: the model takes the failed read.
- The reversed-round-trip faults of `usb2ip.c`: response parameters are not copied (line 73), and the data join returns an empty body (ptpip.c:172). Each is visible in one function and reachable by a unit test, and neither has a run of its own. The relay model carries the empty join as an indeterminate container, so every data-out operation of the `relay` run ends with the connection lost, which `PtpTransaction` allows.
- The static `eos_info` of canon.c:19 is zero at the first OpenSession and never reset by a later one, against spec §3, §4.4 and §8. `EosVendor` models this faithfully; the divergence shows in one step, and no run states it.
- The `return 1` of `ptpip_generic_main` when `pthread_create` of the event thread fails (ptpip.c:412-413): what the caller, outside `src/`, does with the open sockets is not known.
- The unsigned wrap of `(length - 18) / 4` in `conv_ip_cmd_packet_to_usb` (usb2ip.c:13): a request of 14–17 bytes gives about 2^30 parameters. `PtpBridge` models the arithmetic (`IpParamCount`), and a single short request shows it; it is listed as a hazard without a run.

**Planned, in order:**

1. Byte-level send truncation for the unchecked partial sends of `tcp_send_all` (ptpip.c:237, fujiip.c:171 and 200).
2. A host that stops reading bulk-IN (the EAGAIN write of otg.c:160), with its own fault constant.
