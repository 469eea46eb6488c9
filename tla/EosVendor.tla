------------------------------ MODULE EosVendor ------------------------------
(***************************************************************************)
(* The Canon EOS vendor-extension state of the emulated camera, as kept by *)
(* src/src/canon.c in the process-wide struct eos_info, and the handlers   *)
(* that read and change it.  Each action is one handler, run to completion *)
(* by the device on one command (or one data phase) from the client; the  *)
(* container it queues for the client is recorded in reply.                *)
(*                                                                         *)
(* The value of a property change is abstracted to the serial number of    *)
(* the SetDevicePropValueEx data phase that carried it, so that the order  *)
(* of changes is observable; the code never interprets the value.          *)
(***************************************************************************)
EXTENDS Naturals, Sequences

CONSTANTS
  PropCodes,          \* property codes a client sets (dat[1] of the payload)
  CaptureDestination, \* PTP_PC_EOS_CaptureDestination
  GenericOps,         \* opcodes routed to ptp_eos_generic (opcodes.h)
  SetRemoteMode,      \* PTP_OC_EOS_SetRemoteMode
  SetEventMode,       \* PTP_OC_EOS_SetEventMode
  MaxSets,            \* bound: number of SetDevicePropValueEx data phases
  MaxLiveview         \* bound: number of GetViewFinderData calls

ASSUME CaptureDestination \in PropCodes
ASSUME {SetRemoteMode, SetEventMode} \subseteq GenericOps
ASSUME MaxSets \in Nat /\ MaxLiveview \in Nat

\* Literal limits of canon.c.
QueueCap        == 10    \* struct EventQueue queue[10]
LiveviewWarmup  == 15    \* calls_to_liveview < 15 answers NotReady
EventBufferSize == 1000  \* malloc(1000) in ptp_eos_events
EventRecordSize == 16    \* sizeof(struct EosEventUint)

\* The exit(1) of ptp_eos_events fires only when the records overrun the
\* 1000-byte buffer; a full queue of QueueCap records never does.
ASSUME QueueCap * EventRecordSize < EventBufferSize

VARIABLES
  first_events,       \* eos_info.first_events
  lv_ready,           \* eos_info.lv_ready
  queue,              \* eos_info.queue[0 .. queue_length-1]
  calls_to_liveview,  \* eos_info.calls_to_liveview
  session,            \* whether the client has a PTP session open
  reply,              \* data phase and response code of the last command
  accepted,           \* history: every change that was enqueued, in order
  delivered,          \* history: every change reported by GetEvent, in order
  nsets               \* history: SetDevicePropValueEx data phases handled

eos  == <<first_events, lv_ready, queue, calls_to_liveview>>
hist == <<accepted, delivered, nsets>>
vars == <<eos, session, reply, hist>>

Change == PropCodes \X (1..MaxSets)

\* The data phase of a reply: nothing, the canned bin_eos_events_bin blob,
\* the canned liveview JPEG, or a buffer of event records.
NoData  == [kind |-> "none", records |-> <<>>]
Blob    == [kind |-> "blob", records |-> <<>>]
Jpeg    == [kind |-> "jpeg", records |-> <<>>]

\* struct EosEventUint filled for one queued change.
PropValueChanged(chg) ==
  [size |-> EventRecordSize, type |-> "PropValueChanged",
   code |-> chg[1], value |-> chg[2]]

\* The two zero words written when the queue is empty.
NothingRecord == [size |-> 0, type |-> "None", code |-> "None", value |-> 0]

EventRecords(q) ==
  IF q = <<>> THEN <<NothingRecord>>
  ELSE [i \in 1 .. Len(q) |-> PropValueChanged(q[i])]

Reply(rc, data) == [rc |-> rc, data |-> data]
NoReply == Reply("None", NoData)

-----------------------------------------------------------------------------
(***************************************************************************)
(* Handlers.                                                               *)
(***************************************************************************)

\* eos_info = {0}: the state the process starts in.
EosInit ==
  /\ first_events = 0
  /\ lv_ready = 0
  /\ queue = <<>>
  /\ calls_to_liveview = 0

Init ==
  /\ EosInit
  /\ session = "closed"
  /\ reply = NoReply
  /\ accepted = <<>>
  /\ delivered = <<>>
  /\ nsets = 0

\* CHECK_PARAM_COUNT(n) failing: a parameter error, nothing else changes.
ParamCountError ==
  /\ reply' = Reply("ParamErr", NoData)
  /\ UNCHANGED <<eos, session, hist>>

\* ptp_eos_generic: SetRemoteMode and SetEventMode take one parameter and
\* re-arm the initial event snapshot; every other generic opcode only
\* answers OK.
EosGeneric(op, nparams) ==
  /\ op \in GenericOps
  /\ \/ /\ op \in {SetRemoteMode, SetEventMode}
        /\ nparams # 1
        /\ ParamCountError
     \/ /\ op \in {SetRemoteMode, SetEventMode}
        /\ nparams = 1
        /\ first_events' = 1
        /\ reply' = Reply("OK", NoData)
        /\ UNCHANGED <<lv_ready, queue, calls_to_liveview, session, hist>>
     \/ /\ op \notin {SetRemoteMode, SetEventMode}
        /\ reply' = Reply("OK", NoData)
        /\ UNCHANGED <<eos, session, hist>>

\* ptp_eos_set_property: the command phase of SetDevicePropValueEx.
EosSetProperty ==
  /\ reply' = Reply("OK", NoData)
  /\ UNCHANGED <<eos, session, hist>>

\* Mutant of ptp_eos_set_property_payload: the capacity check dropped.
EosSetPropertyPayloadNoCap(code) ==
  LET chg == <<code, nsets + 1>> IN
  /\ nsets < MaxSets
  /\ lv_ready' = IF code = CaptureDestination THEN 1 ELSE lv_ready
  /\ queue' = Append(queue, chg)
  /\ accepted' = Append(accepted, chg)
  /\ nsets' = nsets + 1
  /\ reply' = Reply("OK", NoData)
  /\ UNCHANGED <<first_events, calls_to_liveview, session,
                 delivered>>

\* ptp_eos_set_property_payload: the data phase.  Setting the capture
\* destination marks liveview ready; the change is queued only while the
\* queue has room, and is dropped silently otherwise.
EosSetPropertyPayload(code) ==
  LET chg == <<code, nsets + 1>> IN
  /\ nsets < MaxSets
  /\ lv_ready' = IF code = CaptureDestination THEN 1 ELSE lv_ready
  /\ IF Len(queue) < QueueCap
       THEN /\ queue' = Append(queue, chg)
            /\ accepted' = Append(accepted, chg)
       ELSE UNCHANGED <<queue, accepted>>
  /\ nsets' = nsets + 1
  /\ reply' = Reply("OK", NoData)
  /\ UNCHANGED <<first_events, calls_to_liveview, session,
                 delivered>>

\* ptp_eos_remote_release: only sleeps before answering OK.
EosRemoteRelease ==
  /\ reply' = Reply("OK", NoData)
  /\ UNCHANGED <<eos, session, hist>>

\* ptp_eos_viewfinder_data: counts the call; NotReady below the warm-up
\* threshold, the canned frame and OK from then on.
EosViewfinderData ==
  LET calls == calls_to_liveview + 1
      rc    == IF calls < LiveviewWarmup THEN "NotReady" ELSE "OK"
  IN
  /\ calls_to_liveview < MaxLiveview
  /\ calls_to_liveview' = calls
  /\ reply' = Reply(rc, IF rc = "OK" THEN Jpeg ELSE NoData)
  /\ UNCHANGED <<first_events, lv_ready, queue, session,
                 accepted, delivered, nsets>>

\* Mutant of ptp_eos_events: queue_length not reset after the drain.
EosEventsNoReset(nparams) ==
  \/ /\ nparams # 0
     /\ ParamCountError
  \/ /\ nparams = 0
     /\ first_events = 1
     /\ reply' = Reply("OK", Blob)
     /\ first_events' = 0
     /\ UNCHANGED <<lv_ready, queue, calls_to_liveview, session,
                    accepted, delivered, nsets>>
  \/ /\ nparams = 0
     /\ first_events = 0
     /\ reply' = Reply("OK", [kind |-> "events",
                               records |-> EventRecords(queue)])
     /\ delivered' = delivered \o queue
     /\ UNCHANGED <<first_events, lv_ready, queue, calls_to_liveview,
                    session, accepted, nsets>>

\* ptp_eos_events (GetEvent): the canned snapshot once after a mode set,
\* otherwise one record per queued change (or the zero record) and the
\* queue emptied.
EosEvents(nparams) ==
  \/ /\ nparams # 0
     /\ ParamCountError
  \/ /\ nparams = 0
     /\ first_events = 1
     /\ reply' = Reply("OK", Blob)
     /\ first_events' = 0
     /\ UNCHANGED <<lv_ready, queue, calls_to_liveview, session,
                    accepted, delivered, nsets>>
  \/ /\ nparams = 0
     /\ first_events = 0
     /\ reply' = Reply("OK", [kind |-> "events",
                               records |-> EventRecords(queue)])
     /\ delivered' = delivered \o queue
     /\ queue' = <<>>
     /\ UNCHANGED <<first_events, lv_ready, calls_to_liveview, session,
                    accepted, nsets>>

\* OpenSession / CloseSession are served by the generic device core, which
\* has no access to the static eos_info of canon.c.
OpenSession ==
  /\ session = "closed"
  /\ session' = "open"
  /\ reply' = Reply("OK", NoData)
  /\ UNCHANGED <<eos, accepted, delivered, nsets>>

CloseSession ==
  /\ session = "open"
  /\ session' = "closed"
  /\ reply' = Reply("OK", NoData)
  /\ UNCHANGED <<eos, hist>>

Next ==
  \/ \E op \in GenericOps, n \in 0 .. 1 : EosGeneric(op, n)
  \/ EosSetProperty
  \/ \E c \in PropCodes : EosSetPropertyPayload(c)
  \/ EosRemoteRelease
  \/ EosViewfinderData
  \/ \E n \in 0 .. 1 : EosEvents(n)
  \/ OpenSession
  \/ CloseSession

Spec == Init /\ [][Next]_vars

-----------------------------------------------------------------------------
(***************************************************************************)
(* Properties.                                                             *)
(***************************************************************************)

TypeOK ==
  /\ first_events \in {0, 1}
  /\ lv_ready \in {0, 1}
  /\ queue \in Seq(Change) /\ Len(queue) <= QueueCap
  /\ calls_to_liveview \in 0 .. MaxLiveview
  /\ session \in {"open", "closed"}
  /\ reply.rc \in {"None", "OK", "NotReady", "ParamErr"}
  /\ accepted \in Seq(Change)
  /\ delivered \in Seq(Change)
  /\ nsets \in 0 .. MaxSets

\* Every property change the device accepted (set_property_payload) is
\* reported by GetEvent exactly once and in the order it was set, or is
\* still pending: no poll (snapshot or drain) loses or repeats a change.
NoChangeLost == accepted = delivered \o queue

=============================================================================
