---------------------------- MODULE PtpTransaction ----------------------------
(***************************************************************************)
(* What a PTP transport promises its initiator (spec 2 and 4.2): after     *)
(* the session is set up, operations are strictly one at a time, each      *)
(* carries the next transaction id, and each is answered by the packets    *)
(* of that operation, in order, ending with its response.  The connection  *)
(* may be lost at any point.  Once an operation is outstanding, it is       *)
(* eventually answered or the connection is lost.                           *)
(***************************************************************************)
EXTENDS Naturals, Sequences

CONSTANTS
  Ops,        \* operation codes
  Answer(_),  \* the kinds of packet that answer an operation, in order
  NoOp,       \* the operation before the first one
  MaxTx       \* bound: operations issued

VARIABLES
  phase,      \* "connecting", "idle", "busy" or "closed"
  tx,         \* transaction id of the latest operation
  op,         \* the latest operation
  answered    \* its packets delivered so far, as [type, transaction]

avars == <<phase, tx, op, answered>>

Init ==
  /\ phase = "connecting"
  /\ tx = 0
  /\ op = NoOp
  /\ answered = <<>>

Connect ==
  /\ phase = "connecting"
  /\ phase' = "idle"
  /\ UNCHANGED <<tx, op, answered>>

Request(o) ==
  /\ phase = "idle"
  /\ tx < MaxTx
  /\ phase' = "busy"
  /\ tx' = tx + 1
  /\ op' = o
  /\ answered' = <<>>

\* The next packet of the answer; the last one ends the operation.
Deliver ==
  LET k == Len(answered) + 1 IN
  /\ phase = "busy"
  /\ answered' = Append(answered, [type |-> Answer(op)[k], transaction |-> tx])
  /\ phase' = IF k = Len(Answer(op)) THEN "idle" ELSE "busy"
  /\ UNCHANGED <<tx, op>>

Lose ==
  /\ phase # "closed"
  /\ phase' = "closed"
  /\ UNCHANGED <<tx, op, answered>>

Next == Connect \/ (\E o \in Ops : Request(o)) \/ Deliver \/ Lose

\* Only an outstanding operation is owed progress.
Spec == Init /\ [][Next]_avars /\ WF_avars(phase = "busy" /\ (Deliver \/ Lose))

=============================================================================
