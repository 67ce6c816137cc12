----------------------------- MODULE Transport -----------------------------
(***************************************************************************)
(* ITransport: whole frames in order between the coordinator and a worker. *)
(*                                                                         *)
(* LoopbackTransport closes both directions at once.  PipeTransport closes *)
(* the direction it writes to; the peer reads to the end of the stream and *)
(* closes its own.  Either may be in use.  A send never waits here: the    *)
(* buffer of a pipe is not bounded.                                        *)
(***************************************************************************)
EXTENDS Naturals, Sequences

CONSTANTS
  Requests,    \* request ids
  NoRequest    \* no request

VARIABLES
  pipe,        \* PipeTransport rather than LoopbackTransport
  inbox,       \* frames sent and not yet delivered to each side
  writeClosed  \* sides whose send() fails

link == <<pipe, inbox, writeClosed>>

Elements(s) == {s[i] : i \in 1..Len(s)}

Sides == {"coordinator", "worker"}
Peer(s) == IF s = "worker" THEN "coordinator" ELSE "worker"

TransportInit ==
  /\ pipe \in BOOLEAN
  /\ inbox = [s \in Sides |-> <<>>]
  /\ writeClosed = {}

CanSend(s) == s \notin writeClosed

\* The inboxes after side s sent the frames, or after the sends failed.
Sent(s, frames) ==
  [inbox EXCEPT ![Peer(s)] = IF CanSend(s) THEN @ \o frames ELSE @]

\* The inboxes after side s took its next frame and answered with frames.
Taken(s, frames) == [Sent(s, frames) EXCEPT ![s] = Tail(@)]

Closed(s) == writeClosed \cup (IF pipe THEN {s} ELSE Sides)

\* The reader thread of side s hands over the next frame ...
Arrives(s, type) == inbox[s] # <<>> /\ Head(inbox[s]).type = type

\* ... and at the end of the stream closes its own direction and calls onClosed().
AtEnd(s) == inbox[s] = <<>> /\ Peer(s) \in writeClosed
=============================================================================
