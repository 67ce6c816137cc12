------------------------------ MODULE Channel ------------------------------
(***************************************************************************)
(* The coordinator's end of a connection: RemoteChannel in                 *)
(* src/src/remote/channel.cpp.                                             *)
(*                                                                         *)
(* Threads: the caller of submit() for each request, the transport's       *)
(* reader, whoever requests a job's stop, and the owner that connects and  *)
(* destroys the channel.  A step is a critical section of mtx_ or a call   *)
(* to the transport or to a Completion outside it.  Ids are unique, so a   *)
(* request stands for its id; payload transfer is reduced to success or    *)
(* failure, and what a Completion is given to the fact that it is used.    *)
(***************************************************************************)
EXTENDS Transport, FiniteSets

CONSTANTS
  Limit,          \* inFlightLimit_, after negotiation
  Capacities,     \* what Options::queueCapacity may be
  Cancellable,    \* requests whose job may be stopped
  Unfit,          \* requests that cannot be transferred or encoded
  HasStrategy     \* whether the handshake chose a payload strategy

ASSUME ChannelAssumption ==
  /\ IsFiniteSet(Requests) /\ NoRequest \notin Requests /\ "reader" \notin Requests
  /\ Limit \in Nat /\ Capacities \subseteq Nat
  /\ Cancellable \subseteq Requests /\ Unfit \subseteq Requests
  /\ HasStrategy \in BOOLEAN

Reader == "reader"
Threads == Requests \cup {Reader}

VARIABLES
  pending,        \* pending_
  queued,         \* queued_
  completed,      \* requests whose Completion was used
  doomed,         \* what onClosed() moved out of pending_ and queued_
  forward,        \* Pending::cancel of each request: the stop callback's registration
  stop,           \* requests whose job was asked to stop
  pc,             \* where each thread is
  cur,            \* the request the thread is sending, failing or answering
  next,           \* the queued request the thread has taken and will launch
  queueCapacity,  \* Options::queueCapacity
  state,          \* state_
  closed,         \* closed_
  owner           \* where the owner is

requests == <<pending, queued, completed, doomed>>
cancelling == <<forward, stop>>
threads == <<pc, cur, next>>
life == <<queueCapacity, state, closed, owner>>

channelVars == <<requests, cancelling, threads, life>>

ChannelInit ==
  /\ queueCapacity \in Capacities
  /\ state = "kIdle"
  /\ pending = {}
  /\ queued = <<>>
  /\ forward = [r \in Requests |-> "none"]
  /\ stop = {}
  /\ completed = {}
  /\ pc = [t \in Threads |-> IF t = Reader THEN "idle" ELSE "new"]
  /\ cur = [t \in Threads |-> NoRequest]
  /\ next = [t \in Threads |-> NoRequest]
  /\ doomed = {}
  /\ closed = FALSE
  /\ owner = "new"

Goto(t, label) == pc' = [pc EXCEPT ![t] = label]

\* The thread is done with its request.
Drop(t) == cur' = [cur EXCEPT ![t] = NoRequest]

\* The thread leaves the channel.
Return(t) == Drop(t) /\ Goto(t, IF t = Reader THEN "idle" ELSE "out")

Complete(r) == completed' = completed \cup {r}

\* takeQueued(), by thread t.
TakeQueued(t) ==
  /\ next' = [next EXCEPT ![t] = IF queued = <<>> THEN NoRequest ELSE Head(queued)]
  /\ queued' = IF queued = <<>> THEN queued ELSE Tail(queued)

----------------------------------------------------------------------------
(* connect() and the destructor *)

Connect ==
  /\ owner = "new"
  /\ owner' = "connecting"
  /\ state' = "kHandshaking"
  /\ inbox' = Sent("coordinator", <<[type |-> "hello"]>>)
  /\ UNCHANGED <<pipe, writeClosed, requests, cancelling, threads, queueCapacity, closed>>

ConnectReturns ==
  /\ owner = "connecting" /\ state # "kHandshaking"
  /\ owner' = "ready"
  /\ UNCHANGED <<link, requests, cancelling, threads, queueCapacity, state, closed>>

HandshakeTimeout ==
  /\ owner = "connecting" /\ state = "kHandshaking"
  /\ owner' = "ready"
  /\ state' = "kClosed"
  /\ writeClosed' = Closed("coordinator")
  /\ UNCHANGED <<pipe, inbox, requests, cancelling, threads, queueCapacity, closed>>

\* The owner does not destroy the channel under a caller of submit().
Destroy ==
  /\ owner = "ready"
  /\ \A r \in Requests : pc[r] \in {"new", "out"}
  /\ owner' = "closing"
  /\ writeClosed' = Closed("coordinator")
  /\ UNCHANGED <<pipe, inbox, requests, cancelling, threads, queueCapacity, state, closed>>

Destroyed ==
  /\ owner = "closing" /\ closed
  /\ owner' = "destroyed"
  /\ UNCHANGED <<link, requests, cancelling, threads, queueCapacity, state, closed>>

----------------------------------------------------------------------------
(* Sending *)

HasSlot == Cardinality(pending) < Limit
HasRoom == Len(queued) < queueCapacity

\* send() up to the first unlock: refused, in flight, queued, or busy.
Send(t, r) ==
  LET sendable == state = "kConnected" /\ (HasStrategy \/ r \notin Unfit) IN
  /\ \/ /\ ~sendable
        /\ Complete(r)
        /\ Return(t)
        /\ UNCHANGED <<pending, queued>>
     \/ /\ sendable /\ HasSlot
        /\ pending' = pending \cup {r}
        /\ cur' = [cur EXCEPT ![t] = r]
        /\ Goto(t, "transfer")
        /\ UNCHANGED <<queued, completed>>
     \/ /\ sendable /\ ~HasSlot /\ HasRoom
        /\ queued' = Append(queued, r)
        /\ Return(t)
        /\ UNCHANGED <<pending, completed>>
     \/ /\ sendable /\ ~HasSlot /\ ~HasRoom
        /\ Complete(r)
        /\ Return(t)
        /\ UNCHANGED <<pending, queued>>
  /\ UNCHANGED <<link, doomed, cancelling, life>>

\* submit(), or the body of an emplace()d job.  Before connect() has returned it
\* is refused as after a close.
Submit(r) ==
  /\ pc[r] = "new" /\ owner = "ready"
  /\ Send(r, r)
  /\ UNCHANGED next

\* Mutant: registered before the request is sent.
MutTransfer(t) ==
  LET r == cur[t] IN
  /\ pc[t] = "transfer"
  /\ \/ /\ forward[r] = "none"
        /\ forward' = [forward EXCEPT ![r] = "registered"]
        /\ UNCHANGED <<inbox, pc>>
     \/ /\ forward[r] # "none"
        /\ inbox' = Sent("coordinator", <<[type |-> "request", id |-> r]>>)
        /\ Goto(t, "out")
        /\ UNCHANGED forward
  /\ UNCHANGED <<pipe, writeClosed, requests, stop, cur, next, life>>

\* Payloads and the control frame go out, or the request fails here.
Transfer(t) ==
  LET r == cur[t] IN
  /\ pc[t] = "transfer"
  /\ \/ /\ r \notin Unfit /\ CanSend("coordinator")
        /\ inbox' = Sent("coordinator", <<[type |-> "request", id |-> r]>>)
        /\ Goto(t, "register")
     \/ /\ r \in Unfit \/ ~CanSend("coordinator")
        /\ Goto(t, "failPending")
        /\ UNCHANGED inbox
  /\ UNCHANGED <<pipe, writeClosed, requests, cancelling, cur, next, life>>

\* The cancel forwarder is registered unless the reply was faster; a stop that was
\* requested before runs it on the spot.
Register(t) ==
  LET r == cur[t] IN
  /\ pc[t] = "register"
  /\ \/ /\ r \notin pending
        /\ UNCHANGED <<inbox, forward>>
     \/ /\ r \in pending /\ r \notin stop
        /\ forward' = [forward EXCEPT ![r] = "registered"]
        /\ UNCHANGED inbox
     \/ /\ r \in pending /\ r \in stop
        /\ forward' = [forward EXCEPT ![r] = "called"]
        /\ inbox' = Sent("coordinator", <<[type |-> "cancel", id |-> r]>>)
  /\ Return(t)
  /\ UNCHANGED <<pipe, writeClosed, requests, stop, next, life>>

\* Mutant: a request that onClosed() has failed is failed again.
MutFailPending(t) ==
  /\ pc[t] = "failPending"
  /\ pending' = pending \ {cur[t]}
  /\ TakeQueued(t)
  /\ Goto(t, "fail")
  /\ UNCHANGED <<link, completed, doomed, cancelling, cur, life>>

\* failPending(): give the slot to a queued request, unless onClosed() came first.
FailPending(t) ==
  LET r == cur[t] IN
  /\ pc[t] = "failPending"
  /\ \/ r \notin pending /\ Return(t) /\ UNCHANGED <<pending, queued, next>>
     \/ /\ r \in pending
        /\ pending' = pending \ {r}
        /\ TakeQueued(t)
        /\ Goto(t, "fail")
        /\ UNCHANGED cur
  /\ UNCHANGED <<link, completed, doomed, cancelling, life>>

Fail(t) ==
  /\ pc[t] = "fail"
  /\ Complete(cur[t])
  /\ Drop(t)
  /\ Goto(t, "launch")
  /\ UNCHANGED <<link, pending, queued, doomed, cancelling, next, life>>

\* Mutant: a cancelled request ends the loop.
MutLaunch(t) ==
  LET r == next[t] IN
  /\ pc[t] = "launch"
  /\ next' = [next EXCEPT ![t] = NoRequest]
  /\ \/ /\ r = NoRequest
        /\ Return(t)
        /\ UNCHANGED <<link, requests, cancelling, life>>
     \/ r # NoRequest /\ r \notin stop /\ Send(t, r)
     \/ /\ r # NoRequest /\ r \in stop
        /\ Complete(r)
        /\ Return(t)
        /\ UNCHANGED <<link, pending, queued, doomed, cancelling, life>>

\* launch(): one look at the request taken from the queue.  A stop between the
\* look and send() is as one after send() has let go of mtx_.
Launch(t) ==
  LET r == next[t] IN
  /\ pc[t] = "launch"
  /\ next' = [next EXCEPT ![t] = NoRequest]
  /\ \/ /\ r = NoRequest
        /\ Return(t)
        /\ UNCHANGED <<link, requests, cancelling, life>>
     \/ r # NoRequest /\ r \notin stop /\ Send(t, r)
     \/ /\ r # NoRequest /\ r \in stop
        /\ Complete(r)
        /\ Goto(t, "takeNext")
        /\ UNCHANGED <<link, pending, queued, doomed, cancelling, cur, life>>

TakeNext(t) ==
  /\ pc[t] = "takeNext"
  /\ TakeQueued(t)
  /\ Goto(t, "launch")
  /\ UNCHANGED <<link, pending, completed, doomed, cancelling, cur, life>>

----------------------------------------------------------------------------
(* The reader thread *)

\* kHelloAck, or the connection is given up: a kHelloReject, an ack that does not
\* fit, or one that comes after the timeout.
OnHandshake ==
  /\ pc[Reader] = "idle"
  /\ \/ /\ Arrives("coordinator", "ack") /\ state = "kHandshaking"
        /\ state' = "kConnected"
        /\ UNCHANGED writeClosed
     \/ /\ Arrives("coordinator", "reject") \/ Arrives("coordinator", "ack")
        /\ state' = "kClosed"
        /\ writeClosed' = Closed("coordinator")
  /\ inbox' = Taken("coordinator", <<>>)
  /\ UNCHANGED <<pipe, requests, cancelling, threads, queueCapacity, closed, owner>>

\* handleReply() of a reply that does not decode: the connection is given up, and its
\* requests are failed by onClosed().
OnUnreadable ==
  /\ pc[Reader] = "idle" /\ Arrives("coordinator", "reply")
  /\ ~Head(inbox["coordinator"]).readable
  /\ inbox' = Taken("coordinator", <<>>)
  /\ writeClosed' = Closed("coordinator")
  /\ UNCHANGED <<pipe, channelVars>>

\* handleReply() up to the unlock.  The worker answers a request once and onClosed()
\* comes after the last frame, so the request is found (RemoteProofs!ReplyFindsRequest).
OnReply ==
  LET reply == Head(inbox["coordinator"]) IN
  /\ pc[Reader] = "idle" /\ Arrives("coordinator", "reply")
  /\ reply.readable /\ reply.id \in pending
  /\ inbox' = Taken("coordinator", <<>>)
  /\ pending' = pending \ {reply.id}
  /\ cur' = [cur EXCEPT ![Reader] = reply.id]
  /\ TakeQueued(Reader)
  /\ Goto(Reader, "answer")
  /\ UNCHANGED <<pipe, writeClosed, completed, doomed, cancelling, life>>

\* The registration goes, after a cancel in progress; the reply of a stopped job
\* only releases its Completion.
Answer ==
  LET r == cur[Reader] IN
  /\ pc[Reader] = "answer" /\ forward[r] # "calling"
  /\ forward' = [forward EXCEPT ![r] = "none"]
  /\ Complete(r)
  /\ Drop(Reader)
  /\ Goto(Reader, "launch")
  /\ UNCHANGED <<link, pending, queued, doomed, stop, next, life>>

\* onClosed(): everything outstanding is taken over ...
OnClosed ==
  /\ pc[Reader] = "idle" /\ AtEnd("coordinator")
  /\ state' = "kClosed"
  /\ doomed' = pending \cup Elements(queued)
  /\ pending' = {} /\ queued' = <<>>
  /\ writeClosed' = Closed("coordinator")
  /\ Goto(Reader, "closing")
  /\ UNCHANGED <<pipe, inbox, completed, cancelling, cur, next, queueCapacity, closed, owner>>

\* Mutant: a cancel in progress is not waited for, nor unregistered.
MutFailDoomed(r) ==
  /\ pc[Reader] = "closing" /\ r \in doomed
  /\ Complete(r)
  /\ doomed' = doomed \ {r}
  /\ UNCHANGED <<link, pending, queued, cancelling, threads, life>>

\* ... and failed, each after a cancel in progress ...
FailDoomed(r) ==
  /\ pc[Reader] = "closing" /\ r \in doomed /\ forward[r] # "calling"
  /\ forward' = [forward EXCEPT ![r] = "none"]
  /\ Complete(r)
  /\ doomed' = doomed \ {r}
  /\ UNCHANGED <<link, pending, queued, stop, threads, life>>

\* ... and last the destructor may go on.
CloseDone ==
  /\ pc[Reader] = "closing" /\ doomed = {}
  /\ closed' = TRUE
  /\ Goto(Reader, "ended")
  /\ UNCHANGED <<link, requests, cancelling, cur, next, queueCapacity, state, owner>>

----------------------------------------------------------------------------
(* Cancellation *)

\* The job is asked to stop; a registered forwarder starts on that thread.
RequestStop(r) ==
  /\ r \in Cancellable \ stop
  /\ pc[r] # "new" /\ r \notin completed
  /\ stop' = stop \cup {r}
  /\ forward' = [forward EXCEPT ![r] = IF @ = "registered" THEN "calling" ELSE @]
  /\ UNCHANGED <<link, requests, threads, life>>

SendCancel(r) ==
  /\ forward[r] = "calling"
  /\ inbox' = Sent("coordinator", <<[type |-> "cancel", id |-> r]>>)
  /\ forward' = [forward EXCEPT ![r] = "called"]
  /\ UNCHANGED <<pipe, writeClosed, requests, stop, threads, life>>

----------------------------------------------------------------------------
SenderStep(t) ==
  \/ Transfer(t) \/ Register(t)
  \/ FailPending(t) \/ Fail(t) \/ Launch(t) \/ TakeNext(t)

ReaderStep ==
  \/ OnHandshake \/ OnReply \/ OnUnreadable \/ Answer \/ OnClosed \/ CloseDone
  \/ \E r \in Requests : FailDoomed(r)

OwnerStep == ConnectReturns \/ Destroyed

ChannelNext ==
  \/ \E t \in Threads : SenderStep(t)
  \/ ReaderStep
  \/ OwnerStep \/ Connect \/ HandshakeTimeout \/ Destroy
  \/ \E r \in Requests : Submit(r) \/ RequestStop(r) \/ SendCancel(r)
=============================================================================
