---------------------------- MODULE RemoteProofs ----------------------------
(***************************************************************************)
(* A channel and a worker for any number of requests, runners and slots:   *)
(* each Completion is used once, a cancel never overtakes its request, a   *)
(* slot always comes back, a reply finds its request, and the destructor   *)
(* leaves nothing behind.                                                  *)
(***************************************************************************)
EXTENDS Remote, FiniteSetTheorems, TLAPS

----------------------------------------------------------------------------
(* The inductive invariant *)

Frame ==
  [type : {"hello", "ack", "reject"}] \cup [type : {"request", "cancel"}, id : Requests]
  \cup [type : {"reply"}, id : Requests, busy : BOOLEAN, readable : BOOLEAN]

LinkType ==
  /\ pipe \in BOOLEAN
  /\ inbox \in [Sides -> Seq(Frame)]
  /\ writeClosed \subseteq Sides

ChannelType ==
  /\ pending \subseteq Requests /\ doomed \subseteq Requests
  /\ completed \subseteq Requests /\ stop \subseteq Requests
  /\ queued \in Seq(Requests)
  /\ forward \in [Requests -> {"none", "registered", "calling", "called"}]
  /\ pc \in [Threads -> {"new", "idle", "out", "transfer", "register", "failPending", "fail",
                         "launch", "takeNext", "answer", "closing", "ended"}]
  /\ cur \in [Threads -> Requests \cup {NoRequest}]
  /\ next \in [Threads -> Requests \cup {NoRequest}]
  /\ queueCapacity \in Nat
  /\ state \in {"kIdle", "kHandshaking", "kConnected", "kClosed"}
  /\ closed \in BOOLEAN
  /\ owner \in {"new", "connecting", "ready", "closing", "destroyed"}

WorkerType ==
  /\ handshaken \in BOOLEAN /\ hostClosed \in BOOLEAN
  /\ admitted \in Nat
  /\ workQueue \in Seq(Requests)
  /\ active \subseteq Requests /\ stopped \subseteq Requests
  /\ runner \in [Runners -> {"wait", "run", "release", "exited"}]
  /\ work \in [Runners -> Requests \cup {NoRequest}]
  /\ host \in {"serving", "closing", "joining", "returned", "dead"}

\* What each thread has in hand at each place.
InHand ==
  /\ \A t \in Threads :
       /\ cur[t] # NoRequest
            <=> pc[t] \in {"transfer", "register", "failPending", "fail", "answer"}
       /\ next[t] # NoRequest => pc[t] \in {"fail", "answer", "launch"}
  /\ \A r \in Requests : pc[r] \notin {"idle", "answer", "closing", "ended"}
  /\ pc[Reader] \notin {"new", "out"}

\* Where the Completion of a request may be.
InQueue(r) == \E i \in 1..Len(queued) : queued[i] = r
Awaits(r) == \E t \in Threads : next[t] = r
Ending(r) == \E t \in Threads : cur[t] = r /\ pc[t] \in {"fail", "answer"}

\* Each Completion is in one place, and in that place once.
OneEach ==
  /\ \A i, j \in 1..Len(queued) : queued[i] = queued[j] => i = j
  /\ \A t, u \in Threads : next[t] = next[u] /\ next[t] # NoRequest => t = u
  /\ \A t, u \in Threads :
       /\ pc[t] \in {"fail", "answer"} /\ pc[u] \in {"fail", "answer"}
       /\ cur[t] = cur[u]
       => t = u

OnePlace ==
  \A r \in Requests :
    /\ r \in pending => r \notin doomed /\ ~InQueue(r) /\ ~Awaits(r) /\ ~Ending(r)
    /\ r \in doomed => ~InQueue(r) /\ ~Awaits(r) /\ ~Ending(r)
    /\ InQueue(r) => ~Awaits(r) /\ ~Ending(r)
    /\ Awaits(r) => ~Ending(r)
    /\ pc[r] = "new" => r \notin completed
    /\ (r \in pending \/ r \in doomed \/ InQueue(r) \/ Awaits(r) \/ Ending(r))
         <=> (pc[r] # "new" /\ r \notin completed)

\* A request is sent by one thread, after it left the queue, and nothing forwards a
\* stop before that thread has registered it.
Sending == {"transfer", "register", "failPending"}
Unsent(r) == pc[r] = "new" \/ InQueue(r) \/ Awaits(r)

OneSender ==
  /\ \A t, u \in Threads : pc[t] \in Sending /\ pc[u] \in Sending /\ cur[t] = cur[u] => t = u
  /\ \A t \in Threads : pc[t] \in Sending => ~Unsent(cur[t]) /\ forward[cur[t]] = "none"
  /\ \A r \in Requests : Unsent(r) => forward[r] = "none"

\* The request has not reached the transport.
WithSender(r) == \E t \in Threads : cur[t] = r /\ pc[t] \in {"transfer", "failPending"}
NotOut(r) == Unsent(r) \/ WithSender(r)

\* Where a request that was sent may be until its reply is read.
ToWorker(r) == OnLink("worker", "request", r) # {}
AtWorker(r) == \E i \in 1..Len(workQueue) : workQueue[i] = r
Running(r) == \E w \in Runners : work[w] = r /\ runner[w] = "run"
Replied(r) == OnLink("coordinator", "reply", r) # {}

\* A request travels once ...
OneCopy ==
  /\ \A r \in Requests :
       /\ \A i, j \in OnLink("worker", "request", r) : i = j
       /\ \A i, j \in OnLink("coordinator", "reply", r) : i = j
  /\ \A i, j \in 1..Len(workQueue) : workQueue[i] = workQueue[j] => i = j
  /\ \A v, w \in Runners :
       runner[v] = "run" /\ runner[w] = "run" /\ work[v] = work[w] => v = w

\* ... from stage to stage, and it is pending as long as its reply can still be sent or
\* read.
OneStage ==
  \A r \in Requests :
    /\ NotOut(r) => ~ToWorker(r) /\ ~AtWorker(r) /\ ~Running(r) /\ ~Replied(r)
    /\ ToWorker(r) => ~AtWorker(r) /\ ~Running(r) /\ ~Replied(r)
    /\ AtWorker(r) => ~Running(r) /\ ~Replied(r)
    /\ Running(r) => ~Replied(r)
    /\ (WithSender(r) \/ ToWorker(r) \/ AtWorker(r) \/ Running(r)) /\ "worker" \notin writeClosed
         => r \in pending
    /\ Replied(r) => r \in pending

\* A cancel is on the way only after its request.
CancelBehind ==
  \A r \in Requests :
    /\ OnLink("worker", "cancel", r) # {} => ~NotOut(r)
    /\ \A i \in OnLink("worker", "cancel", r), j \in OnLink("worker", "request", r) : j < i

\* The end of the connection and of the channel.
Closing ==
  /\ pc[Reader] \in {"closing", "ended"} => state # "kConnected" /\ pending = {} /\ queued = <<>>
  /\ pc[Reader] # "closing" => doomed = {}
  /\ closed => pc[Reader] = "ended"
  /\ owner \in {"closing", "destroyed"} => \A r \in Requests : pc[r] \in {"new", "out"}
  /\ owner = "destroyed" => closed
  /\ \A r \in Requests : forward[r] \in {"registered", "calling"} =>
       r \in pending \/ r \in doomed \/ (pc[Reader] = "answer" /\ cur[Reader] = r)

\* The worker has at most as many requests as runners.
BusyRunners == {w \in Runners : work[w] # NoRequest}

Admission ==
  /\ \A w \in Runners : work[w] # NoRequest <=> runner[w] \in {"run", "release"}
  /\ admitted <= Cardinality(Runners)
  /\ Len(workQueue) + Cardinality(BusyRunners) <= admitted

RemoteType == LinkType /\ ChannelType /\ WorkerType /\ InHand

RemoteInv ==
  /\ RemoteType /\ OneEach /\ OnePlace /\ OneSender /\ OneCopy /\ OneStage
  /\ CancelBehind /\ Closing /\ Admission /\ SlotComesBack

----------------------------------------------------------------------------
(* Sequences and frames *)

\* Taking the first element.
LEMMA TailOf ==
  ASSUME NEW S, NEW q \in Seq(S), q # <<>>
  PROVE  /\ Tail(q) \in Seq(S) /\ Head(q) \in S /\ Head(q) = q[1]
         /\ Len(q) \in Nat \ {0} /\ Len(Tail(q)) = Len(q) - 1
         /\ \A i \in 1..Len(q) - 1 : Tail(q)[i] = q[i + 1]
  OBVIOUS

\* Adding a last element.
LEMMA AppendOf ==
  ASSUME NEW S, NEW q \in Seq(S), NEW x \in S
  PROVE  /\ Append(q, x) \in Seq(S)
         /\ Len(q) \in Nat /\ Len(Append(q, x)) = Len(q) + 1
         /\ Append(q, x)[Len(q) + 1] = x
         /\ \A i \in 1..Len(q) : Append(q, x)[i] = q[i]
         /\ q \o <<x>> = Append(q, x)
  OBVIOUS

\* The two inboxes after a send.
LEMMA AfterSend ==
  ASSUME LinkType, NEW f \in Frame
  PROVE  /\ Sent("coordinator", <<f>>) \in [Sides -> Seq(Frame)]
         /\ Sent("worker", <<f>>) \in [Sides -> Seq(Frame)]
         /\ Sent("coordinator", <<f>>)["coordinator"] = inbox["coordinator"]
         /\ Sent("worker", <<f>>)["worker"] = inbox["worker"]
         /\ Sent("coordinator", <<f>>)["worker"] =
              IF "coordinator" \in writeClosed THEN inbox["worker"] ELSE Append(inbox["worker"], f)
         /\ Sent("worker", <<f>>)["coordinator"] =
              IF "worker" \in writeClosed THEN inbox["coordinator"]
              ELSE Append(inbox["coordinator"], f)
<1>1. inbox["coordinator"] \in Seq(Frame) /\ inbox["worker"] \in Seq(Frame)
  BY DEF LinkType, Sides
<1>2. /\ Append(inbox["coordinator"], f) \in Seq(Frame)
      /\ Append(inbox["worker"], f) \in Seq(Frame)
      /\ inbox["coordinator"] \o <<f>> = Append(inbox["coordinator"], f)
      /\ inbox["worker"] \o <<f>> = Append(inbox["worker"], f)
  BY <1>1, AppendOf
<1> QED
  BY <1>1, <1>2 DEF LinkType, Sent, Sides, Peer, CanSend

\* The two inboxes after a frame was read and not answered.
LEMMA AfterTake ==
  ASSUME LinkType
  PROVE  /\ inbox["coordinator"] # <<>> =>
              /\ Taken("coordinator", <<>>) \in [Sides -> Seq(Frame)]
              /\ Taken("coordinator", <<>>)["coordinator"] = Tail(inbox["coordinator"])
              /\ Taken("coordinator", <<>>)["worker"] = inbox["worker"]
         /\ inbox["worker"] # <<>> =>
              /\ Taken("worker", <<>>) \in [Sides -> Seq(Frame)]
              /\ Taken("worker", <<>>)["worker"] = Tail(inbox["worker"])
              /\ Taken("worker", <<>>)["coordinator"] = inbox["coordinator"]
<1>1. inbox["coordinator"] \in Seq(Frame) /\ inbox["worker"] \in Seq(Frame)
  BY DEF LinkType, Sides
<1>2. /\ inbox["coordinator"] # <<>> => Tail(inbox["coordinator"]) \in Seq(Frame)
      /\ inbox["worker"] # <<>> => Tail(inbox["worker"]) \in Seq(Frame)
  BY <1>1, TailOf
<1>3. /\ inbox["coordinator"] \o <<>> = inbox["coordinator"]
      /\ inbox["worker"] \o <<>> = inbox["worker"]
  BY <1>1
<1> QED
  BY <1>1, <1>2, <1>3 DEF LinkType, Taken, Sent, Sides, Peer, CanSend

\* The two inboxes after the worker read a frame and answered it.
LEMMA AfterAnswer ==
  ASSUME LinkType, NEW f \in Frame, inbox["worker"] # <<>>
  PROVE  /\ Taken("worker", <<f>>) \in [Sides -> Seq(Frame)]
         /\ Taken("worker", <<f>>)["worker"] = Tail(inbox["worker"])
         /\ Taken("worker", <<f>>)["coordinator"] =
              IF "worker" \in writeClosed THEN inbox["coordinator"]
              ELSE Append(inbox["coordinator"], f)
<1>1. inbox["worker"] \in Seq(Frame)
  BY DEF LinkType, Sides
<1>2. Tail(inbox["worker"]) \in Seq(Frame)
  BY <1>1, TailOf
<1> QED
  BY <1>2, AfterSend DEF Taken, Sides

\* The frames of a type that name a request, with one more frame on the way.
LEMMA LinkAppend ==
  ASSUME LinkType, NEW s \in Sides, NEW f \in Frame, inbox'[s] = Append(inbox[s], f),
         NEW type, NEW r
  PROVE  OnLink(s, type, r)' =
           OnLink(s, type, r)
           \cup (IF f.type = type /\ f.id = r THEN {Len(inbox[s]) + 1} ELSE {})
<1>1. inbox[s] \in Seq(Frame)
  BY DEF LinkType
<1> QED
  BY <1>1, AppendOf DEF OnLink

\* ... and with the first frame read.
LEMMA LinkTail ==
  ASSUME LinkType, NEW s \in Sides, inbox[s] # <<>>, inbox'[s] = Tail(inbox[s]),
         NEW type, NEW r
  PROVE  /\ \A i : i \in OnLink(s, type, r)' <=> i \in Nat \ {0} /\ i + 1 \in OnLink(s, type, r)
         /\ 1 \in OnLink(s, type, r)
              <=> Head(inbox[s]).type = type /\ Head(inbox[s]).id = r
<1>1. inbox[s] \in Seq(Frame)
  BY DEF LinkType
<1>2. /\ Head(inbox[s]) = inbox[s][1]
      /\ Len(inbox[s]) \in Nat \ {0} /\ Len(Tail(inbox[s])) = Len(inbox[s]) - 1
      /\ \A i \in 1..Len(inbox[s]) - 1 : Tail(inbox[s])[i] = inbox[s][i + 1]
  BY <1>1, TailOf
<1>3. 1 \in OnLink(s, type, r) <=> Head(inbox[s]).type = type /\ Head(inbox[s]).id = r
  BY <1>2 DEF OnLink
<1>4. ASSUME NEW i
      PROVE  i \in OnLink(s, type, r)' <=> i \in Nat \ {0} /\ i + 1 \in OnLink(s, type, r)
  BY <1>2 DEF OnLink
<1> QED
  BY <1>3, <1>4

\* What is on the way is at a position of the inbox.
LEMMA LinkIndex ==
  ASSUME LinkType, NEW s \in Sides, NEW type, NEW r
  PROVE  /\ Len(inbox[s]) \in Nat
         /\ \A i \in OnLink(s, type, r) : i \in Nat \ {0} /\ i <= Len(inbox[s])
<1>1. inbox[s] \in Seq(Frame)
  BY DEF LinkType
<1> QED
  BY <1>1 DEF OnLink

\* The first frame of an inbox.
LEMMA HeadFrame ==
  ASSUME LinkType, NEW s \in Sides, inbox[s] # <<>>
  PROVE  /\ Head(inbox[s]) \in Frame
         /\ Head(inbox[s]).type \in {"request", "cancel", "reply"} => Head(inbox[s]).id \in Requests
<1>1. inbox[s] \in Seq(Frame)
  BY DEF LinkType
<1>2. Head(inbox[s]) \in Frame
  BY <1>1, TailOf
<1> QED
  BY <1>2 DEF Frame

\* The frames that are sent.
LEMMA Frames ==
  /\ [type |-> "hello"] \in Frame /\ [type |-> "ack"] \in Frame /\ [type |-> "reject"] \in Frame
  /\ \A r \in Requests :
       /\ [type |-> "request", id |-> r] \in Frame
       /\ [type |-> "cancel", id |-> r] \in Frame
       /\ \A b, c \in BOOLEAN : ReplyFrame(r, b, c) \in Frame
  BY DEF Frame, ReplyFrame

----------------------------------------------------------------------------
(* Types *)

\* Every frame that is sent is a frame.
LEMMA LinkTypeStep ==
  ASSUME RemoteInv, [Next]_vars
  PROVE  LinkType'
<1> USE ChannelAssumption DEF RemoteInv, RemoteType
<1>1. ASSUME NEW t \in Threads, Transfer(t) PROVE LinkType'
  <2>1. cur[t] \in Requests
    BY <1>1 DEF Transfer, InHand, ChannelType
  <2> QED
    BY <1>1, <2>1, AfterSend, Frames DEF Transfer, LinkType
<1>2. ASSUME NEW t \in Threads, Register(t) PROVE LinkType'
  <2>1. cur[t] \in Requests
    BY <1>2 DEF Register, InHand, ChannelType
  <2> QED
    BY <1>2, <2>1, AfterSend, Frames DEF Register, LinkType
<1>3. ASSUME OnHandshake PROVE LinkType'
  BY <1>3, AfterTake DEF OnHandshake, LinkType, Arrives, Closed, Sides
<1>4. ASSUME OnReply PROVE LinkType'
  BY <1>4, AfterTake DEF OnReply, LinkType, Arrives
<1>u. ASSUME OnUnreadable PROVE LinkType'
  BY <1>u, AfterTake DEF OnUnreadable, LinkType, Arrives, Closed, Sides
<1>5. ASSUME OnClosed PROVE LinkType'
  BY <1>5 DEF OnClosed, LinkType, link, Sides, Closed
<1>6. ASSUME Connect PROVE LinkType'
  BY <1>6, AfterSend, Frames DEF Connect, LinkType
<1>7. ASSUME HandshakeTimeout PROVE LinkType'
  BY <1>7 DEF HandshakeTimeout, LinkType, link, Sides, Closed
<1>8. ASSUME Destroy PROVE LinkType'
  BY <1>8 DEF Destroy, LinkType, link, Sides, Closed
<1>9. ASSUME NEW r \in Requests, SendCancel(r) PROVE LinkType'
  BY <1>9, AfterSend, Frames DEF SendCancel, LinkType
<1>10. ASSUME \/ (\E t \in Threads : FailPending(t) \/ Fail(t) \/ Launch(t) \/ TakeNext(t))
              \/ Answer \/ CloseDone \/ ConnectReturns \/ Destroyed
              \/ (\E r \in Requests : FailDoomed(r) \/ Submit(r) \/ RequestStop(r))
      PROVE  LinkType'
  BY <1>10
     DEF FailPending, Fail, Launch, TakeNext, Answer, CloseDone, FailDoomed, ConnectReturns,
         Destroyed, Submit, RequestStop, Send, LinkType, link
<1>11. ASSUME OnHello PROVE LinkType'
  BY <1>11, AfterAnswer, Frames DEF OnHello, LinkType, Arrives, Closed, Sides
<1>12. ASSUME OnRequest PROVE LinkType'
  <2>1. Head(inbox["worker"]).id \in Requests
    BY <1>12, HeadFrame DEF OnRequest, Arrives, Sides
  <2> QED
    BY <1>12, <2>1, AfterTake, AfterAnswer, Frames DEF OnRequest, LinkType, Arrives
<1>13. ASSUME OnCancel PROVE LinkType'
  BY <1>13, AfterTake DEF OnCancel, LinkType, Arrives
<1>14. ASSUME OnWorkerClosed PROVE LinkType'
  BY <1>14 DEF OnWorkerClosed, LinkType, link, Sides, Closed
<1>15. ASSUME NEW w \in Runners, Reply(w) PROVE LinkType'
  <2>1. work[w] \in Requests
    BY <1>15 DEF Reply, Admission, WorkerType
  <2> QED
    BY <1>15, <2>1, AfterSend, Frames DEF Reply, LinkType
<1>16. ASSUME NEW b \in BOOLEAN, ServeEnds(b) PROVE LinkType'
  BY <1>16 DEF ServeEnds, LinkType, link, Sides, Closed
<1>17. ASSUME \/ (\E w \in Runners : TakeWork(w) \/ ReleaseWork(w) \/ RunnerExits(w))
              \/ StopWork \/ Joined
      PROVE  LinkType'
  BY <1>17 DEF TakeWork, ReleaseWork, RunnerExits, StopWork, Joined, LinkType, link
<1>18. ASSUME Crash PROVE LinkType'
  BY <1>18 DEF Crash, LinkType, Sides
<1>19. CASE UNCHANGED vars
  BY <1>19 DEF vars, link, LinkType
<1> QED
  BY <1>1, <1>2, <1>3, <1>4, <1>5, <1>u, <1>6, <1>7, <1>8, <1>9, <1>10, <1>11, <1>12, <1>13, <1>14,
     <1>15, <1>16, <1>17, <1>18, <1>19
     DEF Next, ChannelNext, SenderStep, ReaderStep, OwnerStep, WorkerNext, WorkerReads,
         RunnerStep, ServeStep

\* takeQueued() takes the first queued request, if there is one.
LEMMA TakeQueuedType ==
  ASSUME ChannelType, NEW t \in Threads, TakeQueued(t)
  PROVE  queued' \in Seq(Requests) /\ next' \in [Threads -> Requests \cup {NoRequest}]
<1>1. queued # <<>> => Head(queued) \in Requests /\ Tail(queued) \in Seq(Requests)
  BY TailOf DEF ChannelType
<1> QED
  BY <1>1 DEF TakeQueued, ChannelType

\* What send() does to the variables, up to its first unlock.
LEMMA SendType ==
  ASSUME ChannelType, NEW t \in Threads, NEW r \in Requests, Send(t, r)
  PROVE  /\ pending' \subseteq Requests /\ completed' \subseteq Requests
         /\ queued' \in Seq(Requests)
         /\ cur' \in [Threads -> Requests \cup {NoRequest}]
         /\ pc' \in [Threads -> {"new", "idle", "out", "transfer", "register", "failPending",
                                "fail", "launch", "takeNext", "answer", "closing", "ended"}]
         /\ UNCHANGED <<doomed, stop, forward, queueCapacity, state, closed, owner>>
<1> USE DEF ChannelType
<1>1. Append(queued, r) \in Seq(Requests)
  BY AppendOf
<1>2. pending' \subseteq Requests /\ completed' \subseteq Requests
  BY DEF Send, Complete
<1>3. queued' \in Seq(Requests)
  BY <1>1 DEF Send
<1>4. cur' \in [Threads -> Requests \cup {NoRequest}]
  BY DEF Send, Return, Drop
<1>5. pc' \in [Threads -> {"new", "idle", "out", "transfer", "register", "failPending",
                         "fail", "launch", "takeNext", "answer", "closing", "ended"}]
  BY DEF Send, Return, Goto
<1>6. UNCHANGED <<doomed, stop, forward, queueCapacity, state, closed, owner>>
  BY DEF Send, cancelling, life
<1> QED
  BY <1>2, <1>3, <1>4, <1>5, <1>6

\* The coordinator's variables keep their types.
LEMMA ChannelTypeStep ==
  ASSUME RemoteInv, [Next]_vars
  PROVE  ChannelType'
<1> USE ChannelAssumption DEF RemoteInv, RemoteType, ChannelType, InHand, Threads, Reader
<1>1. ASSUME NEW t \in Threads, Transfer(t) PROVE ChannelType'
  BY <1>1
     DEF Transfer, Goto, Drop, Return, Complete, channelVars, requests, cancelling, threads,
         life
<1>2. ASSUME NEW t \in Threads, Register(t) PROVE ChannelType'
  BY <1>2
     DEF Register, Goto, Drop, Return, Complete, channelVars, requests, cancelling, threads,
         life
<1>3. ASSUME NEW t \in Threads, FailPending(t) PROVE ChannelType'
  <2>1. queued' \in Seq(Requests) /\ next' \in [Threads -> Requests \cup {NoRequest}]
    BY <1>3, TakeQueuedType DEF FailPending
  <2> QED
    BY <1>3, <2>1 DEF FailPending, Goto, Drop, Return, cancelling, life
<1>4. ASSUME NEW t \in Threads, Fail(t) PROVE ChannelType'
  BY <1>4
     DEF Fail, Goto, Drop, Return, Complete, channelVars, requests, cancelling, threads, life
<1>5. ASSUME NEW t \in Threads, Launch(t) PROVE ChannelType'
  <2>1. CASE next[t] = NoRequest
    BY <1>5, <2>1 DEF Launch, Goto, Drop, Return, requests, cancelling, life
  <2>2. ASSUME next[t] # NoRequest, Send(t, next[t]) PROVE ChannelType'
    <3>1. next' \in [Threads -> Requests \cup {NoRequest}]
      BY <1>5 DEF Launch
    <3> QED
      BY <2>2, <3>1, SendType
  <2>3. ASSUME next[t] # NoRequest, Complete(next[t]), Goto(t, "takeNext"),
               UNCHANGED <<link, pending, queued, doomed, cancelling, cur, life>>
        PROVE  ChannelType'
    <3>1. next' \in [Threads -> Requests \cup {NoRequest}]
      BY <1>5 DEF Launch
    <3> QED
      BY <2>3, <3>1 DEF Goto, Complete, cancelling, life
  <2> QED
    BY <1>5, <2>1, <2>2, <2>3 DEF Launch
<1>6. ASSUME NEW t \in Threads, TakeNext(t) PROVE ChannelType'
  <2>1. queued' \in Seq(Requests) /\ next' \in [Threads -> Requests \cup {NoRequest}]
    BY <1>6, TakeQueuedType DEF TakeNext
  <2> QED
    BY <1>6, <2>1 DEF TakeNext, Goto, requests, cancelling, threads, life
<1>7. ASSUME OnHandshake PROVE ChannelType'
  BY <1>7
     DEF OnHandshake, Goto, Drop, Return, Complete, channelVars, requests, cancelling, threads,
         life
<1>8. ASSUME OnReply PROVE ChannelType'
  <2>1. queued' \in Seq(Requests) /\ next' \in [Threads -> Requests \cup {NoRequest}]
    BY <1>8, TakeQueuedType DEF OnReply
  <2>2. Head(inbox["coordinator"]).id \in Requests
    BY <1>8 DEF OnReply
  <2> QED
    BY <1>8, <2>1, <2>2 DEF OnReply, Goto, requests, cancelling, threads, life
<1>9. ASSUME Answer PROVE ChannelType'
  BY <1>9
     DEF Answer, Goto, Drop, Return, Complete, channelVars, requests, cancelling, threads, life
<1>10. ASSUME OnClosed PROVE ChannelType'
  <2>1. Elements(queued) \subseteq Requests /\ <<>> \in Seq(Requests)
    BY DEF Elements
  <2> QED
    BY <1>10, <2>1 DEF OnClosed, Goto, requests, cancelling, threads, life
<1>11. ASSUME CloseDone PROVE ChannelType'
  BY <1>11
     DEF CloseDone, Goto, Drop, Return, Complete, channelVars, requests, cancelling, threads,
         life
<1>12. ASSUME NEW r \in Requests, FailDoomed(r) PROVE ChannelType'
  BY <1>12
     DEF FailDoomed, Goto, Drop, Return, Complete, channelVars, requests, cancelling, threads,
         life
<1>13. ASSUME ConnectReturns PROVE ChannelType'
  BY <1>13
     DEF ConnectReturns, Goto, Drop, Return, Complete, channelVars, requests, cancelling,
         threads, life
<1>14. ASSUME Destroyed PROVE ChannelType'
  BY <1>14
     DEF Destroyed, Goto, Drop, Return, Complete, channelVars, requests, cancelling, threads,
         life
<1>15. ASSUME Connect PROVE ChannelType'
  BY <1>15
     DEF Connect, Goto, Drop, Return, Complete, channelVars, requests, cancelling, threads, life
<1>16. ASSUME HandshakeTimeout PROVE ChannelType'
  BY <1>16
     DEF HandshakeTimeout, Goto, Drop, Return, Complete, channelVars, requests, cancelling,
         threads, life
<1>17. ASSUME Destroy PROVE ChannelType'
  BY <1>17
     DEF Destroy, Goto, Drop, Return, Complete, channelVars, requests, cancelling, threads, life
<1>18. ASSUME NEW r \in Requests, Submit(r) PROVE ChannelType'
  <2> QED
    BY <1>18, SendType DEF Submit
<1>19. ASSUME NEW r \in Requests, RequestStop(r) PROVE ChannelType'
  BY <1>19
     DEF RequestStop, Goto, Drop, Return, Complete, channelVars, requests, cancelling, threads,
         life
<1>20. ASSUME NEW r \in Requests, SendCancel(r) PROVE ChannelType'
  BY <1>20
     DEF SendCancel, Goto, Drop, Return, Complete, channelVars, requests, cancelling, threads,
         life
<1>21. CASE UNCHANGED channelVars
  BY <1>21 DEF channelVars, requests, cancelling, threads, life
<1> QED
  BY <1>1, <1>2, <1>3, <1>4, <1>5, <1>6, <1>7, <1>8, <1>9, <1>10, <1>11, <1>12, <1>13, <1>14,
     <1>15, <1>16, <1>17, <1>18, <1>19, <1>20, <1>21
     DEF Next, ChannelNext, SenderStep, ReaderStep, OwnerStep, OnUnreadable, WorkerNext,
         WorkerReads, RunnerStep, ServeStep, Crash, vars

\* A thread has a request in hand from the send to the end of its failure or answer.
LEMMA InHandStep ==
  ASSUME RemoteInv, [Next]_vars
  PROVE  InHand'
<1> USE ChannelAssumption DEF RemoteInv, RemoteType, ChannelType, InHand, Threads, Reader
<1>1. ASSUME NEW t \in Threads, Transfer(t) PROVE InHand'
  BY <1>1
     DEF Transfer, Goto, Drop, Return, Complete, TakeQueued, channelVars, requests, cancelling,
         threads, life
<1>2. ASSUME NEW t \in Threads, Register(t) PROVE InHand'
  BY <1>2
     DEF Register, Goto, Drop, Return, Complete, TakeQueued, channelVars, requests, cancelling,
         threads, life
<1>3. ASSUME NEW t \in Threads, FailPending(t) PROVE InHand'
  BY <1>3
     DEF FailPending, Goto, Drop, Return, Complete, TakeQueued, channelVars, requests,
         cancelling, threads, life
<1>4. ASSUME NEW t \in Threads, Fail(t) PROVE InHand'
  BY <1>4
     DEF Fail, Goto, Drop, Return, Complete, TakeQueued, channelVars, requests, cancelling,
         threads, life
<1>5. ASSUME NEW t \in Threads, Launch(t) PROVE InHand'
  <2>1. next[t] \in Requests \cup {NoRequest} /\ cur[t] = NoRequest /\ pc[t] = "launch"
    BY <1>5 DEF Launch
  <2> QED
    BY <1>5, <2>1 DEF Launch, Send, Complete, Goto, Drop, Return, requests, threads
<1>6. ASSUME NEW t \in Threads, TakeNext(t) PROVE InHand'
  BY <1>6
     DEF TakeNext, Goto, Drop, Return, Complete, TakeQueued, channelVars, requests, cancelling,
         threads, life
<1>7. ASSUME OnHandshake PROVE InHand'
  BY <1>7
     DEF OnHandshake, Goto, Drop, Return, Complete, TakeQueued, channelVars, requests,
         cancelling, threads, life
<1>8. ASSUME OnReply PROVE InHand'
  <2>2. Head(inbox["coordinator"]).id \in Requests
    BY <1>8 DEF OnReply
  <2> QED
    BY <1>8, <2>2 DEF OnReply, TakeQueued, Goto
<1>9. ASSUME Answer PROVE InHand'
  BY <1>9
     DEF Answer, Goto, Drop, Return, Complete, TakeQueued, channelVars, requests, cancelling,
         threads, life
<1>10. ASSUME OnClosed PROVE InHand'
  BY <1>10
     DEF OnClosed, Goto, Drop, Return, Complete, TakeQueued, channelVars, requests, cancelling,
         threads, life
<1>11. ASSUME CloseDone PROVE InHand'
  BY <1>11
     DEF CloseDone, Goto, Drop, Return, Complete, TakeQueued, channelVars, requests, cancelling,
         threads, life
<1>12. ASSUME NEW r \in Requests, FailDoomed(r) PROVE InHand'
  BY <1>12
     DEF FailDoomed, Goto, Drop, Return, Complete, TakeQueued, channelVars, requests,
         cancelling, threads, life
<1>13. ASSUME ConnectReturns PROVE InHand'
  BY <1>13
     DEF ConnectReturns, Goto, Drop, Return, Complete, TakeQueued, channelVars, requests,
         cancelling, threads, life
<1>14. ASSUME Destroyed PROVE InHand'
  BY <1>14
     DEF Destroyed, Goto, Drop, Return, Complete, TakeQueued, channelVars, requests, cancelling,
         threads, life
<1>15. ASSUME Connect PROVE InHand'
  BY <1>15
     DEF Connect, Goto, Drop, Return, Complete, TakeQueued, channelVars, requests, cancelling,
         threads, life
<1>16. ASSUME HandshakeTimeout PROVE InHand'
  BY <1>16
     DEF HandshakeTimeout, Goto, Drop, Return, Complete, TakeQueued, channelVars, requests,
         cancelling, threads, life
<1>17. ASSUME Destroy PROVE InHand'
  BY <1>17
     DEF Destroy, Goto, Drop, Return, Complete, TakeQueued, channelVars, requests, cancelling,
         threads, life
<1>18. ASSUME NEW r \in Requests, Submit(r) PROVE InHand'
  BY <1>18 DEF Submit, Send, Complete, Goto, Drop, Return, requests, threads
<1>19. ASSUME NEW r \in Requests, RequestStop(r) PROVE InHand'
  BY <1>19
     DEF RequestStop, Goto, Drop, Return, Complete, TakeQueued, channelVars, requests,
         cancelling, threads, life
<1>20. ASSUME NEW r \in Requests, SendCancel(r) PROVE InHand'
  BY <1>20
     DEF SendCancel, Goto, Drop, Return, Complete, TakeQueued, channelVars, requests,
         cancelling, threads, life
<1>21. CASE UNCHANGED channelVars
  BY <1>21 DEF channelVars, requests, cancelling, threads, life
<1> QED
  BY <1>1, <1>2, <1>3, <1>4, <1>5, <1>6, <1>7, <1>8, <1>9, <1>10, <1>11, <1>12, <1>13, <1>14,
     <1>15, <1>16, <1>17, <1>18, <1>19, <1>20, <1>21
     DEF Next, ChannelNext, SenderStep, ReaderStep, OwnerStep, OnUnreadable, WorkerNext,
         WorkerReads, RunnerStep, ServeStep, Crash, vars

\* The worker's variables keep their types, and it never has more requests than runners:
\* admitted_ counts those that wait or run, and those that stopWork() dropped.
LEMMA WorkerStepKeeps ==
  ASSUME RemoteInv, [Next]_vars
  PROVE  WorkerType' /\ Admission'
<1> USE ChannelAssumption, WorkerAssumption DEF RemoteInv, RemoteType, WorkerType
<1>1. ASSUME OnHello PROVE WorkerType' /\ Admission'
  BY <1>1 DEF OnHello, Admission, BusyRunners
<1>2. ASSUME OnRequest PROVE WorkerType' /\ Admission'
  <2>1. Head(inbox["worker"]).id \in Requests
    BY <1>2, HeadFrame DEF OnRequest, Arrives, Sides
  <2>2. /\ Append(workQueue, Head(inbox["worker"]).id) \in Seq(Requests)
        /\ Len(Append(workQueue, Head(inbox["worker"]).id)) = Len(workQueue) + 1
        /\ Len(workQueue) \in Nat
    BY <2>1, AppendOf
  <2>3. BusyRunners' = BusyRunners
    BY <1>2 DEF OnRequest, BusyRunners
  <2>4. Cardinality(Runners) \in Nat /\ Cardinality(BusyRunners) \in Nat
    BY FS_CardinalityType, FS_Subset DEF BusyRunners
  <2>5. ASSUME Admissible, admitted' = admitted + 1,
               workQueue' = Append(workQueue, Head(inbox["worker"]).id)
        PROVE  WorkerType' /\ Admission'
    <3>1. admitted' \in Nat /\ admitted' <= Cardinality(Runners)
      BY <2>4, <2>5 DEF Admissible
    <3>2. Len(workQueue') + Cardinality(BusyRunners') <= admitted'
      BY <2>2, <2>3, <2>4, <2>5 DEF Admission
    <3> QED
      BY <1>2, <2>2, <2>5, <3>1, <3>2 DEF OnRequest, Admission
  <2>6. ASSUME UNCHANGED <<admitted, workQueue>>
        PROVE  WorkerType' /\ Admission'
    BY <1>2, <2>3, <2>6 DEF OnRequest, Admission
  <2> QED
    BY <1>2, <2>5, <2>6 DEF OnRequest
<1>3. ASSUME OnCancel PROVE WorkerType' /\ Admission'
  <2>1. Elements(workQueue) \subseteq Requests
    BY DEF Elements
  <2> QED
    BY <1>3, <2>1 DEF OnCancel, Admission, BusyRunners
<1>4. ASSUME OnWorkerClosed PROVE WorkerType' /\ Admission'
  BY <1>4 DEF OnWorkerClosed, Admission, BusyRunners
<1>5. ASSUME NEW w \in Runners, TakeWork(w) PROVE WorkerType' /\ Admission'
  <2>1. /\ Head(workQueue) \in Requests /\ Tail(workQueue) \in Seq(Requests)
        /\ Len(workQueue) \in Nat \ {0} /\ Len(Tail(workQueue)) = Len(workQueue) - 1
    BY <1>5, TailOf DEF TakeWork
  <2>2. w \notin BusyRunners /\ BusyRunners' = BusyRunners \cup {w}
    BY <1>5, <2>1 DEF TakeWork, BusyRunners, Admission
  <2>3. IsFiniteSet(BusyRunners)
    BY FS_Subset DEF BusyRunners
  <2>4. Cardinality(BusyRunners') = Cardinality(BusyRunners) + 1 /\ Cardinality(BusyRunners) \in Nat
    BY <2>2, <2>3, FS_AddElement, FS_CardinalityType
  <2>5. Len(workQueue') + Cardinality(BusyRunners') <= admitted'
    BY <1>5, <2>1, <2>4 DEF TakeWork, Admission
  <2> QED
    BY <1>5, <2>1, <2>5 DEF TakeWork, Admission
<1>6. ASSUME NEW w \in Runners, Reply(w) PROVE WorkerType' /\ Admission'
  BY <1>6 DEF Reply, Admission, BusyRunners
<1>7. ASSUME NEW w \in Runners, ReleaseWork(w) PROVE WorkerType' /\ Admission'
  <2>1. w \in BusyRunners /\ BusyRunners' = BusyRunners \ {w}
    BY <1>7 DEF ReleaseWork, BusyRunners, Admission
  <2>2. IsFiniteSet(BusyRunners)
    BY FS_Subset DEF BusyRunners
  <2>3. /\ Cardinality(BusyRunners') = Cardinality(BusyRunners) - 1
        /\ Cardinality(BusyRunners) \in Nat /\ Cardinality(BusyRunners) # 0
    BY <2>1, <2>2, FS_RemoveElement, FS_CardinalityType, FS_EmptySet
  <2>4. Len(workQueue) \in Nat /\ Cardinality(Runners) \in Nat
    BY FS_CardinalityType
  <2>5. admitted' = admitted - 1 /\ admitted' \in Nat /\ admitted' <= Cardinality(Runners)
        /\ Len(workQueue') + Cardinality(BusyRunners') <= admitted'
    BY <1>7, <2>3, <2>4 DEF ReleaseWork, Admission
  <2> QED
    BY <1>7, <2>5 DEF ReleaseWork, Admission
<1>8. ASSUME NEW w \in Runners, RunnerExits(w) PROVE WorkerType' /\ Admission'
  BY <1>8 DEF RunnerExits, Admission, BusyRunners
<1>9. ASSUME NEW b \in BOOLEAN, ServeEnds(b) PROVE WorkerType' /\ Admission'
  BY <1>9 DEF ServeEnds, Admission, BusyRunners
<1>10. ASSUME StopWork PROVE WorkerType' /\ Admission'
  <2>1. Elements(workQueue) \subseteq Requests /\ <<>> \in Seq(Requests)
    BY DEF Elements
  <2>2. Len(workQueue) \in Nat /\ Len(workQueue') = 0 /\ Cardinality(BusyRunners) \in Nat
    BY <1>10, FS_CardinalityType, FS_Subset DEF BusyRunners, StopWork
  <2>3. BusyRunners' = BusyRunners
    BY <1>10 DEF StopWork, BusyRunners
  <2> QED
    BY <1>10, <2>1, <2>2, <2>3 DEF StopWork, Admission
<1>11. ASSUME Joined PROVE WorkerType' /\ Admission'
  BY <1>11 DEF Joined, Admission, BusyRunners
<1>12. ASSUME Crash PROVE WorkerType' /\ Admission'
  <2>1. BusyRunners' = {} /\ Len(workQueue') = 0 /\ <<>> \in Seq(Requests)
    BY <1>12 DEF Crash, BusyRunners
  <2>2. Cardinality(BusyRunners') = 0 /\ Cardinality(Runners) \in Nat
    BY <2>1, FS_EmptySet, FS_CardinalityType
  <2>3. admitted' = 0 /\ Admission'
    BY <1>12, <2>1, <2>2 DEF Crash, Admission
  <2>4. /\ runner' \in [Runners -> {"wait", "run", "release", "exited"}]
        /\ work' \in [Runners -> Requests \cup {NoRequest}]
    BY <1>12 DEF Crash
  <2>5. /\ handshaken' \in BOOLEAN /\ hostClosed' \in BOOLEAN /\ admitted' \in Nat
        /\ active' \subseteq Requests /\ stopped' \subseteq Requests
        /\ workQueue' \in Seq(Requests) /\ host' = "dead"
    BY <1>12, <2>1 DEF Crash
  <2> QED
    BY <2>3, <2>4, <2>5
<1>13. CASE UNCHANGED workerVars
  BY <1>13 DEF workerVars, Admission, BusyRunners
<1> QED
  BY <1>1, <1>2, <1>3, <1>4, <1>5, <1>6, <1>7, <1>8, <1>9, <1>10, <1>11, <1>12, <1>13
     DEF Next, ChannelNext, SenderStep, ReaderStep, OwnerStep, OnUnreadable, WorkerNext,
         WorkerReads, RunnerStep, ServeStep, Crash, vars


----------------------------------------------------------------------------
(* A Completion is in one place *)

\* takeQueued(): the first queued request goes to the thread that takes it.
LEMMA TakeQueuedMoves ==
  ASSUME RemoteInv, NEW t \in Threads, TakeQueued(t), next[t] = NoRequest
  PROVE  /\ \A x \in Requests : InQueue(x)' <=> InQueue(x) /\ x # next'[t]
         /\ \A x \in Requests : Awaits(x)' <=> Awaits(x) \/ x = next'[t]
         /\ next'[t] # NoRequest => next'[t] \in Requests /\ InQueue(next'[t])
         /\ \A i, j \in 1..Len(queued') : queued'[i] = queued'[j] => i = j
         /\ \A u, v \in Threads : next'[u] = next'[v] /\ next'[u] # NoRequest => u = v
<1> USE ChannelAssumption DEF RemoteInv, RemoteType, ChannelType
<1>1. CASE queued = <<>>
  <2>1. queued' = queued /\ next' = next
    BY <1>1 DEF TakeQueued
  <2> QED
    BY <2>1 DEF InQueue, Awaits, OneEach
<1>2. CASE queued # <<>>
  <2> DEFINE h == Head(queued)
  <2>1. /\ h \in Requests /\ h = queued[1]
        /\ Len(queued) \in Nat \ {0} /\ Len(Tail(queued)) = Len(queued) - 1
        /\ \A i \in 1..Len(queued) - 1 : Tail(queued)[i] = queued[i + 1]
    BY <1>2, TailOf
  <2>2. queued' = Tail(queued) /\ next' = [next EXCEPT ![t] = h]
    BY <1>2 DEF TakeQueued
  <2> HIDE DEF h
  <2>3. ASSUME NEW x \in Requests PROVE InQueue(x)' <=> InQueue(x) /\ x # h
    <3>1. ASSUME NEW i \in 1..Len(queued'), queued'[i] = x PROVE InQueue(x) /\ x # h
      <4>1. i + 1 \in 1..Len(queued) /\ queued[i + 1] = x /\ i + 1 # 1 /\ 1 \in 1..Len(queued)
        BY <2>1, <2>2, <3>1
      <4> QED
        BY <2>1, <4>1 DEF InQueue, OneEach
    <3>2. ASSUME NEW i \in 1..Len(queued), queued[i] = x, x # h PROVE InQueue(x)'
      <4>1. i - 1 \in 1..Len(queued') /\ queued'[i - 1] = x
        BY <2>1, <2>2, <3>2
      <4> QED
        BY <4>1 DEF InQueue
    <3> QED
      BY <3>1, <3>2 DEF InQueue
  <2>4. InQueue(h)
    BY <2>1 DEF InQueue
  <2>5. \A i, j \in 1..Len(queued') : queued'[i] = queued'[j] => i = j
    <3> SUFFICES ASSUME NEW i \in 1..Len(queued'), NEW j \in 1..Len(queued'),
                        queued'[i] = queued'[j]
                 PROVE  i = j
      OBVIOUS
    <3>1. i + 1 \in 1..Len(queued) /\ j + 1 \in 1..Len(queued) /\ queued[i + 1] = queued[j + 1]
      BY <2>1, <2>2
    <3>2. i + 1 = j + 1
      BY <3>1 DEF OneEach
    <3> QED
      BY <2>1, <2>2, <3>2
  <2>6. \A u \in Threads : next[u] # h
    BY <2>1, <2>4 DEF OnePlace, Awaits
  <2>7. \A u, v \in Threads : next'[u] = next'[v] /\ next'[u] # NoRequest => u = v
    BY <2>2, <2>6 DEF OneEach
  <2>8. \A x \in Requests : Awaits(x)' <=> Awaits(x) \/ x = h
    BY <2>2, <2>6 DEF Awaits
  <2> QED
    BY <2>1, <2>2, <2>3, <2>4, <2>5, <2>7, <2>8
<1> QED
  BY <1>1, <1>2

\* A step that leaves every Completion where it is.
LEMMA HoldersKept ==
  ASSUME RemoteInv, UNCHANGED <<pending, doomed, completed, queued, next>>,
         \A t \in Threads : pc'[t] \in {"fail", "answer"} <=> pc[t] \in {"fail", "answer"},
         \A t \in Threads : pc[t] \in {"fail", "answer"} => cur'[t] = cur[t],
         \A r \in Requests : pc'[r] = "new" <=> pc[r] = "new"
  PROVE  OneEach' /\ OnePlace'
<1>1. ASSUME NEW x \in Requests
      PROVE  /\ InQueue(x)' <=> InQueue(x)
             /\ Awaits(x)' <=> Awaits(x)
             /\ Ending(x)' <=> Ending(x)
  BY DEF InQueue, Awaits, Ending
<1>2. OneEach'
  BY DEF RemoteInv, OneEach
<1> QED
  BY <1>1, <1>2 DEF RemoteInv, OnePlace

\* failPending() and handleReply(): a pending request is about to end, and a queued one
\* takes its slot.
LEMMA PendingEnds ==
  ASSUME RemoteInv, NEW t \in Threads, NEW r \in pending, NEW l \in {"fail", "answer"},
         pc[t] \notin {"new", "fail", "answer"}, next[t] = NoRequest,
         pending' = pending \ {r}, cur' = [cur EXCEPT ![t] = r], pc' = [pc EXCEPT ![t] = l],
         TakeQueued(t), UNCHANGED <<completed, doomed>>
  PROVE  OneEach' /\ OnePlace'
<1> USE ChannelAssumption DEF RemoteInv, RemoteType, ChannelType
<1>1. r \in Requests /\ ~Ending(r)
  BY DEF OnePlace
<1>2. \A x \in Requests : Ending(x)' <=> Ending(x) \/ x = r
  BY DEF Ending
<1>3. \A x \in Requests : pc'[x] = "new" <=> pc[x] = "new"
  BY DEF Threads
<1>4. OneEach'
  <2>1. \A u, v \in Threads :
          pc'[u] \in {"fail", "answer"} /\ pc'[v] \in {"fail", "answer"} /\ cur'[u] = cur'[v]
            => u = v
    BY <1>1 DEF OneEach, Ending
  <2> QED
    BY <2>1, TakeQueuedMoves DEF OneEach
<1>5. OnePlace'
  BY <1>1, <1>2, <1>3, TakeQueuedMoves DEF OnePlace
<1> QED
  BY <1>4, <1>5

\* A Completion that was about to be used is used.
LEMMA EndingEnds ==
  ASSUME RemoteInv, NEW t \in Threads, pc[t] \in {"fail", "answer"},
         completed' = completed \cup {cur[t]}, cur' = [cur EXCEPT ![t] = NoRequest],
         pc' = [pc EXCEPT ![t] = "launch"], UNCHANGED <<pending, queued, doomed, next>>
  PROVE  OneEach' /\ OnePlace'
<1> USE ChannelAssumption DEF RemoteInv, RemoteType, ChannelType
<1> DEFINE r == cur[t]
<1>1. r \in Requests /\ Ending(r)
  BY DEF InHand, Ending
<1>2. \A x \in Requests : Ending(x)' <=> Ending(x) /\ x # r
  BY DEF Ending, OneEach
<1>3. \A x \in Requests : (InQueue(x)' <=> InQueue(x)) /\ (Awaits(x)' <=> Awaits(x))
  BY DEF InQueue, Awaits
<1>4. \A x \in Requests : pc'[x] = "new" <=> pc[x] = "new"
  BY DEF Threads
<1>5. OneEach'
  BY DEF OneEach
<1>6. OnePlace'
  BY <1>1, <1>2, <1>3, <1>4 DEF OnePlace
<1> QED
  BY <1>5, <1>6

\* send(): in flight, queued, or completed at once; nothing else moves.
LEMMA SendMoves ==
  ASSUME RemoteInv, NEW t \in Threads, NEW r \in Requests, Send(t, r), ~InQueue(r),
         pc[t] \notin {"fail", "answer"}
  PROVE  /\ \/ pending' = pending \cup {r} /\ UNCHANGED <<queued, completed>>
            \/ /\ UNCHANGED <<pending, completed>>
               /\ \A x \in Requests : InQueue(x)' <=> InQueue(x) \/ x = r
            \/ completed' = completed \cup {r} /\ UNCHANGED <<queued, pending>>
         /\ \A i, j \in 1..Len(queued') : queued'[i] = queued'[j] => i = j
         /\ doomed' = doomed
         /\ pc'[t] \notin {"new", "fail", "answer"}
         /\ \A u \in Threads \ {t} : pc'[u] = pc[u] /\ cur'[u] = cur[u]
<1> USE ChannelAssumption DEF RemoteInv, RemoteType, ChannelType
<1>1. /\ doomed' = doomed
      /\ pc'[t] \notin {"new", "fail", "answer"}
      /\ \A u \in Threads \ {t} : pc'[u] = pc[u] /\ cur'[u] = cur[u]
  BY DEF Send, Return, Goto, Drop
<1>2. CASE queued' = queued
  BY <1>1, <1>2 DEF Send, Complete, OneEach, InQueue
<1>3. CASE queued' = Append(queued, r)
  <2>1. /\ Len(queued) \in Nat /\ Len(queued') = Len(queued) + 1
        /\ queued'[Len(queued) + 1] = r
        /\ \A i \in 1..Len(queued) : queued'[i] = queued[i]
    BY <1>3, AppendOf
  <2>2. \A x \in Requests : InQueue(x)' <=> InQueue(x) \/ x = r
    <3>1. 1..Len(queued') = 1..Len(queued) \cup {Len(queued) + 1}
      BY <2>1
    <3> QED
      BY <2>1, <3>1 DEF InQueue
  <2>3. \A i, j \in 1..Len(queued') : queued'[i] = queued'[j] => i = j
    <3>1. 1..Len(queued') = 1..Len(queued) \cup {Len(queued) + 1}
      BY <2>1
    <3> QED
      BY <2>1, <3>1 DEF InQueue, OneEach
  <2>4. queued' # queued
    BY <2>1
  <2>5. UNCHANGED <<pending, completed>>
    BY <2>4 DEF Send
  <2> QED
    BY <1>1, <2>2, <2>3, <2>5
<1> QED
  BY <1>2, <1>3 DEF Send

\* Whichever of reply, local failure, cancel and connection loss comes first, each
\* Completion moves from one place to one other, or is used.
LEMMA HoldersStep ==
  ASSUME RemoteInv, [Next]_vars
  PROVE  OneEach' /\ OnePlace'
<1> USE ChannelAssumption DEF RemoteInv, RemoteType, ChannelType
<1>1. ASSUME NEW t \in Threads, Transfer(t) PROVE OneEach' /\ OnePlace'
  BY <1>1, HoldersKept DEF Transfer, Goto, Drop, Return, Threads, Reader, requests, threads
<1>2. ASSUME NEW t \in Threads, Register(t) PROVE OneEach' /\ OnePlace'
  BY <1>2, HoldersKept DEF Register, Goto, Drop, Return, Threads, Reader, requests, threads
<1>3. ASSUME NEW t \in Threads, FailPending(t) PROVE OneEach' /\ OnePlace'
  <2>1. next[t] = NoRequest /\ cur[t] \in Requests
    BY <1>3 DEF FailPending, InHand
  <2>2. CASE cur[t] \in pending
    <3>1. cur' = [cur EXCEPT ![t] = cur[t]]
      BY <1>3, <2>2 DEF FailPending
    <3> QED
      BY <1>3, <2>1, <2>2, <3>1, PendingEnds DEF FailPending, Goto
  <2>3. CASE cur[t] \notin pending
    BY <1>3, <2>3, HoldersKept DEF FailPending, Return, Drop, Goto, Threads, Reader
  <2> QED
    BY <2>2, <2>3
<1>4. ASSUME NEW t \in Threads, Fail(t) PROVE OneEach' /\ OnePlace'
  BY <1>4, EndingEnds DEF Fail, Complete, Drop, Goto
<1>5. ASSUME NEW t \in Threads, Launch(t) PROVE OneEach' /\ OnePlace'
  <2>1. pc[t] = "launch" /\ next' = [next EXCEPT ![t] = NoRequest]
    BY <1>5 DEF Launch
  <2>2. CASE next[t] = NoRequest
    <3>1. next' = next
      BY <2>1, <2>2
    <3> QED
      BY <1>5, <2>1, <2>2, <3>1, HoldersKept
         DEF Launch, Return, Drop, Goto, Threads, Reader, requests
  <2>3. CASE next[t] # NoRequest
    <3> DEFINE r == next[t]
    <3>1. r \in Requests /\ Awaits(r)
      BY <2>3 DEF Awaits
    <3>2. \A x \in Requests : Awaits(x)' <=> Awaits(x) /\ x # r
      BY <2>1, <2>3 DEF Awaits, OneEach
    <3>3. \A u, v \in Threads : next'[u] = next'[v] /\ next'[u] # NoRequest => u = v
      BY <2>1 DEF OneEach
    <3> HIDE DEF r
    <3>4. ASSUME Send(t, r) PROVE OneEach' /\ OnePlace'
      <4>1. ~InQueue(r)
        BY <3>1 DEF OnePlace
      <4>2. \A x \in Requests : Ending(x)' <=> Ending(x)
        BY <2>1, <3>1, <3>4, <4>1, SendMoves DEF Ending
      <4>3. \A x \in Requests : pc'[x] = "new" <=> pc[x] = "new"
        BY <2>1, <3>1, <3>4, <4>1, SendMoves DEF Threads
      <4>4. OneEach'
        BY <2>1, <3>1, <3>3, <3>4, <4>1, SendMoves DEF OneEach
      <4>5. \A x \in Requests : queued' = queued => (InQueue(x)' <=> InQueue(x))
        BY DEF InQueue
      <4>6. OnePlace'
        BY <2>1, <3>1, <3>2, <3>4, <4>1, <4>2, <4>3, <4>5, SendMoves DEF OnePlace
      <4> QED
        BY <4>4, <4>6
    <3>5. ASSUME Complete(r), Goto(t, "takeNext"), UNCHANGED <<pending, queued, doomed, cur>>
          PROVE  OneEach' /\ OnePlace'
      <4>1. \A x \in Requests : (InQueue(x)' <=> InQueue(x)) /\ (Ending(x)' <=> Ending(x))
        BY <2>1, <3>5 DEF InQueue, Ending, Goto
      <4>2. \A x \in Requests : pc'[x] = "new" <=> pc[x] = "new"
        BY <2>1, <3>5 DEF Goto, Threads
      <4>3. OneEach'
        BY <2>1, <3>3, <3>5 DEF OneEach, Goto
      <4>4. OnePlace'
        BY <3>1, <3>2, <3>5, <4>1, <4>2 DEF OnePlace, Complete
      <4> QED
        BY <4>3, <4>4
    <3> QED
      BY <1>5, <2>3, <3>4, <3>5 DEF Launch, r
  <2> QED
    BY <2>2, <2>3
<1>6. ASSUME NEW t \in Threads, TakeNext(t) PROVE OneEach' /\ OnePlace'
  <2>1. next[t] = NoRequest
    BY <1>6 DEF TakeNext, InHand
  <2>2. \A x \in Requests : Ending(x)' <=> Ending(x)
    BY <1>6 DEF TakeNext, Goto, Ending
  <2>3. \A x \in Requests : pc'[x] = "new" <=> pc[x] = "new"
    BY <1>6 DEF TakeNext, Goto, Threads
  <2>4. \A u, v \in Threads :
          pc'[u] \in {"fail", "answer"} /\ pc'[v] \in {"fail", "answer"} /\ cur'[u] = cur'[v]
            => u = v
    BY <1>6 DEF TakeNext, Goto, OneEach
  <2>5. OneEach'
    BY <1>6, <2>1, <2>4, TakeQueuedMoves DEF TakeNext, OneEach
  <2>6. OnePlace'
    BY <1>6, <2>1, <2>2, <2>3, TakeQueuedMoves DEF TakeNext, OnePlace
  <2> QED
    BY <2>5, <2>6
<1>7. ASSUME OnHandshake PROVE OneEach' /\ OnePlace'
  BY <1>7, HoldersKept DEF OnHandshake, Goto, Drop, Return, Threads, Reader, requests, threads
<1>8. ASSUME OnReply PROVE OneEach' /\ OnePlace'
  <2>1. next[Reader] = NoRequest
    BY <1>8 DEF OnReply, InHand, Threads
  <2> QED
    BY <1>8, <2>1, PendingEnds DEF OnReply, Goto, Threads
<1>9. ASSUME Answer PROVE OneEach' /\ OnePlace'
  BY <1>9, EndingEnds DEF Answer, Complete, Drop, Goto, Threads
<1>10. ASSUME OnClosed PROVE OneEach' /\ OnePlace'
  <2>1. doomed = {} /\ doomed' = pending \cup Elements(queued) /\ pending' = {} /\ queued' = <<>>
        /\ UNCHANGED <<completed, cur, next>> /\ pc' = [pc EXCEPT ![Reader] = "closing"]
        /\ pc[Reader] = "idle"
    BY <1>10 DEF OnClosed, Closing, Goto
  <2>2. \A x \in Requests : ~InQueue(x)' /\ (x \in Elements(queued) <=> InQueue(x))
    BY <2>1 DEF InQueue, Elements
  <2>3. \A x \in Requests : (Awaits(x)' <=> Awaits(x)) /\ (Ending(x)' <=> Ending(x))
    BY <2>1 DEF Awaits, Ending, Threads
  <2>4. \A x \in Requests : pc'[x] = "new" <=> pc[x] = "new"
    BY <2>1 DEF Threads, Reader
  <2>5. OneEach'
    BY <2>1 DEF OneEach, Threads
  <2>6. OnePlace'
    BY <2>1, <2>2, <2>3, <2>4 DEF OnePlace
  <2> QED
    BY <2>5, <2>6
<1>11. ASSUME CloseDone PROVE OneEach' /\ OnePlace'
  BY <1>11, HoldersKept DEF CloseDone, Goto, Drop, Return, Threads, Reader, requests, threads
<1>12. ASSUME NEW r \in Requests, FailDoomed(r) PROVE OneEach' /\ OnePlace'
  <2>1. /\ \A x \in Requests : (InQueue(x)' <=> InQueue(x)) /\ (Awaits(x)' <=> Awaits(x))
        /\ \A x \in Requests : Ending(x)' <=> Ending(x)
    BY <1>12 DEF FailDoomed, InQueue, Awaits, Ending, threads
  <2>2. OneEach'
    BY <1>12 DEF FailDoomed, OneEach, threads
  <2>3. OnePlace'
    BY <1>12, <2>1 DEF FailDoomed, Complete, OnePlace, threads
  <2> QED
    BY <2>2, <2>3
<1>13. ASSUME ConnectReturns PROVE OneEach' /\ OnePlace'
  BY <1>13, HoldersKept
     DEF ConnectReturns, Goto, Drop, Return, Threads, Reader, requests, threads
<1>14. ASSUME Destroyed PROVE OneEach' /\ OnePlace'
  BY <1>14, HoldersKept DEF Destroyed, Goto, Drop, Return, Threads, Reader, requests, threads
<1>15. ASSUME Connect PROVE OneEach' /\ OnePlace'
  BY <1>15, HoldersKept DEF Connect, Goto, Drop, Return, Threads, Reader, requests, threads
<1>16. ASSUME HandshakeTimeout PROVE OneEach' /\ OnePlace'
  BY <1>16, HoldersKept
     DEF HandshakeTimeout, Goto, Drop, Return, Threads, Reader, requests, threads
<1>17. ASSUME Destroy PROVE OneEach' /\ OnePlace'
  BY <1>17, HoldersKept DEF Destroy, Goto, Drop, Return, Threads, Reader, requests, threads
<1>18. ASSUME NEW r \in Requests, Submit(r) PROVE OneEach' /\ OnePlace'
  <2>1. pc[r] = "new" /\ Send(r, r) /\ next' = next /\ r \in Threads
    BY <1>18 DEF Submit, Threads
  <2>2. r \notin pending /\ r \notin doomed /\ ~InQueue(r) /\ ~Awaits(r) /\ ~Ending(r)
    BY <2>1 DEF OnePlace
  <2>3. \A x \in Requests : Ending(x)' <=> Ending(x)
    BY <2>1, <2>2, SendMoves DEF Ending
  <2>4. \A x \in Requests : pc'[x] = "new" <=> pc[x] = "new" /\ x # r
    BY <2>1, <2>2, SendMoves DEF Threads
  <2>5. \A x \in Requests : Awaits(x)' <=> Awaits(x)
    BY <2>1 DEF Awaits
  <2>6. \A x \in Requests : queued' = queued => (InQueue(x)' <=> InQueue(x))
    BY DEF InQueue
  <2>7. OneEach'
    BY <2>1, <2>2, SendMoves DEF OneEach
  <2>8. r \notin completed
    BY <2>1 DEF OnePlace
  <2>9. OnePlace'
    BY <2>1, <2>2, <2>3, <2>4, <2>5, <2>6, <2>8, SendMoves DEF OnePlace
  <2> QED
    BY <2>7, <2>9
<1>19. ASSUME NEW r \in Requests, RequestStop(r) PROVE OneEach' /\ OnePlace'
  BY <1>19, HoldersKept DEF RequestStop, Goto, Drop, Return, Threads, Reader, requests, threads
<1>20. ASSUME NEW r \in Requests, SendCancel(r) PROVE OneEach' /\ OnePlace'
  BY <1>20, HoldersKept DEF SendCancel, Goto, Drop, Return, Threads, Reader, requests, threads
<1>21. CASE UNCHANGED channelVars
  BY <1>21, HoldersKept DEF channelVars, requests, cancelling, threads, life
<1> QED
  BY <1>1, <1>2, <1>3, <1>4, <1>5, <1>6, <1>7, <1>8, <1>9, <1>10, <1>11, <1>12, <1>13, <1>14,
     <1>15, <1>16, <1>17, <1>18, <1>19, <1>20, <1>21
     DEF Next, ChannelNext, SenderStep, ReaderStep, OwnerStep, OnUnreadable, WorkerNext,
         WorkerReads, RunnerStep, ServeStep, Crash, vars


----------------------------------------------------------------------------
(* A request is sent once, by one thread *)

UnsentOnlyShrinks == \A x \in Requests : Unsent(x)' => Unsent(x)

\* What has left the queue does not come back to it.
LEMMA UnsentShrinks ==
  ASSUME RemoteInv, [Next]_vars
  PROVE  UnsentOnlyShrinks
<1> USE ChannelAssumption DEF RemoteInv, RemoteType, ChannelType, UnsentOnlyShrinks
<1>1. ASSUME NEW t \in Threads, Transfer(t) PROVE UnsentOnlyShrinks
  BY <1>1
     DEF Transfer, Goto, Drop, Return, Threads, Reader, requests, threads, Unsent, InQueue,
         Awaits
<1>2. ASSUME NEW t \in Threads, Register(t) PROVE UnsentOnlyShrinks
  BY <1>2
     DEF Register, Goto, Drop, Return, Threads, Reader, requests, threads, Unsent, InQueue,
         Awaits
<1>3. ASSUME NEW t \in Threads, FailPending(t) PROVE UnsentOnlyShrinks
  <2>1. next[t] = NoRequest
    BY <1>3 DEF FailPending, InHand
  <2>2. \A x \in Requests : pc'[x] = "new" => pc[x] = "new"
    BY <1>3 DEF FailPending, Goto, Return, Threads, Reader
  <2>3. CASE UNCHANGED <<queued, next>>
    BY <2>2, <2>3 DEF Unsent, InQueue, Awaits
  <2>4. CASE TakeQueued(t)
    BY <2>1, <2>2, <2>4, TakeQueuedMoves DEF Unsent
  <2> QED
    BY <1>3, <2>3, <2>4 DEF FailPending
<1>4. ASSUME NEW t \in Threads, Fail(t) PROVE UnsentOnlyShrinks
  BY <1>4
     DEF Fail, Goto, Drop, Return, Threads, Reader, requests, threads, Unsent, InQueue, Awaits
<1>5. ASSUME NEW t \in Threads, Launch(t) PROVE UnsentOnlyShrinks
  <2>1. pc[t] = "launch" /\ next' = [next EXCEPT ![t] = NoRequest]
    BY <1>5 DEF Launch
  <2>2. \A x \in Requests : Awaits(x)' => Awaits(x)
    BY <2>1 DEF Awaits
  <2>3. \A x \in Requests : pc'[x] = "new" => pc[x] = "new"
    BY <1>5 DEF Launch, Send, Goto, Return, Threads, Reader
  <2>4. CASE queued' = queued
    BY <2>2, <2>3, <2>4 DEF Unsent, InQueue
  <2>5. CASE queued' # queued
    <3>1. next[t] \in Requests /\ Awaits(next[t]) /\ Send(t, next[t]) /\ ~InQueue(next[t])
      BY <1>5, <2>5 DEF Launch, Awaits, requests, OnePlace
    <3>2. \A x \in Requests : InQueue(x)' => InQueue(x) \/ x = next[t]
      BY <2>1, <2>5, <3>1, SendMoves
    <3> QED
      BY <2>2, <2>3, <3>1, <3>2 DEF Unsent
  <2> QED
    BY <2>4, <2>5
<1>6. ASSUME NEW t \in Threads, TakeNext(t) PROVE UnsentOnlyShrinks
  <2>1. next[t] = NoRequest
    BY <1>6 DEF TakeNext, InHand
  <2>2. \A x \in Requests : pc'[x] = "new" => pc[x] = "new"
    BY <1>6 DEF TakeNext, Goto, Return, Threads, Reader
  <2> QED
    BY <1>6, <2>1, <2>2, TakeQueuedMoves DEF TakeNext, Unsent
<1>7. ASSUME OnHandshake PROVE UnsentOnlyShrinks
  BY <1>7
     DEF OnHandshake, Goto, Drop, Return, Threads, Reader, requests, threads, Unsent, InQueue,
         Awaits
<1>8. ASSUME OnReply PROVE UnsentOnlyShrinks
  <2>1. next[Reader] = NoRequest
    BY <1>8 DEF OnReply, InHand, Threads
  <2>2. \A x \in Requests : pc'[x] = "new" => pc[x] = "new"
    BY <1>8 DEF OnReply, Goto, Return, Threads, Reader
  <2> QED
    BY <1>8, <2>1, <2>2, TakeQueuedMoves DEF OnReply, Unsent, Threads
<1>9. ASSUME Answer PROVE UnsentOnlyShrinks
  BY <1>9
     DEF Answer, Goto, Drop, Return, Threads, Reader, requests, threads, Unsent, InQueue, Awaits
<1>10. ASSUME OnClosed PROVE UnsentOnlyShrinks
  BY <1>10
     DEF OnClosed, Goto, Drop, Return, Threads, Reader, requests, threads, Unsent, InQueue,
         Awaits
<1>11. ASSUME CloseDone PROVE UnsentOnlyShrinks
  BY <1>11
     DEF CloseDone, Goto, Drop, Return, Threads, Reader, requests, threads, Unsent, InQueue,
         Awaits
<1>12. ASSUME NEW r \in Requests, FailDoomed(r) PROVE UnsentOnlyShrinks
  BY <1>12
     DEF FailDoomed, Goto, Drop, Return, Threads, Reader, requests, threads, Unsent, InQueue,
         Awaits
<1>13. ASSUME ConnectReturns PROVE UnsentOnlyShrinks
  BY <1>13
     DEF ConnectReturns, Goto, Drop, Return, Threads, Reader, requests, threads, Unsent,
         InQueue, Awaits
<1>14. ASSUME Destroyed PROVE UnsentOnlyShrinks
  BY <1>14
     DEF Destroyed, Goto, Drop, Return, Threads, Reader, requests, threads, Unsent, InQueue,
         Awaits
<1>15. ASSUME Connect PROVE UnsentOnlyShrinks
  BY <1>15
     DEF Connect, Goto, Drop, Return, Threads, Reader, requests, threads, Unsent, InQueue,
         Awaits
<1>16. ASSUME HandshakeTimeout PROVE UnsentOnlyShrinks
  BY <1>16
     DEF HandshakeTimeout, Goto, Drop, Return, Threads, Reader, requests, threads, Unsent,
         InQueue, Awaits
<1>17. ASSUME Destroy PROVE UnsentOnlyShrinks
  BY <1>17
     DEF Destroy, Goto, Drop, Return, Threads, Reader, requests, threads, Unsent, InQueue,
         Awaits
<1>18. ASSUME NEW r \in Requests, Submit(r) PROVE UnsentOnlyShrinks
  <2>1. pc[r] = "new" /\ Send(r, r) /\ next' = next /\ r \in Threads
    BY <1>18 DEF Submit, Threads
  <2>2. ~InQueue(r)
    BY <2>1 DEF OnePlace
  <2>3. \A x \in Requests : Awaits(x)' => Awaits(x)
    BY <2>1 DEF Awaits
  <2>4. \A x \in Requests : pc'[x] = "new" => pc[x] = "new"
    BY <2>1, <2>2, SendMoves DEF Threads
  <2>5. \A x \in Requests : InQueue(x)' => InQueue(x) \/ x = r
    <3>1. CASE queued' = queued
      BY <3>1 DEF InQueue
    <3>2. CASE queued' # queued
      BY <2>1, <2>2, <3>2, SendMoves
    <3> QED
      BY <3>1, <3>2
  <2> QED
    BY <2>1, <2>3, <2>4, <2>5 DEF Unsent
<1>19. ASSUME NEW r \in Requests, RequestStop(r) PROVE UnsentOnlyShrinks
  BY <1>19
     DEF RequestStop, Goto, Drop, Return, Threads, Reader, requests, threads, Unsent, InQueue,
         Awaits
<1>20. ASSUME NEW r \in Requests, SendCancel(r) PROVE UnsentOnlyShrinks
  BY <1>20
     DEF SendCancel, Goto, Drop, Return, Threads, Reader, requests, threads, Unsent, InQueue,
         Awaits
<1>21. CASE UNCHANGED channelVars
  BY <1>21 DEF Unsent, InQueue, Awaits, channelVars, requests, cancelling, threads, life
<1> QED
  BY <1>1, <1>2, <1>3, <1>4, <1>5, <1>6, <1>7, <1>8, <1>9, <1>10, <1>11, <1>12, <1>13, <1>14,
     <1>15, <1>16, <1>17, <1>18, <1>19, <1>20, <1>21
     DEF Next, ChannelNext, SenderStep, ReaderStep, OwnerStep, OnUnreadable, WorkerNext,
         WorkerReads, RunnerStep, ServeStep, Crash, vars

\* A step that starts no send and registers nothing.
LEMMA SendersKept ==
  ASSUME RemoteInv, UnsentOnlyShrinks,
         \A t \in Threads : pc'[t] \in Sending => pc[t] \in Sending /\ cur'[t] = cur[t],
         \A r \in Requests : forward[r] = "none" => forward'[r] = "none"
  PROVE  OneSender'
<1>1. \A t \in Threads : pc[t] \in Sending => cur[t] \in Requests
  BY DEF RemoteInv, RemoteType, ChannelType, InHand, Sending
<1> QED
  BY <1>1 DEF RemoteInv, OneSender, UnsentOnlyShrinks

\* send(): the sender of a request that was not sent before is its first and only one.
LEMMA SenderStarts ==
  ASSUME RemoteInv, UnsentOnlyShrinks, NEW t \in Threads, NEW r \in Requests, Send(t, r),
         Unsent(r), ~InQueue(r), pc[t] \notin {"fail", "answer"}, pc[t] \notin Sending,
         next' = next \/ next' = [next EXCEPT ![t] = NoRequest],
         Awaits(r) => next[t] = r /\ next'[t] = NoRequest, pc[r] = "new" => t = r
  PROVE  OneSender'
<1> USE ChannelAssumption DEF RemoteInv, RemoteType, ChannelType
<1>1. \A u \in Threads : pc[u] \in Sending => cur[u] \in Requests /\ cur[u] # r
  BY DEF OneSender, InHand, Sending
<1>2. \A u \in Threads \ {t} : pc'[u] = pc[u] /\ cur'[u] = cur[u]
  BY SendMoves
<1>3. forward' = forward
  BY DEF Send, cancelling
<1>4. CASE pc'[t] \in Sending
  <2>1. cur'[t] = r /\ queued' = queued
    BY <1>4 DEF Send, Return, Drop, Goto, Sending
  <2>2. ~Unsent(r)'
    <3>1. pc'[r] # "new"
      BY <1>2, <1>4 DEF Threads, Sending
    <3>2. ~InQueue(r)'
      BY <2>1 DEF InQueue
    <3>3. ~Awaits(r)'
      BY DEF Awaits, OneEach
    <3> QED
      BY <3>1, <3>2, <3>3 DEF Unsent
  <2>3. forward[r] = "none"
    BY DEF OneSender
  <2>4. \A u \in Threads : pc'[u] \in Sending =>
          ~Unsent(cur[u])' /\ forward'[cur'[u]] = "none" /\ (u # t => cur'[u] # r)
    BY <1>1, <1>2, <1>3, <2>1, <2>2, <2>3 DEF OneSender, UnsentOnlyShrinks
  <2>5. \A u, v \in Threads : pc'[u] \in Sending /\ pc'[v] \in Sending /\ cur'[u] = cur'[v] => u = v
    BY <1>2, <2>1, <2>4 DEF OneSender
  <2> QED
    BY <1>3, <2>4, <2>5 DEF OneSender, UnsentOnlyShrinks
<1>5. CASE pc'[t] \notin Sending
  BY <1>2, <1>3, <1>5, SendersKept
<1> QED
  BY <1>4, <1>5

\* Every step keeps one sender for a request.
LEMMA SenderInvStep ==
  ASSUME RemoteInv, [Next]_vars
  PROVE  OneSender'
<1> USE ChannelAssumption, UnsentShrinks DEF RemoteInv, RemoteType, ChannelType
<1>1. ASSUME NEW t \in Threads, Transfer(t) PROVE OneSender'
  BY <1>1, SendersKept
     DEF Transfer, Goto, Drop, Return, Threads, Reader, cancelling, threads, Sending
<1>2. ASSUME NEW t \in Threads, Register(t) PROVE OneSender'
  <2>1. pc[t] \in Sending /\ cur[t] \in Requests
    BY <1>2 DEF Register, Sending, InHand
  <2>2. \A u \in Threads : pc'[u] \in Sending => u # t /\ pc[u] = pc'[u] /\ cur'[u] = cur[u]
    BY <1>2 DEF Register, Return, Drop, Goto, Sending
  <2>3. \A x \in Requests \ {cur[t]} : forward'[x] = forward[x]
    BY <1>2 DEF Register
  <2>4. \A u \in Threads : pc[u] \in Sending => cur[u] \in Requests
    BY DEF Sending, InHand
  <2>5. \A u \in Threads : pc'[u] \in Sending => ~Unsent(cur[u])' /\ forward'[cur'[u]] = "none"
    BY <2>1, <2>2, <2>3, <2>4 DEF OneSender, UnsentOnlyShrinks
  <2>6. \A x \in Requests : Unsent(x)' => forward'[x] = "none"
    BY <2>1, <2>3 DEF OneSender, UnsentOnlyShrinks
  <2> QED
    BY <2>2, <2>5, <2>6 DEF OneSender
<1>3. ASSUME NEW t \in Threads, FailPending(t) PROVE OneSender'
  BY <1>3, SendersKept
     DEF FailPending, Goto, Drop, Return, Threads, Reader, cancelling, threads, Sending
<1>4. ASSUME NEW t \in Threads, Fail(t) PROVE OneSender'
  BY <1>4, SendersKept
     DEF Fail, Goto, Drop, Return, Threads, Reader, cancelling, threads, Sending
<1>5. ASSUME NEW t \in Threads, Launch(t) PROVE OneSender'
  <2>1. pc[t] = "launch" /\ next' = [next EXCEPT ![t] = NoRequest] /\ pc[t] \notin Sending
    BY <1>5 DEF Launch, Sending
  <2>2. CASE next[t] # NoRequest /\ Send(t, next[t])
    <3>1. next[t] \in Requests /\ Awaits(next[t])
      BY <2>2 DEF Awaits
    <3>2. Unsent(next[t]) /\ ~InQueue(next[t]) /\ pc[next[t]] # "new"
      BY <3>1 DEF Unsent, OnePlace
    <3> QED
      BY <2>1, <2>2, <3>1, <3>2, SenderStarts
  <2>3. CASE ~(next[t] # NoRequest /\ Send(t, next[t]))
    BY <1>5, <2>1, <2>3, SendersKept DEF Launch, Return, Goto, Drop, cancelling, Sending
  <2> QED
    BY <2>2, <2>3
<1>6. ASSUME NEW t \in Threads, TakeNext(t) PROVE OneSender'
  BY <1>6, SendersKept
     DEF TakeNext, Goto, Drop, Return, Threads, Reader, cancelling, threads, Sending
<1>7. ASSUME OnHandshake PROVE OneSender'
  BY <1>7, SendersKept
     DEF OnHandshake, Goto, Drop, Return, Threads, Reader, cancelling, threads, Sending
<1>8. ASSUME OnReply PROVE OneSender'
  BY <1>8, SendersKept
     DEF OnReply, Goto, Drop, Return, Threads, Reader, cancelling, threads, Sending
<1>9. ASSUME Answer PROVE OneSender'
  BY <1>9, SendersKept
     DEF Answer, Goto, Drop, Return, Threads, Reader, cancelling, threads, Sending
<1>10. ASSUME OnClosed PROVE OneSender'
  BY <1>10, SendersKept
     DEF OnClosed, Goto, Drop, Return, Threads, Reader, cancelling, threads, Sending
<1>11. ASSUME CloseDone PROVE OneSender'
  BY <1>11, SendersKept
     DEF CloseDone, Goto, Drop, Return, Threads, Reader, cancelling, threads, Sending
<1>12. ASSUME NEW r \in Requests, FailDoomed(r) PROVE OneSender'
  BY <1>12, SendersKept
     DEF FailDoomed, Goto, Drop, Return, Threads, Reader, cancelling, threads, Sending
<1>13. ASSUME ConnectReturns PROVE OneSender'
  BY <1>13, SendersKept
     DEF ConnectReturns, Goto, Drop, Return, Threads, Reader, cancelling, threads, Sending
<1>14. ASSUME Destroyed PROVE OneSender'
  BY <1>14, SendersKept
     DEF Destroyed, Goto, Drop, Return, Threads, Reader, cancelling, threads, Sending
<1>15. ASSUME Connect PROVE OneSender'
  BY <1>15, SendersKept
     DEF Connect, Goto, Drop, Return, Threads, Reader, cancelling, threads, Sending
<1>16. ASSUME HandshakeTimeout PROVE OneSender'
  BY <1>16, SendersKept
     DEF HandshakeTimeout, Goto, Drop, Return, Threads, Reader, cancelling, threads, Sending
<1>17. ASSUME Destroy PROVE OneSender'
  BY <1>17, SendersKept
     DEF Destroy, Goto, Drop, Return, Threads, Reader, cancelling, threads, Sending
<1>18. ASSUME NEW r \in Requests, Submit(r) PROVE OneSender'
  <2>1. pc[r] = "new" /\ Send(r, r) /\ next' = next /\ r \in Threads /\ pc[r] \notin Sending
    BY <1>18 DEF Submit, Threads, Sending
  <2>2. Unsent(r) /\ ~InQueue(r) /\ ~Awaits(r)
    BY <2>1 DEF OnePlace, Unsent
  <2> QED
    BY <2>1, <2>2, SenderStarts
<1>19. ASSUME NEW r \in Requests, RequestStop(r) PROVE OneSender'
  BY <1>19, SendersKept
     DEF RequestStop, Goto, Drop, Return, Threads, Reader, cancelling, threads, Sending
<1>20. ASSUME NEW r \in Requests, SendCancel(r) PROVE OneSender'
  BY <1>20, SendersKept
     DEF SendCancel, Goto, Drop, Return, Threads, Reader, cancelling, threads, Sending
<1>21. CASE UNCHANGED channelVars
  BY <1>21, SendersKept DEF channelVars, requests, cancelling, threads, life
<1> QED
  BY <1>1, <1>2, <1>3, <1>4, <1>5, <1>6, <1>7, <1>8, <1>9, <1>10, <1>11, <1>12, <1>13, <1>14,
     <1>15, <1>16, <1>17, <1>18, <1>19, <1>20, <1>21
     DEF Next, ChannelNext, SenderStep, ReaderStep, OwnerStep, OnUnreadable, WorkerNext,
         WorkerReads, RunnerStep, ServeStep, Crash, vars

----------------------------------------------------------------------------
(* The end of the connection and of the channel *)

\* onClosed() takes everything over before closed_ is set, no send starts afterwards, and
\* every registered forwarder belongs to a request that is still held.
LEMMA ClosingStep ==
  ASSUME RemoteInv, [Next]_vars
  PROVE  Closing'
<1> USE ChannelAssumption DEF RemoteInv, RemoteType, ChannelType, Closing
<1>1. ASSUME NEW t \in Threads, Transfer(t) PROVE Closing'
  BY <1>1 DEF Transfer, Goto, Threads, Reader, requests, cancelling, life
<1>2. ASSUME NEW t \in Threads, Register(t) PROVE Closing'
  <2>1. cur[t] \in Requests
    BY <1>2 DEF Register, InHand
  <2>2. \A x \in Requests : forward'[x] = forward[x] \/ x \in pending
    BY <1>2, <2>1 DEF Register
  <2>3. \A u \in Threads : pc'[u] = pc[u] \/ (u = t /\ pc[u] = "register" /\ pc'[u] \in {"idle", "out"})
    BY <1>2 DEF Register, Return, Goto
  <2>4. \/ pc'[Reader] = pc[Reader] /\ cur'[Reader] = cur[Reader]
        \/ pc[Reader] = "register" /\ pc'[Reader] = "idle"
    BY <1>2 DEF Register, Return, Goto, Drop, Threads
  <2> QED
    BY <1>2, <2>2, <2>3, <2>4 DEF Register, requests, life, Threads, Return, Goto, Reader
<1>3. ASSUME NEW t \in Threads, FailPending(t) PROVE Closing'
  <2>1. cur[t] \in Requests /\ forward[cur[t]] = "none"
    BY <1>3 DEF FailPending, InHand, OneSender, Sending
  <2>2. pending' \subseteq pending /\ (\A x \in pending \ pending' : x = cur[t])
    BY <1>3 DEF FailPending
  <2>3. queued = <<>> => queued' = <<>>
    BY <1>3 DEF FailPending, TakeQueued
  <2>4. pc'[Reader] # pc[Reader] => pc[Reader] = "failPending" /\ pc'[Reader] \in {"idle", "fail"}
    BY <1>3 DEF FailPending, Goto, Return, Threads
  <2>5. pc[Reader] = "answer" => cur'[Reader] = cur[Reader]
    BY <1>3 DEF FailPending, Return, Drop, Threads
  <2>6. owner \in {"closing", "destroyed"} => t = Reader
    BY <1>3 DEF FailPending, Threads
  <2>7. \A x \in Requests : x # t => pc'[x] = pc[x]
    BY <1>3 DEF FailPending, Goto, Return, Threads
  <2> QED
    BY <1>3, <2>1, <2>2, <2>3, <2>4, <2>5, <2>6, <2>7 DEF FailPending, cancelling, life, Reader
<1>4. ASSUME NEW t \in Threads, Fail(t) PROVE Closing'
  BY <1>4
     DEF Fail, Goto, Drop, Return, Complete, Threads, Reader, requests, cancelling, threads,
         life
<1>5. ASSUME NEW t \in Threads, Launch(t) PROVE Closing'
  <2>1. pc[t] = "launch" /\ \A u \in Threads \ {t} : pc'[u] = pc[u] /\ cur'[u] = cur[u]
    BY <1>5 DEF Launch, Send, Return, Goto, Drop
  <2>2. UNCHANGED <<doomed, forward, state, closed, owner>> /\ pending \subseteq pending'
    BY <1>5 DEF Launch, Send, requests, cancelling, life
  <2>3. pc'[t] \notin {"closing", "ended", "answer", "launch"}
    BY <1>5 DEF Launch, Send, Return, Goto
  <2>4. state # "kConnected" => UNCHANGED <<pending, queued>>
    BY <1>5 DEF Launch, Send, requests
  <2>5. owner \in {"closing", "destroyed"} => t = Reader
    BY <2>1 DEF Threads
  <2> QED
    BY <2>1, <2>2, <2>3, <2>4, <2>5 DEF Threads, Reader
<1>6. ASSUME NEW t \in Threads, TakeNext(t) PROVE Closing'
  <2>1. queued = <<>> => queued' = <<>>
    BY <1>6 DEF TakeNext, TakeQueued
  <2> QED
    BY <1>6, <2>1 DEF TakeNext, Goto, Threads, Reader, cancelling, life
<1>7. ASSUME OnHandshake PROVE Closing'
  BY <1>7
     DEF OnHandshake, Goto, Drop, Return, Complete, Threads, Reader, requests, cancelling,
         threads, life
<1>8. ASSUME OnReply PROVE Closing'
  <2>1. queued = <<>> => queued' = <<>>
    BY <1>8 DEF OnReply, TakeQueued
  <2> QED
    BY <1>8, <2>1 DEF OnReply, Goto, Threads, Reader, cancelling, life
<1>9. ASSUME Answer PROVE Closing'
  BY <1>9
     DEF Answer, Goto, Drop, Return, Complete, Threads, Reader, requests, cancelling, threads,
         life
<1>10. ASSUME OnClosed PROVE Closing'
  <2>1. Elements(queued) \subseteq Requests
    BY DEF Elements
  <2> QED
    BY <1>10, <2>1 DEF OnClosed, Goto, Threads, Reader, cancelling
<1>11. ASSUME CloseDone PROVE Closing'
  BY <1>11
     DEF CloseDone, Goto, Drop, Return, Complete, Threads, Reader, requests, cancelling,
         threads, life
<1>12. ASSUME NEW r \in Requests, FailDoomed(r) PROVE Closing'
  BY <1>12
     DEF FailDoomed, Goto, Drop, Return, Complete, Threads, Reader, requests, cancelling,
         threads, life
<1>13. ASSUME ConnectReturns PROVE Closing'
  BY <1>13
     DEF ConnectReturns, Goto, Drop, Return, Complete, Threads, Reader, requests, cancelling,
         threads, life
<1>14. ASSUME Destroyed PROVE Closing'
  BY <1>14
     DEF Destroyed, Goto, Drop, Return, Complete, Threads, Reader, requests, cancelling,
         threads, life
<1>15. ASSUME Connect PROVE Closing'
  BY <1>15
     DEF Connect, Goto, Drop, Return, Complete, Threads, Reader, requests, cancelling, threads,
         life
<1>16. ASSUME HandshakeTimeout PROVE Closing'
  BY <1>16
     DEF HandshakeTimeout, Goto, Drop, Return, Complete, Threads, Reader, requests, cancelling,
         threads, life
<1>17. ASSUME Destroy PROVE Closing'
  BY <1>17
     DEF Destroy, Goto, Drop, Return, Complete, Threads, Reader, requests, cancelling, threads,
         life
<1>18. ASSUME NEW r \in Requests, Submit(r) PROVE Closing'
  <2>1. pc[r] = "new" /\ owner = "ready" /\ \A u \in Threads \ {r} : pc'[u] = pc[u] /\ cur'[u] = cur[u]
    BY <1>18 DEF Submit, Send, Return, Goto, Drop
  <2>2. UNCHANGED <<doomed, forward, state, closed, owner>> /\ pending \subseteq pending'
    BY <1>18 DEF Submit, Send, cancelling, life
  <2>3. state # "kConnected" => UNCHANGED <<pending, queued>>
    BY <1>18 DEF Submit, Send
  <2> QED
    BY <2>1, <2>2, <2>3 DEF Threads, Reader
<1>19. ASSUME NEW r \in Requests, RequestStop(r) PROVE Closing'
  BY <1>19
     DEF RequestStop, Goto, Drop, Return, Complete, Threads, Reader, requests, cancelling,
         threads, life
<1>20. ASSUME NEW r \in Requests, SendCancel(r) PROVE Closing'
  BY <1>20
     DEF SendCancel, Goto, Drop, Return, Complete, Threads, Reader, requests, cancelling,
         threads, life
<1>21. CASE UNCHANGED channelVars
  BY <1>21 DEF channelVars, requests, cancelling, threads, life
<1> QED
  BY <1>1, <1>2, <1>3, <1>4, <1>5, <1>6, <1>7, <1>8, <1>9, <1>10, <1>11, <1>12, <1>13, <1>14,
     <1>15, <1>16, <1>17, <1>18, <1>19, <1>20, <1>21
     DEF Next, ChannelNext, SenderStep, ReaderStep, OwnerStep, OnUnreadable, WorkerNext,
         WorkerReads, RunnerStep, ServeStep, Crash, vars


----------------------------------------------------------------------------
(* The journey of a request *)

\* The frames of a type that are on the way to a side stay on the way.
KeepsFrames(s, type) ==
  \A r \in Requests :
    /\ OnLink(s, type, r)' # {} <=> OnLink(s, type, r) # {}
    /\ (\A i, j \in OnLink(s, type, r) : i = j) => (\A i, j \in OnLink(s, type, r)' : i = j)

\* Nothing happens to the inbox.
LEMMA SameInbox ==
  ASSUME NEW s, NEW type, inbox'[s] = inbox[s]
  PROVE  KeepsFrames(s, type)
  BY DEF KeepsFrames, OnLink

\* A frame of another type is sent.
LEMMA OtherSent ==
  ASSUME LinkType, NEW s \in Sides, NEW f \in Frame, NEW type, f.type # type,
         inbox'[s] = Append(inbox[s], f)
  PROVE  KeepsFrames(s, type) /\ \A r : OnLink(s, type, r)' = OnLink(s, type, r)
<1>1. ASSUME NEW r PROVE OnLink(s, type, r)' = OnLink(s, type, r)
  <2>1. OnLink(s, type, r)' =
          OnLink(s, type, r)
          \cup (IF f.type = type /\ f.id = r THEN {Len(inbox[s]) + 1} ELSE {})
    BY LinkAppend
  <2> QED
    BY <2>1
<1> QED
  BY <1>1 DEF KeepsFrames

\* A frame that does not name the request is read.
LEMMA OthersStay ==
  ASSUME LinkType, NEW s \in Sides, NEW type, NEW r, inbox[s] # <<>>, inbox'[s] = Tail(inbox[s]),
         ~(Head(inbox[s]).type = type /\ Head(inbox[s]).id = r)
  PROVE  /\ OnLink(s, type, r)' # {} <=> OnLink(s, type, r) # {}
         /\ (\A i, j \in OnLink(s, type, r) : i = j) => (\A i, j \in OnLink(s, type, r)' : i = j)
<1>1. /\ \A i : i \in OnLink(s, type, r)' <=> i \in Nat \ {0} /\ i + 1 \in OnLink(s, type, r)
      /\ 1 \notin OnLink(s, type, r)
  BY LinkTail
<1>2. \A i \in OnLink(s, type, r) : i \in Nat \ {0}
  BY LinkIndex
<1>3. OnLink(s, type, r)' # {} => OnLink(s, type, r) # {}
  BY <1>1
<1>4. ASSUME NEW i \in OnLink(s, type, r) PROVE i - 1 \in OnLink(s, type, r)'
  <2>1. i \in Nat \ {0} /\ i # 1
    BY <1>1, <1>2
  <2>2. i - 1 \in Nat \ {0} /\ (i - 1) + 1 = i
    BY <2>1
  <2> QED
    BY <1>1, <2>2
<1>5. ASSUME \A i, j \in OnLink(s, type, r) : i = j,
             NEW i \in OnLink(s, type, r)', NEW j \in OnLink(s, type, r)'
      PROVE  i = j
  <2>1. i \in Nat /\ j \in Nat /\ i + 1 = j + 1
    BY <1>1, <1>5
  <2> QED
    BY <2>1
<1> QED
  BY <1>3, <1>4, <1>5

\* A frame of another type is read.
LEMMA OtherRead ==
  ASSUME LinkType, NEW s \in Sides, NEW type, inbox[s] # <<>>, inbox'[s] = Tail(inbox[s]),
         Head(inbox[s]).type # type
  PROVE  KeepsFrames(s, type)
  BY OthersStay DEF KeepsFrames

\* The only frame that names the request is read.
LEMMA LastRead ==
  ASSUME LinkType, NEW s \in Sides, NEW type, NEW r, inbox[s] # <<>>, inbox'[s] = Tail(inbox[s]),
         Head(inbox[s]).type = type, Head(inbox[s]).id = r,
         \A i, j \in OnLink(s, type, r) : i = j
  PROVE  OnLink(s, type, r) # {} /\ OnLink(s, type, r)' = {}
<1>1. /\ \A i : i \in OnLink(s, type, r)' <=> i \in Nat \ {0} /\ i + 1 \in OnLink(s, type, r)
      /\ 1 \in OnLink(s, type, r)
  BY LinkTail
<1>2. ASSUME NEW i \in OnLink(s, type, r)' PROVE FALSE
  <2>1. i \in Nat \ {0} /\ i + 1 = 1
    BY <1>1
  <2> QED
    BY <2>1
<1> QED
  BY <1>1, <1>2

\* A request stays at its stage.
SameStages ==
  \A x \in Requests :
    /\ ToWorker(x)' <=> ToWorker(x)
    /\ AtWorker(x)' <=> AtWorker(x)
    /\ Running(x)' <=> Running(x)
    /\ Replied(x)' <=> Replied(x)

LEMMA QuietLink ==
  ASSUME RemoteInv, workQueue' = workQueue,
         KeepsFrames("worker", "request"), KeepsFrames("coordinator", "reply"),
         \A w \in Runners : runner'[w] = "run" <=> runner[w] = "run",
         \A w \in Runners : runner[w] = "run" => work'[w] = work[w]
  PROVE  OneCopy' /\ SameStages
<1>1. OneCopy'
  BY DEF RemoteInv, OneCopy, KeepsFrames
<1>2. SameStages
  BY DEF SameStages, ToWorker, AtWorker, Running, Replied, KeepsFrames
<1> QED
  BY <1>1, <1>2

\* How requests come to their senders and leave them.
SenderFrame ==
  \A x \in Requests :
    /\ WithSender(x)' => WithSender(x) \/ (Unsent(x) /\ x \in pending')
    /\ x \in pending' /\ x \notin pending => WithSender(x)'
    /\ x \in pending' /\ WithSender(x) => WithSender(x)' \/ ToWorker(x)'

\* A request comes to a sender when it becomes pending, and leaves it for the transport
\* or because it failed.
LEMMA SenderFrameStep ==
  ASSUME RemoteInv, [Next]_vars
  PROVE  SenderFrame
<1> USE ChannelAssumption DEF RemoteInv, RemoteType, ChannelType
<1>1. ASSUME NEW t \in Threads, Transfer(t) PROVE SenderFrame
  <2>1. PICK r \in Requests : r = cur[t]
    BY <1>1 DEF Transfer, InHand
  <2>2. pending' = pending /\ cur' = cur /\ \A u \in Threads \ {t} : pc'[u] = pc[u]
    BY <1>1 DEF Transfer, requests, Goto
  <2>3. \A x \in Requests : WithSender(x)' => WithSender(x)
    BY <1>1, <2>2 DEF Transfer, Goto, WithSender
  <2>4. CASE inbox' = Sent("coordinator", <<[type |-> "request", id |-> r]>>) /\ CanSend("coordinator")
    <3>1. inbox'["worker"] = Append(inbox["worker"], [type |-> "request", id |-> r])
      BY <2>1, <2>4, AfterSend, Frames DEF CanSend
    <3>2. ToWorker(r)'
      <4>1. PICK f \in Frame : f = [type |-> "request", id |-> r]
        BY Frames
      <4>2. OnLink("worker", "request", r)' =
              OnLink("worker", "request", r) \cup
              (IF f.type = "request" /\ f.id = r THEN {Len(inbox["worker"]) + 1} ELSE {})
        BY <3>1, <4>1, LinkAppend DEF Sides
      <4> QED
        BY <4>1, <4>2 DEF ToWorker
    <3>3. \A x \in Requests \ {r} : WithSender(x) => WithSender(x)'
      BY <2>1, <2>2 DEF WithSender
    <3> QED
      BY <2>2, <2>3, <3>2, <3>3 DEF SenderFrame
  <2>5. CASE Goto(t, "failPending")
    <3>1. \A x \in Requests : WithSender(x) => WithSender(x)'
      BY <2>2, <2>5 DEF WithSender, Goto
    <3> QED
      BY <2>2, <2>3, <3>1 DEF SenderFrame
  <2> QED
    BY <1>1, <2>1, <2>4, <2>5 DEF Transfer
<1>2. ASSUME NEW t \in Threads, Register(t) PROVE SenderFrame
  <2>1. \A u \in Threads :
          pc'[u] \in {"transfer", "failPending"} <=> pc[u] \in {"transfer", "failPending"}
    BY <1>2 DEF Register, Goto, Return, requests, threads
  <2>2. \A u \in Threads : pc[u] \in {"transfer", "failPending"} => cur'[u] = cur[u]
    BY <1>2 DEF Register, Drop, Return, requests, threads
  <2>3. \A x \in Requests : WithSender(x)' <=> WithSender(x)
    BY <2>1, <2>2 DEF WithSender
  <2>4. pending' \subseteq pending
    BY <1>2 DEF Register, requests
  <2> QED
    BY <2>3, <2>4 DEF SenderFrame
<1>3. ASSUME NEW t \in Threads, FailPending(t) PROVE SenderFrame
  <2>1. cur[t] \in Requests /\ pc[t] = "failPending"
    BY <1>3 DEF FailPending, InHand
  <2>2. cur[t] \notin pending' /\ pending' \subseteq pending
    BY <1>3 DEF FailPending
  <2>3. \A u \in Threads \ {t} : pc'[u] = pc[u] /\ cur'[u] = cur[u]
    BY <1>3 DEF FailPending, Return, Drop, Goto
  <2>4. pc'[t] \notin {"transfer", "failPending"}
    BY <1>3 DEF FailPending, Return, Goto
  <2>5. \A x \in Requests : WithSender(x)' => WithSender(x)
    BY <2>3, <2>4 DEF WithSender
  <2>6. \A x \in Requests \ {cur[t]} : WithSender(x) => WithSender(x)'
    BY <2>3 DEF WithSender
  <2> QED
    BY <2>2, <2>5, <2>6 DEF SenderFrame
<1>4. ASSUME NEW t \in Threads, Fail(t) PROVE SenderFrame
  <2>1. \A u \in Threads :
          pc'[u] \in {"transfer", "failPending"} <=> pc[u] \in {"transfer", "failPending"}
    BY <1>4 DEF Fail, Goto, Return, requests, threads
  <2>2. \A u \in Threads : pc[u] \in {"transfer", "failPending"} => cur'[u] = cur[u]
    BY <1>4 DEF Fail, Drop, Return, requests, threads
  <2>3. \A x \in Requests : WithSender(x)' <=> WithSender(x)
    BY <2>1, <2>2 DEF WithSender
  <2>4. pending' \subseteq pending
    BY <1>4 DEF Fail, requests
  <2> QED
    BY <2>3, <2>4 DEF SenderFrame
<1>5. ASSUME NEW t \in Threads, Launch(t) PROVE SenderFrame
  <2>1. pc[t] = "launch"
    BY <1>5 DEF Launch
  <2>2. CASE next[t] # NoRequest /\ Send(t, next[t])
    <3>0. PICK r \in Requests : r = next[t] /\ Unsent(r)
      BY <2>2 DEF Unsent, Awaits
    <3>1. \A u \in Threads \ {t} : pc'[u] = pc[u] /\ cur'[u] = cur[u]
      BY <2>2, <3>0 DEF Send, Return, Drop, Goto
    <3>2. \/ pc'[t] \notin {"transfer", "failPending"} /\ pending' = pending
          \/ pc'[t] = "transfer" /\ cur'[t] = r /\ pending' = pending \cup {r}
      BY <2>2, <3>0 DEF Send, Return, Goto
    <3>3. \A x \in Requests : WithSender(x) => WithSender(x)'
      BY <2>1, <3>1 DEF WithSender
    <3>4. \A x \in Requests : WithSender(x)' => WithSender(x) \/ (x = r /\ r \in pending')
      BY <3>1, <3>2 DEF WithSender
    <3>5. r \in pending' /\ r \notin pending => WithSender(r)'
      BY <3>2, <2>1, <3>0 DEF WithSender
    <3> QED
      BY <3>0, <3>2, <3>3, <3>4, <3>5 DEF SenderFrame
  <2>3. CASE ~(next[t] # NoRequest /\ Send(t, next[t]))
    <3>1. pending' = pending /\ \A u \in Threads \ {t} : pc'[u] = pc[u] /\ cur'[u] = cur[u]
      BY <1>5, <2>3 DEF Launch, Return, Goto, Drop, requests
    <3>2. pc'[t] \notin {"transfer", "failPending"}
      BY <1>5, <2>3 DEF Launch, Return, Goto
    <3>3. \A x \in Requests : WithSender(x)' <=> WithSender(x)
      BY <2>1, <3>1, <3>2 DEF WithSender
    <3> QED
      BY <3>1, <3>3 DEF SenderFrame
  <2> QED
    BY <2>2, <2>3
<1>6. ASSUME NEW t \in Threads, TakeNext(t) PROVE SenderFrame
  <2>1. \A u \in Threads :
          pc'[u] \in {"transfer", "failPending"} <=> pc[u] \in {"transfer", "failPending"}
    BY <1>6 DEF TakeNext, Goto, Return, requests, threads
  <2>2. \A u \in Threads : pc[u] \in {"transfer", "failPending"} => cur'[u] = cur[u]
    BY <1>6 DEF TakeNext, Drop, Return, requests, threads
  <2>3. \A x \in Requests : WithSender(x)' <=> WithSender(x)
    BY <2>1, <2>2 DEF WithSender
  <2>4. pending' \subseteq pending
    BY <1>6 DEF TakeNext, requests
  <2> QED
    BY <2>3, <2>4 DEF SenderFrame
<1>7. ASSUME OnHandshake PROVE SenderFrame
  <2>1. \A u \in Threads :
          pc'[u] \in {"transfer", "failPending"} <=> pc[u] \in {"transfer", "failPending"}
    BY <1>7 DEF OnHandshake, Goto, Return, requests, threads
  <2>2. \A u \in Threads : pc[u] \in {"transfer", "failPending"} => cur'[u] = cur[u]
    BY <1>7 DEF OnHandshake, Drop, Return, requests, threads
  <2>3. \A x \in Requests : WithSender(x)' <=> WithSender(x)
    BY <2>1, <2>2 DEF WithSender
  <2>4. pending' \subseteq pending
    BY <1>7 DEF OnHandshake, requests
  <2> QED
    BY <2>3, <2>4 DEF SenderFrame
<1>8. ASSUME OnReply PROVE SenderFrame
  <2>1. pending' \subseteq pending /\ pc[Reader] = "idle" /\ pc'[Reader] = "answer"
        /\ \A u \in Threads \ {Reader} : pc'[u] = pc[u] /\ cur'[u] = cur[u]
    BY <1>8 DEF OnReply, Goto, Threads
  <2>2. \A x \in Requests : WithSender(x)' <=> WithSender(x)
    BY <2>1 DEF WithSender
  <2> QED
    BY <2>1, <2>2 DEF SenderFrame
<1>9. ASSUME Answer PROVE SenderFrame
  <2>1. \A u \in Threads :
          pc'[u] \in {"transfer", "failPending"} <=> pc[u] \in {"transfer", "failPending"}
    BY <1>9 DEF Answer, Goto, Return, requests, threads
  <2>2. \A u \in Threads : pc[u] \in {"transfer", "failPending"} => cur'[u] = cur[u]
    BY <1>9 DEF Answer, Drop, Return, requests, threads
  <2>3. \A x \in Requests : WithSender(x)' <=> WithSender(x)
    BY <2>1, <2>2 DEF WithSender
  <2>4. pending' \subseteq pending
    BY <1>9 DEF Answer, requests
  <2> QED
    BY <2>3, <2>4 DEF SenderFrame
<1>10. ASSUME OnClosed PROVE SenderFrame
  <2>1. \A u \in Threads :
          pc'[u] \in {"transfer", "failPending"} <=> pc[u] \in {"transfer", "failPending"}
    BY <1>10 DEF OnClosed, Goto, Return, requests, threads
  <2>2. \A u \in Threads : pc[u] \in {"transfer", "failPending"} => cur'[u] = cur[u]
    BY <1>10 DEF OnClosed, Drop, Return, requests, threads
  <2>3. \A x \in Requests : WithSender(x)' <=> WithSender(x)
    BY <2>1, <2>2 DEF WithSender
  <2>4. pending' \subseteq pending
    BY <1>10 DEF OnClosed, requests
  <2> QED
    BY <2>3, <2>4 DEF SenderFrame
<1>11. ASSUME CloseDone PROVE SenderFrame
  <2>1. \A u \in Threads :
          pc'[u] \in {"transfer", "failPending"} <=> pc[u] \in {"transfer", "failPending"}
    BY <1>11 DEF CloseDone, Goto, Return, requests, threads
  <2>2. \A u \in Threads : pc[u] \in {"transfer", "failPending"} => cur'[u] = cur[u]
    BY <1>11 DEF CloseDone, Drop, Return, requests, threads
  <2>3. \A x \in Requests : WithSender(x)' <=> WithSender(x)
    BY <2>1, <2>2 DEF WithSender
  <2>4. pending' \subseteq pending
    BY <1>11 DEF CloseDone, requests
  <2> QED
    BY <2>3, <2>4 DEF SenderFrame
<1>12. ASSUME NEW r \in Requests, FailDoomed(r) PROVE SenderFrame
  <2>1. \A u \in Threads :
          pc'[u] \in {"transfer", "failPending"} <=> pc[u] \in {"transfer", "failPending"}
    BY <1>12 DEF FailDoomed, Goto, Return, requests, threads
  <2>2. \A u \in Threads : pc[u] \in {"transfer", "failPending"} => cur'[u] = cur[u]
    BY <1>12 DEF FailDoomed, Drop, Return, requests, threads
  <2>3. \A x \in Requests : WithSender(x)' <=> WithSender(x)
    BY <2>1, <2>2 DEF WithSender
  <2>4. pending' \subseteq pending
    BY <1>12 DEF FailDoomed, requests
  <2> QED
    BY <2>3, <2>4 DEF SenderFrame
<1>13. ASSUME ConnectReturns PROVE SenderFrame
  <2>1. \A u \in Threads :
          pc'[u] \in {"transfer", "failPending"} <=> pc[u] \in {"transfer", "failPending"}
    BY <1>13 DEF ConnectReturns, Goto, Return, requests, threads
  <2>2. \A u \in Threads : pc[u] \in {"transfer", "failPending"} => cur'[u] = cur[u]
    BY <1>13 DEF ConnectReturns, Drop, Return, requests, threads
  <2>3. \A x \in Requests : WithSender(x)' <=> WithSender(x)
    BY <2>1, <2>2 DEF WithSender
  <2>4. pending' \subseteq pending
    BY <1>13 DEF ConnectReturns, requests
  <2> QED
    BY <2>3, <2>4 DEF SenderFrame
<1>14. ASSUME Destroyed PROVE SenderFrame
  <2>1. \A u \in Threads :
          pc'[u] \in {"transfer", "failPending"} <=> pc[u] \in {"transfer", "failPending"}
    BY <1>14 DEF Destroyed, Goto, Return, requests, threads
  <2>2. \A u \in Threads : pc[u] \in {"transfer", "failPending"} => cur'[u] = cur[u]
    BY <1>14 DEF Destroyed, Drop, Return, requests, threads
  <2>3. \A x \in Requests : WithSender(x)' <=> WithSender(x)
    BY <2>1, <2>2 DEF WithSender
  <2>4. pending' \subseteq pending
    BY <1>14 DEF Destroyed, requests
  <2> QED
    BY <2>3, <2>4 DEF SenderFrame
<1>15. ASSUME Connect PROVE SenderFrame
  <2>1. \A u \in Threads :
          pc'[u] \in {"transfer", "failPending"} <=> pc[u] \in {"transfer", "failPending"}
    BY <1>15 DEF Connect, Goto, Return, requests, threads
  <2>2. \A u \in Threads : pc[u] \in {"transfer", "failPending"} => cur'[u] = cur[u]
    BY <1>15 DEF Connect, Drop, Return, requests, threads
  <2>3. \A x \in Requests : WithSender(x)' <=> WithSender(x)
    BY <2>1, <2>2 DEF WithSender
  <2>4. pending' \subseteq pending
    BY <1>15 DEF Connect, requests
  <2> QED
    BY <2>3, <2>4 DEF SenderFrame
<1>16. ASSUME HandshakeTimeout PROVE SenderFrame
  <2>1. \A u \in Threads :
          pc'[u] \in {"transfer", "failPending"} <=> pc[u] \in {"transfer", "failPending"}
    BY <1>16 DEF HandshakeTimeout, Goto, Return, requests, threads
  <2>2. \A u \in Threads : pc[u] \in {"transfer", "failPending"} => cur'[u] = cur[u]
    BY <1>16 DEF HandshakeTimeout, Drop, Return, requests, threads
  <2>3. \A x \in Requests : WithSender(x)' <=> WithSender(x)
    BY <2>1, <2>2 DEF WithSender
  <2>4. pending' \subseteq pending
    BY <1>16 DEF HandshakeTimeout, requests
  <2> QED
    BY <2>3, <2>4 DEF SenderFrame
<1>17. ASSUME Destroy PROVE SenderFrame
  <2>1. \A u \in Threads :
          pc'[u] \in {"transfer", "failPending"} <=> pc[u] \in {"transfer", "failPending"}
    BY <1>17 DEF Destroy, Goto, Return, requests, threads
  <2>2. \A u \in Threads : pc[u] \in {"transfer", "failPending"} => cur'[u] = cur[u]
    BY <1>17 DEF Destroy, Drop, Return, requests, threads
  <2>3. \A x \in Requests : WithSender(x)' <=> WithSender(x)
    BY <2>1, <2>2 DEF WithSender
  <2>4. pending' \subseteq pending
    BY <1>17 DEF Destroy, requests
  <2> QED
    BY <2>3, <2>4 DEF SenderFrame
<1>18. ASSUME NEW r \in Requests, Submit(r) PROVE SenderFrame
  <2>1. pc[r] = "new" /\ r \in Threads /\ Unsent(r) /\ Send(r, r)
    BY <1>18 DEF Submit, Threads, Unsent
  <2>2. \A u \in Threads \ {r} : pc'[u] = pc[u] /\ cur'[u] = cur[u]
    BY <2>1 DEF Send, Return, Drop, Goto
  <2>3. \/ pc'[r] \notin {"transfer", "failPending"} /\ pending' = pending
        \/ pc'[r] = "transfer" /\ cur'[r] = r /\ pending' = pending \cup {r}
    BY <2>1 DEF Send, Return, Goto
  <2>4. \A x \in Requests : WithSender(x) => WithSender(x)'
    BY <2>1, <2>2 DEF WithSender
  <2>5. \A x \in Requests : WithSender(x)' => WithSender(x) \/ (x = r /\ r \in pending')
    BY <2>2, <2>3 DEF WithSender
  <2>6. r \in pending' /\ r \notin pending => WithSender(r)'
    BY <2>1, <2>3 DEF WithSender
  <2> QED
    BY <2>1, <2>3, <2>4, <2>5, <2>6 DEF SenderFrame
<1>19. ASSUME NEW r \in Requests, RequestStop(r) PROVE SenderFrame
  <2>1. \A u \in Threads :
          pc'[u] \in {"transfer", "failPending"} <=> pc[u] \in {"transfer", "failPending"}
    BY <1>19 DEF RequestStop, Goto, Return, requests, threads
  <2>2. \A u \in Threads : pc[u] \in {"transfer", "failPending"} => cur'[u] = cur[u]
    BY <1>19 DEF RequestStop, Drop, Return, requests, threads
  <2>3. \A x \in Requests : WithSender(x)' <=> WithSender(x)
    BY <2>1, <2>2 DEF WithSender
  <2>4. pending' \subseteq pending
    BY <1>19 DEF RequestStop, requests
  <2> QED
    BY <2>3, <2>4 DEF SenderFrame
<1>20. ASSUME NEW r \in Requests, SendCancel(r) PROVE SenderFrame
  <2>1. \A u \in Threads :
          pc'[u] \in {"transfer", "failPending"} <=> pc[u] \in {"transfer", "failPending"}
    BY <1>20 DEF SendCancel, Goto, Return, requests, threads
  <2>2. \A u \in Threads : pc[u] \in {"transfer", "failPending"} => cur'[u] = cur[u]
    BY <1>20 DEF SendCancel, Drop, Return, requests, threads
  <2>3. \A x \in Requests : WithSender(x)' <=> WithSender(x)
    BY <2>1, <2>2 DEF WithSender
  <2>4. pending' \subseteq pending
    BY <1>20 DEF SendCancel, requests
  <2> QED
    BY <2>3, <2>4 DEF SenderFrame
<1>21. CASE UNCHANGED channelVars
  <2>1. pending' = pending /\ \A x \in Requests : WithSender(x)' <=> WithSender(x)
    BY <1>21 DEF WithSender, channelVars, requests, cancelling, threads, life
  <2> QED
    BY <2>1 DEF SenderFrame
<1> QED
  BY <1>1, <1>2, <1>3, <1>4, <1>5, <1>6, <1>7, <1>8, <1>9, <1>10, <1>11, <1>12, <1>13, <1>14,
     <1>15, <1>16, <1>17, <1>18, <1>19, <1>20, <1>21
     DEF Next, ChannelNext, SenderStep, ReaderStep, OwnerStep, OnUnreadable, WorkerNext,
         WorkerReads, RunnerStep, ServeStep, Crash, vars

\* SlotComesBack in terms of the stages.
LEMMA SlotStages ==
  SlotComesBack <=>
    (writeClosed = {} /\ ~hostClosed =>
       \A r \in pending :
         WithSender(r) \/ ToWorker(r) \/ AtWorker(r) \/ Running(r) \/ Replied(r))
  BY DEF SlotComesBack, WithSender, ToWorker, AtWorker, Running, Replied, Elements

LEMMA SlotStagesNext ==
  SlotComesBack' <=>
    (writeClosed' = {} /\ ~hostClosed' =>
       \A r \in pending' :
         WithSender(r)' \/ ToWorker(r)' \/ AtWorker(r)' \/ Running(r)' \/ Replied(r)')
  BY DEF SlotComesBack, WithSender, ToWorker, AtWorker, Running, Replied, Elements

\* A step that leaves every request at its stage.
LEMMA StagesKept ==
  ASSUME RemoteInv, SenderFrame, UnsentOnlyShrinks, SameStages,
         pending \subseteq Requests, pending' \subseteq Requests,
         writeClosed \subseteq writeClosed', hostClosed => hostClosed',
         \A x \in pending \ pending' :
           (WithSender(x) /\ ~WithSender(x)') \/ ("worker" \in writeClosed /\ ~Replied(x))
  PROVE  OneStage' /\ SlotComesBack'
<1>1. \A x \in Requests : NotOut(x)' => NotOut(x)
  BY DEF NotOut, SenderFrame, UnsentOnlyShrinks
<1>2. \A x \in Requests : WithSender(x) => NotOut(x)
  BY DEF NotOut
<1>3. OneStage'
  BY <1>1, <1>2 DEF RemoteInv, OneStage, SameStages, SenderFrame
<1>4. SlotComesBack'
  BY SlotStages, SlotStagesNext DEF RemoteInv, SameStages, SenderFrame
<1> QED
  BY <1>3, <1>4

\* A step that changes the stage of one request only.
LEMMA StageMoves ==
  ASSUME RemoteInv, SenderFrame, UnsentOnlyShrinks, NEW r \in Requests,
         pending' = pending \/ (pending' = pending \ {r} /\ Replied(r)),
         pending \subseteq Requests, writeClosed \subseteq writeClosed', hostClosed => hostClosed',
         \A x \in Requests \ {r} :
           /\ ToWorker(x)' <=> ToWorker(x)
           /\ AtWorker(x)' <=> AtWorker(x)
           /\ Running(x)' <=> Running(x)
           /\ Replied(x)' <=> Replied(x),
         ToWorker(r) \/ AtWorker(r) \/ Running(r) \/ Replied(r),
         ToWorker(r)' => ~AtWorker(r)' /\ ~Running(r)' /\ ~Replied(r)',
         AtWorker(r)' => ~Running(r)' /\ ~Replied(r)',
         Running(r)' => ~Replied(r)',
         ToWorker(r)' \/ AtWorker(r)' \/ Running(r)' => pending' = pending /\ ~Replied(r),
         Replied(r)' => r \in pending',
         r \in pending' /\ writeClosed' = {} /\ ~hostClosed' =>
           ToWorker(r)' \/ AtWorker(r)' \/ Running(r)' \/ Replied(r)'
  PROVE  OneStage' /\ SlotComesBack'
<1>1. \A x \in Requests : NotOut(x)' => NotOut(x)
  BY DEF NotOut, SenderFrame, UnsentOnlyShrinks
<1>2. ~NotOut(r) /\ ~WithSender(r) /\ ~WithSender(r)' /\ ~NotOut(r)'
  BY <1>1 DEF RemoteInv, OneStage, NotOut
<1>3. ASSUME NEW x \in Requests \ {r}
      PROVE  /\ NotOut(x)' => ~ToWorker(x)' /\ ~AtWorker(x)' /\ ~Running(x)' /\ ~Replied(x)'
             /\ ToWorker(x)' => ~AtWorker(x)' /\ ~Running(x)' /\ ~Replied(x)'
             /\ AtWorker(x)' => ~Running(x)' /\ ~Replied(x)'
             /\ Running(x)' => ~Replied(x)'
             /\ (WithSender(x)' \/ ToWorker(x)' \/ AtWorker(x)' \/ Running(x)')
                  /\ "worker" \notin writeClosed' => x \in pending'
             /\ Replied(x)' => x \in pending'
  BY <1>1, <1>3 DEF RemoteInv, OneStage, SenderFrame
<1>4. OneStage'
  BY <1>2, <1>3 DEF OneStage, RemoteInv
<1>5. SlotComesBack'
  BY SlotStages, SlotStagesNext DEF RemoteInv, SenderFrame
<1> QED
  BY <1>4, <1>5

\* A frame about a request of which there was none.
LEMMA LinkGains ==
  ASSUME LinkType, NEW s \in Sides, NEW r \in Requests, NEW type, NEW f \in Frame,
         f.type = type, f.id = r,
         inbox'[s] = Append(inbox[s], f), OnLink(s, type, r) = {}
  PROVE  /\ \A x \in Requests \ {r} : OnLink(s, type, x)' = OnLink(s, type, x)
         /\ OnLink(s, type, r)' = {Len(inbox[s]) + 1}
<1>1. ASSUME NEW x \in Requests \ {r} PROVE OnLink(s, type, x)' = OnLink(s, type, x)
  <2>1. OnLink(s, type, x)' = OnLink(s, type, x)
          \cup (IF f.type = type /\ f.id = x THEN {Len(inbox[s]) + 1} ELSE {})
    BY LinkAppend
  <2>2. f.id # x
    BY <1>1
  <2> QED
    BY <2>1, <2>2
<1>2. OnLink(s, type, r)' = OnLink(s, type, r)
        \cup (IF f.type = type /\ f.id = r THEN {Len(inbox[s]) + 1} ELSE {})
  BY LinkAppend
<1> QED
  BY <1>1, <1>2

\* A frame of the coordinator that is no request.
LEMMA NoRequestSent ==
  ASSUME LinkType, NEW f \in Frame, f.type # "request", inbox' = Sent("coordinator", <<f>>)
  PROVE  KeepsFrames("worker", "request") /\ KeepsFrames("coordinator", "reply")
<1>1. inbox'["coordinator"] = inbox["coordinator"]
  BY AfterSend
<1>2. inbox'["worker"] = inbox["worker"] \/ inbox'["worker"] = Append(inbox["worker"], f)
  BY AfterSend
<1> QED
  BY <1>1, <1>2, SameInbox, OtherSent DEF Sides

\* A request goes from its sender to the worker, its queue, a runner and back as a reply,
\* or is lost with the connection; its slot comes back as long as there is one.
LEMMA JourneyStep ==
  ASSUME RemoteInv, [Next]_vars
  PROVE  OneCopy' /\ OneStage' /\ SlotComesBack'
<1> USE ChannelAssumption DEF RemoteInv, RemoteType, ChannelType, WorkerType
<1>0. UnsentOnlyShrinks /\ SenderFrame /\ pending' \subseteq Requests
  BY UnsentShrinks, SenderFrameStep, ChannelTypeStep
<1>1. ASSUME NEW t \in Threads, Transfer(t), UNCHANGED workerVars
      PROVE  OneCopy' /\ OneStage' /\ SlotComesBack'
  <2>1. PICK r \in Requests : r = cur[t]
    BY <1>1 DEF Transfer, InHand
  <2>2. UNCHANGED <<workQueue, runner, work, hostClosed, writeClosed, pending, cur>>
    BY <1>1 DEF Transfer, workerVars, requests
  <2>3. CASE inbox' = Sent("coordinator", <<[type |-> "request", id |-> r]>>)
             /\ CanSend("coordinator") /\ Goto(t, "register")
    <3>1. PICK f \in Frame : f = [type |-> "request", id |-> r]
      BY Frames
    <3>2. inbox'["worker"] = Append(inbox["worker"], f) /\ inbox'["coordinator"] = inbox["coordinator"]
      BY <2>3, <3>1, AfterSend DEF CanSend
    <3>3. f.type = "request" /\ f.id = r
      BY <3>1
    <3>4. KeepsFrames("coordinator", "reply")
      BY <3>2, SameInbox
    <3>5. WithSender(r) /\ NotOut(r)
      BY <1>1, <2>1 DEF WithSender, NotOut, Transfer
    <3>6. ~ToWorker(r) /\ ~AtWorker(r) /\ ~Running(r) /\ ~Replied(r)
      BY <3>5 DEF OneStage
    <3>7. /\ \A x \in Requests \ {r} : OnLink("worker", "request", x)' = OnLink("worker", "request", x)
          /\ OnLink("worker", "request", r)' = {Len(inbox["worker"]) + 1}
      <4>1. OnLink("worker", "request", r) = {}
        BY <3>6 DEF ToWorker
      <4>2. "worker" \in Sides /\ LinkType
        BY DEF Sides
      <4> HIDE DEF RemoteInv, RemoteType, ChannelType, WorkerType
      <4> QED
        BY <3>2, <3>3, <4>1, <4>2, LinkGains
    <3>8. \A x \in Requests : ToWorker(x)' <=> ToWorker(x) \/ x = r
      BY <3>7 DEF ToWorker
    <3>9. OneCopy'
      BY <2>2, <3>4, <3>7 DEF OneCopy, KeepsFrames
    <3>10. \A x \in Requests :
             /\ AtWorker(x)' <=> AtWorker(x)
             /\ Running(x)' <=> Running(x)
             /\ Replied(x)' <=> Replied(x)
      <4>1. \A x \in Requests : Replied(x)' <=> Replied(x)
        BY <3>4 DEF Replied, KeepsFrames
      <4> QED
        BY <2>2, <4>1 DEF AtWorker, Running
    <3>11. ~WithSender(r)'
      <4>1. \A u \in Threads \ {t} : pc[u] \in {"transfer", "failPending"} => cur[u] # r
        BY <1>1, <2>1 DEF OneSender, Sending, Transfer
      <4> QED
        BY <2>2, <2>3, <4>1 DEF WithSender, Goto
    <3>12. ~NotOut(r)'
      <4>1. ~Unsent(r)
        BY <1>1, <2>1 DEF OneSender, Sending, Transfer
      <4> QED
        BY <1>0, <3>11, <4>1 DEF NotOut, UnsentOnlyShrinks
    <3>13. \A x \in Requests : NotOut(x)' => NotOut(x)
      BY <1>0 DEF NotOut, SenderFrame, UnsentOnlyShrinks
    <3>14. OneStage'
      BY <1>0, <2>2, <3>5, <3>6, <3>8, <3>10, <3>11, <3>12, <3>13 DEF OneStage, SenderFrame
    <3>15. SlotComesBack'
      BY <1>0, <2>2, <3>8, <3>10, SlotStages, SlotStagesNext DEF SenderFrame
    <3> QED
      BY <3>9, <3>14, <3>15
  <2>4. CASE inbox' = inbox
    <3>1. OneCopy' /\ SameStages
      BY <2>2, <2>4, SameInbox, QuietLink
    <3> QED
      BY <1>0, <2>2, <3>1, StagesKept
  <2> QED
    BY <1>1, <2>1, <2>3, <2>4 DEF Transfer
<1>2. ASSUME NEW t \in Threads, Register(t), UNCHANGED workerVars
      PROVE  OneCopy' /\ OneStage' /\ SlotComesBack'
  <2>1. PICK r \in Requests : r = cur[t]
    BY <1>2 DEF Register, InHand
  <2>2. KeepsFrames("worker", "request") /\ KeepsFrames("coordinator", "reply")
    <3>1. PICK f \in Frame : f = [type |-> "cancel", id |-> r]
      BY Frames
    <3>2. CASE inbox' = inbox
      BY <3>2, SameInbox
    <3>3. CASE inbox' = Sent("coordinator", <<f>>)
      BY <3>1, <3>3, NoRequestSent
    <3> QED
      BY <1>2, <2>1, <3>1, <3>2, <3>3 DEF Register
  <2>3. UNCHANGED <<workQueue, runner, work, hostClosed, writeClosed, pending>>
    BY <1>2 DEF Register, workerVars, requests
  <2>4. OneCopy' /\ SameStages
    BY <2>2, <2>3, QuietLink
  <2> QED
    BY <1>0, <2>3, <2>4, StagesKept
<1>3. ASSUME NEW t \in Threads, FailPending(t), UNCHANGED workerVars
      PROVE  OneCopy' /\ OneStage' /\ SlotComesBack'
  <2>1. /\ inbox' = inbox /\ UNCHANGED <<workQueue, runner, work, hostClosed, writeClosed>>
        /\ pc[t] = "failPending" /\ cur[t] \in Requests /\ t \in Threads
    BY <1>3 DEF FailPending, link, workerVars, InHand
  <2>2. OneCopy' /\ SameStages
    BY <2>1, SameInbox, QuietLink
  <2>3. ASSUME NEW x \in pending, x \notin pending'
        PROVE  WithSender(x) /\ ~WithSender(x)'
    <3>1. x = cur[t] /\ x \in Requests
      BY <1>3, <2>3 DEF FailPending
    <3>2. WithSender(x)
      BY <2>1, <3>1 DEF WithSender
    <3>3. \A u \in Threads \ {t} : pc[u] \in {"transfer", "failPending"} => cur[u] # x
      BY <2>1, <3>1 DEF OneSender, Sending
    <3>4. /\ \A u \in Threads \ {t} : pc'[u] = pc[u] /\ cur'[u] = cur[u]
          /\ pc'[t] \notin {"transfer", "failPending"}
      BY <1>3 DEF FailPending, Return, Drop, Goto
    <3> QED
      BY <3>2, <3>3, <3>4 DEF WithSender
  <2> QED
    BY <1>0, <2>1, <2>2, <2>3, StagesKept
<1>4. ASSUME OnHandshake, UNCHANGED workerVars PROVE OneCopy' /\ OneStage' /\ SlotComesBack'
  <2>1. inbox["coordinator"] # <<>> /\ Head(inbox["coordinator"]).type # "reply"
    BY <1>4 DEF OnHandshake, Arrives
  <2>2. inbox'["coordinator"] = Tail(inbox["coordinator"]) /\ inbox'["worker"] = inbox["worker"]
    BY <1>4, <2>1, AfterTake DEF OnHandshake
  <2>3. KeepsFrames("worker", "request") /\ KeepsFrames("coordinator", "reply")
    BY <2>1, <2>2, SameInbox, OtherRead DEF Sides
  <2>4. /\ UNCHANGED <<workQueue, runner, work, hostClosed, pending>>
        /\ writeClosed \subseteq writeClosed'
    BY <1>4 DEF OnHandshake, Closed, workerVars, requests
  <2>5. OneCopy' /\ SameStages
    BY <2>3, <2>4, QuietLink
  <2> QED
    BY <1>0, <2>4, <2>5, StagesKept
<1>5. ASSUME OnReply, UNCHANGED workerVars PROVE OneCopy' /\ OneStage' /\ SlotComesBack'
  <2>1. PICK r \in Requests : r = Head(inbox["coordinator"]).id
    BY <1>5 DEF OnReply
  <2>2. /\ inbox["coordinator"] # <<>> /\ Head(inbox["coordinator"]).type = "reply"
        /\ pending' = pending \ {r} /\ r \in pending
        /\ UNCHANGED <<workQueue, runner, work, hostClosed, writeClosed>>
    BY <1>5, <2>1 DEF OnReply, Arrives, workerVars
  <2>3. inbox'["coordinator"] = Tail(inbox["coordinator"]) /\ inbox'["worker"] = inbox["worker"]
    BY <1>5, <2>2, AfterTake DEF OnReply
  <2>4. KeepsFrames("worker", "request")
    BY <2>3, SameInbox
  <2>5. Replied(r) /\ OnLink("coordinator", "reply", r)' = {}
    BY <2>1, <2>2, <2>3, LastRead DEF Sides, OneCopy, Replied
  <2>6. ASSUME NEW x \in Requests \ {r}
        PROVE  /\ OnLink("coordinator", "reply", x)' # {} <=> OnLink("coordinator", "reply", x) # {}
               /\ (\A i, j \in OnLink("coordinator", "reply", x) : i = j)
                    => (\A i, j \in OnLink("coordinator", "reply", x)' : i = j)
    BY <2>1, <2>2, <2>3, <2>6, OthersStay DEF Sides
  <2>7. OneCopy'
    BY <2>2, <2>4, <2>5, <2>6 DEF OneCopy, KeepsFrames
  <2>8. /\ \A x \in Requests : /\ ToWorker(x)' <=> ToWorker(x)
                               /\ AtWorker(x)' <=> AtWorker(x)
                               /\ Running(x)' <=> Running(x)
        /\ ~Replied(r)' /\ \A x \in Requests \ {r} : Replied(x)' <=> Replied(x)
    BY <2>2, <2>4, <2>5, <2>6 DEF ToWorker, AtWorker, Running, Replied, KeepsFrames
  <2>9. ~ToWorker(r) /\ ~AtWorker(r) /\ ~Running(r)
    BY <2>5 DEF OneStage
  <2>10. OneStage' /\ SlotComesBack'
    BY <1>0, <2>2, <2>5, <2>8, <2>9, StageMoves
  <2> QED
    BY <2>7, <2>10
<1>u. ASSUME OnUnreadable, UNCHANGED workerVars PROVE OneCopy' /\ OneStage' /\ SlotComesBack'
  <2>1. PICK r \in Requests : r = Head(inbox["coordinator"]).id
    BY <1>u, HeadFrame DEF OnUnreadable, Arrives, Sides
  <2>2. /\ inbox["coordinator"] # <<>> /\ Head(inbox["coordinator"]).type = "reply"
        /\ UNCHANGED <<workQueue, runner, work, hostClosed, pending>>
        /\ writeClosed \subseteq writeClosed' /\ writeClosed' # {}
    BY <1>u DEF OnUnreadable, Arrives, workerVars, channelVars, requests, Closed, Sides
  <2>3. inbox'["coordinator"] = Tail(inbox["coordinator"]) /\ inbox'["worker"] = inbox["worker"]
    BY <1>u, <2>2, AfterTake DEF OnUnreadable
  <2>4. KeepsFrames("worker", "request")
    BY <2>3, SameInbox
  <2>5. Replied(r) /\ OnLink("coordinator", "reply", r)' = {}
    BY <2>1, <2>2, <2>3, LastRead DEF Sides, OneCopy, Replied
  <2>6. ASSUME NEW x \in Requests \ {r}
        PROVE  /\ OnLink("coordinator", "reply", x)' # {} <=> OnLink("coordinator", "reply", x) # {}
               /\ (\A i, j \in OnLink("coordinator", "reply", x) : i = j)
                    => (\A i, j \in OnLink("coordinator", "reply", x)' : i = j)
    BY <2>1, <2>2, <2>3, <2>6, OthersStay DEF Sides
  <2>7. OneCopy'
    BY <2>2, <2>4, <2>5, <2>6 DEF OneCopy, KeepsFrames
  <2>8. /\ \A x \in Requests : /\ ToWorker(x)' <=> ToWorker(x)
                               /\ AtWorker(x)' <=> AtWorker(x)
                               /\ Running(x)' <=> Running(x)
        /\ ~Replied(r)' /\ \A x \in Requests \ {r} : Replied(x)' <=> Replied(x)
    BY <2>2, <2>4, <2>5, <2>6 DEF ToWorker, AtWorker, Running, Replied, KeepsFrames
  <2>9. ~ToWorker(r) /\ ~AtWorker(r) /\ ~Running(r)
    BY <2>5 DEF OneStage
  <2>10. OneStage' /\ SlotComesBack'
    BY <1>0, <2>2, <2>5, <2>8, <2>9, StageMoves
  <2> QED
    BY <2>7, <2>10
<1>6. ASSUME OnClosed, UNCHANGED workerVars PROVE OneCopy' /\ OneStage' /\ SlotComesBack'
  <2>1. /\ inbox' = inbox /\ UNCHANGED <<workQueue, runner, work, hostClosed>>
        /\ writeClosed \subseteq writeClosed'
        /\ inbox["coordinator"] = <<>> /\ "worker" \in writeClosed
    BY <1>6 DEF OnClosed, workerVars, Closed, AtEnd, Peer
  <2>2. OneCopy' /\ SameStages
    BY <2>1, SameInbox, QuietLink
  <2>3. \A x : ~Replied(x)
    BY <2>1 DEF Replied, OnLink
  <2> QED
    BY <1>0, <2>1, <2>2, <2>3, StagesKept
<1>7. ASSUME Connect, UNCHANGED workerVars PROVE OneCopy' /\ OneStage' /\ SlotComesBack'
  <2>1. KeepsFrames("worker", "request") /\ KeepsFrames("coordinator", "reply")
    <3>1. PICK f \in Frame : f = [type |-> "hello"]
      BY Frames
    <3> QED
      BY <1>7, <3>1, NoRequestSent DEF Connect
  <2>2. UNCHANGED <<workQueue, runner, work, hostClosed, writeClosed, pending>>
    BY <1>7 DEF Connect, workerVars, requests
  <2>3. OneCopy' /\ SameStages
    BY <2>1, <2>2, QuietLink
  <2> QED
    BY <1>0, <2>2, <2>3, StagesKept
<1>8. ASSUME NEW r \in Requests, SendCancel(r), UNCHANGED workerVars
      PROVE  OneCopy' /\ OneStage' /\ SlotComesBack'
  <2>1. KeepsFrames("worker", "request") /\ KeepsFrames("coordinator", "reply")
    <3>1. PICK f \in Frame : f = [type |-> "cancel", id |-> r]
      BY Frames
    <3> QED
      BY <1>8, <3>1, NoRequestSent DEF SendCancel
  <2>2. UNCHANGED <<workQueue, runner, work, hostClosed, writeClosed, pending>>
    BY <1>8 DEF SendCancel, workerVars, requests
  <2>3. OneCopy' /\ SameStages
    BY <2>1, <2>2, QuietLink
  <2> QED
    BY <1>0, <2>2, <2>3, StagesKept
<1>9. ASSUME \/ (\E t \in Threads : Fail(t) \/ Launch(t) \/ TakeNext(t))
             \/ Answer \/ CloseDone \/ ConnectReturns \/ Destroyed \/ HandshakeTimeout \/ Destroy
             \/ (\E r \in Requests : FailDoomed(r) \/ Submit(r) \/ RequestStop(r)), UNCHANGED workerVars
      PROVE  OneCopy' /\ OneStage' /\ SlotComesBack'
  <2>1. /\ inbox' = inbox /\ UNCHANGED <<workQueue, runner, work, hostClosed>>
        /\ writeClosed \subseteq writeClosed' /\ pending \subseteq pending'
    BY <1>9
       DEF Fail, Launch, TakeNext, Answer, CloseDone, FailDoomed, ConnectReturns, Destroyed,
           HandshakeTimeout, Destroy, Submit, RequestStop, Send, Closed,
       link, requests, workerVars
  <2>2. OneCopy' /\ SameStages
    BY <2>1, SameInbox, QuietLink
  <2> QED
    BY <1>0, <2>1, <2>2, StagesKept
<1>10. ASSUME OnHello, UNCHANGED channelVars PROVE OneCopy' /\ OneStage' /\ SlotComesBack'
  <2>1. inbox["worker"] # <<>> /\ Head(inbox["worker"]).type # "request"
    BY <1>10 DEF OnHello, Arrives
  <2>2. PICK f \in Frame : f.type # "reply" /\ inbox' = Taken("worker", <<f>>)
    BY <1>10, Frames DEF OnHello
  <2>3. /\ inbox'["worker"] = Tail(inbox["worker"])
        /\ \/ inbox'["coordinator"] = inbox["coordinator"]
           \/ inbox'["coordinator"] = Append(inbox["coordinator"], f)
    BY <2>1, <2>2, AfterAnswer
  <2>4. KeepsFrames("worker", "request") /\ KeepsFrames("coordinator", "reply")
    BY <2>1, <2>2, <2>3, SameInbox, OtherRead, OtherSent DEF Sides
  <2>5. /\ UNCHANGED <<workQueue, runner, work, hostClosed, pending>>
        /\ writeClosed \subseteq writeClosed'
    BY <1>10 DEF OnHello, Closed, channelVars, requests
  <2>6. OneCopy' /\ SameStages
    BY <2>4, <2>5, QuietLink
  <2> QED
    BY <1>0, <2>5, <2>6, StagesKept
<1>11. ASSUME OnRequest, UNCHANGED channelVars PROVE OneCopy' /\ OneStage' /\ SlotComesBack'
  <2>1. inbox["worker"] # <<>> /\ Head(inbox["worker"]).type = "request"
    BY <1>11 DEF OnRequest, Arrives
  <2>2. PICK r \in Requests : r = Head(inbox["worker"]).id
    BY <2>1, HeadFrame DEF Sides
  <2>3. /\ UNCHANGED <<runner, work, hostClosed, pending, writeClosed>>
        /\ \A x \in Requests : Running(x)' <=> Running(x)
    BY <1>11 DEF OnRequest, channelVars, requests, Running
  <2>4. ASSUME inbox'["worker"] = Tail(inbox["worker"])
        PROVE  /\ ToWorker(r) /\ OnLink("worker", "request", r)' = {}
               /\ \A x \in Requests \ {r} : ToWorker(x)' <=> ToWorker(x)
               /\ \A x \in Requests : \A i, j \in OnLink("worker", "request", x)' : i = j
    <3>1. ToWorker(r) /\ OnLink("worker", "request", r)' = {}
      BY <2>1, <2>2, <2>4, LastRead DEF Sides, OneCopy, ToWorker
    <3>2. ASSUME NEW x \in Requests \ {r}
          PROVE  /\ OnLink("worker", "request", x)' # {} <=> OnLink("worker", "request", x) # {}
                 /\ (\A i, j \in OnLink("worker", "request", x) : i = j)
                      => (\A i, j \in OnLink("worker", "request", x)' : i = j)
      BY <2>1, <2>2, <2>4, <3>2, OthersStay DEF Sides
    <3> QED
      BY <3>1, <3>2 DEF ToWorker, OneCopy
  <2>5. CASE inbox' = Taken("worker", <<>>) /\ workQueue' = Append(workQueue, r)
    <3>1. inbox'["worker"] = Tail(inbox["worker"]) /\ inbox'["coordinator"] = inbox["coordinator"]
      BY <2>1, <2>5, AfterTake
    <3>2. /\ Len(workQueue) \in Nat /\ Len(workQueue') = Len(workQueue) + 1
          /\ workQueue'[Len(workQueue) + 1] = r
          /\ \A i \in 1..Len(workQueue) : workQueue'[i] = workQueue[i]
      BY <2>5, AppendOf
    <3>3. 1..Len(workQueue') = 1..Len(workQueue) \cup {Len(workQueue) + 1}
      BY <3>2
    <3>4. \A x \in Requests : AtWorker(x)' <=> AtWorker(x) \/ x = r
      BY <3>2, <3>3 DEF AtWorker
    <3>5. \A x \in Requests : Replied(x)' <=> Replied(x)
      BY <3>1 DEF Replied, OnLink
    <3>6. ~AtWorker(r) /\ ~Running(r) /\ ~Replied(r)
      BY <2>4, <3>1 DEF OneStage
    <3>7. OneCopy'
      <4>1. \A i, j \in 1..Len(workQueue') : workQueue'[i] = workQueue'[j] => i = j
        BY <3>2, <3>3, <3>6 DEF AtWorker, OneCopy
      <4>2. \A x \in Requests : \A i, j \in OnLink("coordinator", "reply", x)' : i = j
        BY <3>1 DEF OneCopy, OnLink
      <4> QED
        BY <2>3, <2>4, <3>1, <4>1, <4>2 DEF OneCopy
    <3>8. ~ToWorker(r)'
      BY <2>4, <3>1 DEF ToWorker
    <3>9. OneStage' /\ SlotComesBack'
      BY <1>0, <2>3, <2>4, <3>1, <3>4, <3>5, <3>6, <3>8, StageMoves
    <3> QED
      BY <3>7, <3>9
  <2>6. ASSUME NEW f \in Frame, f.type = "reply", f.id = r, inbox' = Taken("worker", <<f>>),
               workQueue' = workQueue
        PROVE  OneCopy' /\ OneStage' /\ SlotComesBack'
    <3>1. /\ inbox'["worker"] = Tail(inbox["worker"])
          /\ inbox'["coordinator"] =
               IF "worker" \in writeClosed THEN inbox["coordinator"]
               ELSE Append(inbox["coordinator"], f)
      BY <2>1, <2>6, AfterAnswer
    <3>2. ~AtWorker(r) /\ ~Running(r) /\ ~Replied(r) /\ ~ToWorker(r)'
      BY <2>4, <3>1 DEF OneStage, ToWorker
    <3>3. \A x \in Requests : AtWorker(x)' <=> AtWorker(x)
      BY <2>6 DEF AtWorker
    <3>4. /\ \A x \in Requests \ {r} : OnLink("coordinator", "reply", x)' = OnLink("coordinator", "reply", x)
          /\ "worker" \in writeClosed => OnLink("coordinator", "reply", r)' = {}
          /\ "worker" \notin writeClosed =>
               OnLink("coordinator", "reply", r)' = {Len(inbox["coordinator"]) + 1}
      <4>1. CASE "worker" \in writeClosed
        BY <3>1, <3>2, <4>1 DEF OnLink, Replied
      <4>2. CASE "worker" \notin writeClosed
        <5>1. OnLink("coordinator", "reply", r) = {}
          BY <3>2 DEF Replied
        <5>2. inbox'["coordinator"] = Append(inbox["coordinator"], f)
          BY <3>1, <4>2
        <5>3. "coordinator" \in Sides /\ LinkType
          BY DEF Sides
        <5>4. /\ \A x \in Requests \ {r} :
                   OnLink("coordinator", "reply", x)' = OnLink("coordinator", "reply", x)
              /\ OnLink("coordinator", "reply", r)' = {Len(inbox["coordinator"]) + 1}
          <6> HIDE DEF RemoteInv, RemoteType, ChannelType, WorkerType
          <6> QED
            BY <2>6, <5>1, <5>2, <5>3, LinkGains
        <5> QED
          BY <4>2, <5>4
      <4> QED
        BY <4>1, <4>2
    <3>5. OneCopy'
      <4>1. \A x \in Requests : \A i, j \in OnLink("coordinator", "reply", x)' : i = j
        BY <3>4 DEF OneCopy
      <4> QED
        BY <2>3, <2>4, <2>6, <3>1, <4>1 DEF OneCopy
    <3>6. /\ \A x \in Requests \ {r} : Replied(x)' <=> Replied(x)
          /\ Replied(r)' <=> "worker" \notin writeClosed
      BY <3>4 DEF Replied
    <3>7. "worker" \notin writeClosed => r \in pending
      BY <2>4, <3>1 DEF OneStage
    <3>8. OneStage' /\ SlotComesBack'
      BY <1>0, <2>3, <2>4, <3>1, <3>2, <3>3, <3>6, <3>7, StageMoves
    <3> QED
      BY <3>5, <3>8
  <2>7. \A b, c \in BOOLEAN : /\ ReplyFrame(r, b, c) \in Frame
                               /\ ReplyFrame(r, b, c).type = "reply"
                               /\ ReplyFrame(r, b, c).id = r
    BY Frames DEF ReplyFrame
  <2> QED
    BY <1>11, <2>2, <2>5, <2>6, <2>7 DEF OnRequest
<1>12. ASSUME OnCancel, UNCHANGED channelVars PROVE OneCopy' /\ OneStage' /\ SlotComesBack'
  <2>1. inbox["worker"] # <<>> /\ Head(inbox["worker"]).type # "request"
    BY <1>12 DEF OnCancel, Arrives
  <2>2. inbox'["worker"] = Tail(inbox["worker"]) /\ inbox'["coordinator"] = inbox["coordinator"]
    BY <1>12, <2>1, AfterTake DEF OnCancel
  <2>3. KeepsFrames("worker", "request") /\ KeepsFrames("coordinator", "reply")
    BY <2>1, <2>2, SameInbox, OtherRead DEF Sides
  <2>4. UNCHANGED <<workQueue, runner, work, hostClosed, pending, writeClosed>>
    BY <1>12 DEF OnCancel, channelVars, requests
  <2>5. OneCopy' /\ SameStages
    BY <2>3, <2>4, QuietLink
  <2> QED
    BY <1>0, <2>4, <2>5, StagesKept
<1>13. ASSUME NEW w \in Runners, TakeWork(w), UNCHANGED channelVars
      PROVE  OneCopy' /\ OneStage' /\ SlotComesBack'
  <2>1. PICK r \in Requests : r = Head(workQueue)
    BY <1>13, TailOf DEF TakeWork
  <2>2. /\ r = workQueue[1] /\ Len(workQueue) \in Nat \ {0} /\ workQueue' = Tail(workQueue)
        /\ Len(workQueue') = Len(workQueue) - 1
        /\ \A i \in 1..Len(workQueue) - 1 : workQueue'[i] = workQueue[i + 1]
    BY <1>13, <2>1, TailOf DEF TakeWork
  <2>3. /\ UNCHANGED <<inbox, hostClosed, pending, writeClosed>>
        /\ runner' = [runner EXCEPT ![w] = "run"] /\ work' = [work EXCEPT ![w] = r]
        /\ runner[w] = "wait"
    BY <1>13, <2>1 DEF TakeWork, channelVars, requests, link
  <2>4. AtWorker(r)
    BY <2>2 DEF AtWorker
  <2>5. ~ToWorker(r) /\ ~Running(r) /\ ~Replied(r)
    BY <2>4 DEF OneStage
  <2>6. \A x \in Requests : (ToWorker(x)' <=> ToWorker(x)) /\ (Replied(x)' <=> Replied(x))
    BY <2>3 DEF ToWorker, Replied, OnLink
  <2>7. \A x \in Requests : Running(x)' <=> Running(x) \/ x = r
    BY <2>3 DEF Running
  <2>8. ASSUME NEW x \in Requests PROVE AtWorker(x)' <=> AtWorker(x) /\ x # r
    <3>1. ASSUME NEW i \in 1..Len(workQueue'), workQueue'[i] = x PROVE AtWorker(x) /\ x # r
      <4>1. /\ i + 1 \in 1..Len(workQueue) /\ workQueue[i + 1] = x /\ i + 1 # 1
            /\ 1 \in 1..Len(workQueue)
        BY <2>2, <3>1
      <4> QED
        BY <2>2, <4>1 DEF AtWorker, OneCopy
    <3>2. ASSUME NEW i \in 1..Len(workQueue), workQueue[i] = x, x # r PROVE AtWorker(x)'
      <4>1. i - 1 \in 1..Len(workQueue') /\ workQueue'[i - 1] = x
        BY <2>2, <3>2
      <4> QED
        BY <4>1 DEF AtWorker
    <3> QED
      BY <3>1, <3>2 DEF AtWorker
  <2>9. OneCopy'
    <3>1. ASSUME NEW i \in 1..Len(workQueue'), NEW j \in 1..Len(workQueue'),
                 workQueue'[i] = workQueue'[j]
          PROVE  i = j
      <4>1. /\ i + 1 \in 1..Len(workQueue) /\ j + 1 \in 1..Len(workQueue)
            /\ workQueue[i + 1] = workQueue[j + 1]
        BY <2>2, <3>1
      <4>2. i + 1 = j + 1
        BY <4>1 DEF OneCopy
      <4> QED
        BY <2>2, <4>2
    <3>2. \A u, v \in Runners :
            runner'[u] = "run" /\ runner'[v] = "run" /\ work'[u] = work'[v] => u = v
      BY <2>3, <2>5 DEF OneCopy, Running
    <3>3. \A x \in Requests :
            /\ \A i, j \in OnLink("worker", "request", x)' : i = j
            /\ \A i, j \in OnLink("coordinator", "reply", x)' : i = j
      BY <2>3 DEF OneCopy, OnLink
    <3> QED
      BY <3>1, <3>2, <3>3 DEF OneCopy
  <2>10. OneStage' /\ SlotComesBack'
    BY <1>0, <2>3, <2>4, <2>5, <2>6, <2>7, <2>8, StageMoves
  <2> QED
    BY <2>9, <2>10
<1>14. ASSUME NEW w \in Runners, Reply(w), UNCHANGED channelVars
      PROVE  OneCopy' /\ OneStage' /\ SlotComesBack'
  <2>1. PICK r \in Requests : r = work[w]
    BY <1>14 DEF Reply, Admission
  <2>2. /\ UNCHANGED <<workQueue, work, hostClosed, pending, writeClosed>>
        /\ runner' = [runner EXCEPT ![w] = "release"] /\ runner[w] = "run"
    BY <1>14 DEF Reply, channelVars, requests
  <2>3. \E f \in Frame : f.type = "reply" /\ f.id = r /\ inbox' = Sent("worker", <<f>>)
    <3>1. PICK c \in BOOLEAN : inbox' = Sent("worker", <<ReplyFrame(r, FALSE, c)>>)
      BY <1>14, <2>1 DEF Reply
    <3> QED
      BY <3>1, Frames DEF ReplyFrame
  <2>4. PICK f \in Frame : f.type = "reply" /\ f.id = r /\ inbox' = Sent("worker", <<f>>)
    BY <2>3
  <2>5. Running(r) /\ ~ToWorker(r) /\ ~AtWorker(r) /\ ~Replied(r)
    BY <2>1, <2>2 DEF Running, OneStage
  <2>6. /\ inbox'["worker"] = inbox["worker"]
        /\ inbox'["coordinator"] =
             IF "worker" \in writeClosed THEN inbox["coordinator"]
             ELSE Append(inbox["coordinator"], f)
    BY <2>4, AfterSend
  <2>7. /\ \A x \in Requests : (ToWorker(x)' <=> ToWorker(x)) /\ (AtWorker(x)' <=> AtWorker(x))
        /\ \A x \in Requests : \A i, j \in OnLink("worker", "request", x)' : i = j
    BY <2>2, <2>6 DEF ToWorker, AtWorker, OnLink, OneCopy
  <2>8. \A x \in Requests : Running(x)' <=> Running(x) /\ x # r
    BY <2>1, <2>2 DEF Running, OneCopy
  <2>9. /\ \A x \in Requests \ {r} : OnLink("coordinator", "reply", x)' = OnLink("coordinator", "reply", x)
        /\ "worker" \in writeClosed => OnLink("coordinator", "reply", r)' = {}
        /\ "worker" \notin writeClosed =>
             OnLink("coordinator", "reply", r)' = {Len(inbox["coordinator"]) + 1}
    <3>1. CASE "worker" \in writeClosed
      BY <2>5, <2>6, <3>1 DEF OnLink, Replied
    <3>2. CASE "worker" \notin writeClosed
      <4>1. OnLink("coordinator", "reply", r) = {}
        BY <2>5 DEF Replied
      <4>2. inbox'["coordinator"] = Append(inbox["coordinator"], f)
        BY <2>6, <3>2
      <4>3. "coordinator" \in Sides /\ LinkType
        BY DEF Sides
      <4>4. /\ \A x \in Requests \ {r} : OnLink("coordinator", "reply", x)' = OnLink("coordinator", "reply", x)
            /\ OnLink("coordinator", "reply", r)' = {Len(inbox["coordinator"]) + 1}
        <5> HIDE DEF RemoteInv, RemoteType, ChannelType, WorkerType
        <5> QED
          BY <2>4, <4>1, <4>2, <4>3, LinkGains
      <4> QED
        BY <3>2, <4>4
    <3> QED
      BY <3>1, <3>2
  <2>10. OneCopy'
    <3>1. \A x \in Requests : \A i, j \in OnLink("coordinator", "reply", x)' : i = j
      BY <2>9 DEF OneCopy
    <3>2. \A u, v \in Runners :
            runner'[u] = "run" /\ runner'[v] = "run" /\ work'[u] = work'[v] => u = v
      BY <2>2 DEF OneCopy
    <3>3. \A i, j \in 1..Len(workQueue') : workQueue'[i] = workQueue'[j] => i = j
      BY <2>2 DEF OneCopy
    <3> QED
      BY <2>7, <3>1, <3>2, <3>3 DEF OneCopy
  <2>11. /\ \A x \in Requests \ {r} : Replied(x)' <=> Replied(x)
         /\ Replied(r)' <=> "worker" \notin writeClosed
    BY <2>9 DEF Replied
  <2>12. "worker" \notin writeClosed => r \in pending
    BY <2>5 DEF OneStage
  <2>13. OneStage' /\ SlotComesBack'
    BY <1>0, <2>2, <2>5, <2>7, <2>8, <2>11, <2>12, StageMoves
  <2> QED
    BY <2>10, <2>13
<1>15. ASSUME StopWork, UNCHANGED channelVars PROVE OneCopy' /\ OneStage' /\ SlotComesBack'
  <2>1. UNCHANGED <<inbox, runner, work, hostClosed, pending, writeClosed>> /\ hostClosed
    BY <1>15 DEF StopWork, channelVars, requests, link
  <2>2. workQueue' = <<>> /\ \A x \in Requests : ~AtWorker(x)'
    BY <1>15 DEF StopWork, AtWorker
  <2>3. \A x \in Requests :
          (ToWorker(x)' <=> ToWorker(x)) /\ (Running(x)' <=> Running(x)) /\ (Replied(x)' <=> Replied(x))
    BY <2>1 DEF ToWorker, Running, Replied, OnLink
  <2>4. OneCopy'
    BY <2>1, <2>2 DEF OneCopy, OnLink
  <2>5. \A x \in Requests : NotOut(x)' => NotOut(x)
    BY <1>0 DEF NotOut, SenderFrame, UnsentOnlyShrinks
  <2>6. OneStage'
    BY <1>0, <2>1, <2>2, <2>3, <2>5 DEF OneStage, SenderFrame
  <2>7. SlotComesBack'
    BY <2>1 DEF SlotComesBack
  <2> QED
    BY <2>4, <2>6, <2>7
<1>16. ASSUME \/ OnWorkerClosed \/ Joined
              \/ (\E w \in Runners : ReleaseWork(w) \/ RunnerExits(w))
              \/ (\E b \in BOOLEAN : ServeEnds(b)), UNCHANGED channelVars
      PROVE  OneCopy' /\ OneStage' /\ SlotComesBack'
  <2>1. /\ inbox' = inbox /\ workQueue' = workQueue /\ (hostClosed => hostClosed')
        /\ writeClosed \subseteq writeClosed' /\ pending' = pending
    BY <1>16
       DEF OnWorkerClosed, ReleaseWork, RunnerExits, ServeEnds, Joined, Closed, link,
           channelVars, requests
  <2>2. /\ \A v \in Runners : runner'[v] = "run" <=> runner[v] = "run"
        /\ \A v \in Runners : runner[v] = "run" => work'[v] = work[v]
    BY <1>16 DEF OnWorkerClosed, ReleaseWork, RunnerExits, ServeEnds, Joined
  <2>3. OneCopy' /\ SameStages
    BY <2>1, <2>2, SameInbox, QuietLink
  <2> QED
    BY <1>0, <2>1, <2>3, StagesKept
<1>17. ASSUME Crash PROVE OneCopy' /\ OneStage' /\ SlotComesBack'
  <2>1. /\ inbox'["worker"] = <<>> /\ inbox'["coordinator"] = inbox["coordinator"]
        /\ workQueue' = <<>> /\ writeClosed' = Sides /\ pending' = pending
        /\ \A w \in Runners : runner'[w] = "exited"
    BY <1>17 DEF Crash, channelVars, requests, LinkType, Sides
  <2>2. \A x \in Requests : ~ToWorker(x)' /\ ~AtWorker(x)' /\ ~Running(x)' /\ (Replied(x)' <=> Replied(x))
    BY <2>1 DEF ToWorker, AtWorker, Running, Replied, OnLink
  <2>3. OneCopy'
    BY <2>1 DEF OneCopy, OnLink
  <2>4. \A x \in Requests : NotOut(x)' => NotOut(x)
    BY <1>0 DEF NotOut, SenderFrame, UnsentOnlyShrinks
  <2>5. "worker" \in writeClosed'
    BY <2>1 DEF Sides
  <2>6. OneStage'
    BY <2>1, <2>2, <2>4, <2>5 DEF OneStage
  <2>7. SlotComesBack'
    BY <2>5 DEF SlotComesBack
  <2> QED
    BY <2>3, <2>6, <2>7
<1>18. CASE UNCHANGED vars
  <2>1. UNCHANGED <<inbox, workQueue, runner, work, hostClosed, pending, writeClosed>>
    BY <1>18 DEF vars, link, channelVars, requests, workerVars
  <2>2. OneCopy' /\ SameStages
    BY <2>1, SameInbox, QuietLink
  <2> QED
    BY <1>0, <2>1, <2>2, StagesKept
<1> QED
  BY <1>1, <1>2, <1>3, <1>4, <1>5, <1>u, <1>6, <1>7, <1>8, <1>9, <1>10, <1>11, <1>12, <1>13, <1>14,
     <1>15, <1>16, <1>17, <1>18
     DEF Next, ChannelNext, SenderStep, ReaderStep, OwnerStep, WorkerNext, WorkerReads,
         RunnerStep, ServeStep

----------------------------------------------------------------------------
(* A cancel never overtakes its request *)

\* What may happen to the frames for the worker.
WorkerInbox ==
  \/ inbox'["worker"] = inbox["worker"]
  \/ inbox'["worker"] = <<>>
  \/ inbox["worker"] # <<>> /\ inbox'["worker"] = Tail(inbox["worker"])
  \/ \E f \in Frame :
       /\ inbox'["worker"] = Append(inbox["worker"], f)
       /\ \/ f.type = "hello"
          \/ f.type = "request" /\ f.id \in Requests /\ WithSender(f.id)
          \/ f.type = "cancel" /\ f.id \in Requests /\ ~NotOut(f.id)

\* ... keeps every cancel behind its request.
LEMMA CancelStays ==
  ASSUME RemoteInv, WorkerInbox, \A x \in Requests : NotOut(x)' => NotOut(x)
  PROVE  CancelBehind'
<1> SUFFICES ASSUME NEW r \in Requests
             PROVE  /\ OnLink("worker", "cancel", r)' # {} => ~NotOut(r)'
                    /\ \A i \in OnLink("worker", "cancel", r)',
                          j \in OnLink("worker", "request", r)' : j < i
  BY DEF CancelBehind
<1>1. /\ OnLink("worker", "cancel", r) # {} => ~NotOut(r)
      /\ \A i \in OnLink("worker", "cancel", r), j \in OnLink("worker", "request", r) : j < i
      /\ LinkType /\ "worker" \in Sides
  BY DEF RemoteInv, RemoteType, CancelBehind, Sides
<1>2. CASE inbox'["worker"] = inbox["worker"]
  BY <1>1, <1>2 DEF OnLink
<1>3. CASE inbox'["worker"] = <<>>
  BY <1>3 DEF OnLink
<1>4. CASE inbox["worker"] # <<>> /\ inbox'["worker"] = Tail(inbox["worker"])
  <2>1. \A i : i \in OnLink("worker", "cancel", r)'
               <=> i \in Nat \ {0} /\ i + 1 \in OnLink("worker", "cancel", r)
    BY <1>1, <1>4, LinkTail
  <2>2. \A i : i \in OnLink("worker", "request", r)'
               <=> i \in Nat \ {0} /\ i + 1 \in OnLink("worker", "request", r)
    BY <1>1, <1>4, LinkTail
  <2>3. ASSUME NEW i \in OnLink("worker", "cancel", r)', NEW j \in OnLink("worker", "request", r)'
        PROVE  j < i
    <3>1. i \in Nat /\ j \in Nat /\ j + 1 < i + 1
      BY <1>1, <2>1, <2>2
    <3> QED
      BY <3>1
  <2> QED
    BY <1>1, <2>1, <2>3
<1>5. ASSUME NEW f \in Frame, inbox'["worker"] = Append(inbox["worker"], f), f.type = "hello"
      PROVE  /\ OnLink("worker", "cancel", r)' = OnLink("worker", "cancel", r)
             /\ OnLink("worker", "request", r)' = OnLink("worker", "request", r)
  BY <1>1, <1>5, OtherSent
<1>6. ASSUME NEW f \in Frame, inbox'["worker"] = Append(inbox["worker"], f),
             f.type = "request", f.id \in Requests, WithSender(f.id)
      PROVE  /\ OnLink("worker", "cancel", r)' # {} => ~NotOut(r)'
             /\ \A i \in OnLink("worker", "cancel", r)',
                   j \in OnLink("worker", "request", r)' : j < i
  <2>1. OnLink("worker", "cancel", r)' = OnLink("worker", "cancel", r)
    BY <1>1, <1>6, OtherSent
  <2>2. OnLink("worker", "request", r)' =
          OnLink("worker", "request", r)
          \cup (IF f.type = "request" /\ f.id = r THEN {Len(inbox["worker"]) + 1} ELSE {})
    BY <1>1, <1>6, LinkAppend
  <2>3. CASE f.id = r
    BY <1>1, <1>6, <2>1, <2>3 DEF NotOut
  <2>4. CASE f.id # r
    BY <1>1, <2>1, <2>2, <2>4
  <2> QED
    BY <2>3, <2>4
<1>7. ASSUME NEW f \in Frame, inbox'["worker"] = Append(inbox["worker"], f),
             f.type = "cancel", f.id \in Requests, ~NotOut(f.id)
      PROVE  /\ OnLink("worker", "cancel", r)' # {} => ~NotOut(r)'
             /\ \A i \in OnLink("worker", "cancel", r)',
                   j \in OnLink("worker", "request", r)' : j < i
  <2>1. OnLink("worker", "request", r)' = OnLink("worker", "request", r)
    BY <1>1, <1>7, OtherSent
  <2>2. OnLink("worker", "cancel", r)' =
          OnLink("worker", "cancel", r)
          \cup (IF f.type = "cancel" /\ f.id = r THEN {Len(inbox["worker"]) + 1} ELSE {})
    BY <1>1, <1>7, LinkAppend
  <2>3. CASE f.id = r
    <3>1. /\ Len(inbox["worker"]) \in Nat
          /\ \A j \in OnLink("worker", "request", r) : j \in Nat /\ j <= Len(inbox["worker"])
      BY <1>1, LinkIndex
    <3>2. \A j \in OnLink("worker", "request", r) : j < Len(inbox["worker"]) + 1
      BY <3>1
    <3> QED
      BY <1>1, <1>7, <2>1, <2>2, <2>3, <3>2
  <2>4. CASE f.id # r
    BY <1>1, <2>1, <2>2, <2>4
  <2> QED
    BY <2>3, <2>4
<1> QED
  BY <1>1, <1>2, <1>3, <1>4, <1>5, <1>6, <1>7 DEF WorkerInbox

\* Every step does one of these: the request is sent before its forwarder is registered,
\* and the forwarder, or the stop that was there already, sends the cancel after that.
LEMMA WorkerInboxStep ==
  ASSUME RemoteInv, [Next]_vars
  PROVE  WorkerInbox
<1> USE ChannelAssumption DEF RemoteInv, RemoteType, ChannelType, WorkerType, WorkerInbox
<1>1. ASSUME NEW t \in Threads, Transfer(t) PROVE WorkerInbox
  <2>1. CASE inbox' = inbox
    BY <2>1
  <2>2. CASE inbox' = Sent("coordinator", <<[type |-> "request", id |-> cur[t]]>>)
    <3>1. PICK r \in Requests : r = cur[t]
      BY <1>1 DEF Transfer, InHand
    <3>2. PICK f \in Frame : f = [type |-> "request", id |-> r]
      BY Frames
    <3>3. f.type = "request" /\ f.id = r /\ WithSender(r)
      BY <1>1, <3>1, <3>2 DEF Transfer, WithSender
    <3> QED
      BY <2>2, <3>1, <3>2, <3>3, AfterSend
  <2> QED
    BY <1>1, <2>1, <2>2 DEF Transfer
<1>2. ASSUME NEW t \in Threads, Register(t) PROVE WorkerInbox
  <2>1. CASE inbox' = inbox
    BY <2>1
  <2>2. CASE inbox' = Sent("coordinator", <<[type |-> "cancel", id |-> cur[t]]>>)
    <3>1. PICK r \in Requests : r = cur[t]
      BY <1>2 DEF Register, InHand
    <3>2. PICK f \in Frame : f = [type |-> "cancel", id |-> r]
      BY Frames
    <3>3. ~NotOut(r)
      BY <1>2, <3>1 DEF Register, OneSender, Sending, NotOut, WithSender
    <3>4. f.type = "cancel" /\ f.id = r
      BY <3>2
    <3> QED
      BY <2>2, <3>1, <3>2, <3>3, <3>4, AfterSend
  <2> QED
    BY <1>2, <2>1, <2>2 DEF Register
<1>3. ASSUME OnHandshake PROVE WorkerInbox
  BY <1>3, AfterTake DEF OnHandshake, Arrives
<1>4. ASSUME OnReply PROVE WorkerInbox
  BY <1>4, AfterTake DEF OnReply, Arrives
<1>u. ASSUME OnUnreadable PROVE WorkerInbox
  BY <1>u, AfterTake DEF OnUnreadable, Arrives
<1>5. ASSUME Connect PROVE WorkerInbox
  <2>1. PICK f \in Frame : f = [type |-> "hello"]
    BY Frames
  <2>2. f.type = "hello"
    BY <2>1
  <2> QED
    BY <1>5, <2>1, <2>2, AfterSend DEF Connect
<1>6. ASSUME NEW r \in Requests, SendCancel(r) PROVE WorkerInbox
  <2>1. PICK f \in Frame : f = [type |-> "cancel", id |-> r]
    BY Frames
  <2>2. ~NotOut(r)
    BY <1>6 DEF SendCancel, OneSender, Sending, NotOut, WithSender
  <2>3. f.type = "cancel" /\ f.id = r
    BY <2>1
  <2> QED
    BY <1>6, <2>1, <2>2, <2>3, AfterSend DEF SendCancel
<1>7. ASSUME \/ (\E t \in Threads : FailPending(t) \/ Fail(t) \/ Launch(t) \/ TakeNext(t))
             \/ Answer \/ OnClosed \/ CloseDone \/ ConnectReturns \/ Destroyed \/ HandshakeTimeout \/ Destroy
             \/ (\E r \in Requests : FailDoomed(r) \/ Submit(r) \/ RequestStop(r))
      PROVE  WorkerInbox
  BY <1>7
     DEF FailPending, Fail, Launch, TakeNext, Answer, OnClosed, CloseDone, FailDoomed,
         ConnectReturns, Destroyed, HandshakeTimeout, Destroy, Submit, RequestStop, Send, link
<1>8. ASSUME OnHello PROVE WorkerInbox
  <2>1. PICK f \in Frame : inbox' = Taken("worker", <<f>>)
    BY <1>8, Frames DEF OnHello
  <2> QED
    BY <1>8, <2>1, AfterAnswer DEF OnHello, Arrives
<1>9. ASSUME OnRequest PROVE WorkerInbox
  <2>1. inbox["worker"] # <<>> /\ Head(inbox["worker"]).id \in Requests
    BY <1>9, HeadFrame DEF OnRequest, Arrives, Sides
  <2>2. CASE inbox' = Taken("worker", <<>>)
    BY <2>1, <2>2, AfterTake
  <2>3. ASSUME NEW f \in Frame, inbox' = Taken("worker", <<f>>) PROVE WorkerInbox
    BY <2>1, <2>3, AfterAnswer
  <2> QED
    BY <1>9, <2>1, <2>2, <2>3, Frames DEF OnRequest
<1>10. ASSUME OnCancel PROVE WorkerInbox
  BY <1>10, AfterTake DEF OnCancel, Arrives
<1>11. ASSUME NEW w \in Runners, Reply(w) PROVE WorkerInbox
  <2>1. PICK f \in Frame : inbox' = Sent("worker", <<f>>)
    BY <1>11, Frames DEF Reply, Admission
  <2> QED
    BY <2>1, AfterSend
<1>12. ASSUME \/ OnWorkerClosed \/ StopWork \/ Joined
              \/ (\E w \in Runners : TakeWork(w) \/ ReleaseWork(w) \/ RunnerExits(w))
              \/ (\E b \in BOOLEAN : ServeEnds(b))
      PROVE  WorkerInbox
  BY <1>12
     DEF OnWorkerClosed, TakeWork, ReleaseWork, RunnerExits, ServeEnds, StopWork, Joined, link
<1>13. ASSUME Crash PROVE WorkerInbox
  BY <1>13 DEF Crash, LinkType, Sides
<1>14. CASE UNCHANGED vars
  BY <1>14 DEF vars, link
<1> QED
  BY <1>1, <1>2, <1>3, <1>4, <1>5, <1>u, <1>6, <1>7, <1>8, <1>9, <1>10, <1>11, <1>12, <1>13, <1>14
     DEF Next, ChannelNext, SenderStep, ReaderStep, OwnerStep, WorkerNext, WorkerReads,
         RunnerStep, ServeStep

LEMMA CancelStep ==
  ASSUME RemoteInv, [Next]_vars
  PROVE  CancelBehind'
<1>1. UnsentOnlyShrinks /\ SenderFrame /\ WorkerInbox
  BY UnsentShrinks, SenderFrameStep, WorkerInboxStep
<1>2. \A x \in Requests : NotOut(x)' => NotOut(x)
  BY <1>1 DEF UnsentOnlyShrinks, SenderFrame, NotOut
<1> QED
  BY <1>1, <1>2, CancelStays

----------------------------------------------------------------------------
(* The theorems *)

\* The first state.
LEMMA RemoteInit ==
  ASSUME Init
  PROVE  RemoteInv
<1> USE ChannelAssumption DEF Init, TransportInit, ChannelInit, WorkerInit, Threads, Reader
<1>0. /\ <<>> \in Seq(Requests) /\ 1..Len(queued) = {} /\ 1..Len(workQueue) = {}
      /\ queued \in Seq(Requests) /\ workQueue \in Seq(Requests)
  OBVIOUS
<1>1. inbox["worker"] = <<>> /\ inbox["coordinator"] = <<>>
  BY DEF Sides
<1>2. \A x \in Requests : /\ OnLink("worker", "request", x) = {}
                         /\ OnLink("worker", "cancel", x) = {}
                         /\ OnLink("coordinator", "reply", x) = {}
  BY <1>1 DEF OnLink
<1>3. LinkType
  BY DEF LinkType, Sides
<1>4. ChannelType
  BY <1>0 DEF ChannelType
<1>5. WorkerType
  BY <1>0 DEF WorkerType
<1>6. InHand
  BY DEF InHand
<1>7. OneEach
  BY <1>0 DEF OneEach
<1>8. OnePlace
  BY <1>0 DEF OnePlace, InQueue, Awaits, Ending
<1>9. OneSender
  BY DEF OneSender, Sending
<1>10. OneCopy
  BY <1>2 DEF OneCopy
<1>11. \A x \in Requests : /\ ~ToWorker(x) /\ ~AtWorker(x) /\ ~Running(x) /\ ~Replied(x)
                          /\ ~WithSender(x)
  BY <1>0, <1>2 DEF ToWorker, AtWorker, Running, Replied, WithSender
<1>12. OneStage
  BY <1>11 DEF OneStage
<1>13. CancelBehind
  BY <1>2 DEF CancelBehind
<1>14. Closing
  BY DEF Closing
<1>15. Admission
  <2>1. BusyRunners = {}
    BY DEF BusyRunners
  <2>2. Cardinality(BusyRunners) = 0
    BY <2>1, FS_EmptySet
  <2>3. Cardinality(Runners) \in Nat
    BY WorkerAssumption, FS_CardinalityType
  <2> QED
    BY <2>2, <2>3 DEF Admission
<1>16. SlotComesBack
  BY DEF SlotComesBack
<1> QED
  BY <1>3, <1>4, <1>5, <1>6, <1>7, <1>8, <1>9, <1>10, <1>12, <1>13, <1>14, <1>15, <1>16
     DEF RemoteInv, RemoteType

\* Every step.
LEMMA RemoteStep ==
  ASSUME RemoteInv, [Next]_vars
  PROVE  RemoteInv'
<1>1. LinkType' /\ ChannelType' /\ InHand'
  BY LinkTypeStep, ChannelTypeStep, InHandStep
<1>2. WorkerType' /\ Admission'
  BY WorkerStepKeeps
<1>3. OneEach' /\ OnePlace'
  BY HoldersStep
<1>4. OneSender' /\ Closing'
  BY SenderInvStep, ClosingStep
<1>5. OneCopy' /\ OneStage' /\ SlotComesBack'
  BY JourneyStep
<1>6. CancelBehind'
  BY CancelStep
<1> QED
  BY <1>1, <1>2, <1>3, <1>4, <1>5, <1>6 DEF RemoteInv, RemoteType

\* The inductive invariant of a channel and a worker, for any number of requests and
\* runners, with a worker that may die at any step: where each Completion is, who sends
\* each request, and where it is on its way to the worker and back.
THEOREM RemoteInvariance == Spec => []RemoteInv
<1>1. Init => RemoteInv
  BY RemoteInit
<1>2. RemoteInv /\ [Next]_vars => RemoteInv'
  BY RemoteStep
<1> QED
  BY <1>1, <1>2, PTL DEF Spec

\* The places of a Completion, counted.
LEMMA HoldersCounted ==
  ASSUME RemoteInv, NEW r \in Requests
  PROVE  Cardinality(Holders(r)) = IF pc[r] = "new" \/ r \in completed THEN 0 ELSE 1
<1> DEFINE ending == {u \in Threads : cur[u] = r /\ pc[u] \in {"fail", "answer"}}
<1> DEFINE waiting == {u \in Threads : next[u] = r}
<1> DEFINE places == {k \in 1..Len(queued) : queued[k] = r}
<1>1. Holders(r) = {<<"ending", t>> : t \in ending} \cup {<<"next", t>> : t \in waiting}
                   \cup {<<"queued", i>> : i \in places}
                   \cup {<<"pending", q>> : q \in pending \cap {r}}
                   \cup {<<"doomed", q>> : q \in doomed \cap {r}}
  BY DEF Holders
<1>2. /\ Ending(r) <=> ending # {}
      /\ Awaits(r) <=> waiting # {}
      /\ InQueue(r) <=> places # {}
  BY DEF Ending, Awaits, InQueue
<1>3. r # NoRequest
  BY ChannelAssumption
<1>4. /\ \A t, u \in ending : t = u
      /\ \A t, u \in waiting : t = u
      /\ \A i, j \in places : i = j
  BY <1>3 DEF RemoteInv, OneEach
<1>5. (r \in pending \/ r \in doomed \/ InQueue(r) \/ Awaits(r) \/ Ending(r))
        <=> ~(pc[r] = "new" \/ r \in completed)
  BY DEF RemoteInv, OnePlace
<1>6. /\ r \in pending => r \notin doomed /\ ~InQueue(r) /\ ~Awaits(r) /\ ~Ending(r)
      /\ r \in doomed => ~InQueue(r) /\ ~Awaits(r) /\ ~Ending(r)
      /\ InQueue(r) => ~Awaits(r) /\ ~Ending(r)
      /\ Awaits(r) => ~Ending(r)
  BY DEF RemoteInv, OnePlace
<1> HIDE DEF ending, waiting, places
<1>7. ASSUME pc[r] = "new" \/ r \in completed PROVE Holders(r) = {}
  <2>1. ending = {} /\ waiting = {} /\ places = {} /\ r \notin pending /\ r \notin doomed
    BY <1>2, <1>5, <1>7
  <2> QED
    BY <1>1, <2>1
<1>8. ASSUME ~(pc[r] = "new" \/ r \in completed) PROVE \E x : Holders(r) = {x}
  <2>1. CASE r \in pending
    <3>1. ending = {} /\ waiting = {} /\ places = {} /\ r \notin doomed
      BY <1>2, <1>6, <2>1
    <3>2. Holders(r) = {<<"pending", r>>}
      BY <1>1, <2>1, <3>1
    <3> QED
      BY <3>2
  <2>2. CASE r \in doomed
    <3>1. ending = {} /\ waiting = {} /\ places = {} /\ r \notin pending
      BY <1>2, <1>6, <2>2
    <3>2. Holders(r) = {<<"doomed", r>>}
      BY <1>1, <2>2, <3>1
    <3> QED
      BY <3>2
  <2>3. CASE InQueue(r)
    <3>1. ending = {} /\ waiting = {} /\ r \notin pending /\ r \notin doomed
      BY <1>2, <1>6, <2>3
    <3>2. PICK i : i \in places
      BY <1>2, <2>3
    <3>3. places = {i}
      BY <1>4, <3>2
    <3>4. Holders(r) = {<<"queued", i>>}
      BY <1>1, <3>1, <3>3
    <3> QED
      BY <3>4
  <2>4. CASE Awaits(r)
    <3>1. ending = {} /\ places = {} /\ r \notin pending /\ r \notin doomed
      BY <1>2, <1>6, <2>4
    <3>2. PICK t : t \in waiting
      BY <1>2, <2>4
    <3>3. waiting = {t}
      BY <1>4, <3>2
    <3>4. Holders(r) = {<<"next", t>>}
      BY <1>1, <3>1, <3>3
    <3> QED
      BY <3>4
  <2>5. CASE Ending(r)
    <3>1. waiting = {} /\ places = {} /\ r \notin pending /\ r \notin doomed
      BY <1>2, <1>6, <2>5
    <3>2. PICK t : t \in ending
      BY <1>2, <2>5
    <3>3. ending = {t}
      BY <1>4, <3>2
    <3>4. Holders(r) = {<<"ending", t>>}
      BY <1>1, <3>1, <3>3
    <3> QED
      BY <3>4
  <2> QED
    BY <1>5, <1>8, <2>1, <2>2, <2>3, <2>4, <2>5
<1>9. CASE pc[r] = "new" \/ r \in completed
  BY <1>7, <1>9, FS_EmptySet
<1>10. CASE ~(pc[r] = "new" \/ r \in completed)
  <2>1. PICK x : Holders(r) = {x}
    BY <1>8, <1>10
  <2>2. Cardinality({x}) = 1
    BY FS_Singleton
  <2> QED
    BY <1>10, <2>1, <2>2
<1> QED
  BY <1>9, <1>10

\* Each submitted request's Completion is in exactly one place until it is completed, and
\* in none afterwards: send(), handleReply(), failPending(), launch() and onClosed() forget
\* none and complete none twice, in any order and with any number of requests.
THEOREM CompletedOnce == Spec => []OneHolder
<1>1. RemoteInv => OneHolder
  BY HoldersCounted DEF OneHolder
<1> QED
  BY <1>1, RemoteInvariance, PTL

\* The cancel forwarder is registered after the request was sent, so no cancel is on the
\* way before, or in front of, its request.
THEOREM CancelNeverOvertakes == Spec => []CancelFollowsRequest
<1>1. RemoteInv => CancelFollowsRequest
  BY DEF RemoteInv, CancelBehind, CancelFollowsRequest, NotOut, WithSender
<1> QED
  BY <1>1, RemoteInvariance, PTL

\* While the connection is up every request in flight is with its sender, on the way, at
\* the worker or in a reply: no slot of maxInFlight is lost.
THEOREM SlotsComeBack == Spec => []SlotComesBack
<1>1. RemoteInv => SlotComesBack
  BY DEF RemoteInv
<1> QED
  BY <1>1, RemoteInvariance, PTL

\* Once ~RemoteChannel() has returned no thread is in the channel, no cancel forwarder is
\* registered or running, and nothing is outstanding.
THEOREM DestructorWaits == Spec => []NotUsedAfterDestruction
<1>1. RemoteInv => NotUsedAfterDestruction
  <2> SUFFICES ASSUME RemoteInv, owner = "destroyed"
               PROVE  /\ \A r \in Requests : forward[r] \notin {"registered", "calling"}
                      /\ \A t \in Threads : pc[t] \in {"new", "out", "ended"}
                      /\ pending = {} /\ queued = <<>> /\ doomed = {}
    BY DEF NotUsedAfterDestruction
  <2>1. pc[Reader] = "ended" /\ pending = {} /\ queued = <<>> /\ doomed = {}
    BY DEF RemoteInv, Closing
  <2>2. \A r \in Requests : pc[r] \in {"new", "out"} /\ forward[r] \notin {"registered", "calling"}
    BY <2>1 DEF RemoteInv, Closing
  <2> QED
    BY <2>1, <2>2 DEF Threads
<1> QED
  BY <1>1, RemoteInvariance, PTL

\* Every reply on the way names a request that is still pending ...
ReplyExpected == \A r \in Requests : OnLink("coordinator", "reply", r) # {} => r \in pending

\* ... so that handleReply() always finds it: the worker answers a request once, and
\* onClosed(), which drops what is pending, comes after the last frame.
THEOREM ReplyFindsRequest == Spec => []ReplyExpected
<1>1. RemoteInv => ReplyExpected
  BY DEF RemoteInv, OneStage, Replied, ReplyExpected
<1> QED
  BY <1>1, RemoteInvariance, PTL

\* The requests a worker has queued or runs are counted by admitted_, which never exceeds
\* maxConcurrentRequests.
THEOREM WorkerWithinLimit == Spec => []Admission
<1>1. RemoteInv => Admission
  BY DEF RemoteInv
<1> QED
  BY <1>1, RemoteInvariance, PTL
=============================================================================
