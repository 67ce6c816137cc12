---------------------------- MODULE WorkerHost ----------------------------
(***************************************************************************)
(* The worker's end of a connection: WorkerHost in                         *)
(* src/src/remote/worker_host.cpp.  The transport's thread handles frames, *)
(* runner threads run requests, and serve() waits for the end.  What a     *)
(* request's own pipeline does is reduced to its reply.                    *)
(***************************************************************************)
EXTENDS Transport, FiniteSets

CONSTANTS
  Runners,     \* runner threads: maxConcurrentRequests of them
  Fragile,     \* requests whose inputs the payload strategy may fail to resolve
  Endless,     \* requests whose jobs run until they are stopped
  LongOutput   \* requests a job of which may return a handle over kMaxHandleBytes

ASSUME WorkerAssumption ==
  /\ IsFiniteSet(Runners)
  /\ Fragile \subseteq Requests /\ Endless \subseteq Requests /\ LongOutput \subseteq Requests

VARIABLES
  handshaken,  \* handshaken_
  admitted,    \* admitted_
  workQueue,   \* queue_
  active,      \* active_
  stopped,     \* requests whose Work::stop was requested
  runner,      \* where each runner is
  work,        \* the request each runner holds
  hostClosed,  \* closed_
  host         \* where serve() is

workerVars == <<handshaken, admitted, workQueue, active, stopped, runner, work, hostClosed, host>>

WorkerInit ==
  /\ handshaken = FALSE
  /\ admitted = 0
  /\ workQueue = <<>>
  /\ active = {}
  /\ stopped = {}
  /\ runner = [w \in Runners |-> "wait"]
  /\ work = [w \in Runners |-> NoRequest]
  /\ hostClosed = FALSE
  /\ host = "serving"

\* A reply: whether every job failed kBusy, and whether the peer's decoder takes it.
ReplyFrame(r, busy, readable) ==
  [type |-> "reply", id |-> r, busy |-> busy, readable |-> readable]

----------------------------------------------------------------------------
(* Frames *)

\* kHello: the registries agree and the worker accepts, or it rejects and closes.
OnHello ==
  /\ Arrives("worker", "hello") /\ ~handshaken
  /\ \/ /\ handshaken' = TRUE
        /\ inbox' = Taken("worker", <<[type |-> "ack"]>>)
        /\ UNCHANGED writeClosed
     \/ /\ inbox' = Taken("worker", <<[type |-> "reject"]>>)
        /\ writeClosed' = Closed("worker")
        /\ UNCHANGED handshaken
  /\ UNCHANGED <<pipe, admitted, workQueue, active, stopped, runner, work, hostClosed, host>>

Admissible == admitted < Cardinality(Runners)

\* kRequest: admitted and queued, or answered at once.  The coordinator sends
\* none before the handshake.
OnRequest ==
  /\ Arrives("worker", "request")
  /\ LET r == Head(inbox["worker"]).id IN
     \/ /\ Admissible
        /\ admitted' = admitted + 1
        /\ workQueue' = Append(workQueue, r)
        /\ inbox' = Taken("worker", <<>>)
     \/ /\ ~Admissible
        /\ inbox' = Taken("worker", <<ReplyFrame(r, TRUE, TRUE)>>)
        /\ UNCHANGED <<admitted, workQueue>>
     \/ /\ r \in Fragile
        /\ inbox' = Taken("worker", <<ReplyFrame(r, FALSE, TRUE)>>)
        /\ UNCHANGED <<admitted, workQueue>>
  /\ UNCHANGED <<pipe, writeClosed, handshaken, active, stopped, runner, work, hostClosed, host>>

\* Mutant: a cancelled request leaves the queue unanswered.
MutOnCancel ==
  /\ Arrives("worker", "cancel")
  /\ LET r == Head(inbox["worker"]).id IN
     /\ stopped' = stopped \cup ({r} \cap active)
     /\ workQueue' = SelectSeq(workQueue, LAMBDA q : q # r)
  /\ inbox' = Taken("worker", <<>>)
  /\ UNCHANGED <<pipe, writeClosed, handshaken, admitted, active, runner, work, hostClosed, host>>

\* kCancel: stops the request whether it is queued or running; a queued one still
\* runs, and is answered.
OnCancel ==
  /\ Arrives("worker", "cancel")
  /\ LET r == Head(inbox["worker"]).id IN
     stopped' = stopped \cup ({r} \cap (active \cup Elements(workQueue)))
  /\ inbox' = Taken("worker", <<>>)
  /\ UNCHANGED <<pipe, writeClosed, handshaken, admitted, workQueue, active, runner, work,
                 hostClosed, host>>

OnWorkerClosed ==
  /\ AtEnd("worker") /\ ~hostClosed
  /\ writeClosed' = Closed("worker")
  /\ hostClosed' = TRUE
  /\ UNCHANGED <<pipe, inbox, handshaken, admitted, workQueue, active, stopped, runner, work, host>>

----------------------------------------------------------------------------
(* Runners *)

TakeWork(w) ==
  /\ runner[w] = "wait" /\ workQueue # <<>>
  /\ runner' = [runner EXCEPT ![w] = "run"]
  /\ work' = [work EXCEPT ![w] = Head(workQueue)]
  /\ workQueue' = Tail(workQueue)
  /\ active' = active \cup {Head(workQueue)}
  /\ UNCHANGED <<link, handshaken, admitted, stopped, hostClosed, host>>

\* run() ends with the reply, also when the request was stopped.  A handle a job returned
\* goes out as it is.
Reply(w) ==
  /\ runner[w] = "run" /\ (work[w] \in Endless => work[w] \in stopped)
  /\ \E readable \in BOOLEAN :
       /\ ~readable => work[w] \in LongOutput
       /\ inbox' = Sent("worker", <<ReplyFrame(work[w], FALSE, readable)>>)
  /\ runner' = [runner EXCEPT ![w] = "release"]
  /\ UNCHANGED <<pipe, writeClosed, handshaken, admitted, workQueue, active, stopped, work,
                 hostClosed, host>>

ReleaseWork(w) ==
  /\ runner[w] = "release"
  /\ active' = active \ {work[w]}
  /\ admitted' = admitted - 1
  /\ runner' = [runner EXCEPT ![w] = "wait"]
  /\ work' = [work EXCEPT ![w] = NoRequest]
  /\ stopped' = stopped \ {work[w]}
  /\ UNCHANGED <<link, handshaken, workQueue, hostClosed, host>>

\* The wait of a runner that was asked to stop ends without work.
RunnerExits(w) ==
  /\ runner[w] = "wait" /\ workQueue = <<>> /\ host = "joining"
  /\ runner' = [runner EXCEPT ![w] = "exited"]
  /\ UNCHANGED <<link, handshaken, admitted, workQueue, active, stopped, work, hostClosed, host>>

----------------------------------------------------------------------------
(* serve() *)

\* The connection has closed, or serve()'s stop token was triggered.
ServeEnds(byStop) ==
  /\ host = "serving" /\ (hostClosed \/ byStop)
  /\ writeClosed' = Closed("worker")
  /\ host' = "closing"
  /\ UNCHANGED <<pipe, inbox, handshaken, admitted, workQueue, active, stopped, runner, work,
                 hostClosed>>

\* Mutant: only what waits is stopped.
MutStopWork ==
  /\ host = "closing" /\ hostClosed
  /\ stopped' = stopped \cup Elements(workQueue)
  /\ workQueue' = <<>>
  /\ host' = "joining"
  /\ UNCHANGED <<link, handshaken, admitted, active, runner, work, hostClosed>>

\* No frame arrives any more: stop what runs, drop what waits, stop the runners.
StopWork ==
  /\ host = "closing" /\ hostClosed
  /\ stopped' = stopped \cup active \cup Elements(workQueue)
  /\ workQueue' = <<>>
  /\ host' = "joining"
  /\ UNCHANGED <<link, handshaken, admitted, active, runner, work, hostClosed>>

Joined ==
  /\ host = "joining" /\ \A w \in Runners : runner[w] = "exited"
  /\ host' = "returned"
  /\ UNCHANGED <<link, handshaken, admitted, workQueue, active, stopped, runner, work, hostClosed>>

----------------------------------------------------------------------------
WorkerReads == OnHello \/ OnRequest \/ OnCancel \/ OnWorkerClosed
RunnerStep(w) == TakeWork(w) \/ Reply(w) \/ ReleaseWork(w) \/ RunnerExits(w)
ServeStep == ServeEnds(FALSE) \/ StopWork \/ Joined

WorkerNext ==
  \/ WorkerReads
  \/ \E w \in Runners : RunnerStep(w)
  \/ ServeStep \/ ServeEnds(TRUE)
=============================================================================
