------------------------------ MODULE Remote ------------------------------
(***************************************************************************)
(* A RemoteChannel and a WorkerHost over one transport.  The worker's      *)
(* process may die at any moment.                                          *)
(***************************************************************************)
EXTENDS Channel, WorkerHost

\* min(Options::maxInFlight, the worker's maxConcurrentRequests)
ASSUME RemoteAssumption == Limit <= Cardinality(Runners)

vars == <<link, channelVars, workerVars>>

Init == TransportInit /\ ChannelInit /\ WorkerInit

\* The worker's process dies, with what it held and had not read.  What it had sent
\* is still delivered; the coordinator's sends fail.
Crash ==
  /\ pipe /\ host # "dead"
  /\ host' = "dead"
  /\ writeClosed' = Sides
  /\ inbox' = [inbox EXCEPT !["worker"] = <<>>]
  /\ handshaken' = FALSE /\ admitted' = 0 /\ workQueue' = <<>> /\ active' = {} /\ stopped' = {}
  /\ runner' = [w \in Runners |-> "exited"] /\ work' = [w \in Runners |-> NoRequest]
  /\ hostClosed' = TRUE
  /\ UNCHANGED <<pipe, channelVars>>

Next ==
  \/ ChannelNext /\ UNCHANGED workerVars
  \/ WorkerNext /\ UNCHANGED channelVars
  \/ Crash

\* Threads run and the jobs of a request end.  Nobody has to submit, to stop a
\* job, to destroy the channel or to stop serve().
Fairness ==
  /\ \A r \in Requests : WF_vars(SenderStep(r) /\ UNCHANGED workerVars)
  /\ WF_vars((ReaderStep \/ SenderStep(Reader)) /\ UNCHANGED workerVars)
  /\ WF_vars(OwnerStep /\ UNCHANGED workerVars)
  /\ \A r \in Cancellable : WF_vars(SendCancel(r) /\ UNCHANGED workerVars)
  /\ WF_vars(WorkerReads /\ UNCHANGED channelVars)
  /\ \A w \in Runners : WF_vars(RunnerStep(w) /\ UNCHANGED channelVars)
  /\ WF_vars(ServeStep /\ UNCHANGED channelVars)

Spec == Init /\ [][Next]_vars
FairSpec == Spec /\ Fairness

----------------------------------------------------------------------------
(* Properties *)

\* The places a request's Completion can be.
Holders(r) ==
  {<<"ending", t>> : t \in {u \in Threads : cur[u] = r /\ pc[u] \in {"fail", "answer"}}}
  \cup {<<"next", t>> : t \in {u \in Threads : next[u] = r}}
  \cup {<<"queued", i>> : i \in {k \in 1..Len(queued) : queued[k] = r}}
  \cup {<<"pending", q>> : q \in pending \cap {r}}
  \cup {<<"doomed", q>> : q \in doomed \cap {r}}

\* Each submitted request's Completion is in exactly one place until it is
\* completed and in none afterwards, whichever of reply, local failure, cancel and
\* connection loss comes first: none is forgotten and none completed twice.
OneHolder ==
  \A r \in Requests :
    Cardinality(Holders(r)) = IF pc[r] = "new" \/ r \in completed THEN 0 ELSE 1

\* The frames of a type on the way to side s that name r.
OnLink(s, type, r) ==
  {i \in 1..Len(inbox[s]) : inbox[s][i].type = type /\ inbox[s][i].id = r}

\* channel.cpp: "Registered after the send so that a cancel never overtakes its
\* request".
CancelFollowsRequest ==
  \A r \in Requests : OnLink("worker", "cancel", r) # {} =>
    /\ \A t \in Threads : cur[t] = r => pc[t] # "transfer"
    /\ \A i \in OnLink("worker", "cancel", r), j \in OnLink("worker", "request", r) : j < i

\* While the connection is up a request in flight is somewhere: with its sender,
\* on the way, queued or running at the worker, or its reply is on the way.  Its
\* slot is therefore given back, cancelled or not.
SlotComesBack ==
  writeClosed = {} /\ ~hostClosed =>
    \A r \in pending :
      \/ \E t \in Threads : cur[t] = r /\ pc[t] \in {"transfer", "failPending"}
      \/ OnLink("worker", "request", r) # {}
      \/ r \in Elements(workQueue)
      \/ \E w \in Runners : work[w] = r /\ runner[w] = "run"
      \/ OnLink("coordinator", "reply", r) # {}

\* The destructor waits for onClosed(), which unregisters the cancel forwarders
\* and waits for those that run: afterwards no thread uses the channel.
NotUsedAfterDestruction ==
  owner = "destroyed" =>
    /\ \A r \in Requests : forward[r] \notin {"registered", "calling"}
    /\ \A t \in Threads : pc[t] \in {"new", "out", "ended"}
    /\ pending = {} /\ queued = <<>> /\ doomed = {}

\* A job that runs until it is stopped has the worker, and nobody stops it.
HeldUp == \E r \in Endless : pc[r] # "new" /\ r \notin stop \cup completed

\* Every submitted request is completed: by its reply, by a failure of its own, or
\* when the connection or the worker is lost; a queued one too.  A stop reaches an
\* endless job at the worker, whenever it comes.
EveryRequestEnds ==
  \A r \in Requests : (pc[r] # "new") ~> (r \in completed \/ HeldUp)

\* The channel's destructor and serve() return, whichever side closes first and
\* whatever the worker is running.
ShutdownEnds ==
  /\ (owner = "closing") ~> (owner = "destroyed")
  /\ (host = "closing") ~> (host \in {"returned", "dead"})

\* cross-process-orchestration.md:458-459: "A worker answers a request beyond its
\* own limit with every job failed `kBusy`, which a coordinator that honours the
\* handshake never sees."
NeverBusy ==
  \A i \in 1..Len(inbox["coordinator"]) :
    inbox["coordinator"][i].type = "reply" => ~inbox["coordinator"][i].busy
=============================================================================
