------------------------ MODULE SchedulerInvariant ------------------------
(***************************************************************************)
(* The inductive invariant behind the safety properties of Scheduler.      *)
(***************************************************************************)
EXTENDS Scheduler

Started == {"kRunning", "kAwaiting"}

\* Who may finish a started job: the thread in its body, the two parties that
\* have not both arrived, the foreign thread that arrived last, or the
\* continuation it dispatched.
HeldByBody(j)    == pc[JobThread(j)] \in {"invoke", "body", "start", "finish"}
HeldByParties(j) == parties[j] # 0
HeldByOutcome(j) == pc[OutcomeThread(j)] \in {"deliver", "finish"}
HeldByCont(j)    == pc[ContThread(j)] \in {"queued", "finish"}

\* A started job has exactly one holder, any other job has none.
Ownership ==
  \A j \in Jobs :
    /\ status[j] \in Started
         <=> HeldByBody(j) \/ HeldByParties(j) \/ HeldByOutcome(j) \/ HeldByCont(j)
    /\ HeldByBody(j) => ~HeldByParties(j) /\ ~HeldByOutcome(j) /\ ~HeldByCont(j)
    /\ HeldByParties(j) => ~HeldByOutcome(j) /\ ~HeldByCont(j)
    /\ HeldByOutcome(j) => ~HeldByCont(j)

\* parties counts who has not arrived: the body, and whoever decides the outcome.
PartyInv ==
  \A j \in Jobs :
    /\ pc[JobThread(j)] \in {"starting", "arrive"} => parties[j] # 0
    /\ pc[OutcomeThread(j)] = "arrive" => parties[j] # 0
    /\ parties[j] = 2 => /\ pc[JobThread(j)] \in {"starting", "arrive"}
                         /\ pc[OutcomeThread(j)] \in {"idle", "arrive"}
    /\ parties[j] = 1 =>
         \/ /\ pc[JobThread(j)] \in {"starting", "arrive"}
            /\ pc[OutcomeThread(j)] = "done"
         \/ /\ pc[JobThread(j)] = "done"
            /\ pc[OutcomeThread(j)] \in {"idle", "arrive"}
    /\ pc[JobThread(j)] \in {"idle", "queued", "claim", "invoke", "body", "start"}
         => pc[OutcomeThread(j)] = "idle"
    /\ pc[OutcomeThread(j)] \in {"idle", "arrive", "deliver"} => pc[ContThread(j)] = "idle"

Submitting(t) == pc[t] \in {"submit", "rejected"}

\* A job is submitted at most once, by one thread, before it has a callback.
SubmitInv ==
  \A t \in Threads : Submitting(t) =>
    /\ cur[t] \in Jobs
    /\ status[cur[t]] \in {"kReady", "kSkipped"}
    /\ pc[JobThread(cur[t])] = "idle"

SubmitOnce ==
  \A t, u \in Threads : Submitting(t) /\ Submitting(u) /\ cur[t] = cur[u] => t = u

\* A pending job, and a root the run thread has not reached, has no callback.
PendingInv == \A j \in Jobs : status[j] = "kPending" => pc[JobThread(j)] = "idle"

RootInv ==
  \A r \in roots :
    /\ status[r] \in {"kReady", "kSkipped"}
    /\ pc[JobThread(r)] = "idle"
    /\ \A t \in Threads : Submitting(t) => cur[t] # r

\* Nothing is skipped before a failure is recorded.
SkipInv == \A t \in Threads : pc[t] \in {"skip", "drain"} => hasFatalFailure

\* The job about to be recorded already carries the status its error implies.
RecordInv ==
  \A t \in Threads : pc[t] = "record" =>
    /\ JobOf(t) \in Jobs
    /\ result[JobOf(t)] \in Errors
    /\ status[JobOf(t)] = StatusOf(result[JobOf(t)])

RejectInv ==
  \A t \in Threads : pc[t] = "recordRejected" =>
    cur[t] \in Jobs /\ (hasFatalFailure \/ status[cur[t]] = "kFailed")

\* The edges a thread has left belong to the job it finished.
TodoInv ==
  \A t \in Threads : \A e \in todo[t] :
    t # RunThread /\ e.from = JobOf(t) /\ Satisfied(e.from)

TodoOnce == \A t, u \in Threads : todo[t] \cap todo[u] # {} => t = u

\* Edges whose predecessor has not released them yet.
Unreleased(j) ==
  {e \in InEdges(j) : ~Satisfied(e.from) \/ \E t \in Threads : e \in todo[t]}

CountInv == \A j \in Jobs : Cardinality(Unreleased(j)) <= unmet[j]

BeforeFinish == {"idle", "queued", "claim", "invoke", "body", "start", "starting", "arrive"}

\* A thread owes nothing before it takes over a finish; a foreign thread that
\* delivers owes its own count.
OwesInv ==
  \A j \in Jobs :
    /\ \A t \in {JobThread(j), ContThread(j), OutcomeThread(j)} :
         pc[t] \in BeforeFinish => owes[t] = 0
    /\ pc[OutcomeThread(j)] = "deliver" => owes[OutcomeThread(j)] = 1

\* The inductive invariant: finishJob() relies on the ownership of a started
\* job, on unmetDeps_ bounding the edges not yet released, and on failures being
\* recorded before anything is skipped.
IInv ==
  /\ TypeOK
  /\ Ownership /\ PartyInv
  /\ SubmitInv /\ SubmitOnce /\ PendingInv /\ RootInv
  /\ SkipInv /\ SkippedOnlyAfterFailure
  /\ RecordInv /\ RejectInv /\ FailureAttributed
  /\ TodoInv /\ TodoOnce /\ CountInv /\ DependencyOrder
  /\ OwesInv /\ InFlightExact

----------------------------------------------------------------------------
(* What completedCount_ counts *)

\* A job waiting for the drainer is skipped, and a job whose rejection is being
\* recorded was failed by that rejection or skipped before it.
ProgressInv ==
  /\ \A j \in undrained : status[j] = "kSkipped"
  /\ \A t \in Threads : pc[t] = "recordRejected" => status[cur[t]] \in {"kFailed", "kSkipped"}
  /\ ProgressExact

----------------------------------------------------------------------------
(* What is left behind when run() returns *)

\* Jobs that follow some deferred job.
AfterDeferred ==
  {j \in Jobs : \A S \in SUBSET Jobs :
      (\A i \in S \cup Deferred : Successors(i) \subseteq S) => j \in S}

\* No deferred job follows another one.  awaitDeferredThreaded() looks at the
\* executor and at deferredInFlight one after the other, so a chain of deferred
\* jobs can slip through between the two looks.
NoDeferredChain == AfterDeferred \cap Deferred = {}

AtRest == {"idle", "done"}

\* The list of skipped jobs is being emptied as long as it is not empty.
DrainInv ==
  /\ undrained # {} => draining
  /\ draining => \E t \in Threads : pc[t] = "drain"

\* Threads keep roots, edges and skips only inside their loops, and owe nothing
\* once they have left.
LoopInv ==
  /\ roots # {} => pc[RunThread] \in {"roots"} \cup LoopLabels
  /\ \A t \in Threads :
       /\ todo[t] # {} => pc[t] \in {"edges", "release"} \cup LoopLabels
       /\ skips[t] # {} => pc[t] \in {"skip", "drain"}
       /\ pc[t] = "done" \/ t = RunThread => owes[t] = 0

\* A foreign thread or a continuation owes a count until it leaves.
DebtInv ==
  \A j \in Jobs :
    /\ pc[OutcomeThread(j)] \notin {"idle", "arrive", "done"} => owes[OutcomeThread(j)] # 0
    /\ pc[ContThread(j)] \notin {"idle", "queued", "done"} => owes[ContThread(j)] # 0

\* Only deferred jobs have parties, foreign threads and continuations.
DeferredInv ==
  \A j \in Jobs :
    \/ parties[j] # 0
    \/ pc[JobThread(j)] \in {"start", "starting", "arrive"}
    \/ pc[OutcomeThread(j)] # "idle"
    \/ pc[ContThread(j)] # "idle"
    => j \in Deferred

\* A worker submits successors of its own job.
ReleaseInv ==
  \A t \in Threads : t # RunThread /\ pc[t] \in {"release", "submit"}
    => cur[t] \in Successors(JobOf(t))

\* After the first waitAll() only deferred jobs and what follows them are active;
\* after deferredInFlight was zero only what follows them; after the second
\* waitAll() nothing.
PhaseInv ==
  \A j \in Jobs :
    /\ pc[RunThread] \in {"awaitDeferred", "waitAgain"} /\ pc[JobThread(j)] \notin AtRest
         => j \in AfterDeferred
    /\ pc[RunThread] \in {"waitAgain", "recheck", "returned"}
         => /\ parties[j] = 0
            /\ pc[OutcomeThread(j)] \in AtRest
            /\ pc[ContThread(j)] \in AtRest
    /\ pc[RunThread] \in {"recheck", "returned"} => pc[JobThread(j)] \in AtRest

\* What makes ReturnsQuiescent inductive.
QuietInv ==
  /\ DrainInv /\ LoopInv /\ DebtInv /\ DeferredInv /\ ReleaseInv
  /\ NoDeferredChain => PhaseInv

----------------------------------------------------------------------------
(* What has ended when run() returns *)

\* Graph::validate() refuses a cycle: every set of jobs has a first one.
Acyclic ==
  \A S \in SUBSET Jobs : S # {} => \E j \in S : \A i \in S : j \notin Successors(i)

\* Some thread is about to skip j; a rejected submission is about to skip all.
Doomed(j) == \E t \in Threads : j \in skips[t]
Rejecting == \E t \in Threads : pc[t] = "recordRejected"

\* A ready job is on its way to a callback or to a skip.
ReadyInv ==
  \A j \in Jobs : status[j] = "kReady" =>
    \/ j \in roots
    \/ \E t \in Threads : Submitting(t) /\ cur[t] = j
    \/ pc[JobThread(j)] \in {"queued", "claim"}
    \/ Doomed(j) \/ Rejecting

\* A pending job still counts every edge that has not been released, unless it
\* is about to be skipped, and it counts at least one.
PendingCount ==
  \A j \in Jobs : status[j] = "kPending" =>
    /\ Doomed(j) \/ Rejecting \/ unmet[j] = Cardinality(Unreleased(j))
    /\ unmet[j] = 0 => InEdges(j) = {} /\ j \in OnDemand

\* The job ended in a way that stops the run.
Broken(j) == status[j] \in Final \ {"kSkipped"} /\ ~Satisfied(j)

\* Skips travel: what follows a skipped job is skipped with it, and what follows
\* a broken one is skipped once its failure is recorded.
SkipTravels ==
  \A i \in Jobs :
    /\ status[i] = "kSkipped" /\ i \notin undrained
         => \A k \in Successors(i) : status[k] \notin Unstarted
    /\ Broken(i) =>
         \/ Rejecting
         \/ \E t \in Threads : pc[t] = "record" /\ JobOf(t) = i
         \/ /\ hasFatalFailure
            /\ \A k \in Successors(i) : status[k] \notin Unstarted \/ Doomed(k)

\* What makes ReturnsSettled inductive.
SettleInv == ReadyInv /\ PendingCount /\ SkipTravels

\* The whole inductive invariant.
FullInv == IInv /\ ProgressInv /\ QuietInv /\ SettleInv
=============================================================================
