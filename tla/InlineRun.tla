------------------------------ MODULE InlineRun ------------------------------
(***************************************************************************)
(* One run on an executor that reports runsInline(): SequentialExecutor or *)
(* runInline().  The run thread calls the ready jobs from a worklist and   *)
(* alone finishes jobs, so a finish is one step; a deferred job's outcome  *)
(* is decided by a foreign thread, which hands it to the run thread when   *)
(* it is the second party to arrive.  DeferredSlot has the race for the    *)
(* outcome in full; here its winner is one thread per job.                 *)
(***************************************************************************)
EXTENDS Integers, Sequences, SequencesExt, FiniteSets

CONSTANTS
  Jobs,         \* the nodes of the graph
  NoJob,        \* no node
  Succ,         \* for each job its successor list, repeated edges included
  Deferred,     \* jobs added by emplaceDeferred()
  Timed,        \* deferred jobs with a .timeout()
  Optional,     \* jobs marked .optional()
  BodyResults,  \* what a body or a Completion may report
  Cancellable   \* bound: jobs whose stop may be requested

InlineAssumption ==
  /\ Jobs \subseteq Nat /\ IsFiniteSet(Jobs) /\ NoJob \notin Jobs /\ Succ \in [Jobs -> Seq(Jobs)]
  /\ Deferred \subseteq Jobs /\ Timed \subseteq Deferred
  /\ Optional \subseteq Jobs /\ Cancellable \subseteq Jobs

VARIABLES
  status,     \* Node::jobStatus_
  unmet,      \* Node::unmetDeps_
  stop,       \* a stop was requested on Node::stopSource_
  failedJob,  \* hasFatalFailure and failedJobName_
  completed,  \* completedCount_
  ready,      \* Impl::inlineReady_
  next,       \* the worklist's read position
  finished,   \* Impl::deferredFinished_
  drain,      \* what is left of Impl::deferredDrain_
  inFlight,   \* deferredInFlight
  parties,    \* DeferredSlot::parties
  outcome,    \* DeferredSlot::outcome and result
  party,      \* where the thread that decides a deferred job's outcome is
  run         \* where the run thread is

graph == <<status, unmet, failedJob, completed, ready>>
slots == <<parties, outcome, party>>
vars == <<graph, stop, next, finished, drain, inFlight, slots, run>>

Unstarted == {"kPending", "kReady"}
Started == {"kRunning", "kAwaiting"}
StatusOf(r) ==
  CASE r = "ok" -> "kDone" [] r = "kCancelled" -> "kCancelled" [] r = "kTimeout" -> "kTimedOut"
    [] OTHER -> "kFailed"

Edges(i, j) == {k \in DOMAIN Succ[i] : Succ[i][k] = j}
Predecessors(j) == {i \in Jobs : Edges(i, j) # {}}
Roots == {j \in Jobs : Predecessors(j) = {}}
hasFatalFailure == failedJob # NoJob

Start ==
  /\ status = [j \in Jobs |-> IF j \in Roots THEN "kReady" ELSE "kPending"]
  /\ unmet = [j \in Jobs |-> MapThenSumSet(LAMBDA i : Cardinality(Edges(i, j)), Jobs)]
  /\ stop = [j \in Jobs |-> FALSE]
  /\ failedJob = NoJob /\ completed = 0
  /\ ready = SetToSortSeq(Roots, <) /\ next = 1
  /\ finished = <<>> /\ drain = <<>> /\ inFlight = 0
  /\ parties = [j \in Jobs |-> 0] /\ outcome = [j \in Jobs |-> "none"]
  /\ party = [j \in Jobs |-> "out"]

Init == Start /\ run = "loop"

\* A pipeline that is not run.
Unused == Start /\ run = "unused"

----------------------------------------------------------------------------
(* finishJob() and skipNode(), on the run thread *)

\* What skipNode() of the jobs S claims: they and their descendants, if not started.
Claimed(S) ==
  LET Claim[k \in 0 .. Cardinality(Jobs)] ==
        {j \in IF k = 0 THEN S ELSE Claim[k - 1] \cup UNION {ToSet(Succ[i]) : i \in Claim[k - 1]} :
           status[j] \in Unstarted}
  IN Claim[Cardinality(Jobs)]

Skip(S, st, done) ==
  LET claimed == Claimed(S) IN
  /\ status' = [j \in Jobs |-> IF j \in claimed THEN "kSkipped" ELSE st[j]]
  /\ completed' = completed + done + Cardinality(claimed)
  /\ UNCHANGED <<unmet, ready>>

\* One iteration of the successor loop: the last dependency makes the job ready.
ReleaseOne(g, s) ==
  LET left == g.unmet[s] - 1
  IN [unmet |-> [g.unmet EXCEPT ![s] = left],
      status |-> IF left = 0 THEN [g.status EXCEPT ![s] = "kReady"] ELSE g.status,
      ready |-> IF left = 0 THEN Append(g.ready, s) ELSE g.ready]

Fatal(j, r) == r # "ok" /\ (j \notin Optional \/ r = "kCancelled")

FinishJob(j, r) ==
  LET st == [status EXCEPT ![j] = StatusOf(r)]
  IN /\ failedJob' = IF Fatal(j, r) /\ ~hasFatalFailure THEN j ELSE failedJob
     /\ \/ /\ failedJob' # NoJob
           /\ Skip(ToSet(Succ[j]), st, 1)
        \/ /\ failedJob' = NoJob
           /\ LET g == FoldLeft(ReleaseOne, [unmet |-> unmet, status |-> st, ready |-> ready],
                                Succ[j])
              IN unmet' = g.unmet /\ status' = g.status /\ ready' = g.ready
           /\ completed' = completed + 1

----------------------------------------------------------------------------
(* The worklist *)

\* The job at the read position; before a failure it is always still kReady.
AtWork(j) == run = "loop" /\ next <= Len(ready) /\ j = ready[next]

\* dispatchJob() after a fatal failure.
SkipReady(j) ==
  /\ AtWork(j) /\ hasFatalFailure
  /\ Skip({j}, status, 0)
  /\ next' = next + 1
  /\ UNCHANGED <<failedJob, stop, finished, drain, inFlight, slots, run>>

\* dispatchJob() of a plain job: a stop before entry refuses the body.
RunBody(j) ==
  /\ AtWork(j) /\ ~hasFatalFailure /\ status[j] = "kReady" /\ j \notin Deferred
  /\ \E r \in BodyResults : FinishJob(j, IF stop[j] THEN "kCancelled" ELSE r)
  /\ next' = next + 1
  /\ UNCHANGED <<stop, finished, drain, inFlight, slots, run>>

\* startDeferred() that does not reach the body: stopped, or no deadline service.
RefuseDeferred(j) ==
  /\ AtWork(j) /\ ~hasFatalFailure /\ status[j] = "kReady" /\ j \in Deferred
  /\ \/ stop[j] /\ FinishJob(j, "kCancelled")
     \/ ~stop[j] /\ j \in Timed /\ FinishJob(j, "kDeadlineUnavailable")
  /\ next' = next + 1
  /\ UNCHANGED <<stop, finished, drain, inFlight, slots, run>>

\* startDeferred() up to slot.start(): from now on the outcome may be decided.
StartDeferred(j) ==
  /\ AtWork(j) /\ ~hasFatalFailure /\ status[j] = "kReady" /\ j \in Deferred /\ ~stop[j]
  /\ status' = [status EXCEPT ![j] = "kRunning"]
  /\ parties' = [parties EXCEPT ![j] = 2]
  /\ party' = [party EXCEPT ![j] = "held"]
  /\ inFlight' = inFlight + 1
  /\ run' = "body"
  /\ UNCHANGED <<unmet, failedJob, completed, ready, stop, next, finished, drain, outcome>>

\* The body has returned; the job awaits unless it was signalled meanwhile.
BodyReturns ==
  LET j == ready[next] IN
  /\ run = "body"
  /\ status' = IF outcome[j] = "none" THEN [status EXCEPT ![j] = "kAwaiting"] ELSE status
  /\ run' = "arrive"
  /\ UNCHANGED <<unmet, failedJob, completed, ready, stop, next, finished, drain, inFlight, slots>>

\* The body's party arrives: the run thread itself finishes the job if it is the last.
BodyArrives ==
  LET j == ready[next] IN
  /\ run = "arrive"
  /\ parties' = [parties EXCEPT ![j] = @ - 1]
  /\ drain' = IF parties[j] = 1 THEN <<j>> ELSE <<>>
  /\ next' = next + 1
  /\ run' = IF parties[j] = 1 THEN "drain" ELSE "loop"
  /\ UNCHANGED <<graph, stop, finished, inFlight, outcome, party>>

\* finishDeferred(): ~stop_callback() and cancelAndWait() wait for the stop or expiry
\* that decided the outcome to return.
FinishDeferred ==
  /\ run = "drain" /\ drain # <<>>
  /\ party[Head(drain)] # "returning"
  /\ FinishJob(Head(drain), outcome[Head(drain)])
  /\ inFlight' = inFlight - 1
  /\ drain' = Tail(drain)
  /\ UNCHANGED <<stop, next, finished, slots, run>>

\* drain.clear(): the new ready jobs come first.
Drained ==
  /\ run = "drain" /\ drain = <<>>
  /\ run' = "loop"
  /\ UNCHANGED <<graph, stop, next, finished, drain, inFlight, slots>>

\* Mutant: the run does not wait for what is in flight.
MutFinishAwaited ==
  /\ run = "loop" /\ next > Len(ready)
  /\ drain' = finished /\ finished' = <<>>
  /\ run' = IF finished = <<>> THEN "ended" ELSE "drain"
  /\ UNCHANGED <<graph, stop, next, inFlight, slots>>

\* finishAwaitedInline(), once the worklist is empty: takes what has been handed over,
\* or ends the run when nothing is in flight.
FinishAwaited ==
  /\ run = "loop" /\ next > Len(ready)
  /\ finished # <<>> \/ inFlight = 0
  /\ drain' = finished /\ finished' = <<>>
  /\ run' = IF finished = <<>> THEN "ended" ELSE "drain"
  /\ UNCHANGED <<graph, stop, next, inFlight, slots>>

----------------------------------------------------------------------------
(* Foreign threads *)

\* Job::cancel().
Cancel(j) ==
  /\ ~stop[j] /\ run \notin {"ended", "unused"}
  /\ stop' = [stop EXCEPT ![j] = TRUE]
  /\ UNCHANGED <<graph, next, finished, drain, inFlight, slots, run>>

\* The result of a job whose deadline may have expired.
Expiry(j) == IF j \in Timed THEN {"kTimeout"} ELSE {}

\* The Completion is signalled or dropped, the stop reaches the stop callback, or the
\* deadline expires: the first of them decides, but an expiry owns the result.
Signal(j) ==
  /\ party[j] = "held"
  /\ \E r \in BodyResults \cup Expiry(j) : outcome' = [outcome EXCEPT ![j] = r]
  /\ party' = [party EXCEPT ![j] = "signals"]
  /\ UNCHANGED <<graph, stop, next, finished, drain, inFlight, parties, run>>

StopDecides(j) ==
  /\ party[j] = "held"
  /\ \E r \in Expiry(j) \cup {x \in {"kCancelled"} : stop[j]} :
       outcome' = [outcome EXCEPT ![j] = r]
  /\ stop' = [stop EXCEPT ![j] = TRUE]
  /\ party' = [party EXCEPT ![j] = "stops"]
  /\ UNCHANGED <<graph, next, finished, drain, inFlight, parties, run>>

\* Where a thread goes that has nothing more to do with the run: out of signal(), or out
\* of the callback it is in.
Leaves(j) == IF party[j] \in {"signals", "deliversSignal"} THEN "out" ELSE "returning"

ForeignArrives(j) ==
  /\ party[j] \in {"signals", "stops"}
  /\ parties' = [parties EXCEPT ![j] = @ - 1]
  /\ party' = [party EXCEPT ![j] =
       IF parties[j] = 2 THEN Leaves(j)
       ELSE IF @ = "signals" THEN "deliversSignal" ELSE "deliversStop"]
  /\ UNCHANGED <<graph, stop, next, finished, drain, inFlight, outcome, run>>

\* deliverDeferred() of an inline run.
Deliver(j) ==
  /\ party[j] \in {"deliversSignal", "deliversStop"}
  /\ finished' = Append(finished, j)
  /\ party' = [party EXCEPT ![j] = Leaves(j)]
  /\ UNCHANGED <<graph, stop, next, drain, inFlight, parties, outcome, run>>

Returns(j) ==
  /\ party[j] = "returning"
  /\ party' = [party EXCEPT ![j] = "out"]
  /\ UNCHANGED <<graph, stop, next, finished, drain, inFlight, parties, outcome, run>>

----------------------------------------------------------------------------

RunStep ==
  \/ \E j \in Jobs : SkipReady(j) \/ RunBody(j) \/ RefuseDeferred(j) \/ StartDeferred(j)
  \/ BodyReturns \/ BodyArrives \/ FinishDeferred \/ Drained \/ FinishAwaited

Decide == \E j \in Deferred : Signal(j) \/ StopDecides(j)
ForeignStep == \E j \in Deferred : ForeignArrives(j) \/ Deliver(j) \/ Returns(j)

Next == RunStep \/ Decide \/ ForeignStep \/ \E j \in Cancellable : Cancel(j)

\* Threads run, bodies return, and a Completion is signalled or dropped in the end.
Fairness == WF_vars(RunStep) /\ WF_vars(Decide) /\ WF_vars(ForeignStep)

Spec == Init /\ [][Next]_vars /\ Fairness

----------------------------------------------------------------------------
(* Properties *)

\* Each job entered the worklist at most once, after all its predecessors and only when
\* none of them failed the run: "each job is appended once, so the reserve is exact".
WorklistExact ==
  /\ IsInjective(ready)
  /\ \A k \in DOMAIN ready : \A i \in Predecessors(ready[k]) :
       /\ i \in {ready[m] : m \in 1 .. k - 1}
       /\ status[i] = "kDone" \/ (i \in Optional /\ status[i] \in {"kFailed", "kTimedOut"})

\* When the run returns, the worklist was exact, each job has ended and was counted once,
\* nothing is in flight or left to finish, and no foreign thread is inside the run's
\* context or a registration.
QuietAtEnd ==
  run = "ended" =>
    /\ WorklistExact
    /\ \A j \in Jobs : status[j] \notin Unstarted \cup Started /\ party[j] = "out"
    /\ completed = Cardinality(Jobs)
    /\ finished = <<>> /\ inFlight = 0

Running == run \notin {"ended", "unused"}
=============================================================================
