----------------------------- MODULE Scheduler -----------------------------
(***************************************************************************)
(* One run of a Pipeline on a threaded executor: runImpl() and its         *)
(* DispatchContext in src/src/sub0pipeline.cpp.                            *)
(*                                                                         *)
(* Every callback the executor accepts is a thread of its own, so any      *)
(* number of workers and any queueing order are covered.  A step is one    *)
(* access to shared state: an atomic operation, or a critical section of   *)
(* skipMutex, fatalMtx or deferredMtx_.                                    *)
(*                                                                         *)
(* Loops over a successor list, over the roots and over the node table     *)
(* visit a set in any order; the code's order is one of them.              *)
(***************************************************************************)
EXTENDS Naturals, FiniteSets

CONSTANTS
  Jobs,         \* the nodes of the graph
  NoJob,        \* no node
  Edges,        \* dependency edges; id tells repeated edges apart
  Optional,     \* jobs marked .optional()
  OnDemand,     \* jobs added by addOnDemand(): never run by run()
  Deferred,     \* jobs added by emplaceDeferred()
  Timed,        \* deferred jobs with a .timeout()
  BodyResults,  \* what a body or a Completion may report
  Cancellable,  \* bound: jobs whose stop may be requested
  MayReject     \* whether executor.dispatch() may throw

Errors == {"kTimeout", "kJobFailed", "kCancelled", "kDeadlineUnavailable"}

ASSUME GraphAssumption ==
  /\ IsFiniteSet(Jobs)
  /\ NoJob \notin Jobs
  /\ IsFiniteSet(Edges)
  /\ Edges \subseteq [from : Jobs, to : Jobs, id : Nat]
  /\ OnDemand \cap Deferred = {}
  /\ Deferred \subseteq Jobs
  /\ Timed \subseteq Deferred
  /\ BodyResults \subseteq ({"ok"} \cup Errors)
  /\ MayReject \in BOOLEAN

\* Mutant: a repeated edge counted once.
MutInEdges(j) == {e \in Edges : e.to = j /\ e.id = 1}

InEdges(j)  == {e \in Edges : e.to = j}
OutEdges(j) == {e \in Edges : e.from = j}
Successors(j) == {e.to : e \in OutEdges(j)}

\* roots_: the jobs the run itself submits.
Roots == {j \in Jobs \ OnDemand : InEdges(j) = {}}

\* The four kinds of thread that execute DispatchContext code: the caller of
\* run(), an executor callback running dispatchJob(j), an executor callback
\* running the continuation finishDeferred(j), and the foreign thread whose
\* signal or stop decided the outcome of the deferred job j.
RunThread == <<"run", NoJob>>
JobThread(j) == <<"job", j>>
ContThread(j) == <<"cont", j>>
OutcomeThread(j) == <<"outcome", j>>
JobOf(t) == t[2]

Callbacks == {"job", "cont"} \X Jobs
Threads   == ({"job", "cont", "outcome"} \X Jobs) \cup {RunThread}

Unstarted == {"kPending", "kReady"}
Final == {"kDone", "kFailed", "kCancelled", "kTimedOut", "kSkipped"}
Status == Unstarted \cup {"kRunning", "kAwaiting"} \cup Final

StatusOf(result) ==
  CASE result = "ok"         -> "kDone"
    [] result = "kCancelled" -> "kCancelled"
    [] result = "kTimeout"   -> "kTimedOut"
    [] OTHER                 -> "kFailed"

VARIABLES
  status,     \* Node::jobStatus_
  unmet,      \* Node::unmetDeps_
  stop,       \* a stop was requested on Node::stopSource_
  result,     \* the result a finisher reports (DeferredSlot::result, or invoke()'s)
  failedJob,  \* hasFatalFailure and failedJobName_: NoJob until the first failure
  fatalError, \* fatalError
  completed,  \* completedCount_
  undrained,  \* skipped_[skipRead..]: claimed as skipped, not yet drained
  draining,   \* drainingSkips
  inFlight,   \* deferredInFlight
  won,        \* DeferredSlot::outcome # kNone
  parties,    \* DeferredSlot::parties
  pc,         \* where each thread is
  todo,       \* successor edges the thread's finishJob loop has left
  roots,      \* roots the run thread has left
  skips,      \* nodes the thread has left to pass to skipNode()
  cur,        \* the job the thread is releasing, submitting or failing
  owes        \* decrements of deferredInFlight the thread still has to make

shared == <<status, unmet, stop, result, failedJob, fatalError, completed,
            undrained, draining, inFlight, won, parties>>
local  == <<pc, todo, roots, skips, cur, owes>>
vars   == <<shared, local>>

hasFatalFailure == failedJob # NoJob

Goto(t, label) == pc' = [pc EXCEPT ![t] = label]

\* Where a thread continues once its skips are done.
Resume(t) == IF t = RunThread THEN "roots" ELSE "edges"

----------------------------------------------------------------------------
(* Initialization of a run *)

Init ==
  /\ status = [j \in Jobs |-> IF j \in Roots THEN "kReady" ELSE "kPending"]
  /\ unmet = [j \in Jobs |-> Cardinality(InEdges(j))]
  /\ stop = [j \in Jobs |-> FALSE]
  /\ result = [j \in Jobs |-> "ok"]
  /\ failedJob = NoJob
  /\ fatalError = "kJobFailed"
  /\ completed = 0
  /\ undrained = {}
  /\ draining = FALSE
  /\ inFlight = 0
  /\ won = [j \in Jobs |-> FALSE]
  /\ parties = [j \in Jobs |-> 0]
  /\ pc = [t \in Threads |-> IF t = RunThread THEN "roots" ELSE "idle"]
  /\ todo = [t \in Threads |-> {}]
  /\ roots = Roots
  /\ skips = [t \in Threads |-> {}]
  /\ cur = [t \in Threads |-> NoJob]
  /\ owes = [t \in Threads |-> 0]

----------------------------------------------------------------------------
(* Skipping *)

\* What enqueueSkip() can claim out of S.
Claimable(S) == {j \in S : status[j] \in Unstarted}

\* enqueueSkip() over S: claim first, then append.
EnqueueSkip(S) ==
  status' = [j \in Jobs |-> IF j \in Claimable(S) THEN "kSkipped" ELSE status[j]]

\* One iteration of the drain loop for j: its successors are claimed and j is
\* counted.  alsoClaimed is what the same critical section claimed before.
DrainOne(j, alsoClaimed) ==
  /\ EnqueueSkip(Successors(j) \cup alsoClaimed)
  /\ undrained' = (undrained \cup Claimable(Successors(j))) \ {j}
  /\ completed' = completed + 1

\* Entry to skipNode(j).  With no drain in progress the list is empty, so the
\* first iteration of the loop handles j itself in the same critical section.
SkipNode(t) ==
  /\ pc[t] = "skip"
  /\ \E j \in skips[t] :
       /\ skips' = [skips EXCEPT ![t] = @ \ {j}]
       /\ \/ /\ draining
             /\ EnqueueSkip({j})
             /\ undrained' = undrained \cup Claimable({j})
             /\ UNCHANGED <<completed, draining, pc>>
          \/ /\ ~draining /\ status[j] \in Unstarted
             /\ DrainOne(j, {j})
             /\ draining' = TRUE
             /\ Goto(t, "drain")
          \/ /\ ~draining /\ status[j] \notin Unstarted
             /\ UNCHANGED <<status, undrained, completed, draining, pc>>
  /\ UNCHANGED <<unmet, stop, result, failedJob, fatalError, inFlight, won,
                 parties, todo, roots, cur, owes>>

\* Each later iteration of the drain loop is a critical section of its own.
Drain(t) ==
  /\ pc[t] = "drain"
  /\ \/ /\ \E j \in undrained : DrainOne(j, {})
        /\ UNCHANGED <<draining, pc>>
     \/ /\ undrained = {}
        /\ draining' = FALSE
        /\ Goto(t, "skip")
        /\ UNCHANGED <<status, undrained, completed>>
  /\ UNCHANGED <<unmet, stop, result, failedJob, fatalError, inFlight, won,
                 parties, todo, roots, skips, cur, owes>>

SkipsDone(t) ==
  /\ pc[t] = "skip" /\ skips[t] = {}
  /\ Goto(t, Resume(t))
  /\ UNCHANGED <<shared, todo, roots, skips, cur, owes>>

----------------------------------------------------------------------------
(* Submission, and its failure *)

\* executor.dispatch() of dispatchJob(cur[t]), or the throw that rejects it.
Submit(t) ==
  /\ pc[t] = "submit"
  /\ \/ pc' = [pc EXCEPT ![t] = Resume(t), ![JobThread(cur[t])] = "queued"]
     \/ MayReject /\ Goto(t, "rejected")
  /\ UNCHANGED <<shared, todo, roots, skips, cur, owes>>

\* Mutant: the rejected job is not marked as failed.
MutSubmissionFailed(t) ==
  /\ pc[t] = "rejected"
  /\ Goto(t, "recordRejected")
  /\ UNCHANGED <<shared, todo, roots, skips, cur, owes>>

\* submissionFailed(), up to the claim: the job fails unless it was skipped.
SubmissionFailed(t) ==
  /\ pc[t] = "rejected"
  /\ \/ /\ status[cur[t]] = "kReady"
        /\ status' = [status EXCEPT ![cur[t]] = "kFailed"]
     \/ /\ status[cur[t]] # "kReady"
        /\ UNCHANGED status
  /\ Goto(t, "recordRejected")
  /\ UNCHANGED <<unmet, stop, result, failedJob, fatalError, completed, undrained,
                 draining, inFlight, won, parties, todo, roots, skips, cur, owes>>

\* Mutant: a cancellation is not recorded.
MutRecordFailure(j, error) ==
  IF hasFatalFailure \/ error = "kCancelled"
  THEN UNCHANGED <<failedJob, fatalError>>
  ELSE failedJob' = j /\ fatalError' = error

\* recordFailure(): only the first failure is kept.
RecordFailure(j, error) ==
  IF hasFatalFailure
  THEN UNCHANGED <<failedJob, fatalError>>
  ELSE failedJob' = j /\ fatalError' = error

\* Mutant: a rejected job is counted although a skip has claimed it.
MutRecordRejected(t) ==
  /\ pc[t] = "recordRejected"
  /\ RecordFailure(cur[t], "kJobFailed")
  /\ completed' = completed + 1
  /\ skips' = [skips EXCEPT ![t] = Jobs]
  /\ todo' = [todo EXCEPT ![t] = {}]
  /\ roots' = IF t = RunThread THEN {} ELSE roots
  /\ Goto(t, "skip")
  /\ UNCHANGED <<status, unmet, stop, result, undrained, draining,
                 inFlight, won, parties, cur, owes>>

\* The rest of submissionFailed(): record, count the job if the claim was won (no
\* one else gives it kFailed), then skip whatever has not started.  The loop that
\* was submitting is abandoned (the throw, or the root loop's break).
RecordRejected(t) ==
  /\ pc[t] = "recordRejected"
  /\ RecordFailure(cur[t], "kJobFailed")
  /\ completed' = IF status[cur[t]] = "kFailed" THEN completed + 1 ELSE completed
  /\ skips' = [skips EXCEPT ![t] = Jobs]
  /\ todo' = [todo EXCEPT ![t] = {}]
  /\ roots' = IF t = RunThread THEN {} ELSE roots
  /\ Goto(t, "skip")
  /\ UNCHANGED <<status, unmet, stop, result, undrained, draining,
                 inFlight, won, parties, cur, owes>>

----------------------------------------------------------------------------
(* dispatchJob() *)

\* The executor starts an accepted dispatchJob(j); after a fatal failure the
\* job is only skipped.
DispatchJob(j) ==
  LET t == JobThread(j) IN
  /\ pc[t] = "queued"
  /\ \/ /\ hasFatalFailure
        /\ skips' = [skips EXCEPT ![t] = {j}]
        /\ Goto(t, "skip")
     \/ /\ ~hasFatalFailure
        /\ Goto(t, "claim")
        /\ UNCHANGED skips
  /\ UNCHANGED <<shared, todo, roots, cur, owes>>

\* Mutant: a plain store instead of the compare-exchange.
MutClaim(j) ==
  LET t == JobThread(j) IN
  /\ pc[t] = "claim"
  /\ status' = [status EXCEPT ![j] = "kRunning"]
  /\ Goto(t, IF j \in Deferred THEN "start" ELSE "invoke")
  /\ UNCHANGED <<unmet, stop, result, failedJob, fatalError, completed, undrained,
                 draining, inFlight, won, parties, todo, roots, skips, cur, owes>>

\* The compare-exchange kReady -> kRunning, lost to a concurrent skip.
Claim(j) ==
  LET t == JobThread(j) IN
  /\ pc[t] = "claim"
  /\ \/ /\ status[j] = "kReady"
        /\ status' = [status EXCEPT ![j] = "kRunning"]
        /\ Goto(t, IF j \in Deferred THEN "start" ELSE "invoke")
     \/ /\ status[j] # "kReady"
        /\ Goto(t, "done")
        /\ UNCHANGED status
  /\ UNCHANGED <<unmet, stop, result, failedJob, fatalError, completed, undrained,
                 draining, inFlight, won, parties, todo, roots, skips, cur, owes>>

\* Impl::invoke(): a stop requested before entry refuses the body.
Invoke(j) ==
  LET t == JobThread(j) IN
  /\ pc[t] = "invoke"
  /\ \/ /\ stop[j]
        /\ result' = [result EXCEPT ![j] = "kCancelled"]
        /\ Goto(t, "finish")
     \/ /\ ~stop[j]
        /\ Goto(t, "body")
        /\ UNCHANGED result
  /\ UNCHANGED <<status, unmet, stop, failedJob, fatalError, completed, undrained,
                 draining, inFlight, won, parties, todo, roots, skips, cur, owes>>

BodyReturns(j) ==
  LET t == JobThread(j) IN
  /\ pc[t] = "body"
  /\ \E r \in BodyResults : result' = [result EXCEPT ![j] = r]
  /\ Goto(t, "finish")
  /\ UNCHANGED <<status, unmet, stop, failedJob, fatalError, completed, undrained,
                 draining, inFlight, won, parties, todo, roots, skips, cur, owes>>

----------------------------------------------------------------------------
(* finishJob() *)

\* Mutant: every job is tolerated as if it were optional.
MutIsFatal(j) == result[j] = "kCancelled"

\* A failure that stops the run: of a required job, or a cancellation.
IsFatal(j) == result[j] # "ok" /\ (j \notin Optional \/ result[j] = "kCancelled")

\* Up to the fatal test.  Only an observer's progress reads completedCount_, so
\* its increment is one step with the store of the status before it.
FinishJob(t) ==
  LET j == JobOf(t) IN
  /\ pc[t] = "finish"
  /\ status' = [status EXCEPT ![j] = StatusOf(result[j])]
  /\ completed' = completed + 1
  /\ \/ /\ IsFatal(j)
        /\ Goto(t, "record")
        /\ UNCHANGED todo
     \/ /\ ~IsFatal(j)
        /\ todo' = [todo EXCEPT ![t] = OutEdges(j)]
        /\ Goto(t, "edges")
  /\ UNCHANGED <<unmet, stop, result, failedJob, fatalError, undrained, draining,
                 inFlight, won, parties, roots, skips, cur, owes>>

RecordJobFailure(t) ==
  LET j == JobOf(t) IN
  /\ pc[t] = "record"
  /\ RecordFailure(j, result[j])
  /\ skips' = [skips EXCEPT ![t] = Successors(j)]
  /\ Goto(t, "skip")
  /\ UNCHANGED <<status, unmet, stop, result, completed, undrained, draining,
                 inFlight, won, parties, todo, roots, cur, owes>>

\* Mutant: after a fatal failure the loop forgets the successor.
MutNextEdge(t) ==
  /\ pc[t] = "edges"
  /\ \E e \in todo[t] :
       \/ /\ hasFatalFailure
          /\ todo' = [todo EXCEPT ![t] = @ \ {e}]
          /\ UNCHANGED <<cur, pc>>
       \/ /\ ~hasFatalFailure
          /\ cur' = [cur EXCEPT ![t] = e.to]
          /\ Goto(t, "release")
          /\ UNCHANGED todo
  /\ UNCHANGED <<shared, roots, skips, owes>>

\* Top of the successor loop: after a fatal failure the successor is skipped.
NextEdge(t) ==
  /\ pc[t] = "edges"
  /\ \E e \in todo[t] :
       \/ /\ hasFatalFailure
          /\ todo' = [todo EXCEPT ![t] = @ \ {e}]
          /\ skips' = [skips EXCEPT ![t] = {e.to}]
          /\ Goto(t, "skip")
          /\ UNCHANGED cur
       \/ /\ ~hasFatalFailure
          /\ cur' = [cur EXCEPT ![t] = e.to]
          /\ Goto(t, "release")
          /\ UNCHANGED <<todo, skips>>
  /\ UNCHANGED <<shared, roots, owes>>

\* fetch_sub on unmetDeps_; the last predecessor makes the successor ready,
\* unless it was skipped meanwhile.
Release(t) ==
  LET s == cur[t] IN
  /\ pc[t] = "release"
  /\ \E e \in todo[t] : e.to = s /\ todo' = [todo EXCEPT ![t] = @ \ {e}]
  /\ unmet' = [unmet EXCEPT ![s] = @ - 1]
  /\ \/ /\ unmet[s] = 1 /\ status[s] = "kPending"
        /\ status' = [status EXCEPT ![s] = "kReady"]
        /\ Goto(t, "submit")
     \/ /\ unmet[s] # 1 \/ status[s] # "kPending"
        /\ Goto(t, "edges")
        /\ UNCHANGED status
  /\ UNCHANGED <<stop, result, failedJob, fatalError, completed, undrained,
                 draining, inFlight, won, parties, roots, skips, cur, owes>>

\* Mutant: finishDeferred() forgets its decrement.
MutLeave(t) ==
  /\ t # RunThread
  /\ pc[t] = "edges" /\ todo[t] = {}
  /\ owes' = [owes EXCEPT ![t] = 0]
  /\ Goto(t, "done")
  /\ UNCHANGED <<status, unmet, stop, result, failedJob, fatalError, completed,
                 undrained, draining, inFlight, won, parties, todo, roots, skips, cur>>

\* The thread leaves DispatchContext.  A finish of a deferred job decrements
\* deferredInFlight last, and so does the foreign call that delivered it; the
\* waiter only tests for zero, so one step stands for both.
Leave(t) ==
  /\ t # RunThread
  /\ pc[t] = "edges" /\ todo[t] = {}
  /\ inFlight' = inFlight - owes[t]
  /\ owes' = [owes EXCEPT ![t] = 0]
  /\ Goto(t, "done")
  /\ UNCHANGED <<status, unmet, stop, result, failedJob, fatalError, completed,
                 undrained, draining, won, parties, todo, roots, skips, cur>>

----------------------------------------------------------------------------
(* Deferred jobs *)

\* startDeferred(), up to the Completion: a stop or a full deadline service
\* finishes the job at once, otherwise the slot is reset and counted.
StartDeferred(j) ==
  LET t == JobThread(j) IN
  /\ pc[t] = "start"
  /\ \/ /\ \/ stop[j] /\ result' = [result EXCEPT ![j] = "kCancelled"]
           \/ ~stop[j] /\ j \in Timed
              /\ result' = [result EXCEPT ![j] = "kDeadlineUnavailable"]
        /\ Goto(t, "finish")
        /\ UNCHANGED <<inFlight, won, parties>>
     \/ /\ ~stop[j]
        /\ result' = [result EXCEPT ![j] = "ok"]
        /\ won' = [won EXCEPT ![j] = FALSE]
        /\ parties' = [parties EXCEPT ![j] = 2]
        /\ inFlight' = inFlight + 1
        /\ Goto(t, "starting")
  /\ UNCHANGED <<status, unmet, stop, failedJob, fatalError, completed, undrained,
                 draining, todo, roots, skips, cur, owes>>

\* slot.start() has returned: announce the wait if nobody has decided yet.
BodyStarted(j) ==
  LET t == JobThread(j) IN
  /\ pc[t] = "starting"
  /\ status' = [status EXCEPT ![j] = IF won[j] THEN @ ELSE "kAwaiting"]
  /\ Goto(t, "arrive")
  /\ UNCHANGED <<unmet, stop, result, failedJob, fatalError, completed, undrained,
                 draining, inFlight, won, parties, todo, roots, skips, cur, owes>>

\* Mutant: the first arrival finishes the job.
MutBodyArrives(j) ==
  LET t == JobThread(j) IN
  /\ pc[t] = "arrive"
  /\ parties' = [parties EXCEPT ![j] = @ - 1]
  /\ owes' = [owes EXCEPT ![t] = 1]
  /\ Goto(t, "finish")
  /\ UNCHANGED <<status, unmet, stop, result, failedJob, fatalError, completed,
                 undrained, draining, inFlight, won, todo, roots, skips, cur>>

\* The body party arrives; the second arrival finishes the job in place.
BodyArrives(j) ==
  LET t == JobThread(j) IN
  /\ pc[t] = "arrive"
  /\ parties' = [parties EXCEPT ![j] = @ - 1]
  /\ \/ /\ parties[j] = 1
        /\ owes' = [owes EXCEPT ![t] = 1]
        /\ Goto(t, "finish")
     \/ /\ parties[j] # 1
        /\ Goto(t, "done")
        /\ UNCHANGED owes
  /\ UNCHANGED <<status, unmet, stop, result, failedJob, fatalError, completed,
                 undrained, draining, inFlight, won, todo, roots, skips, cur>>

\* signal() or stop() wins the outcome; losers leave no trace on the run.
\* The slot is live from the reset of its parties to its last arrival.
DecideOutcome(j) ==
  LET t == OutcomeThread(j) IN
  /\ pc[t] = "idle"
  /\ parties[j] # 0 /\ ~won[j]
  /\ won' = [won EXCEPT ![j] = TRUE]
  /\ \/ /\ \E r \in BodyResults : result' = [result EXCEPT ![j] = r]
        /\ UNCHANGED stop
     \/ /\ stop[j]
        /\ result' = [result EXCEPT ![j] = "kCancelled"]
        /\ UNCHANGED stop
     \/ /\ j \in Timed
        /\ stop' = [stop EXCEPT ![j] = TRUE]
        /\ result' = [result EXCEPT ![j] = "kTimeout"]
  /\ Goto(t, "arrive")
  /\ UNCHANGED <<status, unmet, failedJob, fatalError, completed, undrained,
                 draining, inFlight, parties, todo, roots, skips, cur, owes>>

\* Mutant: deliverDeferred() does not count its own thread.
MutOutcomeArrives(j) ==
  LET t == OutcomeThread(j) IN
  /\ pc[t] = "arrive"
  /\ parties' = [parties EXCEPT ![j] = @ - 1]
  /\ Goto(t, IF parties[j] = 1 THEN "deliver" ELSE "done")
  /\ UNCHANGED <<status, unmet, stop, result, failedJob, fatalError, completed, inFlight,
                 undrained, draining, won, todo, roots, skips, cur, owes>>

\* arrive() of the outcome winner, and entry to deliverDeferred().
OutcomeArrives(j) ==
  LET t == OutcomeThread(j) IN
  /\ pc[t] = "arrive"
  /\ parties' = [parties EXCEPT ![j] = @ - 1]
  /\ \/ /\ parties[j] = 1
        /\ inFlight' = inFlight + 1
        /\ owes' = [owes EXCEPT ![t] = 1]
        /\ Goto(t, "deliver")
     \/ /\ parties[j] # 1
        /\ Goto(t, "done")
        /\ UNCHANGED <<inFlight, owes>>
  /\ UNCHANGED <<status, unmet, stop, result, failedJob, fatalError, completed,
                 undrained, draining, won, todo, roots, skips, cur>>

\* The continuation is dispatched; if the executor rejects it, this foreign
\* thread finishes the job itself.
DeliverDeferred(j) ==
  LET t == OutcomeThread(j) IN
  /\ pc[t] = "deliver"
  /\ \/ /\ pc' = [pc EXCEPT ![t] = "edges", ![ContThread(j)] = "queued"]
        /\ UNCHANGED owes
     \/ /\ MayReject
        /\ owes' = [owes EXCEPT ![t] = 2]
        /\ Goto(t, "finish")
  /\ UNCHANGED <<shared, todo, roots, skips, cur>>

\* finishDeferred() as an executor callback.
FinishDeferred(j) ==
  LET t == ContThread(j) IN
  /\ pc[t] = "queued"
  /\ owes' = [owes EXCEPT ![t] = 1]
  /\ Goto(t, "finish")
  /\ UNCHANGED <<shared, todo, roots, skips, cur>>

----------------------------------------------------------------------------
(* The run thread *)

NextRoot ==
  /\ pc[RunThread] = "roots"
  /\ \E r \in roots :
       /\ roots' = roots \ {r}
       /\ \/ /\ hasFatalFailure
             /\ skips' = [skips EXCEPT ![RunThread] = {r}]
             /\ Goto(RunThread, "skip")
             /\ UNCHANGED cur
          \/ /\ ~hasFatalFailure
             /\ cur' = [cur EXCEPT ![RunThread] = r]
             /\ Goto(RunThread, "submit")
             /\ UNCHANGED skips
  /\ UNCHANGED <<shared, todo, owes>>

RootsDone ==
  /\ pc[RunThread] = "roots" /\ roots = {}
  /\ Goto(RunThread, "waitAll")
  /\ UNCHANGED <<shared, todo, roots, skips, cur, owes>>

\* What IExecutor::waitAll() waits for.
ExecutorIdle == \A t \in Callbacks : pc[t] \in {"idle", "done"}

WaitAll ==
  /\ pc[RunThread] = "waitAll"
  /\ ExecutorIdle
  /\ Goto(RunThread, IF Deferred = {} THEN "returned" ELSE "awaitDeferred")
  /\ UNCHANGED <<shared, todo, roots, skips, cur, owes>>

\* Mutant: the executor is not drained after the last deferred job.
MutAwaitDeferred ==
  /\ pc[RunThread] = "awaitDeferred" /\ inFlight = 0
  /\ Goto(RunThread, "returned")
  /\ UNCHANGED <<shared, todo, roots, skips, cur, owes>>

\* awaitDeferredThreaded(): wait for the deferred jobs, then for the executor,
\* then look again.
AwaitDeferred ==
  /\ \/ /\ pc[RunThread] = "awaitDeferred" /\ inFlight = 0
        /\ Goto(RunThread, "waitAgain")
     \/ /\ pc[RunThread] = "waitAgain" /\ ExecutorIdle
        /\ Goto(RunThread, "recheck")
     \/ /\ pc[RunThread] = "recheck"
        /\ Goto(RunThread, IF inFlight = 0 THEN "returned" ELSE "awaitDeferred")
  /\ UNCHANGED <<shared, todo, roots, skips, cur, owes>>

\* Job::cancel(), or one iteration of ForwardStop for an external stop.
RequestStop(j) ==
  /\ j \in Cancellable
  /\ pc[RunThread] # "returned"
  /\ ~stop[j]
  /\ stop' = [stop EXCEPT ![j] = TRUE]
  /\ UNCHANGED <<status, unmet, result, failedJob, fatalError, completed, undrained,
                 draining, inFlight, won, parties, local>>

\* No thread is inside DispatchContext.
Quiescent == \A t \in Threads \ {RunThread} : pc[t] \in {"idle", "done"}

\* run() called again.  A callback left behind by the previous run would use a
\* destroyed DispatchContext; ReturnsQuiescent says when there is none.
Rerun ==
  /\ pc[RunThread] = "returned" /\ Quiescent
  /\ status' = [j \in Jobs |-> IF j \in Roots THEN "kReady" ELSE "kPending"]
  /\ unmet' = [j \in Jobs |-> Cardinality(InEdges(j))]
  /\ stop' = [j \in Jobs |-> FALSE]
  /\ result' = [j \in Jobs |-> "ok"]
  /\ failedJob' = NoJob
  /\ fatalError' = "kJobFailed"
  /\ completed' = 0
  /\ undrained' = {}
  /\ draining' = FALSE
  /\ inFlight' = 0
  /\ won' = [j \in Jobs |-> FALSE]
  /\ parties' = [j \in Jobs |-> 0]
  /\ pc' = [t \in Threads |-> IF t = RunThread THEN "roots" ELSE "idle"]
  /\ todo' = [t \in Threads |-> {}]
  /\ roots' = Roots
  /\ skips' = [t \in Threads |-> {}]
  /\ cur' = [t \in Threads |-> NoJob]
  /\ owes' = [t \in Threads |-> 0]

----------------------------------------------------------------------------

ThreadStep(t) ==
  \/ SkipNode(t) \/ Drain(t) \/ SkipsDone(t)
  \/ Submit(t) \/ SubmissionFailed(t) \/ RecordRejected(t)
  \/ FinishJob(t) \/ RecordJobFailure(t)
  \/ NextEdge(t) \/ Release(t) \/ Leave(t)

JobStep(j) ==
  \/ DispatchJob(j) \/ Claim(j) \/ Invoke(j) \/ BodyReturns(j)
  \/ StartDeferred(j) \/ BodyStarted(j) \/ BodyArrives(j)
  \/ OutcomeArrives(j) \/ DeliverDeferred(j) \/ FinishDeferred(j)

RunStep == NextRoot \/ RootsDone \/ WaitAll \/ AwaitDeferred

Next ==
  \/ \E t \in Threads : ThreadStep(t)
  \/ \E j \in Jobs : JobStep(j) \/ DecideOutcome(j) \/ RequestStop(j)
  \/ RunStep
  \/ Rerun

\* Threads run, the executor starts what it accepted, bodies return and every
\* Completion is eventually completed or destroyed.  Nobody has to call run()
\* again or to request a stop.
Fairness ==
  /\ \A t \in Threads : WF_vars(ThreadStep(t))
  /\ \A j \in Jobs : WF_vars(JobStep(j)) /\ WF_vars(DecideOutcome(j))
  /\ WF_vars(RunStep)

Spec == Init /\ [][Next]_vars
FairSpec == Spec /\ Fairness

----------------------------------------------------------------------------
(* Properties *)

LoopLabels == {"submit", "rejected", "recordRejected", "skip", "drain"}
RunLabels == LoopLabels \cup
  {"roots", "waitAll", "awaitDeferred", "waitAgain", "recheck", "returned"}
WorkLabels == LoopLabels \cup
  {"idle", "queued", "claim", "invoke", "body", "start", "starting", "arrive",
   "deliver", "finish", "record", "edges", "release", "done"}
LabelsOf(t) == IF t = RunThread THEN RunLabels ELSE WorkLabels

\* The control part of the type invariant.
ControlOK ==
  /\ pc \in [Threads -> RunLabels \cup WorkLabels]
  /\ \A t \in Threads : pc[t] \in LabelsOf(t)

\* The data part.
DataOK ==
  /\ status \in [Jobs -> Status]
  /\ unmet \in [Jobs -> Nat]
  /\ stop \in [Jobs -> BOOLEAN]
  /\ result \in [Jobs -> {"ok"} \cup Errors]
  /\ failedJob \in Jobs \cup {NoJob}
  /\ fatalError \in Errors
  /\ completed \in Nat
  /\ undrained \subseteq Jobs
  /\ draining \in BOOLEAN
  /\ inFlight \in Nat
  /\ won \in [Jobs -> BOOLEAN]
  /\ parties \in [Jobs -> 0..2]
  /\ todo \in [Threads -> SUBSET Edges]
  /\ roots \subseteq Roots
  /\ skips \in [Threads -> SUBSET Jobs]
  /\ cur \in [Threads -> Jobs \cup {NoJob}]
  /\ owes \in [Threads -> 0..2]

\* Every variable keeps its type; in particular no dependency counter, party
\* counter or in-flight counter is ever decremented below zero (they are
\* unsigned in the code and would wrap around).
TypeOK == ControlOK /\ DataOK

\* What lets a successor start: success, or the tolerated failure of an
\* optional job.
Satisfied(j) ==
  \/ status[j] = "kDone"
  \/ j \in Optional /\ status[j] \in {"kFailed", "kTimedOut"}

\* A deferred job was started and its finish has not begun.
Undelivered(j) ==
  \/ parties[j] # 0
  \/ pc[OutcomeThread(j)] = "deliver"
  \/ pc[ContThread(j)] = "queued"

\* finishJob() and unmetDeps_: no job becomes ready, runs or ends other than by
\* being skipped unless every one of its predecessors is satisfied, however
\* completions, skips, rejections and cancellations interleave.
DependencyOrder ==
  \A e \in Edges : status[e.to] \notin {"kPending", "kSkipped"} => Satisfied(e.from)

\* enqueueSkip(): a job is skipped only after some failure has been recorded,
\* so a run that reports success has skipped nothing.
SkippedOnlyAfterFailure == (\E j \in Jobs : status[j] = "kSkipped") => hasFatalFailure

\* recordFailure(): the error run() returns is the final status of the job that
\* firstFailureName() names, also when submission failures, body failures and
\* skips race.
FailureAttributed == hasFatalFailure => status[failedJob] = StatusOf(fatalError)

\* Threads that have failed a rejected job and not counted it yet.
Uncounted == {t \in Threads : pc[t] = "recordRejected" /\ status[cur[t]] = "kFailed"}

\* completedCount_ (the observer's progress): every job that has ended is
\* counted exactly once, except skipped jobs that still wait for the drainer and
\* rejected jobs whose failure is just being recorded.
ProgressExact ==
  completed + Cardinality(undrained) + Cardinality(Uncounted)
    = Cardinality({j \in Jobs : status[j] \in Final})

UndeliveredJobs == {j \in Jobs : Undelivered(j)}
Owing == {t \in Threads : owes[t] # 0}
OwingTwo == {t \in Threads : owes[t] = 2}

\* deferredInFlight: at every instant it is the number of deferred jobs started
\* and not finished plus the number of foreign threads inside deliverDeferred(),
\* so it never wraps and reaches zero only when none of them is left.
InFlightExact ==
  inFlight = Cardinality(UndeliveredJobs) + Cardinality(Owing) + Cardinality(OwingTwo)

\* Jobs that run() can never reach because they follow an on-demand job.
Unreachable ==
  {j \in Jobs : \A S \in SUBSET Jobs :
      (OnDemand \subseteq S /\ \A i \in S : Successors(i) \subseteq S) => j \in S}

\* run() "joins all accepted bodies and completion callbacks before returning"
\* (pipeline.hpp:222-223) and "returns only after every deferred job has
\* finished" (pipeline.hpp:172): at return no thread is inside the run, whose
\* DispatchContext is about to be destroyed.
ReturnsQuiescent ==
  pc[RunThread] = "returned" => Quiescent /\ ~draining /\ undrained = {} /\ inFlight = 0

\* At return every job run() can reach has ended; after a success all of them
\* are done, or optional and failed.
ReturnsSettled ==
  pc[RunThread] = "returned" =>
    \A j \in Jobs \ Unreachable :
      /\ status[j] \in Final
      /\ ~hasFatalFailure => Satisfied(j)

\* finishJob(), submissionFailed() and enqueueSkip() compete for a job: once one
\* of them has given it a final status no other replaces it before the next run.
FinalStatusStable ==
  [][pc[RunThread] # "returned" =>
       \A j \in Jobs : status[j] \in Final => status'[j] = status[j]]_vars

\* Every run returns: no skip drain, continuation or in-flight count keeps the
\* run thread waiting for ever.
RunReturns == (pc[RunThread] # "returned") ~> (pc[RunThread] = "returned")
=============================================================================
