-------------------------- MODULE PriorityExecutor --------------------------
(***************************************************************************)
(* BasicPriorityExecutor (platform/priority/priority_executor.cpp): a pool *)
(* of workers over one priority queue, its two condition variables and its *)
(* destructor.  A step is one critical section of mtx_ or doneMtx_, or one *)
(* access to inFlight_.                                                    *)
(***************************************************************************)
EXTENDS Naturals, FiniteSets

CONSTANTS
  Tasks,        \* submissions
  NoTask,       \* no submission
  Parent,       \* the task whose body dispatches a task, or NoTask: a client does
  Priority,     \* the priority of each task
  Workers,      \* worker threads
  Callers,      \* threads that call waitAll()
  Owner,        \* the caller that destroys the executor
  Stable,       \* StablePriorityExecutor
  Capacity,     \* queueCapacity_, 0 for none
  MaxInFlight   \* the largest value of the 32-bit inFlight_

ASSUME PoolAssumption ==
  /\ IsFiniteSet(Tasks) /\ IsFiniteSet(Workers) /\ Workers # {}
  /\ NoTask \notin Tasks \cup Callers
  /\ Parent \in [Tasks -> Tasks \cup {NoTask}]
  /\ Priority \in [Tasks -> Nat]
  /\ Owner \in Callers
  /\ Stable \in BOOLEAN
  /\ Capacity \in Nat /\ MaxInFlight \in Nat \ {0}

VARIABLES
  queue,      \* queue_
  sequence,   \* QueuedJob::sequence of the queued jobs, 0 for the others
  idle,       \* idle_
  stopping,   \* stopping_
  inFlight,   \* inFlight_
  toNotify,   \* dispatches that left mtx_ with wake set and not notified yet
  worker,     \* where each worker is
  job,        \* the task each worker holds
  caller,     \* where each caller of waitAll() is
  holder,     \* who holds doneMtx_ between a failed test and its sleep
  rejected,   \* submissions that threw
  finished,   \* submissions whose callbacks have returned and were destroyed
  teardown    \* how far the destructor is

vars == <<queue, sequence, idle, stopping, inFlight, toNotify, worker, job, caller,
          holder, rejected, finished, teardown>>

Held == {job[w] : w \in Workers} \ {NoTask}
New == Tasks \ (queue \cup Held \cup rejected \cup finished)

Start ==
  /\ queue = {}
  /\ sequence = [k \in Tasks |-> 0]
  /\ idle = 0
  /\ inFlight = 0
  /\ toNotify = {}
  /\ job = [w \in Workers |-> NoTask]
  /\ caller = [c \in Callers |-> "out"]
  /\ holder = NoTask
  /\ rejected = {}
  /\ finished = {}

Init ==
  Start /\ stopping = FALSE /\ worker = [w \in Workers |-> "lock"] /\ teardown = "no"

\* An executor that was destroyed without being used.
Unused ==
  Start /\ stopping = TRUE /\ worker = [w \in Workers |-> "exited"] /\ teardown = "destroyed"

----------------------------------------------------------------------------
(* dispatch() *)

\* Clients stop dispatching before they destroy the executor; a body may
\* dispatch as long as it runs.
MayDispatch(k) ==
  IF Parent[k] = NoTask THEN teardown = "no"
  ELSE \E w \in Workers : worker[w] = "body" /\ job[w] = Parent[k]

Full == (Capacity # 0 /\ Cardinality(queue) = Capacity) \/ inFlight = MaxInFlight

\* nextSequence_ is the number of submissions accepted so far.
NextSequence == Cardinality(Tasks \ (New \cup rejected))

\* Mutant: a wake-up only for the first queued job.
MutDispatch(k) ==
  /\ k \in New /\ MayDispatch(k) /\ ~Full
  /\ queue' = queue \cup {k}
  /\ sequence' = [sequence EXCEPT ![k] = NextSequence]
  /\ inFlight' = inFlight + 1
  /\ toNotify' = IF queue = {} THEN toNotify \cup {k} ELSE toNotify
  /\ UNCHANGED <<idle, stopping, worker, job, caller, holder, rejected, finished, teardown>>

\* The critical section of an accepted dispatch.
Dispatch(k) ==
  /\ k \in New /\ MayDispatch(k) /\ ~Full
  /\ queue' = queue \cup {k}
  /\ sequence' = [sequence EXCEPT ![k] = NextSequence]
  /\ inFlight' = inFlight + 1
  /\ toNotify' = IF idle # 0 THEN toNotify \cup {k} ELSE toNotify
  /\ UNCHANGED <<idle, stopping, worker, job, caller, holder, rejected, finished, teardown>>

\* The throw of a full queue.
RejectDispatch(k) ==
  /\ k \in New /\ MayDispatch(k) /\ Full
  /\ rejected' = rejected \cup {k}
  /\ UNCHANGED <<queue, sequence, idle, stopping, inFlight, toNotify, worker, job, caller,
                 holder, finished, teardown>>

\* wake_.notify_one(), after mtx_ was released.
NotifyOne(k) ==
  /\ k \in toNotify
  /\ toNotify' = toNotify \ {k}
  /\ \/ \E w \in Workers : worker[w] = "asleep" /\ worker' = [worker EXCEPT ![w] = "woken"]
     \/ (\A w \in Workers : worker[w] # "asleep") /\ UNCHANGED worker
  /\ UNCHANGED <<queue, sequence, idle, stopping, inFlight, job, caller, holder, rejected,
                 finished, teardown>>

----------------------------------------------------------------------------
(* work() *)

\* QueuedJob::operator<.
Less(k, q) ==
  \/ Priority[k] < Priority[q]
  \/ Stable /\ Priority[k] = Priority[q] /\ sequence[k] > sequence[q]

\* Mutant: idle_ is lowered by workers that never raised it.
MutTake(w) ==
  /\ worker[w] \in {"lock", "woken"}
  /\ queue # {} \/ stopping
  /\ idle' = idle - 1
  /\ \/ /\ \E k \in queue :
             /\ \A q \in queue : ~Less(k, q)
             /\ queue' = queue \ {k}
             /\ sequence' = [sequence EXCEPT ![k] = 0]
             /\ job' = [job EXCEPT ![w] = k]
        /\ worker' = [worker EXCEPT ![w] = "body"]
     \/ /\ queue = {}
        /\ worker' = [worker EXCEPT ![w] = "exited"]
        /\ UNCHANGED <<queue, sequence, job>>
  /\ UNCHANGED <<stopping, inFlight, toNotify, caller, holder, rejected, finished,
                 teardown>>

\* The wait's predicate holds: take the greatest job, or leave when stopping.
Take(w) ==
  /\ worker[w] \in {"lock", "woken"}
  /\ queue # {} \/ stopping
  /\ idle' = IF worker[w] = "woken" THEN idle - 1 ELSE idle
  /\ \/ /\ \E k \in queue :
             /\ \A q \in queue : ~Less(k, q)
             /\ queue' = queue \ {k}
             /\ sequence' = [sequence EXCEPT ![k] = 0]
             /\ job' = [job EXCEPT ![w] = k]
        /\ worker' = [worker EXCEPT ![w] = "body"]
     \/ /\ queue = {}
        /\ worker' = [worker EXCEPT ![w] = "exited"]
        /\ UNCHANGED <<queue, sequence, job>>
  /\ UNCHANGED <<stopping, inFlight, toNotify, caller, holder, rejected, finished,
                 teardown>>

\* The predicate fails: sleep; idle_ stays raised until the worker takes a job.
Sleep(w) ==
  /\ worker[w] \in {"lock", "woken"}
  /\ queue = {} /\ ~stopping
  /\ idle' = IF worker[w] = "lock" THEN idle + 1 ELSE idle
  /\ worker' = [worker EXCEPT ![w] = "asleep"]
  /\ UNCHANGED <<queue, sequence, stopping, inFlight, toNotify, job, caller, holder, rejected,
                 finished, teardown>>

\* The body and its completion have returned; what the body dispatched is in.
BodyReturns(w) ==
  /\ worker[w] = "body"
  /\ \A k \in Tasks : Parent[k] = job[w] => k \notin New \cup toNotify
  /\ worker' = [worker EXCEPT ![w] = "publish"]
  /\ UNCHANGED <<queue, sequence, idle, stopping, inFlight, toNotify, job, caller, holder,
                 rejected, finished, teardown>>

\* inFlight_.fetch_sub().
Publish(w) ==
  /\ worker[w] = "publish"
  /\ inFlight' = inFlight - 1
  /\ finished' = finished \cup {job[w]}
  /\ job' = [job EXCEPT ![w] = NoTask]
  /\ worker' = [worker EXCEPT ![w] = IF inFlight = 1 THEN "notifyDone" ELSE "lock"]
  /\ UNCHANGED <<queue, sequence, idle, stopping, toNotify, caller, holder, rejected, teardown>>

\* Mutant: doneCv_ is notified without taking doneMtx_.
MutNotifyDone(w) ==
  /\ worker[w] = "notifyDone"
  /\ caller' = [c \in Callers |-> IF caller[c] = "asleep" THEN "test" ELSE caller[c]]
  /\ worker' = [worker EXCEPT ![w] = "lock"]
  /\ UNCHANGED <<queue, sequence, idle, stopping, inFlight, toNotify, job, holder, rejected,
                 finished, teardown>>

\* doneCv_.notify_all() under doneMtx_.
NotifyDone(w) ==
  /\ worker[w] = "notifyDone"
  /\ holder = NoTask
  /\ caller' = [c \in Callers |-> IF caller[c] = "asleep" THEN "test" ELSE caller[c]]
  /\ worker' = [worker EXCEPT ![w] = "lock"]
  /\ UNCHANGED <<queue, sequence, idle, stopping, inFlight, toNotify, job, holder, rejected,
                 finished, teardown>>

----------------------------------------------------------------------------
(* waitAll(), and the destructor *)

EnterWait(c) ==
  /\ caller[c] = "out" /\ teardown = "no"
  /\ caller' = [caller EXCEPT ![c] = "test"]
  /\ UNCHANGED <<queue, sequence, idle, stopping, inFlight, toNotify, worker, job, holder,
                 rejected, finished, teardown>>

\* Mutant: waitAll() is satisfied with an empty queue.
MutTestIdle(c) ==
  /\ caller[c] = "test" /\ holder = NoTask
  /\ \/ /\ queue = {}
        /\ caller' = [caller EXCEPT ![c] = "out"]
        /\ UNCHANGED holder
     \/ /\ queue # {}
        /\ caller' = [caller EXCEPT ![c] = "block"]
        /\ holder' = c
  /\ UNCHANGED <<queue, sequence, idle, stopping, inFlight, toNotify, worker, job, rejected,
                 finished, teardown>>

\* The predicate, read with doneMtx_ held: return, or get ready to sleep.
TestIdle(c) ==
  /\ caller[c] = "test" /\ holder = NoTask
  /\ \/ /\ inFlight = 0
        /\ caller' = [caller EXCEPT ![c] = "out"]
        /\ UNCHANGED holder
     \/ /\ inFlight # 0
        /\ caller' = [caller EXCEPT ![c] = "block"]
        /\ holder' = c
  /\ UNCHANGED <<queue, sequence, idle, stopping, inFlight, toNotify, worker, job, rejected,
                 finished, teardown>>

\* Releasing doneMtx_ and falling asleep are one step.
Block(c) ==
  /\ caller[c] = "block"
  /\ caller' = [caller EXCEPT ![c] = "asleep"]
  /\ holder' = NoTask
  /\ UNCHANGED <<queue, sequence, idle, stopping, inFlight, toNotify, worker, job, rejected,
                 finished, teardown>>

\* A condition variable may wake up without a notification.
SpuriousWakeup ==
  /\ \/ \E w \in Workers : worker[w] = "asleep" /\ worker' = [worker EXCEPT ![w] = "woken"]
        /\ UNCHANGED caller
     \/ \E c \in Callers : caller[c] = "asleep" /\ caller' = [caller EXCEPT ![c] = "test"]
        /\ UNCHANGED worker
  /\ UNCHANGED <<queue, sequence, idle, stopping, inFlight, toNotify, job, holder, rejected,
                 finished, teardown>>

\* The destructor starts with waitAll(), when no client call is in progress.
Destroy ==
  /\ teardown = "no"
  /\ \A c \in Callers : caller[c] = "out"
  /\ \A k \in toNotify : Parent[k] # NoTask
  /\ teardown' = "waitAll"
  /\ caller' = [caller EXCEPT ![Owner] = "test"]
  /\ UNCHANGED <<queue, sequence, idle, stopping, inFlight, toNotify, worker, job, holder,
                 rejected, finished>>

\* Mutant: stopWorkers() wakes one worker only.
MutStopWorkers ==
  /\ \/ /\ teardown = "waitAll" /\ caller[Owner] = "out"
        /\ stopping' = TRUE
        /\ teardown' = "notify"
        /\ UNCHANGED worker
     \/ /\ teardown = "notify"
        /\ \/ \E w \in Workers : worker[w] = "asleep" /\ worker' = [worker EXCEPT ![w] = "woken"]
           \/ (\A w \in Workers : worker[w] # "asleep") /\ UNCHANGED worker
        /\ teardown' = "join"
        /\ UNCHANGED stopping
     \/ /\ teardown = "join" /\ \A w \in Workers : worker[w] = "exited"
        /\ teardown' = "destroyed"
        /\ UNCHANGED <<stopping, worker>>
  /\ UNCHANGED <<queue, sequence, idle, inFlight, toNotify, job, caller, holder, rejected,
                 finished>>

\* stopWorkers(), and the join of the workers.
StopWorkers ==
  /\ \/ /\ teardown = "waitAll" /\ caller[Owner] = "out"
        /\ stopping' = TRUE
        /\ teardown' = "notify"
        /\ UNCHANGED worker
     \/ /\ teardown = "notify"
        /\ worker' = [w \in Workers |-> IF worker[w] = "asleep" THEN "woken" ELSE worker[w]]
        /\ teardown' = "join"
        /\ UNCHANGED stopping
     \/ /\ teardown = "join" /\ \A w \in Workers : worker[w] = "exited"
        /\ teardown' = "destroyed"
        /\ UNCHANGED <<stopping, worker>>
  /\ UNCHANGED <<queue, sequence, idle, inFlight, toNotify, job, caller, holder, rejected,
                 finished>>

----------------------------------------------------------------------------

WorkerStep(w) ==
  Take(w) \/ Sleep(w) \/ BodyReturns(w) \/ Publish(w) \/ NotifyDone(w)

CallerStep(c) == TestIdle(c) \/ Block(c)

Next ==
  \/ \E k \in Tasks : Dispatch(k) \/ RejectDispatch(k) \/ NotifyOne(k)
  \/ \E w \in Workers : WorkerStep(w)
  \/ \E c \in Callers : EnterWait(c) \/ CallerStep(c)
  \/ SpuriousWakeup \/ Destroy \/ StopWorkers

\* Threads run, bodies dispatch their successors and return, and the mutex of
\* waitAll() is not kept from a worker for ever.
Fairness ==
  /\ \A k \in Tasks :
       WF_vars(NotifyOne(k) \/ (Parent[k] # NoTask /\ (Dispatch(k) \/ RejectDispatch(k))))
  /\ \A w \in Workers : WF_vars(Take(w) \/ Sleep(w) \/ BodyReturns(w) \/ Publish(w))
  /\ SF_vars(\E w \in Workers : NotifyDone(w))
  /\ \A c \in Callers : SF_vars(TestIdle(c)) /\ WF_vars(Block(c))
  /\ WF_vars(StopWorkers)

Spec == Init /\ [][Next]_vars
FairSpec == Spec /\ Fairness

----------------------------------------------------------------------------
(* Properties *)

TypeOK ==
  /\ queue \subseteq Tasks /\ toNotify \subseteq Tasks
  /\ rejected \subseteq Tasks /\ finished \subseteq Tasks
  /\ sequence \in [Tasks -> Nat]
  /\ idle \in Nat /\ inFlight \in Nat
  /\ stopping \in BOOLEAN
  /\ worker \in [Workers -> {"lock", "asleep", "woken", "body", "publish", "notifyDone", "exited"}]
  /\ job \in [Workers -> Tasks \cup {NoTask}]
  /\ caller \in [Callers -> {"out", "test", "block", "asleep"}]
  /\ holder \in Callers \cup {NoTask}
  /\ teardown \in {"no", "waitAll", "notify", "join", "destroyed"}

\* The workers on their way to the queue, those that wait on wake_, and those with a task.
Coming == {w \in Workers : worker[w] \in {"lock", "woken"}}
OnWake == {w \in Workers : worker[w] \in {"asleep", "woken"}}
Busy == {w \in Workers : job[w] # NoTask}

\* dispatch() notifies one worker, and only when idle_ is not zero: while a worker
\* sleeps, every queued job has a worker on its way to the queue or a wake-up
\* still to be sent, so no job waits for a busy worker next to a sleeping one.
NoStrandedJob ==
  (\E w \in Workers : worker[w] = "asleep") =>
    Cardinality(queue) <= Cardinality(toNotify) + Cardinality(Coming)

\* work() takes doneMtx_ to notify: nobody sleeps in waitAll() on an executor
\* that is idle unless the notification is still to come.
NoMissedCompletion ==
  inFlight = 0 /\ (\E c \in Callers : caller[c] \in {"block", "asleep"})
    => \E w \in Workers : worker[w] = "notifyDone"

\* dispatch() notifies after mtx_, one worker, and only when idle_ is not zero; the last
\* completion is published without doneMtx_: no job is left beside a sleeping worker,
\* and no waitAll() asleep on an idle pool.
NoLostWakeup == NoStrandedJob /\ NoMissedCompletion

\* inFlight_ counts what was accepted and not finished, and idle_ the workers
\* that wait on wake_, whatever dispatches, wake-ups and exits come between.
CountsExact ==
  /\ inFlight = Cardinality(queue) + Cardinality(Busy)
  /\ idle = Cardinality(OnWake)

\* The destructor waits for every dispatched job, those bodies dispatch meanwhile
\* included, before it stops the workers: no job is dropped with the pool.
NotUsedAfterDestruction == teardown = "destroyed" => queue = {} /\ Held = {} /\ toNotify = {}

\* Each task is in one place at a time, and a worker holds one exactly while it runs it.
OnePlace ==
  /\ \A w \in Workers : job[w] # NoTask <=> worker[w] \in {"body", "publish"}
  /\ \A v, w \in Workers : v # w /\ job[v] = job[w] => job[v] = NoTask
  /\ \A w \in Workers : job[w] \notin queue \cup rejected \cup finished
  /\ queue \cap rejected = {} /\ queue \cap finished = {} /\ rejected \cap finished = {}

\* A notification is owed by a dispatch() call that has not returned yet.
Notifying == \A k \in toNotify : k \notin New /\ MayDispatch(k)

\* waitAll() has let the destructor go on.
Emptied ==
  teardown \in {"notify", "join", "destroyed"} \/ (teardown = "waitAll" /\ caller[Owner] = "out")

\* Only its owner is with a pool that is being destroyed, and the workers are stopped
\* when nothing is queued or held, which stays so.
Drained ==
  /\ teardown # "no" => \A c \in Callers \ {Owner} : caller[c] = "out"
  /\ Emptied => queue = {} /\ Held = {}

\* A caller that is about to sleep is the one that holds doneMtx_.
SleeperHolds == \A c \in Callers : caller[c] = "block" => holder = c

\* The inductive invariant of the pool: every task in one place, both counters exact, no
\* wake-up lost, doneMtx_ held by the one caller about to sleep, and nothing left
\* behind by the destructor.
PoolInv ==
  /\ TypeOK /\ OnePlace /\ Notifying /\ CountsExact
  /\ NoStrandedJob /\ NoMissedCompletion
  /\ SleeperHolds /\ Drained

\* The destructor has begun and not ended.
Waiting == teardown \notin {"no", "destroyed"}

\* The states of the tasks as IExecutor's contract sees them.
TaskState ==
  [k \in Tasks |->
     IF k \in queue THEN "queued"
     ELSE IF k \in Held THEN "running"
     ELSE IF k \in rejected THEN "rejected"
     ELSE IF k \in finished THEN "done" ELSE "new"]

Contract == INSTANCE Executor WITH
  task <- TaskState, waiting <- {c \in Callers : caller[c] # "out"}

\* The pool implements IExecutor's contract: each accepted job runs once and
\* ends, and waitAll() returns when, and only when, nothing accepted is left.
ImplementsContract == Contract!Spec
=============================================================================
