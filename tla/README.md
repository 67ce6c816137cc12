# Sub0Pipeline in TLA+

Sub0Pipeline is a C++ library that runs a graph of jobs. `Pipeline::run()`
starts a job when all the jobs it depends on are done, on an executor the
caller supplies. It skips what a failed job would have fed, supports timeouts,
cancellation and jobs that finish later from a foreign thread (deferred jobs),
and can execute a job in another process.

This directory holds TLA+ modules for the library's runs (threaded and inline), the
lifecycle of a pipeline, its executors and deadlines, the graph and the
operators that build it, and the remote part from the bytes of a frame to the
worker host; TLC configurations; and TLAPS proofs about the scheduler, the
four executors, the deadline service, the deferred slot, the lifecycle, the
handshake and the remote part. Paths
below are relative to the repository; `PROJECT.json` maps each definition to its
lines.

## 1. Inventory

| Component | Source | State | Operations |
|---|---|---|---|
| Threaded run | `src/sub0pipeline.cpp` (`runImpl`, `DispatchContext`) | per node: status, unmet dependencies, stop source; per run: failure record, progress counter, skip list, `deferredInFlight` | initialize, submit roots, `dispatchJob`, `finishJob`, `skipNode`, `submissionFailed`, the deferred paths, the waits at the end |
| Deferred slot, `Completion` | same, `completion.hpp` | parties, outcome, result, delivery, registrations, orphan ledger | `emplaceDeferred` body, `complete`/`fail`/destruction, stop callback, expiry, continuation, reset |
| Deadline service | same (`TimerService`), `deadline.hpp` | ordered queue, index, the entry being fired | `arm`, `cancelAndWait`, timer loop, destructor |
| Executor contract | `executor/executor.hpp` | accepted jobs | `dispatch`, `waitAll` |
| Desktop executor | `platform/desktop` | live count, thread list | `dispatch`, job thread, `waitAll`, destructor |
| Priority executor | `platform/priority` | ready queue, idle count, in-flight count, stop flag | `dispatch`, `work`, `waitAll`, destructor |
| Scoped executor | `executor/scoped_executor.hpp` | pending count, a parent executor | `dispatch`, `finishDispatch`, `waitAll`, destructor |
| FreeRTOS executor | `platform/esp32p4` | pending count, semaphore | `dispatch`, task body, `waitAll`, destructor |
| Inline run | `src/sub0pipeline.cpp` | worklist, list of finished deferred jobs | the same scheduling on the caller's thread; `finishAwaitedInline` |
| Timed bodies, orphan threads | `src/sub0pipeline.cpp` | orphan thread list | `invokeTimed`, `invokeWithDeadline`, `joinOrphans` |
| Pipeline lifecycle | `src/sub0pipeline.cpp`, `pipeline.hpp` | `running_`, stop sources under `stopMtx_` | `run`, `trigger`, `runUntil`, `cancel`, move |
| Run scope, tick loop | `run_scope.hpp`, `tick_loop.hpp` | a nested run; a repeated run | enter, leave, tick, stop |
| Graph construction, validation | `src/sub0pipeline.cpp`, `pipeline.hpp`, `job.hpp` | node table, successor arena, cached roots | `emplace`, `addOnDemand`, `succeed`, `precede`, `validate` |
| Remote channel | `src/remote/channel.cpp` | request slots, queue, link state | send, reply, cancel, close |
| Worker host | `src/remote/worker_host.cpp` | admission count, running requests | accept, run, reply, cancel, shut down |
| Transports | `src/remote/*transport*` | byte links | send, receive, close |
| Shared memory | `src/remote/shared_memory.cpp` | free list, block references | allocate, release |
| Payload strategies, wire format | `src/remote` | chunks being assembled, the agreed strategy | encode, decode, send, assemble, negotiate |
| Observer, DSL | `observer.hpp`, `dsl.hpp` | none | callbacks; `>>` and groups |

How the parts meet: a run calls `executor.dispatch()` for each ready job and
`executor.waitAll()` at the end. Executor threads call back into the
`DispatchContext`, which calls `dispatch()` again for the successors. A
deferred job's body returns at once. Its `Completion` may be signalled from any
thread, a stop or a deadline may win against that signal, and whoever arrives
last dispatches a continuation. Deadlines come from one timer thread. A
`ScopedExecutor` is an executor on top of another one. A remote job is a
deferred job whose `Completion` the channel holds until the worker replies.

The hard behaviours are: releases of one successor on several threads; skips
that race starts; an executor that rejects; the three-way race that ends a
deferred job; parties that outlive their run; wake-ups published without the
mutex of the sleeper; destruction right after a wait; a deadline that is
cancelled while it fires; bodies that outlive their timeout, their run or the
pipeline; a stop that races the renewal of the stop source; and a reply, a cancel
and a lost connection that meet at one request. Hard to test without any
concurrency are lists that move within an arena of 16-bit integers, a free list
that must coalesce, and length fields at their limit. `hazards` in `PROJECT.json` lists them at their lines.

What makes the parts correct:

- *Run*: a job starts after all its predecessors are done, at most once; a
  skip has a failure behind it; the reported failure is a job that failed; when
  `run()` returns every job is settled and nothing of the run is still going on;
  every run returns.
- *Deferred slot*: the job is finished exactly once; no thread of an earlier
  run can reach the slot of a later one; nobody waits for itself.
- *Timer*: no deadline is touched after `cancelAndWait()`; no deadline is slept
  past; a refused deadline is not registered.
- *Executors*: what is accepted runs once, what is rejected never, and
  `waitAll()` returns when, and only when, nothing accepted is left.
- *Remote parts*: a request's `Completion` is used exactly once, whichever of
  reply, local failure, cancel and connection loss comes first; a slot comes
  back; every request ends; both ends shut down and are not used afterwards.
- *Lifecycle*: a stop reaches the invocation of its own epoch and no later one;
  no body outlives the pipeline or the join that promised to wait for it;
  every call returns once the bodies it waits for do.
- *Inline run*: as a threaded run: each job ends once and after what it depends on,
  and no foreign thread is left in the run's context.
- *Graph and DSL*: a successor list is what was added, in order; `validate()`
  accepts exactly the acyclic graphs; cached roots are those of the present graph; a
  chain wires exactly the edges it reads as.
- *Shared memory*: a block has one owner and stays while a peer may read it; nothing
  is leaked or left split; no name outlives the handshake.
- *Frames and payloads*: they arrive whole, unmixed and in order; a decoder returns what
  the encoder was given and takes no damaged frame for another message; a connected
  coordinator and its worker use the same payload strategy.

## 2. Modules

| Module | Models |
|---|---|
| `Scheduler` | one run at a time on a threaded executor |
| `SchedulerInvariant` | its inductive invariant: `IInv`, and `FullInv` for what holds on return |
| `SchedulerProofs` | proofs: what holds during a run, and when it returns |
| `Executor` | abstract: what `dispatch()` and `waitAll()` promise |
| `PriorityExecutor`, `DesktopExecutor`, `ScopedExecutor`, `FreeRtosExecutor` | the four executors, each shown to implement `Executor` |
| `Executors` | a program that uses one of the four executors (extends `PriorityExecutor`, has the others as instances) |
| `ExecutorProofs` | proofs about the four, and that each implements `Executor` |
| `TimerService`, `TimerServiceProofs` | the deadline thread, and proofs about it |
| `DeferredSlot`, `DeferredSlotProofs` | one deferred job through consecutive runs, at the grain of single accesses, and proofs about it |
| `Lifecycle`, `LifecycleProofs` | a pipeline across its calls, with timed bodies, orphans and `RunScope`, and proofs about it |
| `Pipelines`, `PipelineProofs` | a program that uses the timer, the slot or the lifecycle (extends `Lifecycle`, has the others as instances), and what the proofs about them say of it |
| `InlineRun` | one run on the caller's thread |
| `Graph` | nodes, successor arena, validation, cached roots |
| `Dsl` | the operators of `dsl.hpp` |
| `Transport` | the link between coordinator and worker, over a pipe or in memory |
| `Channel` | `RemoteChannel`, the coordinator's end |
| `WorkerHost` | the worker's end |
| `Remote`, `RemoteProofs` | both ends over one link, and the death of the worker; proofs about them |
| `Handshake`, `HandshakeProofs` | kinds, choice of a payload strategy, the two shared regions, and proofs about them |
| `SharedMemory` | the allocator and the payloads of both ends |
| `PayloadStream` | chunks of streamed payloads |
| `PipeLink` | two pipe transports over bounded pipes |
| `Wire` | every frame, byte by byte |
| `MCScheduler`, `MCExecutors`, `MCRemote` | constants for TLC |
| `MCPipeline` | constants for `Pipelines`, and the inline run as one more program |
| `MCData` | one of eight data structures (extends `Handshake`, has the others as instances) |

**Scheduler.** A thread is the caller of `run()`, an executor callback for a
job, the callback that continues a deferred job, or the foreign thread that
decides a deferred job's outcome. Each has a `pc`. One step is one atomic
operation or one critical section of `skipMutex`, `fatalMtx` or `deferredMtx_`.
Every accepted callback is a thread of its own, so any number of workers and
any queueing order is covered. The executor is the contract only: `dispatch()`
accepts or, with `MayReject`, throws; `waitAll()` returns when nothing accepted
is left. The loops over successors, roots and nodes take a set in any order,
which includes the code's. `Edges` carries an id, because the code counts a
repeated edge twice. After a run returns, `Rerun` initializes the next one.

**DeferredSlot** looks at what `Scheduler` abstracts: the registrations of the
stop callback and the deadline, delivery, the orphan ledger by which the next
run and the destructor wait for late `Completion`s, and the reset of the slot.
`InlineOn` names the foreign threads on which the executor may run a
continuation inside `dispatch()`. Of a result it keeps who decided it.

**Executors.** In each module a job's abstract state (`new`, `queued`,
`running`, `done`, `rejected`) is a function of the concrete state, and
`ImplementsContract` is the abstract specification, fairness included, under
that mapping. `ScopedExecutor` has `Executor` as its parent as well: the theorem
it checks is that a scope over any executor that keeps the contract keeps it.
FreeRTOS (`xTaskCreate`, semaphores) is external and modelled from its use.

**TimerService.** Time is a counter the environment advances. `steady_clock`
saturation (a delay too large for the clock becomes "never") is kept, because
the code has a branch for it. The spec has the timer thread's sleep target as a
variable: it is the value it read before it slept, and may be stale.

**Lifecycle.** Two threads may run, trigger, join or destroy the pipeline and a
third cancels; the graph has no edges. A stop source is numbered by the epoch that
created it, an invocation by the epoch it began in, so a stop or a body
that reaches the wrong call is visible. Bodies on a thread of their own
(`invokeTimed`, `invokeWithDeadline`) are in `bodies` until they return, whoever
waits for them. `service` and `cancellable` are chosen in `Init`: with or without a
deadline service, cooperative body or not.

**InlineRun.** The run thread alone changes the graph, so a finish is one step;
what is left of the concurrency is a foreign thread that hands a deferred job over
(`deferredFinished_`) and the wait in `finishAwaitedInline()`. Who wins a deferred
job's outcome is `DeferredSlot`'s subject and one step here.

**Graph, Dsl.** A successor list is inline or an offset in the arena, split into
two narrow halves and packed as in the code; `Width` and `InlineCap` are parameters so that
the limit (`push_back()` refusing) comes within reach. The validation is Kahn's
algorithm as coded; the property's definition is the absence of a cycle.
An `edges` history holds what the program asked for. `Dsl` has one operator per
overload of `>>`; the terms of the expression are the history the edges are compared with.

**SharedMemory.** Each side's heap is its free list, blocks, holds and scopes;
requests, replies and releases are frames in order. `PayloadStream` and `PipeLink`
keep bytes, since where a read or a write is cut is what they are about.
`PipeLink` has the write lock, the blocked writer and the reader that
answers from its callback; a header that announces more than `kMaxBodyBytes` (`Long`)
ends the stream.

**Wire.** An encoder builds bytes of base `Byte`; length fields keep their
number of bytes and their refusals. The decoder is the code's reader with its error flag. A body cut at any
byte and a length field that disagrees with the size must be refused; fields that a newer
peer appends are ignored. `WireExact` is about every frame: the peer reads what was sent,
except that a reply with an over-long handle is refused whole (`Untakable`, section 5).

**Handshake.** Either process may crash at any step. A region's name exists
until someone unlinks it. The worker takes the first offer it can accept. Creating,
opening and mapping a region may each fail, on either side.

**Remote.** `Channel` has a thread per caller of `submit()`, the transport's
reader, the threads that request a stop, and the owner. A step is a critical
section of `mtx_`, a call to the transport or the use of a `Completion`; the
request a thread took from the queue and has not sent again is in `next`, since
other threads may take the slot meanwhile. `WorkerHost` has the reader, the
runners and `serve()`. `Transport` delivers frames in order; an in-memory link
closes in both directions at once, a pipe in one. What the worker had sent
before it died is still delivered. Payload transfer is reduced to success or failure
(`Unfit`, `Fragile`), a `Completion`'s result to its use, a request's own
pipeline to its reply. A reply may be one the coordinator cannot decode (`LongOutput`,
section 5): it closes the connection, and what was pending fails with it. `Endless` requests run until they are stopped, so a cancel
that is lost is seen.

## 3. Runs

| Run | Instance | Shows |
|---|---|---|
| `plain` | `Web`: two roots, one optional and one cancellable, joined over a repeated edge, a tail and a side job; rejecting executor | no counter leaves its range, dependency order, skips only after a failure, the failure attributed, exact progress, every job settled on return, final statuses stable |
| `deferred` | `Join`: a deferred, timed, optional and cancellable root beside a plain one, joined, and an on-demand job; rejecting executor | the inductive invariant `FullInv`, the exact in-flight count, a run returns only when quiet, and under fairness returns |
| `deferred_chain` | two deferred jobs in a row, then a plain one | **violation**, see section 5 |
| `executors` | desktop (3 jobs, 2 callers of `waitAll()`), priority (4 jobs, two dispatched by a body, 2 workers, queue of 2), FreeRTOS (3 jobs, tasks or inline fallback), scope over a parent that may reject (3 jobs) | no thread lost or joined twice, no lost wake-up, the pool's inductive invariant `PoolInv` (exact counts among it), nothing used after destruction, waits end, contract, for each |
| `pipeline` | the timer with 2 deadlines armed up to twice, delays 0, 1 and too large; the slot through 2 runs, with a continuation inside `dispatch()` on every foreign thread but the timer's; one timed job, 2 callers, 1 canceller, 3 calls; an inline run of 4 jobs, 2 of them deferred | nothing after a cancel, no late alarm, no stale party and only an orphan left after a run, an inline run that ends quiet, no self-wait, a stop stays in its epoch, no body outlives its owner, every wait ends |
| `timer_refused` | the second insertion of `arm()` fails | **violation**, see section 5 |
| `deferred_expiry` | the slot, with the continuation inside `dispatch()` on the timer's thread | **violation**, see section 5 |
| `trigger_orphan` | one timed job triggered by two threads | **violation**, see section 5 |
| `data` | eight parts, each by itself (`MCData` has the constants) | arena and lists, validation and roots, wiring, the shared heap, references and leaks, streamed payloads and pipe frames, the frame encoding and the fingerprint, agreement and names of the handshake |
| `pipe_close` | two pipes of one byte, frames of two, one answer per reader | **violation**, see section 5 |
| `remote` | 3 requests, 1 slot, queue of 0 or 2, 1 runner; pipe or loopback; timeout, rejection, an undecodable reply, destruction, stop and crash at any time | one holder per request, no cancel before its request, slots come back, nothing used after destruction, every request ends, both ends shut down |
| `remote_busy` | the same | **violation**, see section 5 |

*Bounds.* `Web` has a join reached on two threads, a repeated edge, on which
counting edges and counting predecessors differ, a tail behind the join, so that a
skip travels two levels, and a side job that is submitted while a skip drains.
`Cancellable` limits the jobs whose stop is requested to one in each of the scheduler's runs.
Two workers and three jobs are the
smallest pool in which one worker sleeps, one works and a job is queued; with a
queue of two the fourth job meets the limit. Two runs are enough for a stale
party, as the slot remembers nothing older. Two deadlines suffice for an earlier one
to arrive during a sleep, and a second arming for a re-used one. `MaxArms`,
`MaxRuns`, `MaxInFlight`, `MaxGiven`, `Capacity`, `Cancellable`, `Limit` and
`Never` name the bounds; `MaxGiven` is the binary semaphore's effective range plus
one. For the lifecycle, three calls are
a run, a trigger and a cancel, or two of one: enough for a stop that is taken in one epoch and
lands in the next (`MaxCalls`). The inline graph has a repeated edge, an
optional job and two deferred jobs that hand over in either order. In `data`, an arena of 4-bit
integers with two inline entries makes lists spill, move and reach the limit within
16 edges (`MaxNodes`, `MaxEdges`); what a push refuses there is a
list's count, and offsets pass the low half only in the longest chains; every multigraph with three nodes and five edges is
validated; expressions have up to four terms and five jobs (`MaxTerms`, `MaxJobs`,
`MaxGroup`), so that every overload has each kind of left operand; regions of three units with
blocks of one and two make holes that must coalesce (`Region`, `MaxBlocks`); bytes of eight
values put a string's length field at its limit with 64 bytes; a pipe holds one byte of a
two-byte frame. With one slot, three requests fill a queue of two behind it, so a
cancelled request is followed by another one in the queue, and meet `kBusy` with no queue.
A request taken from the queue that finds the slot taken *and* the queue full
again needs a fourth request and is not reached.

*Deadlock.* The executors, the timer, the slot, the lifecycle, the inline run, the data
structures and the connection really stop when their bounded
work is done and their owner destroyed them, so those configurations say
`CHECK_DEADLOCK FALSE` and the end is covered by the liveness properties
instead. `Scheduler` starts another run and is checked for deadlock.

*Fairness.* Threads that can take a step eventually do (weak fairness): the
operating system schedules them, and executor threads start what was
accepted. Bodies return and `Completion`s are signalled or destroyed; the code
guarantees neither, so liveness is relative to well-behaved user code. Acquiring a
mutex that others take again and again needs strong fairness: the completion
notification and the `waitAll()` test in `PriorityExecutor` and
`ScopedExecutor`, and firing in `TimerService`. In `DeferredSlot` a signal is
assumed only for a job without a timeout; with one, the expiry must suffice.
`ScopedExecutor` assumes its parent has a worker left for what it accepted; the
README of the repository names the case in which nested scopes use them all up.
In `Lifecycle` bodies return and calls and threads go on; nobody has to call
anything. In `InlineRun` the run thread goes on, bodies return and a deferred
job's outcome is decided; in `PipeLink` every thread that can write or read does. Waits are
stated as `Waiting ~> ~Waiting`, for one caller or deadline at a time.
In `Remote` the jobs of a request end, at the latest when they are stopped;
nobody has to submit, to stop a job, to destroy the channel or to stop `serve()`.
The timer of `connect()` has no fairness: a worker that answers or dies is enough
for every property that is checked.

## 4. Proofs

Every theorem is for all values of the constants: any finite graph, any number of
workers, callers, requests, slots, deadlines, runs or calls. Each is about the
specification that TLC checks on a small instance, or about one of its components
(`Spec` of a module, `Program` of `Executors` and `Pipelines`), and every inductive
invariant but the last was model-checked before it was proved (`FullInv` and `PoolInv` are
checked by the runs `deferred` and `executors`; `HandshakeInv` was proved at once).

| Module | Theorem | Statement |
|---|---|---|
| `SchedulerProofs` | `Invariance` | `Spec => []IInv` |
| | `TypeCorrect` | `Spec => []TypeOK` |
| | `RespectsDependencies` | a job becomes ready, runs or ends (other than skipped) only when each of its predecessors is done, or failed and is optional |
| | `SkipsFollowFailure` | a job is skipped only after a failure was recorded |
| | `ReportsItsFailure` | the job the failure record names ended with the recorded error |
| | `CountsInFlight` | `deferredInFlight` equals the deferred jobs in flight plus the decrements threads still owe |
| | `FinalStatusIsStable` | within a run a final status never changes |
| | `CountsProgress` | the progress counter equals the jobs that have ended, less those whose count is still to come |
| | `ReturnJoinsAll` | without a chain of deferred jobs, nothing of the run is left when it returns |
| | `ReturnSettlesAll` | and in an acyclic graph every job the run can reach has ended, well if the run succeeded |
| | `FullInvariance` | `Spec => []FullInv` |
| `ExecutorProofs` | `PoolInvariance` | `Spec => []PoolInv`, the pool by itself |
| | `WakeupsArrive` | no job is left beside a sleeping worker, no `waitAll()` asleep on an idle pool |
| | `PoolCounts` | `inFlight_` and `idle_` are exact, so neither wraps |
| | `DestructorLeavesNothing` | no job, body or notification is left behind the pool's destructor |
| | `PoolImplementsContract` | the pool refines `Executor`: initial states and steps |
| | `ProgramInvariance` | the invariants of the four executors hold in every program |
| | `ThreadsAreJoined` | `NoThreadLost`: each desktop thread is joined by one caller of `waitAll()` |
| | `DestructorsComeLast` | `NoneUsedAfterDestruction`: nothing touches a destroyed scope, FreeRTOS executor or pool |
| | `CompletionsWake` | a `waitAll()` of the desktop executor or a scope sleeps only while a completion is to come |
| | `ProgramKeepsContract` | each of the four refines `Executor`: initial states and steps |
| `TimerServiceProofs` | `TimerInvariance` | `Spec => []TimerInv` |
| | `CancelDrains` | after `cancelAndWait()` the timer thread neither holds nor finds the deadline |
| | `AlarmsInTime` | the timer thread sleeps past no deadline |
| | `DestructorFindsNothing` | the service is destroyed with nothing queued, expiring or to be notified |
| `DeferredSlotProofs` | `SlotInvariance` | `Spec => []SlotInv` |
| | `NoPartyOutlivesItsRun` | nobody uses the slot for an earlier run, or after the pipeline's destruction |
| | `RunLeavesOnlyOrphans` | after a run the job is finished once and only an orphan may be left |
| | `TimerNeverWaitsForItself` | the timer thread does not wait for its own expiry |
| | `SecondArrivalFinishes` | one thread finishes the job, once body and outcome have both arrived |
| | `SlotIsDisciplined` | action property: no step resets a slot in use, decides twice or finishes twice |
| `PipelineProofs` | `ProgramInvariance` | `TimerInv` and `SlotInv` hold in every program |
| | `AlarmsAreExact` | `AlarmsExact`, as checked by the run `pipeline` |
| | `PartiesLeaveWithTheirRun` | `NoStaleParty`, likewise |
| | `ExpiryNeverWaitsForItself` | `NeverWaitsForItself`, likewise |
| `LifecycleProofs` | `LifeInvariance` | `Spec => []LifeInv` |
| | `BodiesEndWithTheirOwner` | no body outlives the run, the `RunScope` or the pipeline it belongs to |
| | `StopsStayInTheirEpoch` | no stop of an earlier invocation is on the source of a running job |
| `RemoteProofs` | `RemoteInvariance` | `Spec => []RemoteInv` |
| | `CompletedOnce` | the `Completion` of a request has one holder until it is used, and is used once |
| | `CancelNeverOvertakes` | no cancel is on the link without or before its request |
| | `SlotsComeBack` | while the connection is up a request in flight is with its sender, on the way, at the worker, or its reply is on the way |
| | `ReplyFindsRequest` | a reply on the way names a pending request |
| | `WorkerWithinLimit` | what the worker queues and runs is counted by `admitted_`, within its limit |
| | `DestructorWaits` | a destroyed channel has no thread, callback or request left |
| `HandshakeProofs` | `HandshakeInvariance` | `Spec => []HandshakeInv` |
| | `SidesAgree` | `Agreement`: one strategy, the first both have unless that is shared memory that failed |
| | `NamesAreRemoved` | `NamesRemoved`: no name of a shared region outlives the handshake |

*Assumptions.* The constants satisfy the named `ASSUME` of each module: sets are
finite, thread and job names are distinct, capacities are numbers, the worker accepts at most as many requests
as it has runners. TLC evaluates each one; the proofs about the timer and the slot take theirs
(`TimerAssumption`, `SlotAssumption`) as a hypothesis, and the handshake needs none. Four
theorems or groups have a hypothesis of their own, and each is a condition the code needs:

- `NoDeferredChain` (no deferred job follows another one, directly or through
  others), in `ReturnJoinsAll` and `ReturnSettlesAll`. It cannot be dropped: the run
  `deferred_chain` violates the property on the smallest graph without it.
- `Acyclic`, in `ReturnSettlesAll`: a cycle is never released. `validate()` guarantees it,
  which `data` checks; nothing else about the scheduler needs it.
- `ArmsWhole`, in `TimerServiceProofs`: neither of `arm()`'s two insertions fails
  alone. `timer_refused` shows what happens when one does; that a refused deadline is not
  registered is therefore no theorem. `Pipelines` has it by its
  instance of the timer.
- `"timer" \notin InlineOn`, in `TimerNeverWaitsForItself` and `ExpiryNeverWaitsForItself`:
  the executor runs no continuation inside `dispatch()` on the timer thread.
  `deferred_expiry` shows what happens when it does.

*The arguments.* No property above is inductive except `NoLateAlarm`.

`Scheduler`. That a job starts once needs to know who may start or finish it, so `IInv` says:

- `Ownership`, `PartyInv`: a started job has exactly one holder (its body, the
  two parties of its slot, the foreign thread that came last, or the
  continuation), and which one follows from the `pc`s and the party count;
- `SubmitInv`, `SubmitOnce`, `PendingInv`, `RootInv`: a job is submitted by one
  thread at most, before it has a callback;
- `TodoInv`, `TodoOnce`, `CountInv`: the unmet count of a job is the number of
  incoming edges not yet released, where an edge is released by the one thread
  that has it in its list. Zero therefore means every predecessor is finished,
  which gives `DependencyOrder`;
- `SkipInv`, `RecordInv`, `RejectInv`: what is skipped, recorded and
  rejected, giving `SkippedOnlyAfterFailure` and `FailureAttributed`;
- `OwesInv`: who owes a decrement, giving `InFlightExact`.

`FullInv` adds `ProgressInv` (each ended job was counted, waits in the skip list or is
with the one thread that rejected it), `QuietInv` (the order in which the waits at the
end close: once `waitAll()` has returned and no deferred job is in flight, what may still
run follows a deferred job, so without a chain the second `waitAll()` is the last) and
`SettleInv` (a job not yet ended has a predecessor, an edge or a thread that will release it). At
return the last leaves only pending jobs behind pending jobs, and an acyclic graph has no such set.

`Executors`. `PoolInv` has each task in one place, `CountsExact` over those
places, and two facts about wake-ups: while a worker sleeps, queued jobs are at most the
notifications to come plus the workers on their way, and a `waitAll()` asleep on an idle
pool has a worker about to notify (the caller holds `doneMtx_` between its test and its
sleep). The refinement maps the places to the states of the contract; each of the pool's
steps is shown to be a contract step or to change neither the tasks nor the callers.
`waitAll()` may return only because `inFlight_` is exact. The same holds of the other three.
`DesktopInv`: the count is that of the live jobs, a thread is in `threads_`, with the one
caller that moved it out, or joined (`DesktopPlaces`), and the destructor starts when
nobody else is in `waitAll()` (`DesktopEnd`). `ScopeInv`: the count is that of the
submissions that have not come back from the parent, the mutex is held across the test and
the wait (`ScopeLock`), and a wrapper that the parent runs was accepted by it
(`ScopeParent`), which is why a scope over any parent that keeps the contract keeps it.
`FreeRtosInv`: the count is that of the tasks that have not given the semaphore yet. A
program uses one executor; the others stay as they were (`OneAtATime`).

`TimerService`. `TimerInv`: the queue and the index agree and hold deadlines of clients that
have not cancelled; the expiry in progress is out of the queue and its client has yet to
wait for it; a service being destroyed has no clients.

`DeferredSlot`. The hard part is that five threads share a slot and only a count of two
says who finishes. `SlotInv` says at which steps each thread can be (`Places`) and for which
run (`OfThisRun`), that `parties` is the number of arrivals still to come: the body's and
that of whoever decided the outcome (`PartiesDue`), so that at most one foreign thread
arrives (`OneArrival`) and one thread finishes (`OneFinisher`); that `deferredInFlight`
is the unfinished job plus the delivery under way (`CountExact`), so that the run thread
cannot pass its wait early (`RunPlace`); that a thread in the stop callback or the expiry
belongs to a registration that exists (`Callback`, `Deadlined`); and that a `Completion`
still held after its run is in the ledger exactly when its release was not noted before
(`Completions`, `Begun`, `Destroyed`). A reset of the slot therefore finds nobody in it.

`Pipelines`. A step of a program is a step of one component; `PipelineProofs` has the
components a second time together with their proofs (`ServiceP`, `SlotP`), shows that
these are the same components, and carries their invariants over.

`Handshake`. `HandshakeInv`: the worker answers once, what the coordinator has said
(`Order`); a name that exists belongs to a region its creator still owns and has not
unlinked, unless the creator crashed, and the worker has one only if it chose shared
memory (`Names`); the answer is the first offer both have, shared memory aside, and while
the coordinator waits for it its region is mapped (`Choice`).

`Lifecycle`. `LifeInv` says where each caller is and what it came for (`Places`), that
`running_` admits one run and no trigger beside it and that its jobs carry its epoch
(`OneRun`), that the status and a `RunScope` keep a second trigger out
(`Triggers`), that a body no dispatcher waits for is in `orphanThreads_` or in a joiner's
batch and is counted once (`Ledger`), what is empty behind each kind of join (`Joined`),
and that a claimed job's source is no newer than its claim and carries no earlier run's
request (`Stops`). A step either leaves a claim as it was or gives it a fresh epoch
(`ClaimedStep`); a fresh source has no requests because requests are no newer than the
epoch in which they were made.

`Remote`. A `Completion` is pending, doomed, queued, taken from the queue or being used,
in one of these and there once (`OneEach`, `OnePlace`). One thread sends a request, after
which a stop may be forwarded (`OneSender`). A request is with its sender, on the link, in
the worker's queue, with a runner or answered, one at a time (`OneCopy`, `OneStage`), and is
pending while its reply can be sent or read. Cancels are behind their request in the
link's order (`CancelBehind`). `Closing` and `Admission` are about the end of the connection and
the worker's count.

*Only model-checked*, and why:

- liveness under fairness (`RunReturns`, `WaitsEnd`, `EveryRequestEnds`, `ShutdownEnds`, the
  fairness half of the refinements in `AllImplementContract`): out of the prover's reach;
- `QuietAfterRun` of the inline run: the worklist is a fold over successor lists, and
  what a fold computes needs induction over data;
- for the same reason the data structures of `MCData` other than the handshake: arena and
  validation (`StorageExact`, `ShapeExact`), chains of operators (`WiringExact`), the shared heap,
  where `endScope()` and `onClosed()` fold over the blocks they drop (`HeapSound`,
  `PayloadKept`, `NothingLeaked`), streams and pipes (`PayloadIntact`), the frame encoding
  and what a sorted fingerprint says of the kinds (`WireExact`).

## 5. Disagreements between code and documentation

1. **A run can return too early** (`deferred_chain`). `awaitDeferredThreaded()`
   waits for `deferredInFlight` to be zero, calls `waitAll()`, and returns if
   the count is zero again. With deferred jobs *a* and *b* in a row, *b* can be
   started and awaiting during that `waitAll()`, then be signalled, dispatch its
   successor *c* and bring the count back to zero before the re-check. `run()` returns while
   *c* is queued or running. `pipeline.hpp` promises that it joins all accepted
   bodies. With no deferred job behind another one the property holds (`deferred`).
2. **A refused deadline stays registered** (`timer_refused`). `arm()` inserts
   into the queue, then into the index. If the second insertion throws, it
   returns false and the queue keeps the entry, which `cancelAndWait()` cannot
   find. `deadline.hpp` says that false means no registration.
3. **The timer thread can wait for itself** (`deferred_expiry`). An expiry that
   comes last dispatches the continuation from the timer thread. If the executor
   runs it inside `dispatch()`, as the contract allows and the FreeRTOS executor
   does when it cannot create a task, the continuation calls `cancelAndWait()`
   for the deadline being fired. The design document rules this out.

4. **A coordinator within its limit can be told the worker is busy**
   (`remote_busy`). A runner replies inside `run()` and lowers `admitted_`
   afterwards. The coordinator may have sent its next request by then. The design
   document says that a coordinator that honours the handshake never sees this.

5. **A timed-out body does not keep a second trigger away** (`trigger_orphan`).
   `trigger()` tests for orphans first and reads the job's status under the mutex
   afterwards. A first invocation that times out in between leaves its body as an orphan
   and a status that is neither queued nor running: the second trigger is
   accepted and two bodies of one job run at once. `pipeline.hpp` promises `kBusy`.
6. **`close()` can wait for ever** (`pipe_close`). It takes the mutex a writer
   holds while it waits for room in the pipe. With both readers answering into
   full pipes nobody reads. `transport.hpp` says that `close()` does not wait.

Two more, met while modelling, without a run of their own:

- *An over-long handle is sent in a reply.* `payload.hpp:85-86` says that a handle over
  `kMaxHandleBytes` "is refused when the payload is sent". `encodeRequest()` does so;
  `encodeReply()` (`wire.cpp:249`) does not measure the output a job returned. The coordinator's
  decoder refuses the whole reply and closes the connection, so every request in flight
  fails. `WireExact` states the refusal (`Untakable`), and `remote` has what follows from
  it (`OnUnreadable`): still every request ends, once.
- *A view of an output can change after the connection is lost.* The worker's
  `onClosed()` (`shared_memory.cpp:398-403`) frees the blocks the coordinator still
  views, and a job that is still running may allocate the same bytes and write to them.
  The design document says that the view is valid until its last copy is destroyed, even
  when the worker is gone; the repository's README says that blocks are freed when the
  connection closes. `PayloadKept` and `NothingLeaked` are about the open connection.

A request that waited in the channel's queue can still fail with `kBusy`: it is
taken from the queue when a slot is freed, and `send()` looks again, after other
callers may have taken the slot and filled the queue. `channel.hpp` only speaks
of failing at once. This follows from `Launch` and `Send`; no run states it.

Two comments do not match the code, without consequence: the design speaks of a
compare-and-swap to `kAwaiting` where the code stores, and `orphanIfHeld` raises
its count after the flag, not before it; the mutex covers both.

## 6. Abstractions and what is not modelled

Atomics are sequentially consistent: the code uses acquire/release pairs and
mutexes, and weaker orders only where one location is involved. Names,
durations, observers and log output are left out. An allocation failure is modelled where
the code handles it (`dispatch()` throwing, `arm()` returning false).
Priorities of jobs order the queue of `PriorityExecutor` and nothing else;
`Scheduler` covers every order.

The link of `Remote` has no bound: a send never blocks; `PipeLink` has the bound and
not the protocol. Requests are submitted after `connect()` has returned; before, they
fail as after a close. A payload in `SharedMemory` is one block each way per
request; `PayloadKept` and `NothingLeaked` end with the connection (section 5). A fingerprint in `Handshake` is the sequence that is hashed, without
collisions; names that agree in their first 65535 bytes, where the code cuts them, are left out.
`NamesRemoved` is about POSIX names: Windows frees a mapping with its last handle.
`PayloadStream` has no chunk its sender would not make: the refusals of a frame
that is no chunk, leaves its payload or disagrees about its size (`stream_strategy.cpp:118`,
`123`, `138`) cannot be reached.
`Channel` has no reply to an unknown request: `ReplyFindsRequest` proves there is none.

Not modelled:

- `TickLoop`: a sequential loop over the wall clock without shared state.
- Moves of a `Pipeline` (one pointer, forbidden during a run) and `runUntil()`, which is
  `run()` with a predicate the caller supplies.
- The pool of frame buffers, which only recycles storage, and the store strategy,
  which passes on the handles of a store the user supplies; `Handshake` has its name.
- The pipeline a worker builds for a request: which jobs it skips and which outputs
  it returns. `WorkerHost` has the reply.
- The observer: callbacks into user code, whose order follows the steps of
  `Scheduler`.
- Nested scopes that use up the workers of a bounded pool, a documented limit
  (`scoped_executor.hpp`).
- System calls, FreeRTOS and the examples.

## 7. Plan

Modelled: every item of the inventory other than those of section 6. Proved: every safety
property of the runs that does not rest on what a fold or a recursion computes. What is left,
in order of importance:

1. That the shared-memory heap's blocks tile its region for any sequence of calls: give
   `Coalesce` and the drop of a hold lemmas of their own, and state `endScope()` and
   `onClosed()` as one step per block, so that no fold is left in the module.
2. The worklist of the inline run, with the fold over a job's successors as a step per edge,
   as in `Scheduler`.
3. The worker's pipeline for a request: the set of failures it reports depends on
   the inputs only.

Components that are small on their own are checked together in one run, as
`Executors`, `MCPipeline` and `MCData` do.
