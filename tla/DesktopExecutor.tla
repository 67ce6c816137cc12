-------------------------- MODULE DesktopExecutor --------------------------
(***************************************************************************)
(* DesktopExecutor (platform/desktop/desktop_executor.cpp): one thread per *)
(* job, joined by whichever caller of waitAll() took it out of threads_.   *)
(* mtx_ guards everything, so a step is one critical section; a wait on    *)
(* idle_ tests its predicate and falls asleep in one step.                 *)
(***************************************************************************)
EXTENDS Naturals, FiniteSets

CONSTANTS
  Tasks,     \* submissions
  NoTask,    \* no submission
  Parent,    \* the task whose body dispatches a task, or NoTask: a client does
  Callers,   \* threads that call waitAll()
  Owner      \* the caller that destroys the executor

DesktopAssumption ==
  /\ IsFiniteSet(Tasks) /\ NoTask \notin Tasks
  /\ Parent \in [Tasks -> Tasks \cup {NoTask}]
  /\ Owner \in Callers

VARIABLES
  thread,     \* where the thread of each task is
  threads,    \* threads_: started and not taken by a waitAll()
  inFlight,   \* inFlight_
  caller,     \* where each caller of waitAll() is
  taken,      \* the threads each caller moved out of threads_ and is joining
  teardown    \* the destructor has not begun, waits, or has returned

vars == <<thread, threads, inFlight, caller, taken, teardown>>

Init ==
  /\ thread = [k \in Tasks |-> "none"]
  /\ threads = {}
  /\ inFlight = 0
  /\ caller = [c \in Callers |-> "out"]
  /\ taken = [c \in Callers |-> {}]
  /\ teardown = "no"

\* Destroyed before anything was dispatched.
Unused ==
  /\ thread = [k \in Tasks |-> "none"]
  /\ threads = {}
  /\ inFlight = 0
  /\ caller = [c \in Callers |-> "out"]
  /\ taken = [c \in Callers |-> {}]
  /\ teardown = "destroyed"

----------------------------------------------------------------------------
(* dispatch(), and the thread it starts *)

\* Clients stop dispatching before the destructor; a body may dispatch.
MayDispatch(k) ==
  /\ thread[k] = "none"
  /\ IF Parent[k] = NoTask THEN teardown = "no" ELSE thread[Parent[k]] = "body"

\* mtx_ is held until the thread exists and is counted.
Dispatch(k) ==
  /\ MayDispatch(k)
  /\ thread' = [thread EXCEPT ![k] = "started"]
  /\ threads' = threads \cup {k}
  /\ inFlight' = inFlight + 1
  /\ UNCHANGED <<caller, taken, teardown>>

\* Starting the thread throws: nothing is counted or kept.
RejectDispatch(k) ==
  /\ MayDispatch(k)
  /\ thread' = [thread EXCEPT ![k] = "rejected"]
  /\ UNCHANGED <<threads, inFlight, caller, taken, teardown>>

BodyStarts(k) ==
  /\ thread[k] = "started"
  /\ thread' = [thread EXCEPT ![k] = "body"]
  /\ UNCHANGED <<threads, inFlight, caller, taken, teardown>>

\* A counted thread that has dispatched all that its body dispatches.
Completes(k) ==
  /\ thread[k] = "body"
  /\ \A q \in Tasks : Parent[q] = k => thread[q] # "none"

\* Both callbacks have returned and were destroyed; the count falls under mtx_.
Publish(k) ==
  /\ Completes(k)
  /\ inFlight' = inFlight - 1
  /\ caller' = [c \in Callers |->
                  IF inFlight = 1 /\ caller[c] = "asleep" THEN "woken" ELSE caller[c]]
  /\ thread' = [thread EXCEPT ![k] = "exiting"]
  /\ UNCHANGED <<threads, taken, teardown>>

Exit(k) ==
  /\ thread[k] = "exiting"
  /\ thread' = [thread EXCEPT ![k] = "exited"]
  /\ UNCHANGED <<threads, inFlight, caller, taken, teardown>>

----------------------------------------------------------------------------
(* waitAll(), and the destructor *)

EnterWait(c) ==
  /\ caller[c] = "out" /\ teardown = "no"
  /\ caller' = [caller EXCEPT ![c] = "loop"]
  /\ UNCHANGED <<thread, threads, inFlight, taken, teardown>>

\* Mutant: the loop looks at the count only.
MutLoopDone(c) ==
  /\ caller[c] = "loop" /\ inFlight = 0
  /\ caller' = [caller EXCEPT ![c] = "out"]
  /\ teardown' = IF teardown = "waits" THEN "destroyed" ELSE teardown
  /\ UNCHANGED <<thread, threads, inFlight, taken>>

\* The loop ends when nothing runs and nothing is left to join.
LoopDone(c) ==
  /\ caller[c] = "loop" /\ inFlight = 0 /\ threads = {}
  /\ caller' = [caller EXCEPT ![c] = "out"]
  /\ teardown' = IF teardown = "waits" THEN "destroyed" ELSE teardown
  /\ UNCHANGED <<thread, threads, inFlight, taken>>

\* idle_.wait(): the predicate fails.  A woken caller tests only the predicate.
Sleep(c) ==
  /\ caller[c] \in {"loop", "woken"} /\ inFlight # 0
  /\ caller' = [caller EXCEPT ![c] = "asleep"]
  /\ UNCHANGED <<thread, threads, inFlight, taken, teardown>>

\* The predicate holds: move threads_ out and release mtx_.
TakeThreads(c) ==
  /\ inFlight = 0
  /\ caller[c] = "woken" \/ (caller[c] = "loop" /\ threads # {})
  /\ taken' = [taken EXCEPT ![c] = threads]
  /\ threads' = {}
  /\ caller' = [caller EXCEPT ![c] = "join"]
  /\ UNCHANGED <<thread, inFlight, teardown>>

Join(c) ==
  /\ caller[c] = "join"
  /\ \A k \in taken[c] : thread[k] = "exited"
  /\ taken' = [taken EXCEPT ![c] = {}]
  /\ caller' = [caller EXCEPT ![c] = "loop"]
  /\ UNCHANGED <<thread, threads, inFlight, teardown>>

\* A condition variable may wake up without a notification.
SpuriousWakeup(c) ==
  /\ caller[c] = "asleep"
  /\ caller' = [caller EXCEPT ![c] = "woken"]
  /\ UNCHANGED <<thread, threads, inFlight, taken, teardown>>

\* The destructor is waitAll(), when no other client call is in progress.
Destroy ==
  /\ teardown = "no"
  /\ \A c \in Callers : caller[c] = "out"
  /\ teardown' = "waits"
  /\ caller' = [caller EXCEPT ![Owner] = "loop"]
  /\ UNCHANGED <<thread, threads, inFlight, taken>>

----------------------------------------------------------------------------

CallerStep(c) == LoopDone(c) \/ Sleep(c) \/ TakeThreads(c) \/ Join(c)

Next ==
  \/ \E k \in Tasks : Dispatch(k) \/ RejectDispatch(k) \/ BodyStarts(k) \/ Publish(k) \/ Exit(k)
  \/ \E c \in Callers : EnterWait(c) \/ CallerStep(c) \/ SpuriousWakeup(c)
  \/ Destroy

\* Threads run, and bodies dispatch what they have to and return.
Fairness ==
  /\ \A k \in Tasks :
       WF_vars(\/ BodyStarts(k) \/ Publish(k) \/ Exit(k)
               \/ Parent[k] # NoTask /\ (Dispatch(k) \/ RejectDispatch(k)))
  /\ \A c \in Callers : WF_vars(CallerStep(c))

Spec == Init /\ [][Next]_vars
FairSpec == Spec /\ Fairness

----------------------------------------------------------------------------
(* Properties *)

TypeOK ==
  /\ thread \in [Tasks -> {"none", "rejected", "started", "body", "exiting", "exited"}]
  /\ threads \subseteq Tasks
  /\ inFlight \in Nat
  /\ caller \in [Callers -> {"out", "loop", "asleep", "woken", "join"}]
  /\ taken \in [Callers -> SUBSET Tasks]
  /\ teardown \in {"no", "waits", "destroyed"}

Live == {k \in Tasks : thread[k] \in {"started", "body"}}

\* dispatch() counts a job once its thread exists and the thread gives the count
\* back after its callbacks: inFlight_ is the number of live jobs, none of
\* which a waitAll() is already joining.
CountsLive ==
  /\ inFlight = Cardinality(Live)
  /\ \A c \in Callers : taken[c] \cap Live = {}

\* A std::thread must not die joinable: a started thread stays in threads_ or with
\* exactly one caller of waitAll() until it was joined, whichever callers race for
\* it, and the destructor returns when no thread is left to join or to run.
NoThreadLost ==
  /\ \A k \in Tasks : thread[k] \in {"started", "body", "exiting"} =>
       (k \in threads) # (\E c \in Callers : k \in taken[c])
  /\ \A c, d \in Callers : c # d => taken[c] \cap taken[d] = {}
  /\ teardown = "destroyed" =>
       /\ threads = {}
       /\ \A k \in Tasks : thread[k] \notin {"started", "body", "exiting"}

\* The destructor is in its waitAll().
Waiting == teardown = "waits"

TaskState ==
  [k \in Tasks |-> IF thread[k] = "none" THEN "new"
                   ELSE IF thread[k] = "started" THEN "queued"
                   ELSE IF thread[k] = "body" THEN "running"
                   ELSE IF thread[k] = "rejected" THEN "rejected"
                   ELSE "done"]

Contract == INSTANCE Executor WITH
  task <- TaskState, waiting <- {c \in Callers : caller[c] # "out"}

\* One thread per job implements IExecutor's contract: each accepted job runs once
\* and ends, and waitAll() returns when, and only when, none is left.
ImplementsContract == Contract!Spec
=============================================================================
