-------------------------- MODULE FreeRtosExecutor --------------------------
(***************************************************************************)
(* FreeRtosExecutor (platform/esp32p4/freertos_executor.cpp): one FreeRTOS *)
(* task per job; a job whose context or task cannot be created runs inside *)
(* dispatch().  waitAll() polls inFlight_ between takes of a semaphore     *)
(* that time out.  FreeRTOS itself is external.                            *)
(***************************************************************************)
EXTENDS Naturals, FiniteSets

CONSTANTS
  Tasks,     \* submissions
  NoTask,    \* no submission
  Parent,    \* the task whose body dispatches a task, or NoTask: the owner does
  Owner,     \* the thread that calls waitAll() and destroys the executor
  MaxGiven   \* bound: the largest number of tokens the semaphore keeps

FreeRtosAssumption ==
  /\ IsFiniteSet(Tasks) /\ NoTask \notin Tasks
  /\ Parent \in [Tasks -> Tasks \cup {NoTask}]
  /\ MaxGiven \in Nat

VARIABLES
  phase,      \* where the body of each task is
  inline,     \* tasks that run inside the dispatch() that submitted them
  inFlight,   \* inFlight_
  given,      \* tokens in completionSem_
  owner       \* where the owner is

vars == <<phase, inline, inFlight, given, owner>>

Init ==
  /\ phase = [k \in Tasks |-> "new"]
  /\ inline = {}
  /\ inFlight = 0
  /\ given = 0
  /\ owner = "out"

\* Destroyed before anything was dispatched.
Unused ==
  /\ phase = [k \in Tasks |-> "new"]
  /\ inline = {}
  /\ inFlight = 0
  /\ given = 0
  /\ owner = "destroyed"

----------------------------------------------------------------------------
(* dispatch() *)

Busy(k) == phase[k] \in {"created", "body", "finishing", "gave"}

\* The dispatches a thread has under way: one that runs its job inline.
Dispatching(by) == \E k \in inline : Parent[k] = by /\ Busy(k)

MayDispatch(k) ==
  /\ phase[k] = "new"
  /\ ~Dispatching(Parent[k])
  /\ IF Parent[k] = NoTask THEN owner = "out" ELSE phase[Parent[k]] = "body"

\* Copying the callables throws, before anything is counted.
RejectDispatch(k) ==
  /\ MayDispatch(k)
  /\ phase' = [phase EXCEPT ![k] = "rejected"]
  /\ UNCHANGED <<inline, inFlight, given, owner>>

CreateTask(k) ==
  /\ MayDispatch(k)
  /\ inFlight' = inFlight + 1
  /\ phase' = [phase EXCEPT ![k] = "created"]
  /\ UNCHANGED <<inline, given, owner>>

\* No context or no task: the job is counted and runs on the dispatching thread.
RunInline(k) ==
  /\ MayDispatch(k)
  /\ inFlight' = inFlight + 1
  /\ phase' = [phase EXCEPT ![k] = "created"]
  /\ inline' = inline \cup {k}
  /\ UNCHANGED <<given, owner>>

----------------------------------------------------------------------------
(* Ctx::execute() *)

TaskStarts(k) ==
  /\ phase[k] = "created"
  /\ phase' = [phase EXCEPT ![k] = "body"]
  /\ UNCHANGED <<inline, inFlight, given, owner>>

\* Body and completion have returned and were destroyed.
BodyReturns(k) ==
  /\ phase[k] = "body"
  /\ \A q \in Tasks : Parent[q] = k => phase[q] # "new"
  /\ ~Dispatching(k)
  /\ phase' = [phase EXCEPT ![k] = "finishing"]
  /\ UNCHANGED <<inline, inFlight, given, owner>>

Give == given' = IF given < MaxGiven THEN given + 1 ELSE given

\* Give the semaphore, then lower the count: the last use of the executor.
Publish(k) ==
  /\ \/ /\ phase[k] = "finishing"
        /\ Give
        /\ phase' = [phase EXCEPT ![k] = "gave"]
        /\ UNCHANGED inFlight
     \/ /\ phase[k] = "gave"
        /\ inFlight' = inFlight - 1
        /\ phase' = [phase EXCEPT ![k] = "done"]
        /\ UNCHANGED given
  /\ UNCHANGED <<inline, owner>>

----------------------------------------------------------------------------
(* waitAll() and the destructor *)

EnterWait ==
  /\ owner = "out" /\ ~Dispatching(NoTask)
  /\ owner' = "test"
  /\ UNCHANGED <<phase, inline, inFlight, given>>

TestIdle ==
  /\ owner = "test"
  /\ owner' = IF inFlight > 0 THEN "take" ELSE "out"
  /\ UNCHANGED <<phase, inline, inFlight, given>>

\* Mutant: the take waits for a token for ever.
MutTake ==
  /\ owner = "take"
  /\ given > 0
  /\ given' = given - 1
  /\ owner' = "test"
  /\ UNCHANGED <<phase, inline, inFlight>>

\* xSemaphoreTake() gets a token or gives up after 100 ms.
Take ==
  /\ owner = "take"
  /\ given' \in {given} \cup (IF given > 0 THEN {given - 1} ELSE {})
  /\ owner' = "test"
  /\ UNCHANGED <<phase, inline, inFlight>>

\* The destructor does not wait: the owner has called waitAll() since it dispatched.
Destroy ==
  /\ owner = "out" /\ ~Dispatching(NoTask)
  /\ inFlight = 0
  /\ owner' = "destroyed"
  /\ UNCHANGED <<phase, inline, inFlight, given>>

----------------------------------------------------------------------------

Next ==
  \/ \E k \in Tasks : RejectDispatch(k) \/ CreateTask(k) \/ RunInline(k)
                      \/ TaskStarts(k) \/ BodyReturns(k) \/ Publish(k)
  \/ EnterWait \/ TestIdle \/ Take \/ Destroy

\* Tasks run, bodies dispatch what they have to and return, takes time out.
Fairness ==
  /\ \A k \in Tasks :
       WF_vars(\/ TaskStarts(k) \/ BodyReturns(k) \/ Publish(k)
               \/ Parent[k] # NoTask /\ (RejectDispatch(k) \/ CreateTask(k) \/ RunInline(k)))
  /\ WF_vars(TestIdle \/ Take)

Spec == Init /\ [][Next]_vars
FairSpec == Spec /\ Fairness

----------------------------------------------------------------------------
(* Properties *)

TypeOK ==
  /\ phase \in [Tasks -> {"new", "rejected", "created", "body", "finishing", "gave", "done"}]
  /\ inline \subseteq Tasks
  /\ inFlight \in Nat
  /\ given \in 0..MaxGiven
  /\ owner \in {"out", "test", "take", "destroyed"}

\* Ctx::execute() gives the semaphore before it lowers the count, so once the owner
\* has seen zero and deleted the semaphore no task will touch the executor.
NotUsedAfterDestruction == owner = "destroyed" => \A k \in Tasks : ~Busy(k)

\* The owner is in waitAll().
Waiting == owner \in {"test", "take"}

TaskState ==
  [k \in Tasks |-> IF phase[k] = "created" THEN "queued"
                   ELSE IF phase[k] \in {"body", "finishing", "gave"} THEN "running"
                   ELSE phase[k]]

Contract == INSTANCE Executor WITH
  Callers <- {Owner}, task <- TaskState,
  waiting <- IF owner \in {"test", "take"} THEN {Owner} ELSE {}

\* Whether a job got its task or ran inside dispatch(), the executor implements
\* IExecutor's contract: it runs once, and waitAll() returns when, and only when,
\* nothing is left.
ImplementsContract == Contract!Spec
=============================================================================
