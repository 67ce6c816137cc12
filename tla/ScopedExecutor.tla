--------------------------- MODULE ScopedExecutor ---------------------------
(***************************************************************************)
(* ScopedExecutor (executor/scoped_executor.hpp): a scope that counts its  *)
(* own dispatches to a parent executor, so that a job can run an inner     *)
(* pipeline and destroy the scope as soon as waitAll() returns.  The       *)
(* parent is any executor that keeps the contract of module Executor and   *)
(* has a worker left for the scope's jobs.                                 *)
(***************************************************************************)
EXTENDS Naturals, FiniteSets

CONSTANTS
  Tasks,     \* submissions through the scope
  Nobody,    \* no submission, no holder of mtx_
  Parent,    \* the task whose body dispatches a task, or Nobody: the owner does
  Owner      \* the thread that owns the scope and calls waitAll()

ScopeAssumption ==
  /\ IsFiniteSet(Tasks)
  /\ Nobody \notin Tasks /\ Owner \notin Tasks \cup {Nobody}
  /\ Parent \in [Tasks -> Tasks \cup {Nobody}]

VARIABLES
  parent,    \* the parent executor's view of each task
  phase,     \* where the dispatch or the completion wrapper of each task is
  count,     \* localInFlight_
  holder,    \* who holds mtx_: a task's finishDispatch(), the owner, or nobody
  owner      \* where the owner is: outside, inside waitAll(), or past ~ScopedExecutor()

vars == <<parent, phase, count, holder, owner>>

\* The parent executor; nobody calls waitAll() on it here.
ParentExecutor == INSTANCE Executor WITH
  Callers <- {}, task <- parent, waiting <- {}

Init ==
  /\ ParentExecutor!Init
  /\ phase = [k \in Tasks |-> "new"]
  /\ count = 0
  /\ holder = Nobody
  /\ owner = [at |-> "out", leaving |-> FALSE]

\* Destroyed before anything was dispatched.
Unused ==
  /\ ParentExecutor!Init
  /\ phase = [k \in Tasks |-> "new"]
  /\ count = 0
  /\ holder = Nobody
  /\ owner = [at |-> "destroyed", leaving |-> TRUE]

----------------------------------------------------------------------------
(* dispatch() *)

\* The owner is not inside a dispatch() of its own.
NoClientCall ==
  \A k \in Tasks : Parent[k] = Nobody => phase[k] \notin {"counted", "failing", "failed"}

\* The owner dispatches outside waitAll(), one call at a time; a body while it runs.
MayDispatch(k) ==
  IF Parent[k] = Nobody THEN owner.at = "out" /\ NoClientCall ELSE phase[Parent[k]] = "body"

\* localInFlight_ rises before the parent sees the submission.
Count(k) ==
  /\ phase[k] = "new" /\ MayDispatch(k)
  /\ count' = count + 1
  /\ phase' = [phase EXCEPT ![k] = "counted"]
  /\ UNCHANGED <<parent, holder, owner>>

ParentAccepts(k) ==
  /\ phase[k] = "counted"
  /\ ParentExecutor!Accept(k)
  /\ phase' = [phase EXCEPT ![k] = "accepted"]
  /\ UNCHANGED <<count, holder, owner>>

\* Mutant: a rejected submission keeps its count.
MutParentThrows(k) ==
  /\ phase[k] = "counted"
  /\ ParentExecutor!Reject(k)
  /\ phase' = [phase EXCEPT ![k] = "rejected"]
  /\ UNCHANGED <<count, holder, owner>>

\* The parent throws: the handler destroys the targets and gives the count back.
ParentThrows(k) ==
  /\ phase[k] = "counted"
  /\ ParentExecutor!Reject(k)
  /\ phase' = [phase EXCEPT ![k] = "failing"]
  /\ UNCHANGED <<count, holder, owner>>

----------------------------------------------------------------------------
(* The body, the completion wrapper and finishDispatch() *)

BodyStarts(k) ==
  /\ phase[k] = "accepted"
  /\ ParentExecutor!Start(k)
  /\ phase' = [phase EXCEPT ![k] = "body"]
  /\ UNCHANGED <<count, holder, owner>>

\* Body and onComplete_ have returned, clearTargets() has destroyed both.
BodyReturns(k) ==
  /\ phase[k] = "body"
  /\ \A q \in Tasks : Parent[q] = k => phase[q] \notin {"new", "counted", "failing", "failed"}
  /\ phase' = [phase EXCEPT ![k] = "finishing"]
  /\ UNCHANGED <<parent, count, holder, owner>>

\* Mutant: the count is published before mtx_ is taken.
MutFinishDispatch(k) ==
  /\ phase[k] \in {"finishing", "failing"}
  /\ count' = count - 1
  /\ phase' = [phase EXCEPT ![k] = IF phase[k] = "finishing" THEN "finished" ELSE "failed"]
  /\ owner' = IF count = 1 /\ owner.at = "asleep" THEN [owner EXCEPT !.at = "test"] ELSE owner
  /\ UNCHANGED <<parent, holder>>

\* finishDispatch() under mtx_: publish, and notify when the scope is empty.
FinishDispatch(k) ==
  /\ phase[k] \in {"finishing", "failing"}
  /\ holder = Nobody
  /\ holder' = k
  /\ count' = count - 1
  /\ phase' = [phase EXCEPT ![k] = IF phase[k] = "finishing" THEN "finished" ELSE "failed"]
  /\ owner' = IF count = 1 /\ owner.at = "asleep" THEN [owner EXCEPT !.at = "test"] ELSE owner
  /\ UNCHANGED parent

\* finishDispatch() releases mtx_; the wrapper has nothing more to do with the scope.
Unlock(k) ==
  /\ phase[k] \in {"finished", "failed"}
  /\ holder' = IF holder = k THEN Nobody ELSE holder
  /\ phase' = [phase EXCEPT ![k] = IF phase[k] = "finished" THEN "done" ELSE "rejected"]
  /\ UNCHANGED <<parent, count, owner>>

\* The parent publishes the completion of the wrapper on its own account.
ParentFinishes(k) ==
  /\ phase[k] = "done"
  /\ ParentExecutor!Finish(k)
  /\ UNCHANGED <<phase, count, holder, owner>>

----------------------------------------------------------------------------
(* waitAll() and the destructor *)

\* waitAll(), by the run or by the destructor.
EnterWait(leaving) ==
  /\ owner.at = "out" /\ ~owner.leaving /\ NoClientCall
  /\ owner' = [at |-> "test", leaving |-> leaving]
  /\ UNCHANGED <<parent, phase, count, holder>>

\* The predicate, with mtx_ held.
TestIdle ==
  /\ owner.at = "test" /\ holder = Nobody
  /\ \/ count = 0 /\ owner' = [owner EXCEPT !.at = IF owner.leaving THEN "destroyed" ELSE "out"]
        /\ UNCHANGED holder
     \/ count # 0 /\ owner' = [owner EXCEPT !.at = "block"] /\ holder' = Owner
  /\ UNCHANGED <<parent, phase, count>>

Block ==
  /\ owner.at = "block"
  /\ owner' = [owner EXCEPT !.at = "asleep"]
  /\ holder' = Nobody
  /\ UNCHANGED <<parent, phase, count>>

SpuriousWakeup ==
  /\ owner.at = "asleep"
  /\ owner' = [owner EXCEPT !.at = "test"]
  /\ UNCHANGED <<parent, phase, count, holder>>

----------------------------------------------------------------------------

Next ==
  \/ \E k \in Tasks :
       \/ Count(k) \/ ParentAccepts(k) \/ ParentThrows(k) \/ BodyStarts(k) \/ BodyReturns(k)
       \/ FinishDispatch(k) \/ Unlock(k) \/ ParentFinishes(k)
  \/ \E leaving \in BOOLEAN : EnterWait(leaving)
  \/ TestIdle \/ Block \/ SpuriousWakeup

\* The parent starts what it accepted, threads run, bodies dispatch what they
\* have to and return, and mtx_ is not kept from a thread for ever.
Fairness ==
  /\ \A k \in Tasks :
       WF_vars(\/ Parent[k] # Nobody /\ Count(k)
               \/ ParentAccepts(k) \/ ParentThrows(k)
               \/ BodyStarts(k) \/ BodyReturns(k) \/ Unlock(k))
  /\ SF_vars(\E k \in Tasks : FinishDispatch(k))
  /\ SF_vars(TestIdle) /\ WF_vars(Block)

Spec == Init /\ [][Next]_vars
FairSpec == Spec /\ Fairness

----------------------------------------------------------------------------
(* Properties *)

TypeOK ==
  /\ parent \in [Tasks -> ParentExecutor!TaskStates]
  /\ phase \in [Tasks -> {"new", "counted", "accepted", "body", "finishing", "finished", "done",
                          "failing", "failed", "rejected"}]
  /\ count \in Nat
  /\ holder \in Tasks \cup {Owner, Nobody}
  /\ owner \in [at : {"out", "test", "block", "asleep", "destroyed"}, leaving : BOOLEAN]

\* The members of the scope are alive only until waitAll() has let the destructor
\* return: no dispatch, wrapper or finishDispatch() may still be using them,
\* finishDispatch()'s own unlock included.
NotUsedAfterDestruction ==
  owner.at = "destroyed" =>
    /\ count = 0 /\ holder = Nobody
    /\ \A k \in Tasks : phase[k] \in {"new", "done", "rejected"}

\* The owner is in waitAll().
Waiting == owner.at \in {"test", "block", "asleep"}

TaskState ==
  [k \in Tasks |-> IF phase[k] \in {"new", "counted"} THEN "new"
                   ELSE IF phase[k] = "accepted" THEN "queued"
                   ELSE IF phase[k] \in {"body", "finishing"} THEN "running"
                   ELSE IF phase[k] \in {"failing", "failed", "rejected"} THEN "rejected"
                   ELSE "done"]

Contract == INSTANCE Executor WITH
  Callers <- {Owner}, task <- TaskState,
  waiting <- IF owner.at \in {"test", "block", "asleep"} THEN {Owner} ELSE {}

\* Over a parent that keeps IExecutor's contract the scope keeps it too, for its
\* own dispatches: waitAll() returns when, and only when, they are done, whatever
\* the parent still has to do for their wrappers.
ImplementsContract == Contract!Spec
=============================================================================
