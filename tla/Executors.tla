----------------------------- MODULE Executors -----------------------------
(***************************************************************************)
(* A program that uses one of four executors: DesktopExecutor,             *)
(* FreeRtosExecutor, a pool of workers, or a ScopedExecutor over any       *)
(* executor.  The other three were destroyed unused.                       *)
(***************************************************************************)
EXTENDS PriorityExecutor

CONSTANTS
  Few,         \* submissions to an executor that is not the pool
  FewParent,   \* the task whose body dispatches one of them, or NoTask
  Clients,     \* threads that call waitAll() of a DesktopExecutor
  MaxGiven     \* bound: the largest number of tokens FreeRTOS' semaphore keeps

VARIABLES
  dThread, dThreads, dInFlight, dCaller, dTaken, dTeardown,
  fPhase, fInline, fInFlight, fGiven, fOwner,
  parent, phase, count, sHolder, owner

dVars == <<dThread, dThreads, dInFlight, dCaller, dTaken, dTeardown>>
fVars == <<fPhase, fInline, fInFlight, fGiven, fOwner>>
sVars == <<parent, phase, count, sHolder, owner>>

Desktop == INSTANCE DesktopExecutor WITH
  Tasks <- Few, Parent <- FewParent, Callers <- Clients,
  thread <- dThread, threads <- dThreads, inFlight <- dInFlight, caller <- dCaller,
  taken <- dTaken, teardown <- dTeardown

FreeRtos == INSTANCE FreeRtosExecutor WITH
  Tasks <- Few, Parent <- FewParent, phase <- fPhase, inline <- fInline, inFlight <- fInFlight,
  given <- fGiven, owner <- fOwner

Scoped == INSTANCE ScopedExecutor WITH
  Tasks <- Few, Nobody <- NoTask, Parent <- FewParent, holder <- sHolder

ASSUME ExecutorsAssumption ==
  Desktop!DesktopAssumption /\ FreeRtos!FreeRtosAssumption /\ Scoped!ScopeAssumption

ProgramInit ==
  \/ Desktop!Init /\ FreeRtos!Unused /\ Scoped!Unused /\ Unused
  \/ Desktop!Unused /\ FreeRtos!Init /\ Scoped!Unused /\ Unused
  \/ Desktop!Unused /\ FreeRtos!Unused /\ Scoped!Init /\ Unused
  \/ Desktop!Unused /\ FreeRtos!Unused /\ Scoped!Unused /\ Init

ProgramNext ==
  \/ Desktop!Next /\ UNCHANGED <<fVars, sVars, vars>>
  \/ FreeRtos!Next /\ UNCHANGED <<dVars, sVars, vars>>
  \/ Scoped!Next /\ UNCHANGED <<dVars, fVars, vars>>
  \/ Next /\ UNCHANGED <<dVars, fVars, sVars>>

Program == ProgramInit /\ [][ProgramNext]_<<dVars, fVars, sVars, vars>>

FairProgram ==
  Program /\ Desktop!Fairness /\ FreeRtos!Fairness /\ Scoped!Fairness /\ Fairness

----------------------------------------------------------------------------
(* Properties *)

\* DesktopExecutor: every std::thread is joined by exactly one waitAll() and
\* inFlight_ counts the live jobs, whichever callers race.
NoThreadLost == Desktop!NoThreadLost /\ Desktop!CountsLive

\* ScopedExecutor, FreeRtosExecutor, BasicPriorityExecutor: once waitAll() has let the
\* destructor run, no wrapper, task or body touches the executor's members any more.
NoneUsedAfterDestruction ==
  /\ FreeRtos!NotUsedAfterDestruction /\ Scoped!NotUsedAfterDestruction
  /\ NotUsedAfterDestruction

AnyWaiting == Desktop!Waiting \/ FreeRtos!Waiting \/ Scoped!Waiting \/ Waiting

\* A caller of waitAll(), the destructors included, comes back: threads_ moved out while
\* bodies dispatch, a semaphore taken too early, a rejected submission or workers asleep
\* when the pool stops do not keep it.
WaitsEnd == AnyWaiting ~> ~AnyWaiting

\* Each of the four implements IExecutor's contract.
AllImplementContract ==
  /\ Desktop!ImplementsContract /\ FreeRtos!ImplementsContract
  /\ Scoped!ImplementsContract /\ ImplementsContract
=============================================================================
