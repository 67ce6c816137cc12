--------------------------- MODULE PipelineProofs ---------------------------
(***************************************************************************)
(* What outlives a call of a Pipeline, for any clients and delays of the   *)
(* deadline service, any executor, any number of runs and any callers: the *)
(* results about the components, for the programs of Pipelines.            *)
(***************************************************************************)
EXTENDS Pipelines, TLAPS

\* The components with what is proved about them.
ServiceP == INSTANCE TimerServiceProofs WITH
  IndexMayThrow <- FALSE, firing <- tFiring, alarm <- tAlarm, stopping <- halting

SlotP == INSTANCE DeferredSlotProofs WITH
  Timed <- HasTimeout, pc <- sPc, epoch <- sEpoch, orphans <- sOrphans

----------------------------------------------------------------------------
(* A component is the same component with its proofs *)

LEMMA SameServiceStep ==
  ASSUME [Service!Next]_(Service!vars)
  PROVE  [ServiceP!Next]_(ServiceP!vars)
<1>1. Service!Queued = ServiceP!Queued /\ Service!vars = ServiceP!vars
  BY DEF Service!Queued, ServiceP!Queued, Service!vars, ServiceP!vars
<1> USE DEF Service!Queued, ServiceP!Queued
<1>2. ASSUME NEW d \in Deadlines, NEW delay \in Delays, Service!Arm(d, delay)
      PROVE  ServiceP!Arm(d, delay)
  BY <1>2 DEF Service!Arm, ServiceP!Arm, Service!MayArm, ServiceP!MayArm, Service!With,
     ServiceP!With, Service!At, ServiceP!At
<1>3. ASSUME NEW d \in Deadlines, NEW delay \in Delays, Service!ArmFails(d, delay)
      PROVE  ServiceP!ArmFails(d, delay)
  BY <1>3
     DEF Service!ArmFails, ServiceP!ArmFails, Service!MayArm, ServiceP!MayArm, Service!With,
     ServiceP!With, Service!At, ServiceP!At
<1>4. ASSUME NEW d \in Deadlines, Service!Notify(d) PROVE ServiceP!Notify(d)
  BY <1>4 DEF Service!Notify, ServiceP!Notify, Service!Predicate, ServiceP!Predicate
<1>5. ASSUME NEW d \in Deadlines, Service!Cancel(d) PROVE ServiceP!Cancel(d)
  BY <1>5 DEF Service!Cancel, ServiceP!Cancel, Service!Without, ServiceP!Without
<1>6. ASSUME NEW d \in Deadlines, Service!Drained(d) \/ Service!GiveUp(d)
      PROVE  ServiceP!Drained(d) \/ ServiceP!GiveUp(d)
  BY <1>6 DEF Service!Drained, ServiceP!Drained, Service!GiveUp, ServiceP!GiveUp
<1>7. ASSUME NEW d \in Deadlines, Service!Fire(d) PROVE ServiceP!Fire(d)
  BY <1>7 DEF Service!Fire, ServiceP!Fire, Service!Earliest, ServiceP!Earliest,
     Service!Without, ServiceP!Without
<1>8. CASE Service!Sleep
  BY <1>8 DEF Service!Sleep, ServiceP!Sleep, ServiceP!Next, Service!Earliest, ServiceP!Earliest
<1>9. CASE Service!WakeUp
  BY <1>9 DEF Service!WakeUp, ServiceP!WakeUp, ServiceP!Next, Service!Predicate,
     ServiceP!Predicate
<1>10. CASE Service!Fired \/ Service!Exit \/ Service!Destroy \/ Service!Tick
  BY <1>10 DEF Service!Fired, ServiceP!Fired, Service!Exit, ServiceP!Exit, Service!Destroy,
     ServiceP!Destroy, Service!Tick, ServiceP!Tick, ServiceP!Next
<1>11. CASE UNCHANGED Service!vars
  BY <1>11 DEF Service!vars, ServiceP!vars
<1> QED
  BY <1>2, <1>3, <1>4, <1>5, <1>6, <1>7, <1>8, <1>9, <1>10, <1>11
     DEF Service!Next, ServiceP!Next

LEMMA SameSlotStep ==
  ASSUME [Slot!Next]_(Slot!vars)
  PROVE  [SlotP!Next]_(SlotP!vars)
<1> USE DEF Slot!slot, SlotP!slot, Slot!stop, SlotP!stop, Slot!deadline, SlotP!deadline,
    Slot!Goto, SlotP!Goto, Slot!Return, SlotP!Return
<1>1. Slot!BodyStep => SlotP!BodyStep
  BY DEF Slot!BodyStep, SlotP!BodyStep, Slot!RefuseBody, SlotP!RefuseBody, Slot!ResetSlot,
     SlotP!ResetSlot, Slot!Arm, SlotP!Arm, Slot!CountInFlight, SlotP!CountInFlight,
     Slot!Register, SlotP!Register, Slot!Begin, SlotP!Begin
<1>2. Slot!Signal \/ Slot!ReleaseLate \/ Slot!ReleaseOrphan =>
        SlotP!Signal \/ SlotP!ReleaseLate \/ SlotP!ReleaseOrphan
  BY DEF Slot!Signal, SlotP!Signal, Slot!ReleaseLate, SlotP!ReleaseLate, Slot!ReleaseOrphan,
     SlotP!ReleaseOrphan
<1>3. Slot!Fire \/ Slot!Fired \/ Slot!Cancel => SlotP!Fire \/ SlotP!Fired \/ SlotP!Cancel
  BY DEF Slot!Fire, SlotP!Fire, Slot!Fired, SlotP!Fired, Slot!Cancel, SlotP!Cancel
<1>4. ASSUME NEW th \in Slot!Threads, Slot!PartyStep(th) PROVE SlotP!PartyStep(th)
  <2>1. Slot!Request(th) \/ Slot!Stop(th) => SlotP!Request(th) \/ SlotP!Stop(th)
    BY DEF Slot!Request, SlotP!Request, Slot!Stop, SlotP!Stop
  <2>2. Slot!Arrive(th) \/ Slot!Deliver(th) => SlotP!Arrive(th) \/ SlotP!Deliver(th)
    BY DEF Slot!Arrive, SlotP!Arrive, Slot!Deliver, SlotP!Deliver, Slot!LeaveCallback,
       SlotP!LeaveCallback
  <2>3. Slot!Dispatch(th) \/ Slot!Undeliver(th) => SlotP!Dispatch(th) \/ SlotP!Undeliver(th)
    BY DEF Slot!Dispatch, SlotP!Dispatch, Slot!Undeliver, SlotP!Undeliver, Slot!LeaveCallback,
       SlotP!LeaveCallback
  <2>4. Slot!Unregister(th) \/ Slot!Drain(th) => SlotP!Unregister(th) \/ SlotP!Drain(th)
    BY DEF Slot!Unregister, SlotP!Unregister, Slot!Drain, SlotP!Drain,
       Slot!ReleaseRegistrations, SlotP!ReleaseRegistrations
  <2>5. Slot!OrphanIfHeld(th) \/ Slot!Finish(th) => SlotP!OrphanIfHeld(th) \/ SlotP!Finish(th)
    BY DEF Slot!OrphanIfHeld, SlotP!OrphanIfHeld, Slot!Finish, SlotP!Finish
  <2> QED
    BY <1>4, <2>1, <2>2, <2>3, <2>4, <2>5 DEF Slot!PartyStep, SlotP!PartyStep
<1>5. Slot!StartRun \/ Slot!RunStep \/ Slot!Destroy =>
        SlotP!StartRun \/ SlotP!RunStep \/ SlotP!Destroy
  BY DEF Slot!StartRun, SlotP!StartRun, Slot!RunStep, SlotP!RunStep, Slot!AwaitDeferred,
     SlotP!AwaitDeferred, Slot!EndRun, SlotP!EndRun, Slot!ReleaseRegistrations,
     SlotP!ReleaseRegistrations, Slot!ExecutorIdle, SlotP!ExecutorIdle, Slot!OrphansJoined,
     SlotP!OrphansJoined, Slot!Destroy, SlotP!Destroy
<1>6. Slot!Threads = SlotP!Threads
  BY DEF Slot!Threads, SlotP!Threads
<1>7. UNCHANGED Slot!vars => UNCHANGED SlotP!vars
  BY DEF Slot!vars, SlotP!vars
<1> QED
  BY <1>1, <1>2, <1>3, <1>4, <1>5, <1>6, <1>7 DEF Slot!Next, SlotP!Next

\* The constants of the components.
LEMMA Given == ServiceP!ArmsWhole /\ SlotP!SlotAssumption
<1>1. ServiceP!ArmsWhole
  BY PipelinesAssumption DEF Service!TimerAssumption, ServiceP!TimerAssumption,
     ServiceP!ArmsWhole, Service!IsFiniteSet, ServiceP!IsFiniteSet
<1>2. SlotP!SlotAssumption
  BY PipelinesAssumption DEF Slot!SlotAssumption, SlotP!SlotAssumption, Slot!Threads,
     SlotP!Threads
<1> QED
  BY <1>1, <1>2

----------------------------------------------------------------------------
(* The invariants, in a program *)

\* A step of a program is one of a component or leaves it alone.
LEMMA ProgramStep ==
  ASSUME [ProgramNext]_<<tVars, sVars, vars>>
  PROVE  [Service!Next]_(Service!vars) /\ [Slot!Next]_(Slot!vars)
<1>1. UNCHANGED tVars => UNCHANGED Service!vars
  BY DEF tVars, Service!vars
<1>2. UNCHANGED sVars => UNCHANGED Slot!vars
  BY DEF sVars, Slot!vars, Slot!slot, Slot!stop, Slot!deadline
<1> QED
  BY <1>1, <1>2 DEF ProgramNext

LEMMA ProgramStart ==
  ASSUME ProgramInit
  PROVE  ServiceP!TimerInv /\ SlotP!SlotInv
<1>1. ServiceP!Init \/ ServiceP!Unused
  BY DEF ProgramInit, Idle, Service!Init, Service!Unused, Service!Start, ServiceP!Init,
     ServiceP!Unused, ServiceP!Start
<1>2. SlotP!Init \/ SlotP!Unused
  BY DEF ProgramInit, Idle, Slot!Init, Slot!Unused, Slot!Start, Slot!Threads, SlotP!Init,
     SlotP!Unused, SlotP!Start, SlotP!Threads
<1> QED
  BY <1>1, <1>2, Given, ServiceP!TimerInit, SlotP!SlotInit

(* Pipelines: TimerService and the deferred slot keep their inductive invariants in every
   program, whichever of them it uses. *)
THEOREM ProgramInvariance == Program => [](ServiceP!TimerInv /\ SlotP!SlotInv)
<1>1. ProgramInit => ServiceP!TimerInv /\ SlotP!SlotInv
  BY ProgramStart
<1>2. ASSUME ServiceP!TimerInv, SlotP!SlotInv, [ProgramNext]_<<tVars, sVars, vars>>
      PROVE  ServiceP!TimerInv' /\ SlotP!SlotInv'
  <2>1. [ServiceP!Next]_(ServiceP!vars) /\ [SlotP!Next]_(SlotP!vars)
    BY <1>2, ProgramStep, SameServiceStep, SameSlotStep
  <2> QED
    BY <1>2, <2>1, Given, ServiceP!TimerStep, SlotP!SlotStep
<1> QED
  BY <1>1, <1>2, PTL DEF Program

(* cancelAndWait() and arm() of TimerService: once a client may destroy its Deadline the
   timer thread neither holds nor finds it, and the thread sleeps past no deadline,
   whatever is armed, cancelled or armed again while it sleeps. *)
THEOREM AlarmsAreExact == Program => []AlarmsExact
<1>1. ServiceP!TimerInv => AlarmsExact
  <2> SUFFICES ASSUME ServiceP!TimerInv PROVE AlarmsExact
    OBVIOUS
  <2>1. ServiceP!QuietAfterCancel /\ ServiceP!NoLateAlarm
    BY Given, ServiceP!TimerPromises
  <2>2. Service!QuietAfterCancel
    BY <2>1 DEF Service!QuietAfterCancel, ServiceP!QuietAfterCancel, Service!Queued,
       ServiceP!Queued
  <2>3. Service!NoLateAlarm
    BY <2>1 DEF Service!NoLateAlarm, ServiceP!NoLateAlarm, Service!Queued, ServiceP!Queued
  <2> QED
    BY <2>2, <2>3 DEF AlarmsExact
<1> QED
  BY <1>1, ProgramInvariance, PTL

(* startDeferred(), awaitDeferredThreaded(), DeferredOrphans, ~Impl(): a run leaves only an
   orphan of its deferred job, finished exactly once; no Completion, stop callback or
   expiry of an earlier run is in the slot that a later run resets, and none in the slot
   or the ledger of a destroyed pipeline. *)
THEOREM PartiesLeaveWithTheirRun == Program => []NoStaleParty
<1>1. SlotP!SlotInv => NoStaleParty
  <2> SUFFICES ASSUME SlotP!SlotInv PROVE NoStaleParty
    OBVIOUS
  <2>1. SlotP!NoStaleParty /\ SlotP!QuietAfterRun
    BY Given, SlotP!SlotPromises
  <2>2. Slot!NoStaleParty
    BY <2>1 DEF Slot!NoStaleParty, SlotP!NoStaleParty, Slot!InSlot, SlotP!InSlot, Slot!Threads,
       SlotP!Threads
  <2>3. Slot!QuietAfterRun
    BY <2>1 DEF Slot!QuietAfterRun, SlotP!QuietAfterRun, Slot!Threads, SlotP!Threads
  <2> QED
    BY <2>2, <2>3 DEF NoStaleParty
<1> QED
  BY <1>1, ProgramInvariance, PTL

(* finishDeferred() calls cancelAndWait(), which waits for an expiry in progress: as long as
   the executor runs no continuation inline on the timer thread, that thread never waits
   for its own expiry (the run deferred_expiry shows what happens when it does). *)
THEOREM ExpiryNeverWaitsForItself ==
  ASSUME "timer" \notin InlineOn
  PROVE  Program => []NeverWaitsForItself
<1>1. SlotP!SlotInv => NeverWaitsForItself
  BY DEF SlotP!SlotInv, SlotP!Places, NeverWaitsForItself, Slot!NeverWaitsForItself
<1> QED
  BY <1>1, ProgramInvariance, PTL
=============================================================================
