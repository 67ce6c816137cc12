----------------------------- MODULE Pipelines -----------------------------
(***************************************************************************)
(* What outlives a call of a Pipeline, in three programs: the deadline     *)
(* service alone with its clients, one deferred job through several runs,  *)
(* and jobs that threads run, trigger and cancel.  A program uses one of   *)
(* the three; the others were destroyed unused.                            *)
(***************************************************************************)
EXTENDS Lifecycle

CONSTANTS
  Deadlines, NoDeadline, Delays, Never,   \* the deadline service's
  MaxArms,                                \* bound: how often each client arms
  HasTimeout,                             \* the deferred job has a timeout
  InlineOn,                               \* threads that may run its continuation inline
  MaxRuns                                 \* bound: how often its pipeline runs

VARIABLES
  now, queue, index, tFiring, timer, tAlarm, toNotify, client, arms, halting,
  sPc, of, sEpoch, run, outcome, parties, flags, sOrphans, ledger, stopped, registered,
  inCallback, armed, firing, serviced, inFlight, finishes

tVars == <<now, queue, index, tFiring, timer, tAlarm, toNotify, client, arms, halting>>
sVars == <<sPc, of, sEpoch, run, outcome, parties, flags, sOrphans, ledger, stopped, registered,
           inCallback, armed, firing, serviced, inFlight, finishes>>

Service == INSTANCE TimerService WITH
  IndexMayThrow <- FALSE, firing <- tFiring, alarm <- tAlarm, stopping <- halting

Slot == INSTANCE DeferredSlot WITH
  Timed <- HasTimeout, pc <- sPc, epoch <- sEpoch, orphans <- sOrphans

ASSUME PipelinesAssumption == Service!TimerAssumption /\ Slot!SlotAssumption

\* No program uses any of the three.
Idle == Service!Unused /\ Slot!Unused /\ Unused

ProgramInit ==
  \/ Idle
  \/ Service!Init /\ Slot!Unused /\ Unused
  \/ Service!Unused /\ Slot!Init /\ Unused
  \/ Service!Unused /\ Slot!Unused /\ Init

ProgramNext ==
  \/ Service!Next /\ UNCHANGED <<sVars, vars>>
  \/ Slot!Next /\ UNCHANGED <<tVars, vars>>
  \/ Next /\ UNCHANGED <<tVars, sVars>>

Program == ProgramInit /\ [][ProgramNext]_<<tVars, sVars, vars>>

----------------------------------------------------------------------------
(* Properties *)

\* cancelAndWait() drains an expiry already running, and no deadline armed while the
\* timer thread sleeps is slept past.
AlarmsExact == Service!QuietAfterCancel /\ Service!NoLateAlarm

\* A threaded run leaves nothing but an orphan of its deferred job behind, and no thread
\* uses the job's slot for an earlier run or after the pipeline's destruction.
NoStaleParty == Slot!NoStaleParty /\ Slot!QuietAfterRun

\* The timer thread does not reach the cancelAndWait() that waits for its own expiry.
NeverWaitsForItself == Slot!NeverWaitsForItself
=============================================================================
