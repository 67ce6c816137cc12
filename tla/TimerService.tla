---------------------------- MODULE TimerService ----------------------------
(***************************************************************************)
(* TimerService (src/sub0pipeline.cpp): the timer thread that serves the   *)
(* timeouts of deferred jobs.  A client arms a Deadline, which may expire  *)
(* at any time from then on, and calls cancelAndWait() before it destroys  *)
(* the Deadline.  A step is one critical section of mtx_, a notification   *)
(* or the expiry itself.                                                   *)
(***************************************************************************)
EXTENDS Naturals, FiniteSets

CONSTANTS
  Deadlines,       \* registrations, each owned by one client
  NoDeadline,      \* none
  Delays,          \* delays a client may ask for
  Never,           \* bound: the largest time point, at which the clock stops
  MaxArms,         \* bound: how often each client arms
  IndexMayThrow    \* index_.emplace() may run out of memory after queue_.emplace()

TimerAssumption ==
  /\ IsFiniteSet(Deadlines) /\ NoDeadline \notin Deadlines
  /\ Delays \subseteq Nat /\ Never \in Nat /\ MaxArms \in Nat
  /\ IndexMayThrow \in BOOLEAN

VARIABLES
  now,        \* steady_clock::now()
  queue,      \* queue_: the expiry time of each queued deadline
  index,      \* index_: the deadlines cancelAndWait() can find
  firing,     \* firing_
  timer,      \* where the timer thread is
  alarm,      \* the time its wait ends by itself, Never + 1 for none
  toNotify,   \* clients whose arm() has released mtx_ and not notified yet
  client,     \* where the owner of each deadline is
  arms,       \* how often each client called arm()
  stopping    \* the service is being destroyed

vars == <<now, queue, index, firing, timer, alarm, toNotify, client, arms, stopping>>

Queued == DOMAIN queue

Start ==
  /\ queue = [d \in {} |-> 0]
  /\ index = {}
  /\ firing = NoDeadline
  /\ alarm = Never + 1
  /\ toNotify = {}
  /\ client = [d \in Deadlines |-> "free"]
  /\ arms = [d \in Deadlines |-> 0]

Init == Start /\ now = 0 /\ timer = "loop" /\ stopping = FALSE

\* A service that was destroyed without being used.
Unused == Start /\ now = Never /\ timer = "exited" /\ stopping = TRUE

Without(d) == [q \in Queued \ {d} |-> queue[q]]
With(d, at) == [q \in Queued \cup {d} |-> IF q = d THEN at ELSE queue[q]]

----------------------------------------------------------------------------
(* arm() *)

MayArm(d) == client[d] = "free" /\ arms[d] < MaxArms /\ ~stopping

\* A delay past the end of the clock is cut off at its last time point.
At(delay) == IF delay >= Never - now THEN Never ELSE now + delay

\* Mutant: the timer thread is not told.
MutArm(d, delay) ==
  /\ MayArm(d)
  /\ queue' = With(d, At(delay))
  /\ index' = index \cup {d}
  /\ client' = [client EXCEPT ![d] = "armed"]
  /\ arms' = [arms EXCEPT ![d] = @ + 1]
  /\ UNCHANGED <<now, firing, timer, alarm, toNotify, stopping>>

Arm(d, delay) ==
  /\ MayArm(d)
  /\ queue' = With(d, At(delay))
  /\ index' = index \cup {d}
  /\ toNotify' = toNotify \cup {d}
  /\ client' = [client EXCEPT ![d] = "armed"]
  /\ arms' = [arms EXCEPT ![d] = @ + 1]
  /\ UNCHANGED <<now, firing, timer, alarm, stopping>>

\* One of the two insertions throws and arm() returns false.
ArmFails(d, delay) ==
  /\ MayArm(d)
  /\ queue' \in {queue} \cup (IF IndexMayThrow THEN {With(d, At(delay))} ELSE {})
  /\ client' = [client EXCEPT ![d] = "refused"]
  /\ arms' = [arms EXCEPT ![d] = @ + 1]
  /\ UNCHANGED <<now, index, firing, timer, alarm, toNotify, stopping>>

\* Mutant: the timer waits for the deadline it knew first.
MutPredicate == IF alarm > Never THEN Queued # {} ELSE Queued = {}

\* wake_'s predicate, for a wait on an empty queue and for one until alarm.
Predicate ==
  IF alarm > Never THEN Queued # {}
  ELSE Queued = {} \/ \E q \in Queued : queue[q] < alarm

\* wake_.notify_all(): a waiting timer thread tests its predicate again.
Notify(d) ==
  /\ d \in toNotify
  /\ toNotify' = toNotify \ {d}
  /\ timer' = IF timer = "asleep" /\ Predicate THEN "loop" ELSE timer
  /\ UNCHANGED <<now, queue, index, firing, alarm, client, arms, stopping>>

----------------------------------------------------------------------------
(* cancelAndWait() *)

Cancel(d) ==
  /\ client[d] = "armed" /\ d \notin toNotify
  /\ queue' = IF d \in index THEN Without(d) ELSE queue
  /\ index' = index \ {d}
  /\ client' = [client EXCEPT ![d] = "draining"]
  /\ UNCHANGED <<now, firing, timer, alarm, toNotify, arms, stopping>>

\* Mutant: the expiry in progress is not waited for.
MutDrained(d) ==
  /\ client[d] = "draining"
  /\ client' = [client EXCEPT ![d] = "free"]
  /\ UNCHANGED <<now, queue, index, firing, timer, alarm, toNotify, arms, stopping>>

\* fired_.wait(): firing_ is set and reset under mtx_.
Drained(d) ==
  /\ client[d] = "draining" /\ firing # d
  /\ client' = [client EXCEPT ![d] = "free"]
  /\ UNCHANGED <<now, queue, index, firing, timer, alarm, toNotify, arms, stopping>>

\* The client of a refused deadline destroys it and goes on.
GiveUp(d) ==
  /\ client[d] = "refused"
  /\ client' = [client EXCEPT ![d] = "free"]
  /\ UNCHANGED <<now, queue, index, firing, timer, alarm, toNotify, arms, stopping>>

----------------------------------------------------------------------------
(* loop() *)

Earliest(d) == d \in Queued /\ \A q \in Queued : queue[d] <= queue[q]

\* Nothing is due: wait for work, or until the earliest deadline.
Sleep ==
  /\ timer = "loop" /\ ~stopping
  /\ \A q \in Queued : now < queue[q]
  /\ \/ Queued = {} /\ alarm' = Never + 1
     \/ \E d \in Deadlines : Earliest(d) /\ alarm' = queue[d]
  /\ timer' = "asleep"
  /\ UNCHANGED <<now, queue, index, firing, toNotify, client, arms, stopping>>

\* The wait ends: time has come, the thread is to stop, or spuriously with work.
WakeUp ==
  /\ timer = "asleep"
  /\ now >= alarm \/ stopping \/ Predicate
  /\ timer' = "loop"
  /\ UNCHANGED <<now, queue, index, firing, alarm, toNotify, client, arms, stopping>>

\* The earliest deadline is due: it leaves the queue and fires outside mtx_.
Fire(d) ==
  /\ timer = "loop" /\ ~stopping
  /\ Earliest(d) /\ now >= queue[d]
  /\ queue' = Without(d)
  /\ index' = index \ {d}
  /\ firing' = d
  /\ timer' = "expiring"
  /\ UNCHANGED <<now, alarm, toNotify, client, arms, stopping>>

\* Deadline::expire() has returned.
Fired ==
  /\ timer = "expiring"
  /\ firing' = NoDeadline
  /\ timer' = "loop"
  /\ UNCHANGED <<now, queue, index, alarm, toNotify, client, arms, stopping>>

Exit ==
  /\ timer = "loop" /\ stopping
  /\ timer' = "exited"
  /\ UNCHANGED <<now, queue, index, firing, alarm, toNotify, client, arms, stopping>>

----------------------------------------------------------------------------

\* The pipeline destroys the service when no run is left to use it.
Destroy ==
  /\ ~stopping
  /\ \A d \in Deadlines : client[d] = "free"
  /\ stopping' = TRUE
  /\ UNCHANGED <<now, queue, index, firing, timer, alarm, toNotify, client, arms>>

Tick ==
  /\ now < Never
  /\ now' = now + 1
  /\ UNCHANGED <<queue, index, firing, timer, alarm, toNotify, client, arms, stopping>>

Next ==
  \/ \E d \in Deadlines :
       \/ \E delay \in Delays : Arm(d, delay) \/ ArmFails(d, delay)
       \/ Notify(d) \/ Cancel(d) \/ Drained(d) \/ GiveUp(d) \/ Fire(d)
  \/ Sleep \/ WakeUp \/ Fired \/ Exit \/ Destroy \/ Tick

\* Time passes, the timer thread runs, expiries return, and a notification that
\* arm() owes is sent.  A client need not cancel.
Fairness ==
  /\ WF_vars(Tick)
  /\ WF_vars(Sleep \/ Fired \/ Exit \/ ((now >= alarm \/ stopping) /\ WakeUp))
  /\ SF_vars(\E d \in Deadlines : Fire(d))
  /\ \A d \in Deadlines : WF_vars(Notify(d) \/ Drained(d))

Spec == Init /\ [][Next]_vars
FairSpec == Spec /\ Fairness

----------------------------------------------------------------------------
(* Properties *)

TypeOK ==
  /\ now \in 0..Never
  /\ Queued \subseteq Deadlines /\ index \subseteq Deadlines /\ toNotify \subseteq Deadlines
  /\ \A d \in Queued : queue[d] \in 0..Never
  /\ firing \in Deadlines \cup {NoDeadline}
  /\ timer \in {"loop", "asleep", "expiring", "exited"}
  /\ alarm \in 0..(Never + 1)
  /\ client \in [Deadlines -> {"free", "armed", "draining", "refused"}]
  /\ arms \in [Deadlines -> 0..MaxArms]
  /\ stopping \in BOOLEAN

\* cancelAndWait() removes the registration and drains an expiry already running:
\* when it has returned the timer thread neither holds nor will find the Deadline,
\* which its client is about to destroy.
QuietAfterCancel ==
  \A d \in Deadlines : client[d] = "free" => firing # d /\ d \notin Queued

\* arm() returning false means "no registration" (deadline.hpp): the client destroys
\* the Deadline, so the timer thread may not come across it.
RefusedNotRegistered ==
  \A d \in Deadlines : client[d] = "refused" => firing # d /\ d \notin Queued

\* The timer thread sleeps past no deadline: unless arm() still owes a
\* notification, its alarm is no later than any queued deadline, whatever was
\* armed, cancelled or armed again while it slept.
NoLateAlarm ==
  timer = "asleep" /\ toNotify = {} => \A q \in Queued : alarm <= queue[q]

\* The deadline is registered with a service that is not being destroyed.
Armed(d) == d \in Queued /\ ~stopping
=============================================================================
