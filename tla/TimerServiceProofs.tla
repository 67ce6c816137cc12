------------------------- MODULE TimerServiceProofs -------------------------
(***************************************************************************)
(* The deadline service for any number of deadlines, delays and armings:   *)
(* as long as arm() inserts into both of its containers or neither, no     *)
(* deadline is touched after cancelAndWait(), and none is slept past.      *)
(***************************************************************************)
EXTENDS TimerService, TLAPS

\* arm() keeps queue_ and index_ together.
ArmsWhole == TimerAssumption /\ IndexMayThrow = FALSE

----------------------------------------------------------------------------
(* The inductive invariant *)

\* The queue holds what the index finds, and only deadlines whose owner has neither
\* cancelled them nor been refused.
Registered ==
  /\ index = Queued
  /\ \A d \in Queued : client[d] = "armed"
  /\ \A d \in toNotify : client[d] = "armed"

\* The expiry in progress is the timer thread's, and its owner has yet to wait for it.
Expiring ==
  /\ timer = "expiring" <=> firing # NoDeadline
  /\ firing # NoDeadline => client[firing] \in {"armed", "draining"} /\ firing \notin Queued

\* A service that is being destroyed has no client.
Abandoned == stopping => \A d \in Deadlines : client[d] = "free"

TimerInv == TypeOK /\ Registered /\ Expiring /\ Abandoned /\ NoLateAlarm

----------------------------------------------------------------------------
(* The queue *)

\* Arming adds one entry at a time the clock has, cancelling and firing remove one.
LEMMA QueueFacts ==
  ASSUME ArmsWhole, TypeOK, NEW d \in Deadlines
  PROVE  /\ DOMAIN Without(d) = Queued \ {d}
         /\ \A q \in Queued \ {d} : Without(d)[q] = queue[q]
         /\ \A delay \in Delays :
              /\ At(delay) \in 0..Never
              /\ DOMAIN With(d, At(delay)) = Queued \cup {d}
              /\ With(d, At(delay))[d] = At(delay)
              /\ \A q \in Queued \ {d} : With(d, At(delay))[q] = queue[q]
<1>1. \A delay \in Delays : At(delay) \in 0..Never
  BY DEF At, TypeOK, ArmsWhole, TimerAssumption
<1> QED
  BY <1>1 DEF Without, With

\* No time leaves the clock and no counter its bound.
LEMMA TypeStep ==
  ASSUME ArmsWhole, TimerInv, [Next]_vars
  PROVE  TypeOK'
<1> USE DEF ArmsWhole, TimerAssumption, TimerInv, TypeOK, Queued
<1>1. ASSUME NEW d \in Deadlines, NEW delay \in Delays, Arm(d, delay) PROVE TypeOK'
  <2>1. /\ queue' = With(d, At(delay))
        /\ DOMAIN With(d, At(delay)) = Queued \cup {d} /\ At(delay) \in 0..Never
        /\ With(d, At(delay))[d] = At(delay)
        /\ \A q \in Queued \ {d} : With(d, At(delay))[q] = queue[q]
    BY <1>1, QueueFacts DEF Arm, TimerInv
  <2> QED
    BY <1>1, <2>1 DEF Arm, MayArm
<1>2. ASSUME NEW d \in Deadlines, NEW delay \in Delays, ArmFails(d, delay) PROVE TypeOK'
  <2>1. queue' = queue
    BY <1>2 DEF ArmFails, ArmsWhole
  <2> QED
    BY <1>2, <2>1 DEF ArmFails, MayArm
<1>3. ASSUME NEW d \in Deadlines, Notify(d) PROVE TypeOK'
  BY <1>3 DEF Notify, Predicate
<1>4. ASSUME NEW d \in Deadlines, Cancel(d) PROVE TypeOK'
  <2>1. /\ queue' = Without(d) \/ (queue' = queue /\ d \notin index)
        /\ DOMAIN Without(d) = Queued \ {d}
        /\ \A q \in Queued \ {d} : Without(d)[q] = queue[q]
    BY <1>4, QueueFacts DEF Cancel, TimerInv
  <2> QED
    BY <1>4, <2>1 DEF Cancel
<1>5. ASSUME NEW d \in Deadlines, Drained(d) PROVE TypeOK'
  BY <1>5 DEF Drained
<1>6. ASSUME NEW d \in Deadlines, GiveUp(d) PROVE TypeOK'
  BY <1>6 DEF GiveUp
<1>7. ASSUME NEW d \in Deadlines, Fire(d) PROVE TypeOK'
  <2>1. /\ queue' = Without(d) /\ DOMAIN Without(d) = Queued \ {d}
        /\ \A q \in Queued \ {d} : Without(d)[q] = queue[q]
    BY <1>7, QueueFacts DEF Fire, TimerInv
  <2> QED
    BY <1>7, <2>1 DEF Fire, Earliest
<1>8. CASE Sleep
  BY <1>8 DEF Sleep, Earliest
<1>9. CASE WakeUp
  BY <1>9 DEF WakeUp
<1>10. CASE Fired
  BY <1>10 DEF Fired
<1>11. CASE Exit
  BY <1>11 DEF Exit
<1>12. CASE Destroy
  BY <1>12 DEF Destroy
<1>13. CASE Tick
  BY <1>13 DEF Tick
<1>14. CASE UNCHANGED vars
  BY <1>14 DEF vars
<1> QED
  BY <1>1, <1>2, <1>3, <1>4, <1>5, <1>6, <1>7, <1>8, <1>9, <1>10, <1>11, <1>12, <1>13, <1>14
     DEF Next

\* Both containers change together.
LEMMA RegisteredStep ==
  ASSUME ArmsWhole, TimerInv, [Next]_vars
  PROVE  Registered'
<1> USE DEF ArmsWhole, TimerAssumption, TimerInv, TypeOK, Registered, Queued
<1>1. ASSUME NEW d \in Deadlines, NEW delay \in Delays, Arm(d, delay) PROVE Registered'
  <2>1. /\ queue' = With(d, At(delay))
        /\ DOMAIN With(d, At(delay)) = Queued \cup {d} /\ At(delay) \in 0..Never
        /\ With(d, At(delay))[d] = At(delay)
        /\ \A q \in Queued \ {d} : With(d, At(delay))[q] = queue[q]
    BY <1>1, QueueFacts DEF Arm, TimerInv
  <2> QED
    BY <1>1, <2>1 DEF Arm, MayArm
<1>2. ASSUME NEW d \in Deadlines, NEW delay \in Delays, ArmFails(d, delay) PROVE Registered'
  <2>1. queue' = queue
    BY <1>2 DEF ArmFails, ArmsWhole
  <2> QED
    BY <1>2, <2>1 DEF ArmFails, MayArm
<1>3. ASSUME NEW d \in Deadlines, Notify(d) PROVE Registered'
  BY <1>3 DEF Notify, Predicate
<1>4. ASSUME NEW d \in Deadlines, Cancel(d) PROVE Registered'
  <2>1. /\ queue' = Without(d) \/ (queue' = queue /\ d \notin index)
        /\ DOMAIN Without(d) = Queued \ {d}
        /\ \A q \in Queued \ {d} : Without(d)[q] = queue[q]
    BY <1>4, QueueFacts DEF Cancel, TimerInv
  <2> QED
    BY <1>4, <2>1 DEF Cancel
<1>5. ASSUME NEW d \in Deadlines, Drained(d) PROVE Registered'
  BY <1>5 DEF Drained
<1>6. ASSUME NEW d \in Deadlines, GiveUp(d) PROVE Registered'
  BY <1>6 DEF GiveUp
<1>7. ASSUME NEW d \in Deadlines, Fire(d) PROVE Registered'
  <2>1. /\ queue' = Without(d) /\ DOMAIN Without(d) = Queued \ {d}
        /\ \A q \in Queued \ {d} : Without(d)[q] = queue[q]
    BY <1>7, QueueFacts DEF Fire, TimerInv
  <2> QED
    BY <1>7, <2>1 DEF Fire, Earliest
<1>8. CASE Sleep
  BY <1>8 DEF Sleep, Earliest
<1>9. CASE WakeUp
  BY <1>9 DEF WakeUp
<1>10. CASE Fired
  BY <1>10 DEF Fired
<1>11. CASE Exit
  BY <1>11 DEF Exit
<1>12. CASE Destroy
  BY <1>12 DEF Destroy
<1>13. CASE Tick
  BY <1>13 DEF Tick
<1>14. CASE UNCHANGED vars
  BY <1>14 DEF vars
<1> QED
  BY <1>1, <1>2, <1>3, <1>4, <1>5, <1>6, <1>7, <1>8, <1>9, <1>10, <1>11, <1>12, <1>13, <1>14
     DEF Next

\* Fire() takes the entry out before it expires it outside mtx_.
LEMMA ExpiringStep ==
  ASSUME ArmsWhole, TimerInv, [Next]_vars
  PROVE  Expiring'
<1> USE DEF ArmsWhole, TimerAssumption, TimerInv, TypeOK, Registered, Expiring, Queued
<1>1. ASSUME NEW d \in Deadlines, NEW delay \in Delays, Arm(d, delay) PROVE Expiring'
  <2>1. /\ queue' = With(d, At(delay))
        /\ DOMAIN With(d, At(delay)) = Queued \cup {d} /\ At(delay) \in 0..Never
        /\ With(d, At(delay))[d] = At(delay)
        /\ \A q \in Queued \ {d} : With(d, At(delay))[q] = queue[q]
    BY <1>1, QueueFacts DEF Arm, TimerInv
  <2> QED
    BY <1>1, <2>1 DEF Arm, MayArm
<1>2. ASSUME NEW d \in Deadlines, NEW delay \in Delays, ArmFails(d, delay) PROVE Expiring'
  <2>1. queue' = queue
    BY <1>2 DEF ArmFails, ArmsWhole
  <2> QED
    BY <1>2, <2>1 DEF ArmFails, MayArm
<1>3. ASSUME NEW d \in Deadlines, Notify(d) PROVE Expiring'
  BY <1>3 DEF Notify, Predicate
<1>4. ASSUME NEW d \in Deadlines, Cancel(d) PROVE Expiring'
  <2>1. /\ queue' = Without(d) \/ (queue' = queue /\ d \notin index)
        /\ DOMAIN Without(d) = Queued \ {d}
        /\ \A q \in Queued \ {d} : Without(d)[q] = queue[q]
    BY <1>4, QueueFacts DEF Cancel, TimerInv
  <2> QED
    BY <1>4, <2>1 DEF Cancel
<1>5. ASSUME NEW d \in Deadlines, Drained(d) PROVE Expiring'
  BY <1>5 DEF Drained
<1>6. ASSUME NEW d \in Deadlines, GiveUp(d) PROVE Expiring'
  BY <1>6 DEF GiveUp
<1>7. ASSUME NEW d \in Deadlines, Fire(d) PROVE Expiring'
  <2>1. /\ queue' = Without(d) /\ DOMAIN Without(d) = Queued \ {d}
        /\ \A q \in Queued \ {d} : Without(d)[q] = queue[q]
    BY <1>7, QueueFacts DEF Fire, TimerInv
  <2> QED
    BY <1>7, <2>1 DEF Fire, Earliest
<1>8. CASE Sleep
  BY <1>8 DEF Sleep, Earliest
<1>9. CASE WakeUp
  BY <1>9 DEF WakeUp
<1>10. CASE Fired
  BY <1>10 DEF Fired
<1>11. CASE Exit
  BY <1>11 DEF Exit
<1>12. CASE Destroy
  BY <1>12 DEF Destroy
<1>13. CASE Tick
  BY <1>13 DEF Tick
<1>14. CASE UNCHANGED vars
  BY <1>14 DEF vars
<1> QED
  BY <1>1, <1>2, <1>3, <1>4, <1>5, <1>6, <1>7, <1>8, <1>9, <1>10, <1>11, <1>12, <1>13, <1>14
     DEF Next

\* Nobody arms a service that is being destroyed.
LEMMA AbandonedStep ==
  ASSUME ArmsWhole, TimerInv, [Next]_vars
  PROVE  Abandoned'
<1> USE DEF ArmsWhole, TimerAssumption, TimerInv, TypeOK, Abandoned
<1>1. ASSUME NEW d \in Deadlines, NEW delay \in Delays, Arm(d, delay) PROVE Abandoned'
  BY <1>1 DEF Arm, MayArm, With
<1>2. ASSUME NEW d \in Deadlines, NEW delay \in Delays, ArmFails(d, delay) PROVE Abandoned'
  BY <1>2 DEF ArmFails, MayArm
<1>3. ASSUME NEW d \in Deadlines, Notify(d) PROVE Abandoned'
  BY <1>3 DEF Notify, Predicate
<1>4. ASSUME NEW d \in Deadlines, Cancel(d) PROVE Abandoned'
  BY <1>4 DEF Cancel, Without
<1>5. ASSUME NEW d \in Deadlines, Drained(d) PROVE Abandoned'
  BY <1>5 DEF Drained
<1>6. ASSUME NEW d \in Deadlines, GiveUp(d) PROVE Abandoned'
  BY <1>6 DEF GiveUp
<1>7. ASSUME NEW d \in Deadlines, Fire(d) PROVE Abandoned'
  BY <1>7 DEF Fire, Without, Earliest
<1>8. CASE Sleep
  BY <1>8 DEF Sleep, Earliest
<1>9. CASE WakeUp
  BY <1>9 DEF WakeUp
<1>10. CASE Fired
  BY <1>10 DEF Fired
<1>11. CASE Exit
  BY <1>11 DEF Exit
<1>12. CASE Destroy
  BY <1>12 DEF Destroy
<1>13. CASE Tick
  BY <1>13 DEF Tick
<1>14. CASE UNCHANGED vars
  BY <1>14 DEF vars
<1> QED
  BY <1>1, <1>2, <1>3, <1>4, <1>5, <1>6, <1>7, <1>8, <1>9, <1>10, <1>11, <1>12, <1>13, <1>14
     DEF Next

\* What is armed while the timer thread sleeps is announced to it.
LEMMA AlarmStep ==
  ASSUME ArmsWhole, TimerInv, [Next]_vars
  PROVE  NoLateAlarm'
<1> USE DEF ArmsWhole, TimerAssumption, TimerInv, TypeOK, NoLateAlarm, Queued
<1>1. ASSUME NEW d \in Deadlines, NEW delay \in Delays, Arm(d, delay) PROVE NoLateAlarm'
  <2>1. /\ queue' = With(d, At(delay))
        /\ DOMAIN With(d, At(delay)) = Queued \cup {d} /\ At(delay) \in 0..Never
        /\ With(d, At(delay))[d] = At(delay)
        /\ \A q \in Queued \ {d} : With(d, At(delay))[q] = queue[q]
    BY <1>1, QueueFacts DEF Arm, TimerInv
  <2> QED
    BY <1>1, <2>1 DEF Arm, MayArm
<1>2. ASSUME NEW d \in Deadlines, NEW delay \in Delays, ArmFails(d, delay) PROVE NoLateAlarm'
  <2>1. queue' = queue
    BY <1>2 DEF ArmFails, ArmsWhole
  <2> QED
    BY <1>2, <2>1 DEF ArmFails, MayArm
<1>3. ASSUME NEW d \in Deadlines, Notify(d) PROVE NoLateAlarm'
  BY <1>3 DEF Notify, Predicate
<1>4. ASSUME NEW d \in Deadlines, Cancel(d) PROVE NoLateAlarm'
  <2>1. /\ queue' = Without(d) \/ (queue' = queue /\ d \notin index)
        /\ DOMAIN Without(d) = Queued \ {d}
        /\ \A q \in Queued \ {d} : Without(d)[q] = queue[q]
    BY <1>4, QueueFacts DEF Cancel, TimerInv
  <2> QED
    BY <1>4, <2>1 DEF Cancel
<1>5. ASSUME NEW d \in Deadlines, Drained(d) PROVE NoLateAlarm'
  BY <1>5 DEF Drained
<1>6. ASSUME NEW d \in Deadlines, GiveUp(d) PROVE NoLateAlarm'
  BY <1>6 DEF GiveUp
<1>7. ASSUME NEW d \in Deadlines, Fire(d) PROVE NoLateAlarm'
  <2>1. /\ queue' = Without(d) /\ DOMAIN Without(d) = Queued \ {d}
        /\ \A q \in Queued \ {d} : Without(d)[q] = queue[q]
    BY <1>7, QueueFacts DEF Fire, TimerInv
  <2> QED
    BY <1>7, <2>1 DEF Fire, Earliest
<1>8. CASE Sleep
  BY <1>8 DEF Sleep, Earliest
<1>9. CASE WakeUp
  BY <1>9 DEF WakeUp
<1>10. CASE Fired
  BY <1>10 DEF Fired
<1>11. CASE Exit
  BY <1>11 DEF Exit
<1>12. CASE Destroy
  BY <1>12 DEF Destroy
<1>13. CASE Tick
  BY <1>13 DEF Tick
<1>14. CASE UNCHANGED vars
  BY <1>14 DEF vars
<1> QED
  BY <1>1, <1>2, <1>3, <1>4, <1>5, <1>6, <1>7, <1>8, <1>9, <1>10, <1>11, <1>12, <1>13, <1>14
     DEF Next

----------------------------------------------------------------------------
(* The theorems *)

LEMMA TimerInit ==
  ASSUME ArmsWhole, Init \/ Unused
  PROVE  TimerInv
<1> USE DEF ArmsWhole, TimerAssumption, Init, Unused, Start, Queued
<1>1. TypeOK
  <2>1. Queued = {} /\ now \in 0..Never /\ alarm \in 0..(Never + 1)
    OBVIOUS
  <2>2. arms \in [Deadlines -> 0..MaxArms]
    OBVIOUS
  <2> HIDE DEF Queued
  <2> QED
    BY <2>1, <2>2 DEF TypeOK
<1>2. Registered /\ Expiring /\ Abandoned /\ NoLateAlarm
  BY DEF Registered, Expiring, Abandoned, NoLateAlarm
<1> QED
  BY <1>1, <1>2 DEF TimerInv

LEMMA TimerStep ==
  ASSUME ArmsWhole, TimerInv, [Next]_vars
  PROVE  TimerInv'
<1> QED
  BY TypeStep, RegisteredStep, ExpiringStep, AbandonedStep, AlarmStep DEF TimerInv

\* What the invariant says to the clients.
LEMMA TimerPromises ==
  ASSUME ArmsWhole, TimerInv
  PROVE  QuietAfterCancel /\ NoLateAlarm
<1>1. QuietAfterCancel
  BY DEF TimerInv, Registered, Expiring, QuietAfterCancel, ArmsWhole, TimerAssumption
<1> QED
  BY <1>1 DEF TimerInv

(* TimerService: the inductive invariant, for any set of deadlines, any delays and
   any number of armings, provided that neither insertion of arm() fails alone (the
   run timer_refused shows what happens when the second does). *)
THEOREM TimerInvariance ==
  ASSUME ArmsWhole
  PROVE  Spec => []TimerInv
<1>1. Init => TimerInv
  BY TimerInit
<1>2. TimerInv /\ [Next]_vars => TimerInv'
  BY TimerStep
<1> QED
  BY <1>1, <1>2, PTL DEF Spec

(* When cancelAndWait() has returned, the timer thread neither holds the Deadline
   nor finds it later: its owner may destroy it. *)
THEOREM CancelDrains ==
  ASSUME ArmsWhole
  PROVE  Spec => []QuietAfterCancel
<1>1. TimerInv => QuietAfterCancel
  BY TimerPromises
<1> QED
  BY <1>1, TimerInvariance, PTL

(* The timer thread sleeps past no deadline, whatever is armed, cancelled or armed
   again while it sleeps. *)
THEOREM AlarmsInTime ==
  ASSUME ArmsWhole
  PROVE  Spec => []NoLateAlarm
<1>1. TimerInv => NoLateAlarm
  BY DEF TimerInv
<1> QED
  BY <1>1, TimerInvariance, PTL

\* The service is destroyed by an owner without clients: no entry, expiry or
\* notification is left that ~TimerService() would have to wait for or drop.
NothingLeft == stopping => Queued = {} /\ firing = NoDeadline /\ toNotify = {}

(* ~TimerService() joins a thread that has nothing to expire. *)
THEOREM DestructorFindsNothing ==
  ASSUME ArmsWhole
  PROVE  Spec => []NothingLeft
<1>1. TimerInv => NothingLeft
  BY DEF TimerInv, TypeOK, Registered, Expiring, Abandoned, NothingLeft
<1> QED
  BY <1>1, TimerInvariance, PTL
=============================================================================
