------------------------- MODULE DeferredSlotProofs -------------------------
(***************************************************************************)
(* The deferred slot, for any number of runs, any executor and a job with  *)
(* or without a timeout: no party of an earlier run is left when the slot  *)
(* is reset or the pipeline destroyed, the job is finished exactly once,   *)
(* and the timer thread never waits for its own expiry.                    *)
(***************************************************************************)
EXTENDS DeferredSlot, TLAPS

\* The threads that are not the executor's; two of them run the stop callback.
Foreign == {"timer", "canceller", "completer"}
Stoppers == {"timer", "canceller"}

\* Where the thread is that has arrived second and has the job finished.
Finishing == {"deliver", "dispatch", "unregister", "drain", "orphan", "finish"}

\* Where a foreign thread is while its call of deliverDeferred() is counted.
Counting == {"dispatch", "unregister", "drain", "orphan", "finish", "undeliver"}

\* The body has not yet called the work, or has not yet arrived.
BeforeBegin == {"start", "arm", "count", "register", "begin"}
BodyDue == pc["body"] \in {"arm", "count", "register", "begin", "arrive"}

\* The slot was reset in this run and the job is not finished.
Open == Running /\ finishes = 0 /\ pc["body"] # "start"

\* The work has not ended, or who ended it has not arrived.
OutcomeDue == outcome = "none" \/ \E t \in Foreign : pc[t] = "arrive"

(* Each thread is only ever at the steps that are its own; the timer thread
   releases registrations only if a continuation may run inline on it. *)
Places ==
  /\ pc["body"] \in
       BeforeBegin \cup {"out", "arrive", "unregister", "drain", "orphan", "finish"}
  /\ pc["continuation"] \in {"out", "unregister", "drain", "orphan", "finish"}
  /\ pc["timer"] \in Finishing \cup {"out", "request", "stop", "arrive", "undeliver", "fired"}
  /\ "timer" \notin InlineOn => pc["timer"] \notin {"unregister", "drain"}
  /\ pc["canceller"] \in Finishing \cup {"out", "request", "stop", "arrive", "undeliver"}
  /\ pc["completer"] \in
       Finishing \cup {"out", "held", "late", "release", "arrive", "undeliver"}

(* Who is inside the slot while a run is in progress is there for this run, and
   so is the timer thread from the moment it takes the deadline. *)
OfThisRun ==
  /\ \A t \in Threads : of[t] <= epoch
  /\ pc["body"] # "out" => of["body"] = epoch
  /\ Running => \A t \in Threads : pc[t] \in InSlot => of[t] = epoch

(* The run thread is where the executor and the count of the job let it be. *)
RunPlace ==
  /\ pc["body"] # "out" => run = "waitAll" /\ finishes = 0
  /\ run \notin {"waitAll", "await"} /\ epoch > 0 => finishes = 1 /\ inFlight = 0
  /\ Running => epoch > 0
  /\ epoch = 0 => \A t \in Threads : pc[t] = "out"

(* parties counts the arrivals that are still to come. *)
PartiesDue ==
  Open => parties = (IF BodyDue THEN 1 ELSE 0) + (IF OutcomeDue THEN 1 ELSE 0)

(* Only one foreign thread ends the work, after the work has begun or at least
   the callback exists. *)
OneArrival ==
  /\ \A t \in Foreign : pc[t] = "arrive" => Open /\ outcome # "none"
  /\ \A s, t \in Foreign : pc[s] = "arrive" /\ pc[t] = "arrive" => s = t
  /\ pc["body"] = "arrive" => Open

(* Only one thread finishes the job, once both have arrived; only one foreign
   thread is ever inside deliverDeferred(). *)
OneFinisher ==
  /\ \A t \in Threads : pc[t] \in Finishing => Open /\ parties = 0
  /\ \A s, t \in Threads : pc[s] \in Finishing /\ pc[t] \in Finishing => s = t
  /\ \A t \in Foreign :
       pc[t] = "undeliver" => Running /\ outcome # "none" /\ (Open => parties = 0)
  /\ \A s, t \in Foreign :
       pc[s] \in Finishing \cup {"undeliver"} /\ pc[t] \in Finishing \cup {"undeliver"} => s = t

(* deferredInFlight is the unfinished job and the delivery under way. *)
CountExact ==
  inFlight = (IF Open /\ pc["body"] \notin {"arm", "count"} THEN 1 ELSE 0)
             + (IF \E t \in Foreign : pc[t] \in Counting THEN 1 ELSE 0)

(* The stop callback: who is in it, and that nobody can enter it for an outcome
   that was decided without the slot. *)
Callback ==
  /\ inCallback \in Stoppers \cup {"none"}
  /\ \A t \in Stoppers : pc[t] \in InSlot <=> inCallback = t
  /\ inCallback # "none" => stopped /\ Running
  /\ pc["body"] \in {"start", "arm", "count", "register"} =>
       /\ ~registered /\ inCallback = "none" /\ pc["completer"] = "out"
       /\ pc["body"] # "start" => outcome = "none"
  /\ pc["body"] = "begin" => pc["completer"] = "out"
  /\ registered => Running /\ run # "drain" /\ (Open \/ outcome # "none")
  /\ inCallback # "none" => Open \/ outcome # "none"
  /\ run = "drain" => inCallback = "none"

(* The deadline: queued once per run, and an expiry in progress is waited for. *)
Deadlined ==
  /\ firing <=> pc["timer"] # "out"
  /\ armed => serviced /\ pc["timer"] = "out"
  /\ serviced => Running /\ run # "drain"
  /\ pc["body"] \in {"start", "arm"} => ~serviced /\ ~firing
  /\ firing => \/ serviced
               \/ run = "drain"
               \/ \E t \in Threads : pc[t] = "drain"
  /\ pc["timer"] # "out" => of["timer"] = epoch

(* The Completion and the orphan ledger. *)
Completions ==
  /\ pc["completer"] \in {"held", "late"} =>
       /\ outcome # "signalled" /\ "released" \notin flags
       /\ "orphaned" \in flags \/ (Open /\ \A t \in Threads : pc[t] # "finish")
       /\ outcome = "none" => Open
  /\ pc["completer"] = "late" => outcome # "none"
  /\ pc["completer"] = "release" => "orphaned" \in flags /\ "released" \in flags
  /\ orphans = 1 <=> pc["completer"] \in {"held", "late", "release"} /\ "orphaned" \in flags
  /\ Open /\ "orphaned" \in flags => \E t \in Threads : pc[t] = "finish"
  /\ Open /\ outcome # "signalled" /\ "released" \notin flags
       /\ pc["body"] \notin BeforeBegin => pc["completer"] \in {"held", "late"}

Destroyed == run = "destroyed" => ~ledger /\ orphans = 0 /\ pc["canceller"] = "out"

(* Until the work has begun, the reset slot has no Completion to release. *)
Begun ==
  pc["body"] \in BeforeBegin \ {"start"} => flags = {} /\ outcome # "signalled"

SlotInv ==
  /\ TypeOK /\ Places /\ OfThisRun /\ RunPlace /\ PartiesDue /\ OneArrival /\ OneFinisher
  /\ CountExact /\ Callback /\ Deadlined /\ Completions /\ Begun /\ Destroyed
----------------------------------------------------------------------------
(* What is left of a job that is finished *)

\* Once the run has seen the count at zero, neither the body nor a continuation is
\* about, and no foreign thread arrives, finishes the job or is inside a delivery.
LEMMA NoneInside ==
  ASSUME SlotInv, run \notin {"waitAll", "await"}
  PROVE  /\ pc["body"] = "out" /\ pc["continuation"] = "out"
         /\ \A t \in Foreign : pc[t] \notin Finishing \cup {"arrive", "undeliver"}
         /\ ~Open
<1> USE DEF SlotInv, Threads, Foreign, Stoppers, InSlot, Finishing, Counting, BeforeBegin,
      BodyDue, Open, OutcomeDue, Running
<1>1. CASE epoch = 0
  BY <1>1 DEF TypeOK, RunPlace
<1>2. CASE epoch # 0
  <2>1. finishes = 1 /\ inFlight = 0 /\ ~Open
    BY <1>2 DEF TypeOK, RunPlace
  <2>2. \A t \in Threads : pc[t] \notin Finishing
    BY <2>1 DEF OneFinisher
  <2>3. \A t \in Foreign : pc[t] \notin Counting
    BY <2>1 DEF CountExact
  <2>4. \A t \in Foreign : pc[t] # "arrive"
    BY <2>1 DEF OneArrival
  <2>5. pc["body"] = "out"
    BY DEF RunPlace
  <2> QED
    BY <2>1, <2>2, <2>3, <2>4, <2>5 DEF Places
<1> QED
  BY <1>1, <1>2

\* When no run is active only the Completion of an orphan may be left, and whoever
\* has asked for a stop too late.
LEMMA NoneLeft ==
  ASSUME SlotInv, ~Running
  PROVE  /\ pc["body"] = "out" /\ pc["continuation"] = "out" /\ pc["timer"] = "out"
         /\ pc["canceller"] \in {"out", "request"}
         /\ pc["completer"] \in {"out", "held", "late", "release"}
         /\ pc["completer"] # "out" <=> orphans = 1
         /\ ~registered /\ ~armed /\ ~serviced /\ ~firing /\ inCallback = "none" /\ ~Open
<1> USE DEF SlotInv, Threads, Foreign, Stoppers, InSlot, Finishing, Counting, BeforeBegin,
      BodyDue, Open, OutcomeDue, Running
<1>1. /\ pc["body"] = "out" /\ pc["continuation"] = "out" /\ ~Open
      /\ \A t \in Foreign : pc[t] \notin Finishing \cup {"arrive", "undeliver"}
  BY NoneInside
<1>2. ~registered /\ inCallback = "none"
  BY DEF Callback
<1>3. pc["canceller"] \in {"out", "request"} /\ pc["timer"] \notin InSlot
  BY <1>1, <1>2 DEF Callback, Places
<1>4. ~serviced /\ ~armed
  BY DEF Deadlined
<1>5. ~firing /\ pc["timer"] = "out"
  BY <1>1, <1>4 DEF Deadlined
<1>6. pc["completer"] \in {"out", "held", "late", "release"}
  BY <1>1 DEF Places
<1>7. pc["completer"] # "out" <=> orphans = 1
  BY <1>1, <1>6 DEF Completions
<1> QED
  BY <1>1, <1>2, <1>3, <1>4, <1>5, <1>6, <1>7

----------------------------------------------------------------------------
(* Every step keeps the invariant *)

\* A job stopped before its body is finished without the slot.
LEMMA KeepsRefuseBody ==
  ASSUME SlotAssumption, SlotInv, RefuseBody
  PROVE  SlotInv'
<1> USE DEF SlotInv, Threads, Foreign, Stoppers, InSlot, Finishing, Counting, BeforeBegin,
      BodyDue, Open, OutcomeDue, Running, slot, stop, deadline, Goto, Return, LeaveCallback,
      SlotAssumption, RefuseBody
<1>1. TypeOK'
  BY DEF TypeOK, Places, RunPlace
<1>2. Places'
  BY DEF TypeOK, Places
<1>3. OfThisRun'
  BY DEF TypeOK, OfThisRun
<1>4. RunPlace'
  BY DEF TypeOK, RunPlace
<1>5. PartiesDue'
  BY DEF TypeOK, PartiesDue
<1>6. OneArrival'
  BY DEF TypeOK, OneArrival
<1>7. OneFinisher'
  BY DEF TypeOK, OneFinisher
<1>8. CountExact'
  BY DEF TypeOK, CountExact
<1>9. Callback'
  BY DEF TypeOK, Callback
<1>10. Deadlined'
  BY DEF TypeOK, Deadlined
<1>11. Completions'
  BY DEF TypeOK, Completions
<1>12. Begun'
  BY DEF TypeOK, Places, Begun
<1>13. Destroyed'
  BY DEF TypeOK, Destroyed
<1> HIDE DEF RefuseBody
<1> QED
  BY <1>1, <1>2, <1>3, <1>4, <1>5, <1>6, <1>7, <1>8, <1>9, <1>10, <1>11, <1>12, <1>13

\* The slot is reset while nobody else can be using it.
LEMMA KeepsResetSlot ==
  ASSUME SlotAssumption, SlotInv, ResetSlot
  PROVE  SlotInv'
<1> USE DEF SlotInv, Threads, Foreign, Stoppers, InSlot, Finishing, Counting, BeforeBegin,
      BodyDue, Open, OutcomeDue, Running, slot, stop, deadline, Goto, Return, LeaveCallback,
      SlotAssumption, ResetSlot
<1>1. TypeOK'
  BY DEF TypeOK
<1>2. Places'
  BY DEF TypeOK, Places
<1>3. OfThisRun'
  BY DEF TypeOK, OfThisRun
<1>4. RunPlace'
  BY DEF TypeOK, RunPlace
<1>5. PartiesDue'
  BY DEF TypeOK, PartiesDue
<1>6. OneArrival'
  BY DEF TypeOK, OneArrival
<1>7. OneFinisher'
  BY DEF TypeOK, Places, OneFinisher, Callback
<1>8. CountExact'
  BY DEF TypeOK, CountExact
<1>9. Callback'
  BY DEF TypeOK, Callback
<1>10. Deadlined'
  BY DEF TypeOK, Deadlined
<1>11. Completions'
  BY DEF TypeOK, Places, Callback, Completions
<1>12. Begun'
  BY DEF TypeOK, Places, Begun
<1>13. Destroyed'
  BY DEF TypeOK, Destroyed
<1> HIDE DEF ResetSlot
<1> QED
  BY <1>1, <1>2, <1>3, <1>4, <1>5, <1>6, <1>7, <1>8, <1>9, <1>10, <1>11, <1>12, <1>13

\* A deadline that cannot be registered finishes the job before it is counted.
LEMMA KeepsArm ==
  ASSUME SlotAssumption, SlotInv, Arm
  PROVE  SlotInv'
<1> USE DEF SlotInv, Threads, Foreign, Stoppers, InSlot, Finishing, Counting, BeforeBegin,
      BodyDue, Open, OutcomeDue, Running, slot, stop, deadline, Goto, Return, LeaveCallback,
      SlotAssumption, Arm
<1>1. TypeOK'
  <2>1. CASE /\ armed' = TRUE /\ serviced' = TRUE /\ Goto("body", "count")
             /\ UNCHANGED <<firing, finishes>>
    <3>1. armed' \in BOOLEAN /\ serviced' \in BOOLEAN
      BY <2>1
    <3> QED
      BY <2>1, <3>1 DEF TypeOK
  <2>2. CASE finishes' = finishes + 1 /\ Goto("body", "out") /\ UNCHANGED deadline
    BY <2>2 DEF TypeOK, RunPlace
  <2> QED
    BY <2>1, <2>2
<1>2. Places'
  BY DEF TypeOK, Places
<1>3. OfThisRun'
  BY DEF TypeOK, OfThisRun
<1>4. RunPlace'
  BY DEF TypeOK, RunPlace
<1>5. PartiesDue'
  BY DEF TypeOK, PartiesDue
<1>6. OneArrival'
  BY DEF TypeOK, Places, OneArrival, Callback
<1>7. OneFinisher'
  BY DEF TypeOK, Places, RunPlace, PartiesDue, OneArrival, OneFinisher
<1>8. CountExact'
  BY DEF TypeOK, CountExact
<1>9. Callback'
  BY DEF TypeOK, Callback
<1>10. Deadlined'
  BY DEF TypeOK, Places, RunPlace, Deadlined
<1>11. Completions'
  BY DEF TypeOK, Places, Callback, Completions
<1>12. Begun'
  BY DEF TypeOK, Places, Begun
<1>13. Destroyed'
  BY DEF TypeOK, Destroyed
<1> HIDE DEF Arm
<1> QED
  BY <1>1, <1>2, <1>3, <1>4, <1>5, <1>6, <1>7, <1>8, <1>9, <1>10, <1>11, <1>12, <1>13

\* The job is counted before anybody can end its work.
LEMMA KeepsCountInFlight ==
  ASSUME SlotAssumption, SlotInv, CountInFlight
  PROVE  SlotInv'
<1> USE DEF SlotInv, Threads, Foreign, Stoppers, InSlot, Finishing, Counting, BeforeBegin,
      BodyDue, Open, OutcomeDue, Running, slot, stop, deadline, Goto, Return, LeaveCallback,
      SlotAssumption, CountInFlight
<1>1. TypeOK'
  BY DEF TypeOK, CountExact
<1>2. Places'
  BY DEF TypeOK, Places
<1>3. OfThisRun'
  BY DEF TypeOK, OfThisRun
<1>4. RunPlace'
  BY DEF TypeOK, RunPlace
<1>5. PartiesDue'
  BY DEF TypeOK, PartiesDue
<1>6. OneArrival'
  BY DEF TypeOK, OneArrival
<1>7. OneFinisher'
  BY DEF TypeOK, OneFinisher
<1>8. CountExact'
  BY DEF TypeOK, Places, RunPlace, CountExact
<1>9. Callback'
  BY DEF TypeOK, Callback
<1>10. Deadlined'
  BY DEF TypeOK, Deadlined
<1>11. Completions'
  BY DEF TypeOK, Completions
<1>12. Begun'
  BY DEF TypeOK, Places, Begun
<1>13. Destroyed'
  BY DEF TypeOK, Destroyed
<1> HIDE DEF CountInFlight
<1> QED
  BY <1>1, <1>2, <1>3, <1>4, <1>5, <1>6, <1>7, <1>8, <1>9, <1>10, <1>11, <1>12, <1>13

\* A stop that came first arrives in the place of the callback.
LEMMA KeepsRegister ==
  ASSUME SlotAssumption, SlotInv, Register
  PROVE  SlotInv'
<1> USE DEF SlotInv, Threads, Foreign, Stoppers, InSlot, Finishing, Counting, BeforeBegin,
      BodyDue, Open, OutcomeDue, Running, slot, stop, deadline, Goto, Return, LeaveCallback,
      SlotAssumption, Register
<1>1. TypeOK'
  BY DEF TypeOK, Places, RunPlace, PartiesDue, OneArrival, OneFinisher
<1>2. Places'
  BY DEF TypeOK, Places
<1>3. OfThisRun'
  BY DEF TypeOK, OfThisRun
<1>4. RunPlace'
  BY DEF TypeOK, RunPlace
<1>5. PartiesDue'
  BY DEF TypeOK, Places, PartiesDue, Callback
<1>6. OneArrival'
  BY DEF TypeOK, OneArrival
<1>7. OneFinisher'
  BY DEF TypeOK, Places, RunPlace, PartiesDue, OneArrival, OneFinisher
<1>8. CountExact'
  BY DEF TypeOK, CountExact
<1>9. Callback'
  BY DEF TypeOK, Places, RunPlace, Callback
<1>10. Deadlined'
  BY DEF TypeOK, Deadlined
<1>11. Completions'
  BY DEF TypeOK, Completions
<1>12. Begun'
  BY DEF TypeOK, Places, Begun
<1>13. Destroyed'
  BY DEF TypeOK, Destroyed
<1> HIDE DEF Register
<1> QED
  BY <1>1, <1>2, <1>3, <1>4, <1>5, <1>6, <1>7, <1>8, <1>9, <1>10, <1>11, <1>12, <1>13

\* From here on the Completion exists.
LEMMA KeepsBegin ==
  ASSUME SlotAssumption, SlotInv, Begin
  PROVE  SlotInv'
<1> USE DEF SlotInv, Threads, Foreign, Stoppers, InSlot, Finishing, Counting, BeforeBegin,
      BodyDue, Open, OutcomeDue, Running, slot, stop, deadline, Goto, Return, LeaveCallback,
      SlotAssumption, Begin
<1>1. TypeOK'
  BY DEF TypeOK
<1>2. Places'
  BY DEF TypeOK, Places
<1>3. OfThisRun'
  BY DEF TypeOK, OfThisRun
<1>4. RunPlace'
  BY DEF TypeOK, RunPlace
<1>5. PartiesDue'
  BY DEF TypeOK, Places, PartiesDue, Callback
<1>6. OneArrival'
  BY DEF TypeOK, Places, RunPlace, OneArrival
<1>7. OneFinisher'
  BY DEF TypeOK, OneFinisher
<1>8. CountExact'
  BY DEF TypeOK, Places, RunPlace, PartiesDue, OneArrival, OneFinisher, CountExact
<1>9. Callback'
  BY DEF TypeOK, Callback
<1>10. Deadlined'
  BY DEF TypeOK, Places, RunPlace, PartiesDue, OneArrival, OneFinisher, Deadlined
<1>11. Completions'
  <2>1. Open /\ Open' /\ outcome # "signalled" /\ "released" \notin flags
    BY DEF TypeOK, RunPlace, Begun
  <2>2. "orphaned" \notin flags /\ orphans = 0
    BY <2>1 DEF TypeOK, Completions, Callback, Begun
  <2>3. \A t \in Threads : pc'[t] # "finish"
    BY <2>1 DEF TypeOK, OneFinisher, PartiesDue
  <2> QED
    BY <2>1, <2>2, <2>3 DEF TypeOK, Completions
<1>12. Begun'
  BY DEF TypeOK, Places, Begun
<1>13. Destroyed'
  BY DEF TypeOK, Destroyed
<1> HIDE DEF Begin
<1> QED
  BY <1>1, <1>2, <1>3, <1>4, <1>5, <1>6, <1>7, <1>8, <1>9, <1>10, <1>11, <1>12, <1>13

\* The Completion arrives only if it decided the outcome.
LEMMA KeepsSignal ==
  ASSUME SlotAssumption, SlotInv, Signal
  PROVE  SlotInv'
<1> USE DEF SlotInv, Threads, Foreign, Stoppers, InSlot, Finishing, Counting, BeforeBegin,
      BodyDue, Open, OutcomeDue, Running, slot, stop, deadline, Goto, Return, LeaveCallback,
      SlotAssumption, Signal
<1>1. TypeOK'
  BY DEF TypeOK
<1>2. Places'
  BY DEF TypeOK, Places
<1>3. OfThisRun'
  BY DEF TypeOK, OfThisRun
<1>4. RunPlace'
  BY DEF TypeOK, RunPlace
<1>5. PartiesDue'
  BY DEF TypeOK, PartiesDue
<1>6. OneArrival'
  BY DEF TypeOK, Places, OneArrival, Completions
<1>7. OneFinisher'
  BY DEF TypeOK, OneFinisher
<1>8. CountExact'
  BY DEF TypeOK, CountExact
<1>9. Callback'
  BY DEF TypeOK, Callback
<1>10. Deadlined'
  BY DEF TypeOK, Deadlined
<1>11. Completions'
  BY DEF TypeOK, Places, RunPlace, PartiesDue, OneArrival, OneFinisher, Completions
<1>12. Begun'
  BY DEF TypeOK, Callback, Begun
<1>13. Destroyed'
  BY DEF TypeOK, Destroyed
<1> HIDE DEF Signal
<1> QED
  BY <1>1, <1>2, <1>3, <1>4, <1>5, <1>6, <1>7, <1>8, <1>9, <1>10, <1>11, <1>12, <1>13

\* A late Completion says so in the flags.
LEMMA KeepsReleaseLate ==
  ASSUME SlotAssumption, SlotInv, ReleaseLate
  PROVE  SlotInv'
<1> USE DEF SlotInv, Threads, Foreign, Stoppers, InSlot, Finishing, Counting, BeforeBegin,
      BodyDue, Open, OutcomeDue, Running, slot, stop, deadline, Goto, Return, LeaveCallback,
      SlotAssumption, ReleaseLate
<1>1. TypeOK'
  BY DEF TypeOK
<1>2. Places'
  BY DEF TypeOK, Places
<1>3. OfThisRun'
  BY DEF TypeOK, OfThisRun
<1>4. RunPlace'
  BY DEF TypeOK, RunPlace
<1>5. PartiesDue'
  BY DEF TypeOK, PartiesDue
<1>6. OneArrival'
  BY DEF TypeOK, OneArrival
<1>7. OneFinisher'
  BY DEF TypeOK, OneFinisher
<1>8. CountExact'
  BY DEF TypeOK, CountExact
<1>9. Callback'
  BY DEF TypeOK, Callback
<1>10. Deadlined'
  BY DEF TypeOK, Deadlined
<1>11. Completions'
  BY DEF TypeOK, Completions
<1>12. Begun'
  BY DEF TypeOK, Callback, Begun
<1>13. Destroyed'
  BY DEF TypeOK, Destroyed
<1> HIDE DEF ReleaseLate
<1> QED
  BY <1>1, <1>2, <1>3, <1>4, <1>5, <1>6, <1>7, <1>8, <1>9, <1>10, <1>11, <1>12, <1>13

\* The ledger counts down the one orphan it counted.
LEMMA KeepsReleaseOrphan ==
  ASSUME SlotAssumption, SlotInv, ReleaseOrphan
  PROVE  SlotInv'
<1> USE DEF SlotInv, Threads, Foreign, Stoppers, InSlot, Finishing, Counting, BeforeBegin,
      BodyDue, Open, OutcomeDue, Running, slot, stop, deadline, Goto, Return, LeaveCallback,
      SlotAssumption, ReleaseOrphan
<1>1. TypeOK'
  <2>1. orphans' \in 0..1
    BY DEF TypeOK, Completions
  <2>2. pc' \in [Threads -> InSlot \cup {"out", "start", "arm", "count", "register", "begin",
                                        "release", "request", "fired"}]
    BY DEF TypeOK
  <2>3. ledger' \in BOOLEAN
    OBVIOUS
  <2> QED
    BY <2>1, <2>2, <2>3 DEF TypeOK
<1>2. Places'
  BY DEF TypeOK, Places
<1>3. OfThisRun'
  BY DEF TypeOK, OfThisRun
<1>4. RunPlace'
  BY DEF TypeOK, RunPlace
<1>5. PartiesDue'
  BY DEF TypeOK, PartiesDue
<1>6. OneArrival'
  BY DEF TypeOK, OneArrival
<1>7. OneFinisher'
  BY DEF TypeOK, OneFinisher
<1>8. CountExact'
  BY DEF TypeOK, CountExact
<1>9. Callback'
  BY DEF TypeOK, Callback
<1>10. Deadlined'
  BY DEF TypeOK, Deadlined
<1>11. Completions'
  BY DEF TypeOK, Completions
<1>12. Begun'
  BY DEF TypeOK, Places, Begun
<1>13. Destroyed'
  BY DEF TypeOK, Completions, Destroyed
<1> HIDE DEF ReleaseOrphan
<1> QED
  BY <1>1, <1>2, <1>3, <1>4, <1>5, <1>6, <1>7, <1>8, <1>9, <1>10, <1>11, <1>12, <1>13

\* An expiry begins in the run that armed it.
LEMMA KeepsFire ==
  ASSUME SlotAssumption, SlotInv, Fire
  PROVE  SlotInv'
<1> USE DEF SlotInv, Threads, Foreign, Stoppers, InSlot, Finishing, Counting, BeforeBegin,
      BodyDue, Open, OutcomeDue, Running, slot, stop, deadline, Goto, Return, LeaveCallback,
      SlotAssumption, Fire
<1>1. TypeOK'
  BY DEF TypeOK
<1>2. Places'
  BY DEF TypeOK, Places
<1>3. OfThisRun'
  BY DEF TypeOK, OfThisRun
<1>4. RunPlace'
  BY DEF TypeOK, RunPlace, Deadlined
<1>5. PartiesDue'
  BY DEF TypeOK, PartiesDue
<1>6. OneArrival'
  BY DEF TypeOK, OneArrival
<1>7. OneFinisher'
  BY DEF TypeOK, OneFinisher
<1>8. CountExact'
  BY DEF TypeOK, CountExact
<1>9. Callback'
  BY DEF TypeOK, Callback
<1>10. Deadlined'
  BY DEF TypeOK, Deadlined
<1>11. Completions'
  BY DEF TypeOK, Completions
<1>12. Begun'
  BY DEF TypeOK, Places, Begun
<1>13. Destroyed'
  BY DEF TypeOK, Destroyed
<1> HIDE DEF Fire
<1> QED
  BY <1>1, <1>2, <1>3, <1>4, <1>5, <1>6, <1>7, <1>8, <1>9, <1>10, <1>11, <1>12, <1>13

\* An expiry that has returned holds nothing of the slot.
LEMMA KeepsFired ==
  ASSUME SlotAssumption, SlotInv, Fired
  PROVE  SlotInv'
<1> USE DEF SlotInv, Threads, Foreign, Stoppers, InSlot, Finishing, Counting, BeforeBegin,
      BodyDue, Open, OutcomeDue, Running, slot, stop, deadline, Goto, Return, LeaveCallback,
      SlotAssumption, Fired
<1>1. TypeOK'
  BY DEF TypeOK, Places, Callback
<1>2. Places'
  BY DEF TypeOK, Places
<1>3. OfThisRun'
  BY DEF TypeOK, OfThisRun
<1>4. RunPlace'
  BY DEF TypeOK, RunPlace
<1>5. PartiesDue'
  BY DEF TypeOK, PartiesDue
<1>6. OneArrival'
  BY DEF TypeOK, OneArrival
<1>7. OneFinisher'
  BY DEF TypeOK, OneFinisher
<1>8. CountExact'
  BY DEF TypeOK, CountExact
<1>9. Callback'
  BY DEF TypeOK, Callback
<1>10. Deadlined'
  BY DEF TypeOK, Deadlined
<1>11. Completions'
  BY DEF TypeOK, Completions
<1>12. Begun'
  BY DEF TypeOK, Places, Begun
<1>13. Destroyed'
  BY DEF TypeOK, Destroyed
<1> HIDE DEF Fired
<1> QED
  BY <1>1, <1>2, <1>3, <1>4, <1>5, <1>6, <1>7, <1>8, <1>9, <1>10, <1>11, <1>12, <1>13

\* A canceller may hold the stop source of a run that is over.
LEMMA KeepsCancel ==
  ASSUME SlotAssumption, SlotInv, Cancel
  PROVE  SlotInv'
<1> USE DEF SlotInv, Threads, Foreign, Stoppers, InSlot, Finishing, Counting, BeforeBegin,
      BodyDue, Open, OutcomeDue, Running, slot, stop, deadline, Goto, Return, LeaveCallback,
      SlotAssumption, Cancel
<1>1. TypeOK'
  BY DEF TypeOK
<1>2. Places'
  BY DEF TypeOK, Places
<1>3. OfThisRun'
  BY DEF TypeOK, OfThisRun
<1>4. RunPlace'
  BY DEF TypeOK, RunPlace
<1>5. PartiesDue'
  BY DEF TypeOK, PartiesDue
<1>6. OneArrival'
  BY DEF TypeOK, OneArrival
<1>7. OneFinisher'
  BY DEF TypeOK, OneFinisher
<1>8. CountExact'
  BY DEF TypeOK, CountExact
<1>9. Callback'
  BY DEF TypeOK, Callback
<1>10. Deadlined'
  BY DEF TypeOK, Deadlined
<1>11. Completions'
  BY DEF TypeOK, Completions
<1>12. Begun'
  BY DEF TypeOK, Places, Begun
<1>13. Destroyed'
  BY DEF TypeOK, Destroyed
<1> HIDE DEF Cancel
<1> QED
  BY <1>1, <1>2, <1>3, <1>4, <1>5, <1>6, <1>7, <1>8, <1>9, <1>10, <1>11, <1>12, <1>13

\* Only the first request of the current run enters the callback.
LEMMA KeepsRequest ==
  ASSUME SlotAssumption, SlotInv, NEW t \in Threads, Request(t)
  PROVE  SlotInv'
<1> USE DEF SlotInv, Threads, Foreign, Stoppers, InSlot, Finishing, Counting, BeforeBegin,
      BodyDue, Open, OutcomeDue, Running, slot, stop, deadline, Goto, Return, LeaveCallback,
      SlotAssumption, Request
<1>1. TypeOK'
  <2>1. stopped' \in BOOLEAN /\ inCallback' \in Threads \cup {"none"}
    BY DEF TypeOK
  <2>2. pc' \in [Threads -> InSlot \cup {"out", "start", "arm", "count", "register", "begin",
                                        "release", "request", "fired"}]
    BY DEF TypeOK
  <2> QED
    BY <2>1, <2>2 DEF TypeOK
<1>2. Places'
  BY DEF TypeOK, Places
<1>3. OfThisRun'
  BY DEF TypeOK, OfThisRun
<1>4. RunPlace'
  BY DEF TypeOK, RunPlace
<1>5. PartiesDue'
  BY DEF TypeOK, PartiesDue
<1>6. OneArrival'
  BY DEF TypeOK, OneArrival
<1>7. OneFinisher'
  BY DEF TypeOK, OneFinisher
<1>8. CountExact'
  BY DEF TypeOK, CountExact
<1>9. Callback'
  BY DEF TypeOK, Places, Callback
<1>10. Deadlined'
  BY DEF TypeOK, Deadlined
<1>11. Completions'
  BY DEF TypeOK, Completions
<1>12. Begun'
  BY DEF TypeOK, Places, Begun
<1>13. Destroyed'
  BY DEF TypeOK, Destroyed
<1> HIDE DEF Request
<1> QED
  BY <1>1, <1>2, <1>3, <1>4, <1>5, <1>6, <1>7, <1>8, <1>9, <1>10, <1>11, <1>12, <1>13

\* The callback arrives only if it decided the outcome.
LEMMA KeepsStop ==
  ASSUME SlotAssumption, SlotInv, NEW t \in Threads, Stop(t)
  PROVE  SlotInv'
<1> USE DEF SlotInv, Threads, Foreign, Stoppers, InSlot, Finishing, Counting, BeforeBegin,
      BodyDue, Open, OutcomeDue, Running, slot, stop, deadline, Goto, Return, LeaveCallback,
      SlotAssumption, Stop
<1>1. TypeOK'
  BY DEF TypeOK
<1>2. Places'
  BY DEF TypeOK, Places
<1>3. OfThisRun'
  BY DEF TypeOK, OfThisRun
<1>4. RunPlace'
  BY DEF TypeOK, RunPlace
<1>5. PartiesDue'
  BY DEF TypeOK, Places, PartiesDue
<1>6. OneArrival'
  BY DEF TypeOK, Places, OneArrival, Callback
<1>7. OneFinisher'
  BY DEF TypeOK, OneFinisher
<1>8. CountExact'
  BY DEF TypeOK, CountExact
<1>9. Callback'
  BY DEF TypeOK, Places, Callback
<1>10. Deadlined'
  BY DEF TypeOK, Deadlined
<1>11. Completions'
  BY DEF TypeOK, Completions
<1>12. Begun'
  BY DEF TypeOK, Places, Begun
<1>13. Destroyed'
  BY DEF TypeOK, Destroyed
<1> HIDE DEF Stop
<1> QED
  BY <1>1, <1>2, <1>3, <1>4, <1>5, <1>6, <1>7, <1>8, <1>9, <1>10, <1>11, <1>12, <1>13

\* The second arrival, and no other, has the job finished.
LEMMA KeepsArrive ==
  ASSUME SlotAssumption, SlotInv, NEW t \in Threads, Arrive(t)
  PROVE  SlotInv'
<1> USE DEF SlotInv, Threads, Foreign, Stoppers, InSlot, Finishing, Counting, BeforeBegin,
      BodyDue, Open, OutcomeDue, Running, slot, stop, deadline, Goto, Return, LeaveCallback,
      SlotAssumption, Arrive
<1>1. TypeOK'
  BY DEF TypeOK, Places, RunPlace, PartiesDue, OneArrival, OneFinisher
<1>2. Places'
  BY DEF TypeOK, Places
<1>3. OfThisRun'
  BY DEF TypeOK, OfThisRun
<1>4. RunPlace'
  BY DEF TypeOK, RunPlace
<1>5. PartiesDue'
  BY DEF TypeOK, Places, PartiesDue, OneArrival, OneFinisher
<1>6. OneArrival'
  BY DEF TypeOK, OneArrival
<1>7. OneFinisher'
  BY DEF TypeOK, Places, RunPlace, PartiesDue, OneArrival, OneFinisher
<1>8. CountExact'
  BY DEF TypeOK, CountExact
<1>9. Callback'
  BY DEF TypeOK, Callback
<1>10. Deadlined'
  BY DEF TypeOK, Deadlined
<1>11. Completions'
  BY DEF TypeOK, Completions
<1>12. Begun'
  BY DEF TypeOK, Places, Begun
<1>13. Destroyed'
  BY DEF TypeOK, Destroyed
<1> HIDE DEF Arrive
<1> QED
  BY <1>1, <1>2, <1>3, <1>4, <1>5, <1>6, <1>7, <1>8, <1>9, <1>10, <1>11, <1>12, <1>13

\* A delivery is counted on top of the job.
LEMMA KeepsDeliver ==
  ASSUME SlotAssumption, SlotInv, NEW t \in Threads, Deliver(t)
  PROVE  SlotInv'
<1> USE DEF SlotInv, Threads, Foreign, Stoppers, InSlot, Finishing, Counting, BeforeBegin,
      BodyDue, Open, OutcomeDue, Running, slot, stop, deadline, Goto, Return, LeaveCallback,
      SlotAssumption, Deliver
<1>1. TypeOK'
  BY DEF TypeOK, Places, OneFinisher, CountExact
<1>2. Places'
  BY DEF TypeOK, Places
<1>3. OfThisRun'
  BY DEF TypeOK, OfThisRun
<1>4. RunPlace'
  BY DEF TypeOK, Places, RunPlace, OneArrival, OneFinisher
<1>5. PartiesDue'
  BY DEF TypeOK, PartiesDue
<1>6. OneArrival'
  BY DEF TypeOK, OneArrival
<1>7. OneFinisher'
  BY DEF TypeOK, OneFinisher
<1>8. CountExact'
  BY DEF TypeOK, Places, OneArrival, OneFinisher, CountExact
<1>9. Callback'
  BY DEF TypeOK, Callback
<1>10. Deadlined'
  BY DEF TypeOK, Deadlined
<1>11. Completions'
  BY DEF TypeOK, Completions
<1>12. Begun'
  BY DEF TypeOK, Places, Begun
<1>13. Destroyed'
  BY DEF TypeOK, Destroyed
<1> HIDE DEF Deliver
<1> QED
  BY <1>1, <1>2, <1>3, <1>4, <1>5, <1>6, <1>7, <1>8, <1>9, <1>10, <1>11, <1>12, <1>13

\* The continuation, this thread inline or this thread itself goes on.
LEMMA KeepsDispatch ==
  ASSUME SlotAssumption, SlotInv, NEW t \in Threads, Dispatch(t)
  PROVE  SlotInv'
<1> USE DEF SlotInv, Threads, Foreign, Stoppers, InSlot, Finishing, Counting, BeforeBegin,
      BodyDue, Open, OutcomeDue, Running, slot, stop, deadline, Goto, Return, LeaveCallback,
      SlotAssumption, Dispatch
<1>1. TypeOK'
  BY DEF TypeOK
<1>2. Places'
  BY DEF TypeOK, Places
<1>3. OfThisRun'
  BY DEF TypeOK, OfThisRun
<1>4. RunPlace'
  BY DEF TypeOK, RunPlace
<1>5. PartiesDue'
  BY DEF TypeOK, PartiesDue
<1>6. OneArrival'
  BY DEF TypeOK, OneArrival
<1>7. OneFinisher'
  BY DEF TypeOK, Places, RunPlace, PartiesDue, OneArrival, OneFinisher
<1>8. CountExact'
  BY DEF TypeOK, CountExact
<1>9. Callback'
  BY DEF TypeOK, Callback
<1>10. Deadlined'
  BY DEF TypeOK, Places, OneArrival, OneFinisher, Deadlined
<1>11. Completions'
  BY DEF TypeOK, Places, OneArrival, OneFinisher, Completions
<1>12. Begun'
  BY DEF TypeOK, Places, Begun
<1>13. Destroyed'
  BY DEF TypeOK, Destroyed
<1> HIDE DEF Dispatch
<1> QED
  BY <1>1, <1>2, <1>3, <1>4, <1>5, <1>6, <1>7, <1>8, <1>9, <1>10, <1>11, <1>12, <1>13

\* The count of the delivery goes with it.
LEMMA KeepsUndeliver ==
  ASSUME SlotAssumption, SlotInv, NEW t \in Threads, Undeliver(t)
  PROVE  SlotInv'
<1> USE DEF SlotInv, Threads, Foreign, Stoppers, InSlot, Finishing, Counting, BeforeBegin,
      BodyDue, Open, OutcomeDue, Running, slot, stop, deadline, Goto, Return, LeaveCallback,
      SlotAssumption, Undeliver
<1>1. TypeOK'
  BY DEF TypeOK, Places, CountExact
<1>2. Places'
  BY DEF TypeOK, Places
<1>3. OfThisRun'
  BY DEF TypeOK, OfThisRun
<1>4. RunPlace'
  BY DEF TypeOK, Places, RunPlace, CountExact
<1>5. PartiesDue'
  BY DEF TypeOK, PartiesDue
<1>6. OneArrival'
  BY DEF TypeOK, OneArrival
<1>7. OneFinisher'
  BY DEF TypeOK, OneFinisher
<1>8. CountExact'
  BY DEF TypeOK, Places, OneArrival, OneFinisher, CountExact
<1>9. Callback'
  BY DEF TypeOK, Callback
<1>10. Deadlined'
  BY DEF TypeOK, Deadlined
<1>11. Completions'
  BY DEF TypeOK, Completions
<1>12. Begun'
  BY DEF TypeOK, Places, Begun
<1>13. Destroyed'
  BY DEF TypeOK, Destroyed
<1> HIDE DEF Undeliver
<1> QED
  BY <1>1, <1>2, <1>3, <1>4, <1>5, <1>6, <1>7, <1>8, <1>9, <1>10, <1>11, <1>12, <1>13

\* The callback and the deadline are released.
LEMMA KeepsUnregister ==
  ASSUME SlotAssumption, SlotInv, NEW t \in Threads, Unregister(t)
  PROVE  SlotInv'
<1> USE DEF SlotInv, Threads, Foreign, Stoppers, InSlot, Finishing, Counting, BeforeBegin,
      BodyDue, Open, OutcomeDue, Running, slot, stop, deadline, Goto, Return, LeaveCallback,
      SlotAssumption, Unregister, ReleaseRegistrations
<1>1. TypeOK'
  <2>1. registered' \in BOOLEAN /\ serviced' \in BOOLEAN /\ armed' \in BOOLEAN
    BY DEF TypeOK
  <2>2. pc' \in [Threads -> InSlot \cup {"out", "start", "arm", "count", "register", "begin",
                                        "release", "request", "fired"}]
    BY DEF TypeOK
  <2> QED
    BY <2>1, <2>2 DEF TypeOK
<1>2. Places'
  BY DEF TypeOK, Places
<1>3. OfThisRun'
  BY DEF TypeOK, OfThisRun
<1>4. RunPlace'
  BY DEF TypeOK, RunPlace
<1>5. PartiesDue'
  BY DEF TypeOK, PartiesDue
<1>6. OneArrival'
  BY DEF TypeOK, OneArrival
<1>7. OneFinisher'
  BY DEF TypeOK, OneFinisher
<1>8. CountExact'
  BY DEF TypeOK, CountExact
<1>9. Callback'
  BY DEF TypeOK, Callback
<1>10. Deadlined'
  BY DEF TypeOK, Deadlined
<1>11. Completions'
  BY DEF TypeOK, Completions
<1>12. Begun'
  BY DEF TypeOK, Places, Begun
<1>13. Destroyed'
  BY DEF TypeOK, Destroyed
<1> HIDE DEF Unregister
<1> QED
  BY <1>1, <1>2, <1>3, <1>4, <1>5, <1>6, <1>7, <1>8, <1>9, <1>10, <1>11, <1>12, <1>13

\* An expiry in progress was waited for.
LEMMA KeepsDrain ==
  ASSUME SlotAssumption, SlotInv, NEW t \in Threads, Drain(t)
  PROVE  SlotInv'
<1> USE DEF SlotInv, Threads, Foreign, Stoppers, InSlot, Finishing, Counting, BeforeBegin,
      BodyDue, Open, OutcomeDue, Running, slot, stop, deadline, Goto, Return, LeaveCallback,
      SlotAssumption, Drain
<1>1. TypeOK'
  BY DEF TypeOK
<1>2. Places'
  BY DEF TypeOK, Places
<1>3. OfThisRun'
  BY DEF TypeOK, OfThisRun
<1>4. RunPlace'
  BY DEF TypeOK, RunPlace
<1>5. PartiesDue'
  BY DEF TypeOK, PartiesDue
<1>6. OneArrival'
  BY DEF TypeOK, OneArrival
<1>7. OneFinisher'
  BY DEF TypeOK, OneFinisher
<1>8. CountExact'
  BY DEF TypeOK, CountExact
<1>9. Callback'
  BY DEF TypeOK, Callback
<1>10. Deadlined'
  BY DEF TypeOK, Deadlined
<1>11. Completions'
  BY DEF TypeOK, Completions
<1>12. Begun'
  BY DEF TypeOK, Places, Begun
<1>13. Destroyed'
  BY DEF TypeOK, Destroyed
<1> HIDE DEF Drain
<1> QED
  BY <1>1, <1>2, <1>3, <1>4, <1>5, <1>6, <1>7, <1>8, <1>9, <1>10, <1>11, <1>12, <1>13

\* A Completion that outlives its job enters the ledger, once.
LEMMA KeepsOrphanIfHeld ==
  ASSUME SlotAssumption, SlotInv, NEW t \in Threads, OrphanIfHeld(t)
  PROVE  SlotInv'
<1> USE DEF SlotInv, Threads, Foreign, Stoppers, InSlot, Finishing, Counting, BeforeBegin,
      BodyDue, Open, OutcomeDue, Running, slot, stop, deadline, Goto, Return, LeaveCallback,
      SlotAssumption, OrphanIfHeld
<1>1. TypeOK'
  <2>1. pc' \in [Threads -> InSlot \cup {"out", "start", "arm", "count", "register", "begin",
                                        "release", "request", "fired"}]
    BY DEF TypeOK
  <2>2. orphans' \in 0..1 /\ flags' \subseteq {"released", "orphaned"}
    <3>1. CASE orphans' = orphans + 1 /\ flags' = flags \cup {"orphaned"}
      <4>1. "orphaned" \notin flags
        BY DEF OneFinisher, Completions
      <4> QED
        BY <3>1, <4>1 DEF TypeOK, Completions
    <3>2. CASE UNCHANGED <<flags, orphans>>
      BY <3>2 DEF TypeOK
    <3> QED
      BY <3>1, <3>2
  <2> QED
    BY <2>1, <2>2 DEF TypeOK
<1>2. Places'
  BY DEF TypeOK, Places
<1>3. OfThisRun'
  BY DEF TypeOK, OfThisRun
<1>4. RunPlace'
  BY DEF TypeOK, RunPlace
<1>5. PartiesDue'
  BY DEF TypeOK, PartiesDue
<1>6. OneArrival'
  BY DEF TypeOK, OneArrival
<1>7. OneFinisher'
  BY DEF TypeOK, OneFinisher
<1>8. CountExact'
  BY DEF TypeOK, CountExact
<1>9. Callback'
  BY DEF TypeOK, Callback
<1>10. Deadlined'
  BY DEF TypeOK, Deadlined
<1>11. Completions'
  BY DEF TypeOK, Places, RunPlace, PartiesDue, OneArrival, OneFinisher, Completions
<1>12. Begun'
  BY DEF TypeOK, PartiesDue, OneFinisher, Begun
<1>13. Destroyed'
  BY DEF TypeOK, Places, OneArrival, OneFinisher, Destroyed
<1> HIDE DEF OrphanIfHeld
<1> QED
  BY <1>1, <1>2, <1>3, <1>4, <1>5, <1>6, <1>7, <1>8, <1>9, <1>10, <1>11, <1>12, <1>13

\* The job is finished once and leaves the count.
LEMMA KeepsFinish ==
  ASSUME SlotAssumption, SlotInv, NEW t \in Threads, Finish(t)
  PROVE  SlotInv'
<1> USE DEF SlotInv, Threads, Foreign, Stoppers, InSlot, Finishing, Counting, BeforeBegin,
      BodyDue, Open, OutcomeDue, Running, slot, stop, deadline, Goto, Return, LeaveCallback,
      SlotAssumption, Finish
<1>1. TypeOK'
  BY DEF TypeOK, Places, PartiesDue, OneFinisher, CountExact
<1>2. Places'
  BY DEF TypeOK, Places
<1>3. OfThisRun'
  BY DEF TypeOK, OfThisRun
<1>4. RunPlace'
  BY DEF TypeOK, Places, RunPlace, PartiesDue, OneArrival, OneFinisher
<1>5. PartiesDue'
  BY DEF TypeOK, PartiesDue
<1>6. OneArrival'
  BY DEF TypeOK, Places, RunPlace, PartiesDue, OneArrival, OneFinisher
<1>7. OneFinisher'
  BY DEF TypeOK, Places, RunPlace, PartiesDue, OneArrival, OneFinisher
<1>8. CountExact'
  BY DEF TypeOK, Places, RunPlace, PartiesDue, OneArrival, OneFinisher, CountExact
<1>9. Callback'
  BY DEF TypeOK, Places, RunPlace, PartiesDue, OneArrival, OneFinisher, Callback
<1>10. Deadlined'
  BY DEF TypeOK, Deadlined
<1>11. Completions'
  BY DEF TypeOK, Places, RunPlace, PartiesDue, OneArrival, OneFinisher, Completions
<1>12. Begun'
  BY DEF TypeOK, Places, Begun
<1>13. Destroyed'
  BY DEF TypeOK, Destroyed
<1> HIDE DEF Finish
<1> QED
  BY <1>1, <1>2, <1>3, <1>4, <1>5, <1>6, <1>7, <1>8, <1>9, <1>10, <1>11, <1>12, <1>13

\* A run begins with nobody in the slot.
LEMMA KeepsStartRun ==
  ASSUME SlotAssumption, SlotInv, StartRun
  PROVE  SlotInv'
<1> USE DEF SlotInv, Threads, Foreign, Stoppers, InSlot, Finishing, Counting, BeforeBegin,
      BodyDue, Open, OutcomeDue, Running, slot, stop, deadline, Goto, Return, LeaveCallback,
      SlotAssumption, StartRun, OrphansJoined
<1>0. /\ \A t \in Threads : pc[t] \in {"out", "request"}
      /\ pc["body"] = "out" /\ pc["timer"] = "out" /\ pc["completer"] = "out"
      /\ ~registered /\ ~armed /\ ~serviced /\ ~firing /\ inCallback = "none"
  BY NoneLeft DEF TypeOK
<1>1. TypeOK'
  <2>1. epoch + 1 \in 0..MaxRuns
    BY DEF TypeOK
  <2>2. of' \in [Threads -> 0..MaxRuns]
    BY <2>1 DEF TypeOK
  <2>3. stopped' \in BOOLEAN
    OBVIOUS
  <2>4. pc' \in [Threads -> InSlot \cup {"out", "start", "arm", "count", "register", "begin",
                                        "release", "request", "fired"}]
    BY DEF TypeOK
  <2> QED
    BY <2>1, <2>2, <2>3, <2>4 DEF TypeOK
<1>2. Places'
  BY DEF TypeOK, Places
<1>3. OfThisRun'
  BY <1>0 DEF TypeOK, OfThisRun
<1>4. RunPlace'
  BY DEF TypeOK, RunPlace
<1>5. PartiesDue'
  BY DEF TypeOK, PartiesDue
<1>6. OneArrival'
  BY DEF TypeOK, OneArrival
<1>7. OneFinisher'
  BY DEF TypeOK, OneFinisher
<1>8. CountExact'
  BY DEF TypeOK, CountExact
<1>9. Callback'
  BY <1>0 DEF TypeOK, Callback
<1>10. Deadlined'
  BY DEF TypeOK, Places, OneArrival, OneFinisher, Deadlined
<1>11. Completions'
  BY DEF TypeOK, Completions
<1>12. Begun'
  BY DEF TypeOK, Places, Begun
<1>13. Destroyed'
  BY DEF TypeOK, Destroyed
<1> HIDE DEF StartRun
<1> QED
  BY <1>1, <1>2, <1>3, <1>4, <1>5, <1>6, <1>7, <1>8, <1>9, <1>10, <1>11, <1>12, <1>13

\* The run thread goes on only when the count is zero.
LEMMA KeepsAwaitDeferred ==
  ASSUME SlotAssumption, SlotInv, AwaitDeferred
  PROVE  SlotInv'
<1> USE DEF SlotInv, Threads, Foreign, Stoppers, InSlot, Finishing, Counting, BeforeBegin,
      BodyDue, Open, OutcomeDue, Running, slot, stop, deadline, Goto, Return, LeaveCallback,
      SlotAssumption, AwaitDeferred, ExecutorIdle
<1>1. TypeOK'
  BY DEF TypeOK
<1>2. Places'
  BY DEF TypeOK, Places
<1>3. OfThisRun'
  BY DEF TypeOK, OfThisRun
<1>4. RunPlace'
  BY DEF TypeOK, Places, RunPlace, CountExact
<1>5. PartiesDue'
  BY DEF TypeOK, PartiesDue
<1>6. OneArrival'
  BY DEF TypeOK, OneArrival
<1>7. OneFinisher'
  BY DEF TypeOK, OneFinisher
<1>8. CountExact'
  BY DEF TypeOK, CountExact
<1>9. Callback'
  BY DEF TypeOK, Callback
<1>10. Deadlined'
  BY DEF TypeOK, Deadlined
<1>11. Completions'
  BY DEF TypeOK, Completions
<1>12. Begun'
  BY DEF TypeOK, Places, Begun
<1>13. Destroyed'
  BY DEF TypeOK, Destroyed
<1> HIDE DEF AwaitDeferred
<1> QED
  BY <1>1, <1>2, <1>3, <1>4, <1>5, <1>6, <1>7, <1>8, <1>9, <1>10, <1>11, <1>12, <1>13

\* The run releases what a rejected continuation left registered.
LEMMA KeepsEndRun ==
  ASSUME SlotAssumption, SlotInv, EndRun
  PROVE  SlotInv'
<1> USE DEF SlotInv, Threads, Foreign, Stoppers, InSlot, Finishing, Counting, BeforeBegin,
      BodyDue, Open, OutcomeDue, Running, slot, stop, deadline, Goto, Return, LeaveCallback,
      SlotAssumption, EndRun, ReleaseRegistrations
<1>0. /\ pc["body"] = "out" /\ pc["continuation"] = "out" /\ ~Open
      /\ \A t \in Foreign : pc[t] \notin Finishing \cup {"arrive", "undeliver"}
  BY NoneInside
<1>1. TypeOK'
  BY DEF TypeOK
<1>2. Places'
  BY DEF TypeOK, Places
<1>3. OfThisRun'
  BY DEF TypeOK, OfThisRun
<1>4. RunPlace'
  BY DEF TypeOK, RunPlace
<1>5. PartiesDue'
  BY DEF TypeOK, PartiesDue
<1>6. OneArrival'
  <2>1. CASE run = "unregister"
    BY <1>0, <2>1 DEF TypeOK, OneArrival
  <2>2. CASE run = "drain"
    BY <1>0, <2>2 DEF TypeOK, OneArrival
  <2> QED
    BY <2>1, <2>2
<1>7. OneFinisher'
  <2>1. CASE run = "unregister"
    BY <1>0, <2>1 DEF TypeOK, OneFinisher
  <2>2. CASE run = "drain"
    BY <1>0, <2>2 DEF TypeOK, OneFinisher
  <2> QED
    BY <2>1, <2>2
<1>8. CountExact'
  <2>1. CASE run = "unregister"
    BY <1>0, <2>1 DEF TypeOK, RunPlace, CountExact
  <2>2. CASE run = "drain"
    BY <1>0, <2>2 DEF TypeOK, RunPlace, CountExact
  <2> QED
    BY <2>1, <2>2
<1>9. Callback'
  <2>1. CASE run = "unregister"
    BY <1>0, <2>1 DEF TypeOK, Callback, RunPlace, Completions
  <2>2. CASE run = "drain"
    BY <1>0, <2>2 DEF TypeOK, Callback, RunPlace, Completions
  <2> QED
    BY <2>1, <2>2
<1>10. Deadlined'
  <2>1. CASE run = "unregister"
    <3>1. firing => serviced
      BY <1>0, <2>1 DEF TypeOK, Deadlined
    <3>2. ~armed' /\ ~serviced' /\ firing' = firing /\ pc' = pc
      BY <2>1 DEF Deadlined
    <3>3. firing => run' = "drain"
      BY <2>1, <3>1
    <3> QED
      BY <1>0, <2>1, <3>2, <3>3 DEF TypeOK, Deadlined
  <2>2. CASE run = "drain"
    BY <1>0, <2>2 DEF TypeOK, Deadlined
  <2> QED
    BY <2>1, <2>2
<1>11. Completions'
  <2>1. CASE run = "unregister"
    BY <1>0, <2>1 DEF TypeOK, Completions
  <2>2. CASE run = "drain"
    BY <1>0, <2>2 DEF TypeOK, Completions
  <2> QED
    BY <2>1, <2>2
<1>12. Begun'
  BY DEF TypeOK, Places, Begun
<1>13. Destroyed'
  BY DEF TypeOK, Destroyed
<1> HIDE DEF EndRun
<1> QED
  BY <1>1, <1>2, <1>3, <1>4, <1>5, <1>6, <1>7, <1>8, <1>9, <1>10, <1>11, <1>12, <1>13

\* The pipeline is destroyed with no orphan and no canceller about.
LEMMA KeepsDestroy ==
  ASSUME SlotAssumption, SlotInv, Destroy
  PROVE  SlotInv'
<1> USE DEF SlotInv, Threads, Foreign, Stoppers, InSlot, Finishing, Counting, BeforeBegin,
      BodyDue, Open, OutcomeDue, Running, slot, stop, deadline, Goto, Return, LeaveCallback,
      SlotAssumption, Destroy, OrphansJoined
<1>1. TypeOK'
  BY DEF TypeOK
<1>2. Places'
  BY DEF TypeOK, Places
<1>3. OfThisRun'
  BY DEF TypeOK, OfThisRun
<1>4. RunPlace'
  BY DEF TypeOK, RunPlace
<1>5. PartiesDue'
  BY DEF TypeOK, PartiesDue
<1>6. OneArrival'
  BY DEF TypeOK, OneArrival
<1>7. OneFinisher'
  BY DEF TypeOK, OneFinisher
<1>8. CountExact'
  BY DEF TypeOK, CountExact
<1>9. Callback'
  BY DEF TypeOK, Callback
<1>10. Deadlined'
  BY DEF TypeOK, Deadlined
<1>11. Completions'
  BY DEF TypeOK, Completions
<1>12. Begun'
  BY DEF TypeOK, Places, Begun
<1>13. Destroyed'
  BY DEF TypeOK, Destroyed
<1> HIDE DEF Destroy
<1> QED
  BY <1>1, <1>2, <1>3, <1>4, <1>5, <1>6, <1>7, <1>8, <1>9, <1>10, <1>11, <1>12, <1>13

----------------------------------------------------------------------------
(* The theorems *)

LEMMA SlotInit ==
  ASSUME SlotAssumption, Init \/ Unused
  PROVE  SlotInv
<1> USE DEF Init, Unused, Start, Threads, InSlot, Foreign, Stoppers, Finishing, Counting,
      BeforeBegin,
            BodyDue, Open, OutcomeDue, Running, SlotAssumption
<1>1. TypeOK
  <2>1. /\ epoch \in 0..MaxRuns /\ of \in [Threads -> 0..MaxRuns]
        /\ parties \in 0..2 /\ orphans \in 0..1 /\ inFlight \in 0..2 /\ finishes \in 0..1
    OBVIOUS
  <2>2. /\ ledger \in BOOLEAN /\ stopped \in BOOLEAN /\ registered \in BOOLEAN
        /\ armed \in BOOLEAN /\ firing \in BOOLEAN /\ serviced \in BOOLEAN
    OBVIOUS
  <2> QED
    BY <2>1, <2>2 DEF TypeOK
<1>2. Places /\ OfThisRun /\ RunPlace /\ PartiesDue
  BY DEF Places, OfThisRun, RunPlace, PartiesDue
<1>3. OneArrival /\ OneFinisher /\ CountExact
  BY DEF OneArrival, OneFinisher, CountExact
<1>4. Callback /\ Deadlined /\ Completions /\ Begun /\ Destroyed
  BY DEF Callback, Deadlined, Completions, Begun, Destroyed
<1> QED
  BY <1>1, <1>2, <1>3, <1>4 DEF SlotInv

LEMMA SlotStep ==
  ASSUME SlotAssumption, SlotInv, [Next]_vars
  PROVE  SlotInv'
<1>1. CASE BodyStep
  BY <1>1, KeepsRefuseBody, KeepsResetSlot, KeepsArm, KeepsCountInFlight, KeepsRegister,
     KeepsBegin DEF BodyStep
<1>2. CASE Signal \/ ReleaseLate \/ ReleaseOrphan \/ Fire \/ Fired \/ Cancel
  BY <1>2, KeepsSignal, KeepsReleaseLate, KeepsReleaseOrphan, KeepsFire, KeepsFired, KeepsCancel
<1>3. ASSUME NEW t \in Threads, PartyStep(t) PROVE SlotInv'
  BY <1>3, KeepsRequest, KeepsStop, KeepsArrive, KeepsDeliver, KeepsDispatch, KeepsUndeliver,
     KeepsUnregister, KeepsDrain, KeepsOrphanIfHeld, KeepsFinish DEF PartyStep
<1>4. CASE StartRun \/ RunStep \/ Destroy
  BY <1>4, KeepsStartRun, KeepsAwaitDeferred, KeepsEndRun, KeepsDestroy DEF RunStep
<1>5. CASE UNCHANGED vars
  BY <1>5
     DEF vars, slot, stop, deadline, SlotInv, TypeOK, Places, OfThisRun, RunPlace, PartiesDue,
     OneArrival, OneFinisher, CountExact, Callback, Deadlined, Completions, Begun, Destroyed,
     BodyDue, Open, OutcomeDue, Running
<1> QED
  BY <1>1, <1>2, <1>3, <1>4, <1>5 DEF Next

\* What the invariant says about the slot's parties.
LEMMA SlotPromises ==
  ASSUME SlotAssumption, SlotInv
  PROVE  NoStaleParty /\ QuietAfterRun
<1>1. Running => \A t \in Threads : pc[t] \in InSlot => of[t] = epoch
  BY DEF SlotInv, OfThisRun
<1>2. run = "destroyed" =>
        ~ledger /\ \A t \in Threads : pc[t] \notin InSlot \cup {"release", "fired"}
  BY NoneLeft DEF SlotInv, Destroyed, Running, Threads, InSlot
<1>3. ASSUME run = "idle", epoch > 0
      PROVE  /\ finishes = 1 /\ inFlight = 0
             /\ ~registered /\ ~armed /\ ~firing /\ inCallback = "none"
             /\ \A t \in Threads \ {"completer"} : pc[t] \in {"out", "request"}
             /\ pc["completer"] \in {"held", "late", "release"} <=> orphans = 1
  <2>1. finishes = 1 /\ inFlight = 0
    BY <1>3 DEF SlotInv, RunPlace
  <2> QED
    BY <1>3, <2>1, NoneLeft DEF Running, Threads
<1>4. NoStaleParty
  BY <1>1, <1>2 DEF NoStaleParty, Running
<1>5. QuietAfterRun
  BY <1>3 DEF QuietAfterRun
<1> QED
  BY <1>4, <1>5

(* DeferredSlot: the inductive invariant of the slot, its stop callback, its deadline and
   the orphan ledger, for any number of runs, whatever threads the executor runs
   continuations on, with and without a timeout. *)
THEOREM SlotInvariance ==
  ASSUME SlotAssumption
  PROVE  Spec => []SlotInv
<1>1. Init => SlotInv
  BY SlotInit
<1>2. SlotInv /\ [Next]_vars => SlotInv'
  BY SlotStep
<1> QED
  BY <1>1, <1>2, PTL DEF Spec

(* startDeferred() resets the slot of a job in every run: no thread that still uses it
   for an earlier run is left then, and none uses the slot or the orphan ledger once
   ~Impl() has joined the orphans. *)
THEOREM NoPartyOutlivesItsRun ==
  ASSUME SlotAssumption
  PROVE  Spec => []NoStaleParty
<1>1. SlotInv => NoStaleParty
  BY SlotPromises
<1> QED
  BY <1>1, SlotInvariance, PTL

(* awaitDeferredThreaded() and the last releaseRegistrations(): when run() has returned
   the job was finished exactly once, nothing is counted, registered or expiring, and a
   Completion that is still held is in the orphan ledger. *)
THEOREM RunLeavesOnlyOrphans ==
  ASSUME SlotAssumption
  PROVE  Spec => []QuietAfterRun
<1>1. SlotInv => QuietAfterRun
  BY SlotPromises
<1> QED
  BY <1>1, SlotInvariance, PTL

(* releaseRegistrations() must not be called from inside the deadline's expiry: as long as
   the executor does not run continuations inline on the timer thread, that thread never
   reaches the cancelAndWait() that would wait for itself. *)
THEOREM TimerNeverWaitsForItself ==
  ASSUME SlotAssumption, "timer" \notin InlineOn
  PROVE  Spec => []NeverWaitsForItself
<1>1. SlotInv => NeverWaitsForItself
  BY DEF SlotInv, Places, NeverWaitsForItself
<1> QED
  BY <1>1, SlotInvariance, PTL

\* Whoever finishes the job is alone, and both the body and the outcome have arrived.
FinishedBySecond ==
  \A t \in Threads : pc[t] \in Finishing =>
    /\ parties = 0 /\ outcome # "none" /\ finishes = 0
    /\ pc["body"] \notin BeforeBegin \cup {"arrive"}
    /\ \A s \in Threads \ {t} : pc[s] \notin Finishing \cup {"arrive"}

(* The rendezvous of parties: the job is finished by one thread, the second to arrive,
   and not before the body has returned and the outcome is decided. *)
THEOREM SecondArrivalFinishes ==
  ASSUME SlotAssumption
  PROVE  Spec => []FinishedBySecond
<1>1. SlotInv => FinishedBySecond
  <2> SUFFICES ASSUME SlotInv, NEW t \in Threads, pc[t] \in Finishing
               PROVE  /\ parties = 0 /\ outcome # "none" /\ finishes = 0
                      /\ pc["body"] \notin BeforeBegin \cup {"arrive"}
                      /\ \A s \in Threads \ {t} : pc[s] \notin Finishing \cup {"arrive"}
    BY DEF FinishedBySecond
  <2>1. parties = 0 /\ Open
    BY DEF SlotInv, OneFinisher
  <2>2. ~BodyDue /\ ~OutcomeDue
    BY <2>1 DEF SlotInv, PartiesDue
  <2>3. \A s \in Threads \ {t} : pc[s] \notin Finishing
    BY DEF SlotInv, OneFinisher
  <2>4. pc["continuation"] # "arrive"
    BY DEF SlotInv, Places
  <2> QED
    BY <2>1, <2>2, <2>3, <2>4 DEF Open, BodyDue, OutcomeDue, BeforeBegin, Foreign, Threads
<1> QED
  BY <1>1, SlotInvariance, PTL

\* The slot is only ever reset with no other thread in it; within a run the outcome is
\* decided once and the job finished once.
SlotDiscipline ==
  /\ parties' > parties => \A t \in Threads \ {"body"} : pc[t] \notin InSlot \cup {"release"}
  /\ outcome' # outcome => outcome = "none" \/ (outcome' = "none" /\ pc["body"] = "start")
  /\ finishes' # finishes => (finishes = 0 /\ finishes' = 1) \/ epoch' = epoch + 1

(* No step of any thread resets a slot in use, decides an outcome twice or finishes the
   job a second time. *)
THEOREM SlotIsDisciplined ==
  ASSUME SlotAssumption
  PROVE  Spec => [][SlotDiscipline]_vars
<1>1. ASSUME SlotInv, SlotInv', Next PROVE SlotDiscipline
  <2> DEFINE Only == /\ parties' > parties => pc["body"] = "start"
                     /\ outcome' # outcome =>
                          outcome = "none" \/ (outcome' = "none" /\ pc["body"] = "start")
                     /\ finishes' # finishes => finishes' = finishes + 1 \/ epoch' = epoch + 1
  <2>1. parties \in Nat /\ finishes \in 0..1 /\ finishes' \in 0..1
    BY <1>1 DEF SlotInv, TypeOK
  <2>2. Only
    <3>1. CASE BodyStep
      BY <1>1, <2>1, <3>1
         DEF BodyStep, RefuseBody, ResetSlot, Arm, CountInFlight, Register, Begin,
         SlotInv, Callback, slot
    <3>2. CASE Signal \/ ReleaseLate \/ ReleaseOrphan \/ Fire \/ Fired \/ Cancel
      BY <2>1, <3>2 DEF Signal, ReleaseLate, ReleaseOrphan, Fire, Fired, Cancel, slot
    <3>3. ASSUME NEW t \in Threads, PartyStep(t) PROVE Only
      <4>1. CASE Request(t) \/ Stop(t) \/ Arrive(t) \/ Deliver(t) \/ Dispatch(t) \/ Undeliver(t)
        BY <2>1, <4>1 DEF Request, Stop, Arrive, Deliver, Dispatch, Undeliver, slot
      <4>2. CASE Unregister(t) \/ Drain(t) \/ OrphanIfHeld(t) \/ Finish(t)
        BY <2>1, <4>2 DEF Unregister, Drain, OrphanIfHeld, Finish, slot
      <4> QED
        BY <3>3, <4>1, <4>2 DEF PartyStep
    <3>4. CASE StartRun \/ RunStep \/ Destroy
      BY <2>1, <3>4 DEF StartRun, RunStep, AwaitDeferred, EndRun, Destroy, slot
    <3> QED
      BY <1>1, <3>1, <3>2, <3>3, <3>4 DEF Next
  <2>3. ASSUME pc["body"] = "start"
        PROVE  \A t \in Threads \ {"body"} : pc[t] \notin InSlot \cup {"release"}
    <3>1. pc["completer"] = "out" /\ inCallback = "none"
      BY <1>1, <2>3 DEF SlotInv, Callback
    <3>2. pc["continuation"] = "out"
      BY <1>1, <2>3 DEF SlotInv, Places, OneFinisher, Open, Threads, Finishing
    <3>3. /\ pc["timer"] \notin InSlot \cup {"release"}
          /\ pc["canceller"] \notin InSlot \cup {"release"}
      BY <1>1, <3>1 DEF SlotInv, Callback, Places, Stoppers, InSlot, Finishing
    <3> QED
      BY <3>1, <3>2, <3>3 DEF Threads, InSlot
  <2> QED
    BY <2>1, <2>2, <2>3 DEF SlotDiscipline
<1>2. SlotInv /\ SlotInv' /\ [Next]_vars => [SlotDiscipline]_vars
  BY <1>1
<1> QED
  BY <1>2, SlotInvariance, PTL DEF Spec
=============================================================================
