---------------------------- MODULE DeferredSlot ----------------------------
(***************************************************************************)
(* One deferred job of a threaded pipeline (DeferredSlot, DeferredOrphans, *)
(* Completion, and startDeferred() to awaitDeferredThreaded() in           *)
(* src/sub0pipeline.cpp) through consecutive runs: the body, the holder of *)
(* the Completion, the timer thread and a thread that cancels the job race *)
(* for its outcome; the one that arrives second has it finished.  Unlike   *)
(* in Scheduler, every access to the slot is a step of its own and threads *)
(* of an earlier run may still be about.                                   *)
(***************************************************************************)
EXTENDS Naturals, FiniteSets

CONSTANTS
  Timed,            \* the job has a timeout
  InlineOn,         \* threads on which dispatch() may run a continuation inline
  MaxRuns           \* bound: how often the pipeline runs

\* The executor's threads for body and continuation, and three foreign ones.
Threads == {"body", "continuation", "timer", "canceller", "completer"}

SlotAssumption ==
  Timed \in BOOLEAN /\ InlineOn \subseteq Threads /\ MaxRuns \in Nat

VARIABLES
  pc,           \* where each thread is
  of,           \* the run each thread acts for
  epoch,        \* the number of runs begun
  run,          \* where the run thread is
  outcome,      \* DeferredSlot::outcome
  parties,      \* DeferredSlot::parties
  flags,        \* DeferredSlot::handleFlags
  orphans,      \* DeferredOrphans::count
  ledger,       \* a thread is leaving DeferredOrphans::release() and still holds mtx
  stopped,      \* a stop was requested on the job's stop source
  registered,   \* the stop callback exists
  inCallback,   \* the thread that executes it, or "none"
  armed,        \* the deadline is queued at the deadline service
  firing,       \* the service is expiring it
  serviced,     \* DeferredSlot::deadlineService is set
  inFlight,     \* deferredInFlight
  finishes      \* how often the job was finished in this run

slot == <<outcome, parties, flags>>
stop == <<stopped, registered, inCallback>>
deadline == <<armed, firing, serviced>>
vars == <<pc, of, epoch, run, slot, orphans, ledger, stop, deadline, inFlight, finishes>>

Start ==
  /\ pc = [t \in Threads |-> "out"]
  /\ of = [t \in Threads |-> 0]
  /\ epoch = 0
  /\ outcome = "none" /\ parties = 0 /\ flags = {}
  /\ orphans = 0 /\ ledger = FALSE
  /\ stopped = FALSE /\ registered = FALSE /\ inCallback = "none"
  /\ armed = FALSE /\ firing = FALSE /\ serviced = FALSE
  /\ inFlight = 0
  /\ finishes = 0

Init == Start /\ run = "idle"

\* A pipeline that was destroyed without being run.
Unused == Start /\ run = "destroyed"

Goto(t, to) == pc' = [pc EXCEPT ![t] = to]

\* What t does when its call into the slot returns.
Return(t) == Goto(t, IF t = "timer" THEN "fired" ELSE "out")

----------------------------------------------------------------------------
(* startDeferred(), on an executor thread *)

\* A stop before the body: the job is finished as cancelled and the slot is not used.
RefuseBody ==
  /\ pc["body"] = "start" /\ stopped
  /\ finishes' = finishes + 1
  /\ Goto("body", "out")
  /\ UNCHANGED <<of, epoch, run, slot, orphans, ledger, stop, deadline, inFlight>>

ResetSlot ==
  /\ pc["body"] = "start" /\ ~stopped
  /\ outcome' = "none" /\ parties' = 2 /\ flags' = {}
  /\ Goto("body", IF Timed THEN "arm" ELSE "count")
  /\ UNCHANGED <<of, epoch, run, orphans, ledger, stop, deadline, inFlight, finishes>>

\* The deadline is registered, or the job fails with kDeadlineUnavailable.
Arm ==
  /\ pc["body"] = "arm"
  /\ \/ /\ armed' = TRUE /\ serviced' = TRUE
        /\ Goto("body", "count")
        /\ UNCHANGED <<firing, finishes>>
     \/ /\ finishes' = finishes + 1
        /\ Goto("body", "out")
        /\ UNCHANGED deadline
  /\ UNCHANGED <<of, epoch, run, slot, orphans, ledger, stop, inFlight>>

CountInFlight ==
  /\ pc["body"] = "count"
  /\ inFlight' = inFlight + 1
  /\ Goto("body", "register")
  /\ UNCHANGED <<of, epoch, run, slot, orphans, ledger, stop, deadline, finishes>>

\* stopCallback.emplace() runs stop() at once when a stop came first.
Register ==
  /\ pc["body"] = "register"
  /\ registered' = TRUE
  /\ \/ /\ stopped
        /\ outcome' = "stopped" /\ parties' = parties - 1
     \/ /\ ~stopped
        /\ UNCHANGED <<outcome, parties>>
  /\ Goto("body", "begin")
  /\ UNCHANGED <<of, epoch, run, flags, orphans, ledger, stopped, inCallback, deadline, inFlight,
                 finishes>>

\* slot.start(slot.handle()): from now on the work holds the Completion.
Begin ==
  /\ pc["body"] = "begin"
  /\ pc' = [pc EXCEPT !["body"] = "arrive", !["completer"] = "held"]
  /\ of' = [of EXCEPT !["completer"] = epoch]
  /\ UNCHANGED <<epoch, run, slot, orphans, ledger, stop, deadline, inFlight, finishes>>

----------------------------------------------------------------------------
(* The outcome: Completion, deadline and cancellation *)

\* Completion::complete() or its destructor: signal().
Signal ==
  /\ pc["completer"] = "held"
  /\ \/ /\ outcome = "none" /\ outcome' = "signalled"
        /\ Goto("completer", "arrive")
     \/ /\ outcome # "none" /\ UNCHANGED outcome
        /\ Goto("completer", "late")
  /\ UNCHANGED <<of, epoch, run, parties, flags, orphans, ledger, stop, deadline, inFlight,
                 finishes>>

\* releaseLate(): a Completion that lost against the stop.
ReleaseLate ==
  /\ pc["completer"] = "late"
  /\ flags' = flags \cup {"released"}
  /\ Goto("completer", IF "orphaned" \in flags THEN "release" ELSE "out")
  /\ UNCHANGED <<of, epoch, run, outcome, parties, orphans, ledger, stop, deadline, inFlight,
                 finishes>>

\* DeferredOrphans::release() counts down under mtx; the thread may be on its way out
\* of it long after.
ReleaseOrphan ==
  /\ \/ /\ pc["completer"] = "release" /\ ~ledger
        /\ ledger' = TRUE
        /\ orphans' = orphans - 1
        /\ Goto("completer", "out")
     \/ /\ ledger
        /\ ledger' = FALSE
        /\ UNCHANGED <<pc, orphans>>
  /\ UNCHANGED <<of, epoch, run, slot, stop, deadline, inFlight, finishes>>

\* The deadline service takes the deadline out of its queue to expire it.
Fire ==
  /\ armed /\ pc["timer"] = "out"
  /\ armed' = FALSE /\ firing' = TRUE
  /\ of' = [of EXCEPT !["timer"] = epoch]
  /\ Goto("timer", "request")
  /\ UNCHANGED <<epoch, run, slot, orphans, ledger, stop, serviced, inFlight, finishes>>

\* The expiry has returned to the service.
Fired ==
  /\ pc["timer"] = "fired"
  /\ firing' = FALSE
  /\ Goto("timer", "out")
  /\ UNCHANGED <<of, epoch, run, slot, orphans, ledger, stop, armed, serviced, inFlight, finishes>>

\* Job::cancel() copies the stop source of the current run.
Cancel ==
  /\ pc["canceller"] = "out" /\ epoch > 0 /\ run # "destroyed"
  /\ of' = [of EXCEPT !["canceller"] = epoch]
  /\ Goto("canceller", "request")
  /\ UNCHANGED <<epoch, run, slot, orphans, ledger, stop, deadline, inFlight, finishes>>

\* request_stop(): the first one runs the callback, if there is one, on its thread.
Request(t) ==
  /\ pc[t] = "request"
  /\ \/ /\ of[t] = epoch /\ ~stopped
        /\ stopped' = TRUE
        /\ \/ registered /\ inCallback' = t /\ Goto(t, "stop")
           \/ ~registered /\ Return(t) /\ UNCHANGED inCallback
     \/ /\ of[t] # epoch \/ stopped
        /\ Return(t)
        /\ UNCHANGED <<stopped, inCallback>>
  /\ UNCHANGED <<of, epoch, run, slot, orphans, ledger, registered, deadline, inFlight, finishes>>

\* stop(), inside the callback.
Stop(t) ==
  /\ pc[t] = "stop"
  /\ \/ /\ outcome = "none" /\ outcome' = "stopped"
        /\ Goto(t, "arrive")
        /\ UNCHANGED inCallback
     \/ /\ outcome # "none" /\ inCallback' = "none"
        /\ Return(t)
        /\ UNCHANGED outcome
  /\ UNCHANGED <<of, epoch, run, parties, flags, orphans, ledger, stopped, registered, deadline,
                 inFlight, finishes>>

LeaveCallback(t) == inCallback' = IF inCallback = t THEN "none" ELSE inCallback

----------------------------------------------------------------------------
(* Arrival and delivery *)

\* The second arrival finishes the job: the body itself, or through the executor.
Arrive(t) ==
  /\ pc[t] = "arrive"
  /\ parties' = parties - 1
  /\ \/ /\ parties = 1
        /\ Goto(t, IF t = "body" THEN "unregister" ELSE "deliver")
        /\ UNCHANGED inCallback
     \/ /\ parties # 1
        /\ Return(t)
        /\ LeaveCallback(t)
  /\ UNCHANGED <<of, epoch, run, outcome, flags, orphans, ledger, stopped, registered, deadline,
                 inFlight, finishes>>

\* deliverDeferred() counts its own call.
Deliver(t) ==
  /\ pc[t] = "deliver"
  /\ inFlight' = inFlight + 1
  /\ Goto(t, "dispatch")
  /\ UNCHANGED <<of, epoch, run, slot, orphans, ledger, stop, deadline, finishes>>

\* Mutant: the thread that finishes a rejected continuation releases the registrations.
MutDispatch(t) ==
  /\ pc[t] = "dispatch"
  /\ \/ /\ pc' = [pc EXCEPT ![t] = "undeliver", !["continuation"] = "unregister"]
        /\ of' = [of EXCEPT !["continuation"] = epoch]
     \/ Goto(t, "unregister") /\ UNCHANGED of
  /\ UNCHANGED <<epoch, run, slot, orphans, ledger, stop, deadline, inFlight, finishes>>

\* The executor accepts the continuation, runs it before it returns, or rejects it:
\* then this thread finishes the job and leaves the registrations to the run.
Dispatch(t) ==
  /\ pc[t] = "dispatch"
  /\ \/ /\ pc' = [pc EXCEPT ![t] = "undeliver", !["continuation"] = "unregister"]
        /\ of' = [of EXCEPT !["continuation"] = epoch]
     \/ t \in InlineOn /\ Goto(t, "unregister") /\ UNCHANGED of
     \/ Goto(t, "orphan") /\ UNCHANGED of
  /\ UNCHANGED <<epoch, run, slot, orphans, ledger, stop, deadline, inFlight, finishes>>

\* Mutant: the foreign call is not counted down.
MutUndeliver(t) ==
  /\ pc[t] = "undeliver"
  /\ Return(t)
  /\ LeaveCallback(t)
  /\ UNCHANGED <<of, epoch, run, slot, orphans, ledger, stopped, registered, deadline, inFlight,
                 finishes>>

\* deliverDeferred() returns, and with it the signal, the stop callback or expiry.
Undeliver(t) ==
  /\ pc[t] = "undeliver"
  /\ inFlight' = inFlight - 1
  /\ Return(t)
  /\ LeaveCallback(t)
  /\ UNCHANGED <<of, epoch, run, slot, orphans, ledger, stopped, registered, deadline, finishes>>

----------------------------------------------------------------------------
(* finishDeferred() *)

\* ~stop_callback() waits for a callback on another thread; cancelAndWait() removes
\* the deadline.
ReleaseRegistrations ==
  /\ registered' = FALSE
  /\ armed' = IF serviced THEN FALSE ELSE armed
  /\ serviced' = FALSE
  /\ UNCHANGED <<stopped, inCallback, firing>>

Unregister(t) ==
  /\ pc[t] = "unregister"
  /\ inCallback \in {"none", t}
  /\ ReleaseRegistrations
  /\ Goto(t, IF serviced THEN "drain" ELSE "orphan")
  /\ UNCHANGED <<of, epoch, run, slot, orphans, ledger, inFlight, finishes>>

\* cancelAndWait() waits for an expiry in progress, its own included.
Drain(t) ==
  /\ pc[t] = "drain" /\ ~firing
  /\ Goto(t, "orphan")
  /\ UNCHANGED <<of, epoch, run, slot, orphans, ledger, stop, deadline, inFlight, finishes>>

\* Mutant: a stopped job is an orphan even if its Completion is gone.
MutOrphanIfHeld(t) ==
  /\ pc[t] = "orphan" /\ ~ledger
  /\ \/ /\ outcome = "stopped"
        /\ flags' = flags \cup {"orphaned"}
        /\ orphans' = orphans + 1
     \/ /\ outcome # "stopped"
        /\ UNCHANGED <<flags, orphans>>
  /\ Goto(t, "finish")
  /\ UNCHANGED <<of, epoch, run, outcome, parties, ledger, stop, deadline, inFlight, finishes>>

\* orphanIfHeld(), under the ledger's mutex.
OrphanIfHeld(t) ==
  /\ pc[t] = "orphan" /\ ~ledger
  /\ \/ /\ outcome = "stopped" /\ "released" \notin flags
        /\ flags' = flags \cup {"orphaned"}
        /\ orphans' = orphans + 1
     \/ /\ outcome # "stopped" \/ "released" \in flags
        /\ UNCHANGED <<flags, orphans>>
  /\ Goto(t, "finish")
  /\ UNCHANGED <<of, epoch, run, outcome, parties, ledger, stop, deadline, inFlight, finishes>>

\* finishCold(), then the count; a foreign thread is still inside deliverDeferred().
Finish(t) ==
  /\ pc[t] = "finish"
  /\ finishes' = finishes + 1
  /\ inFlight' = inFlight - 1
  /\ Goto(t, IF t \in {"body", "continuation"} THEN "out" ELSE "undeliver")
  /\ UNCHANGED <<of, epoch, run, slot, orphans, ledger, stop, deadline>>

----------------------------------------------------------------------------
(* The run thread *)

\* DeferredOrphans::wait() lets the caller go on.
OrphansJoined == orphans = 0

ExecutorIdle == pc["body"] = "out" /\ pc["continuation"] = "out"

\* Mutant: a run does not wait for the orphans of the last one.
MutStartRun ==
  /\ run = "idle" /\ epoch < MaxRuns
  /\ epoch' = epoch + 1
  /\ stopped' = FALSE
  /\ finishes' = 0
  /\ pc' = [pc EXCEPT !["body"] = "start"]
  /\ of' = [of EXCEPT !["body"] = epoch + 1]
  /\ run' = "waitAll"
  /\ UNCHANGED <<slot, orphans, ledger, registered, inCallback, deadline, inFlight>>

\* runImpl() joins the orphans, renews the stop source and dispatches the body.
StartRun ==
  /\ run = "idle" /\ epoch < MaxRuns /\ OrphansJoined
  /\ epoch' = epoch + 1
  /\ stopped' = FALSE
  /\ finishes' = 0
  /\ pc' = [pc EXCEPT !["body"] = "start"]
  /\ of' = [of EXCEPT !["body"] = epoch + 1]
  /\ run' = "waitAll"
  /\ UNCHANGED <<slot, orphans, ledger, registered, inCallback, deadline, inFlight>>

\* executor.waitAll(), awaitDeferredThreaded() and the last releaseRegistrations().
AwaitDeferred ==
  /\ \/ run = "waitAll" /\ ExecutorIdle /\ run' = "await"
     \/ run = "await" /\ inFlight = 0 /\ run' = "waitAgain"
     \/ run = "waitAgain" /\ ExecutorIdle /\ run' = "recheck"
     \/ run = "recheck" /\ run' = IF inFlight = 0 THEN "unregister" ELSE "await"
  /\ UNCHANGED <<pc, of, epoch, slot, orphans, ledger, stop, deadline, inFlight, finishes>>

EndRun ==
  /\ \/ /\ run = "unregister" /\ inCallback = "none"
        /\ ReleaseRegistrations
        /\ run' = IF serviced THEN "drain" ELSE "idle"
     \/ /\ run = "drain" /\ ~firing
        /\ run' = "idle"
        /\ UNCHANGED <<stop, deadline>>
  /\ UNCHANGED <<pc, of, epoch, slot, orphans, ledger, inFlight, finishes>>

\* ~Impl(): joinOrphans() takes the ledger's mutex.
Destroy ==
  /\ run = "idle" /\ OrphansJoined /\ ~ledger
  /\ pc["canceller"] = "out"
  /\ run' = "destroyed"
  /\ UNCHANGED <<pc, of, epoch, slot, orphans, ledger, stop, deadline, inFlight, finishes>>

----------------------------------------------------------------------------

BodyStep == RefuseBody \/ ResetSlot \/ Arm \/ CountInFlight \/ Register \/ Begin

PartyStep(t) ==
  \/ Request(t) \/ Stop(t) \/ Arrive(t) \/ Deliver(t) \/ Dispatch(t) \/ Undeliver(t)
  \/ Unregister(t) \/ Drain(t) \/ OrphanIfHeld(t) \/ Finish(t)

RunStep == AwaitDeferred \/ EndRun

Next ==
  \/ BodyStep \/ Signal \/ ReleaseLate \/ ReleaseOrphan \/ Fire \/ Fired \/ Cancel
  \/ \E t \in Threads : PartyStep(t)
  \/ StartRun \/ RunStep \/ Destroy

\* Threads run and a due deadline fires.  The work completes for sure only when the
\* job has no timeout that would do without.
Fairness ==
  /\ WF_vars(BodyStep) /\ WF_vars(ReleaseLate) /\ WF_vars(ReleaseOrphan)
  /\ WF_vars(Fire) /\ WF_vars(Fired)
  /\ Timed \/ WF_vars(Signal)
  /\ \A t \in Threads : WF_vars(PartyStep(t))
  /\ WF_vars(RunStep)

Spec == Init /\ [][Next]_vars
FairSpec == Spec /\ Fairness

----------------------------------------------------------------------------
(* Properties *)

InSlot == {"held", "late", "stop", "arrive", "deliver", "dispatch", "undeliver", "unregister",
           "drain", "orphan", "finish"}

TypeOK ==
  /\ pc \in [Threads -> InSlot \cup {"out", "start", "arm", "count", "register", "begin",
                                     "release", "request", "fired"}]
  /\ of \in [Threads -> 0..MaxRuns] /\ epoch \in 0..MaxRuns
  /\ run \in {"idle", "waitAll", "await", "waitAgain", "recheck", "unregister", "drain",
             "destroyed"}
  /\ outcome \in {"none", "signalled", "stopped"}
  /\ parties \in 0..2 /\ flags \subseteq {"released", "orphaned"}
  /\ orphans \in 0..1 /\ ledger \in BOOLEAN
  /\ stopped \in BOOLEAN /\ registered \in BOOLEAN /\ inCallback \in Threads \cup {"none"}
  /\ armed \in BOOLEAN /\ firing \in BOOLEAN /\ serviced \in BOOLEAN
  /\ inFlight \in 0..2 /\ finishes \in 0..1

\* A later run resets the slot of a job whose Completion, stop callback and deadline
\* belong to foreign threads: none of them is still using it for an earlier run, and
\* when the pipeline is destroyed none is using the slot or the orphan ledger.
NoStaleParty ==
  /\ run \notin {"idle", "destroyed"} => \A t \in Threads : pc[t] \in InSlot => of[t] = epoch
  /\ run = "destroyed" =>
       ~ledger /\ \A t \in Threads : pc[t] \notin InSlot \cup {"release", "fired"}

\* While no run is active only an orphan is left of the job: the finish happened once,
\* nothing is counted, registered or expiring, and a Completion still held or being
\* released late is in the ledger, unless its release has already been noted.
QuietAfterRun ==
  run = "idle" /\ epoch > 0 =>
    /\ finishes = 1 /\ inFlight = 0
    /\ ~registered /\ ~armed /\ ~firing /\ inCallback = "none"
    /\ \A t \in Threads \ {"completer"} : pc[t] \in {"out", "request"}
    /\ pc["completer"] \in {"held", "late", "release"} <=> orphans = 1

\* releaseRegistrations() says "Never call from inside this job's stop callback or
\* deadline expiry": the timer thread never gets to the cancelAndWait() that waits
\* for the expiry it is itself executing.
NeverWaitsForItself == ~(pc["timer"] = "drain" /\ firing)

\* A run is in progress.
Running == run \notin {"idle", "destroyed"}
=============================================================================
