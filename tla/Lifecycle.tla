----------------------------- MODULE Lifecycle -----------------------------
(***************************************************************************)
(* A Pipeline across its calls: run(), RunScope, trigger(),                *)
(* Job::cancel(), joinOrphans() and the destructor, with the timed bodies  *)
(* that outlive a call (src/src/sub0pipeline.cpp, run_scope.hpp).          *)
(*                                                                         *)
(* The graph has no edges here: what happens between the jobs of one run   *)
(* is the subject of Scheduler.  An invocation is numbered by the epoch    *)
(* that renewed its job's cancellation state, and so is a stop source.     *)
(***************************************************************************)
EXTENDS Integers, FiniteSets

CONSTANTS
  Jobs, Timed,      \* Timed jobs have a timeout
  Callers,          \* threads that call run(), trigger(), joinOrphans() or destroy the pipeline
  Cancellers,       \* threads that call Job::cancel()
  MaxCalls          \* bound on run(), trigger() and cancel() calls together

ASSUME LifecycleAssumption ==
  /\ IsFiniteSet(Jobs) /\ Timed \subseteq Jobs
  /\ IsFiniteSet(Callers) /\ "nobody" \notin Callers
  /\ IsFiniteSet(Cancellers) /\ MaxCalls \in Nat

None == -1

VARIABLES
  onDemand,       \* jobs that run only by trigger()
  cancellable,    \* jobs whose body takes a stop token
  service,        \* deadlines_ is set
  running,        \* running_
  epoch,          \* renewals so far
  source,         \* node.stopSource_ of each job
  requests,       \* stops requested: the job, the source, who asked and in which epoch
  status,         \* jobStatus_
  inv,            \* where the executor's thread is in each job's latest invocation
  began,          \* the epoch of that invocation
  token,          \* the source it was given
  alarm,          \* its watchdog thread or Deadline
  bodies,         \* bodies running on threads of their own: job and epoch
  orphans,        \* orphanThreads_
  pendingOrphans, \* pendingOrphans_
  batch,          \* what the joiner swapped out of orphanThreads_
  joining,        \* the caller that holds joinMtx_
  pc, ret,        \* where each caller is, and where it goes on after joining
  target,         \* the job a caller triggers
  scope,          \* the epoch of the RunScope whose thread the caller is, 0 before it has one
  external,       \* callers whose stop token was stopped
  forwarding,     \* jobs ForwardStop has still to stop, for each caller
  cancel,         \* what each canceller copied: job, source and epoch
  calls

config == <<onDemand, cancellable, service>>
stopping == <<source, requests>>
invoking == <<status, inv, began, token, alarm, bodies>>
joins == <<orphans, pendingOrphans, batch, joining>>
calling == <<pc, ret, target, scope>>
outside == <<external, forwarding, cancel>>

vars == <<config, running, epoch, stopping, invoking, joins, calling, outside, calls>>

Nobody == "nobody"

Start ==
  /\ running = FALSE
  /\ epoch = 0
  /\ source = [j \in Jobs |-> 0]
  /\ requests = {}
  /\ status = [j \in Jobs |-> "kPending"]
  /\ inv = [j \in Jobs |-> "none"]
  /\ began = [j \in Jobs |-> None]
  /\ token = [j \in Jobs |-> None]
  /\ alarm = [j \in Jobs |-> "off"]
  /\ bodies = {}
  /\ orphans = {} /\ pendingOrphans = 0 /\ batch = {} /\ joining = Nobody
  /\ ret = [c \in Callers |-> "idle"]
  /\ target = [c \in Callers |-> Nobody]
  /\ scope = [c \in Callers |-> None]
  /\ external = {}
  /\ forwarding = [c \in Callers |-> {}]
  /\ cancel = [k \in Cancellers |-> <<>>]
  /\ calls = 0

Init ==
  /\ onDemand \in SUBSET Jobs
  /\ cancellable \in SUBSET Jobs
  /\ service \in BOOLEAN
  /\ pc = [c \in Callers |-> "idle"]
  /\ Start

\* A pipeline that was destroyed without being used.
Unused ==
  /\ onDemand = {} /\ cancellable = {} /\ service = FALSE
  /\ pc = [c \in Callers |-> "destroyed"]
  /\ Start

----------------------------------------------------------------------------
(* Stop sources *)

Stopped(j, s) == \E r \in requests : r.job = j /\ r.source = s

\* request_stop() on a copy of source s, by a requester that belongs to epoch e.
Request(j, s, who, e) == requests' = requests \cup {[job |-> j, source |-> s, by |-> who, epoch |-> e]}

\* Mutant: only a job that takes a token gets a new stop source.
MutRenewed(js, e) == [j \in Jobs |-> IF j \in js /\ j \in cancellable THEN e ELSE source[j]]

\* renewStopState(), for the jobs in js.
Renewed(js, e) ==
  [j \in Jobs |-> IF j \in js /\ (j \in cancellable \/ Stopped(j, source[j])) THEN e ELSE source[j]]

\* Mutant: threads that another caller is joining are not counted.
MutHasOrphans == orphans # {}

\* hasPendingOrphans().
HasOrphans == pendingOrphans # 0

Goto(c, label) == pc' = [pc EXCEPT ![c] = label]
Alive == \A c \in Callers : pc[c] # "destroyed" /\ ret[c] # "destroyed"

----------------------------------------------------------------------------
(* run() *)

\* "Do not overlap run()": no trigger() in progress, and no triggered job.
NoTrigger == /\ \A c \in Callers : pc[c] \notin {"checked", "submit"}
             /\ running \/ \A j \in Jobs : inv[j] = "none"

\* test_and_set; a second caller is refused with kBusy and has done nothing.  The caller's
\* stop token may be stopped already.
CallRun(c) ==
  /\ pc[c] = "idle" /\ Alive /\ calls < MaxCalls /\ NoTrigger
  /\ calls' = calls + 1
  /\ running' = TRUE
  /\ IF running THEN UNCHANGED <<pc, ret, scope, external>>
     ELSE /\ Goto(c, IF HasOrphans THEN "join" ELSE "renew")
          /\ ret' = [ret EXCEPT ![c] = "renew"]
          /\ \E e \in {None, 0} : scope' = [scope EXCEPT ![c] = e]
          /\ external' \in {external \ {c}, external \cup {c}}
  /\ UNCHANGED <<config, epoch, stopping, invoking, joins, target, forwarding, cancel>>

\* One critical section of stopMtx_ renews every job.
Renew(c) ==
  /\ pc[c] = "renew"
  /\ epoch' = epoch + 1
  /\ source' = Renewed(Jobs, epoch + 1)
  /\ status' = [j \in Jobs |-> IF j \in onDemand THEN "kPending" ELSE "kReady"]
  /\ began' = [j \in Jobs |-> IF j \in onDemand THEN began[j] ELSE epoch + 1]
  /\ scope' = [scope EXCEPT ![c] = IF @ = None THEN None ELSE epoch + 1]
  /\ Goto(c, "register")
  /\ UNCHANGED <<config, running, requests, inv, token, alarm, bodies, joins, ret, target, outside, calls>>

\* forwardStop.emplace(): calls back at once if the token is already stopped.
Register(c) ==
  /\ pc[c] = "register"
  /\ forwarding' = [forwarding EXCEPT ![c] = IF c \in external THEN Jobs ELSE {}]
  /\ Goto(c, IF c \in external THEN "forward" ELSE "dispatch")
  /\ UNCHANGED <<config, running, epoch, stopping, invoking, joins, ret, target, scope, external, cancel, calls>>

Forwarded(c) ==
  /\ pc[c] = "forward" /\ forwarding[c] = {}
  /\ Goto(c, "dispatch")
  /\ UNCHANGED <<config, running, epoch, stopping, invoking, joins, ret, target, scope, outside, calls>>

DispatchRoots(c) ==
  /\ pc[c] = "dispatch"
  /\ inv' = [j \in Jobs |-> IF j \in onDemand THEN inv[j] ELSE "queued"]
  /\ Goto(c, "wait")
  /\ UNCHANGED <<config, running, epoch, stopping, status, began, token, alarm, bodies, joins, ret, target, scope,
                 outside, calls>>

\* waitAll() has returned; ~stop_callback waits for a callback in progress; RunGuard clears
\* running_.  A RunScope's thread joins orphans next.
RunEnds(c) ==
  /\ pc[c] = "wait"
  /\ \A j \in Jobs : inv[j] = "none"
  /\ forwarding[c] = {}
  /\ running' = FALSE
  /\ Goto(c, IF scope[c] # None THEN "join" ELSE "idle")
  /\ ret' = [ret EXCEPT ![c] = IF scope[c] # None THEN "complete" ELSE "idle"]
  /\ external' = external \ {c}
  /\ UNCHANGED <<config, epoch, stopping, invoking, joins, target, scope, forwarding, cancel, calls>>

\* RunScope::join() returns, and the scope is destroyed.
ScopeEnds(c) ==
  /\ pc[c] = "complete"
  /\ Goto(c, "idle")
  /\ ret' = [ret EXCEPT ![c] = "idle"]
  /\ scope' = [scope EXCEPT ![c] = None]
  /\ UNCHANGED <<config, running, epoch, stopping, invoking, joins, target, outside, calls>>

\* The token given to the run is stopped: by its owner, or by ~RunScope.  The thread that stops
\* it runs ForwardStop if the registration exists.
StopExternal(c) ==
  /\ pc[c] \in {"join", "joining", "renew", "register", "dispatch", "wait"} /\ ret[c] = "renew"
  /\ c \notin external
  /\ external' = external \cup {c}
  /\ forwarding' = [forwarding EXCEPT ![c] = IF pc[c] \in {"dispatch", "wait"} THEN Jobs ELSE {}]
  /\ UNCHANGED <<config, running, epoch, stopping, invoking, joins, calling, cancel, calls>>

\* ForwardStop reads each node's source without the lock.
ForwardStop(c, j) ==
  /\ j \in forwarding[c]
  /\ Request(j, source[j], "run", epoch)
  /\ forwarding' = [forwarding EXCEPT ![c] = @ \ {j}]
  /\ UNCHANGED <<config, running, epoch, source, invoking, joins, calling, external, cancel, calls>>

----------------------------------------------------------------------------
(* trigger() *)

Leave(c) == Goto(c, "idle") /\ target' = [target EXCEPT ![c] = Nobody]

TriggerCheck(c, j) ==
  /\ pc[c] = "idle" /\ Alive /\ calls < MaxCalls
  /\ j \in onDemand
  /\ \A d \in Callers : pc[d] = "idle" \/ scope[d] = None
  /\ calls' = calls + 1
  /\ IF running \/ HasOrphans THEN UNCHANGED <<pc, target>>
     ELSE target' = [target EXCEPT ![c] = j] /\ Goto(c, "checked")
  /\ UNCHANGED <<config, running, epoch, stopping, invoking, joins, ret, scope, outside>>

\* The critical section of stopMtx_.
TriggerClaim(c) ==
  LET j == target[c] IN
  /\ pc[c] = "checked"
  /\ IF status[j] \in {"kReady", "kRunning"}
     THEN Leave(c) /\ UNCHANGED <<epoch, source, status, began>>
     ELSE /\ epoch' = epoch + 1
          /\ source' = Renewed({j}, epoch + 1)
          /\ began' = [began EXCEPT ![j] = epoch + 1]
          /\ status' = [status EXCEPT ![j] = "kReady"]
          /\ Goto(c, "submit") /\ UNCHANGED target
  /\ UNCHANGED <<config, running, requests, inv, token, alarm, bodies, joins, ret, scope, outside, calls>>

\* dispatch() accepts the job, or throws.
TriggerSubmit(c) ==
  LET j == target[c] IN
  /\ pc[c] = "submit"
  /\ \/ inv' = [inv EXCEPT ![j] = "queued"] /\ UNCHANGED status
     \/ status' = [status EXCEPT ![j] = "kFailed"] /\ UNCHANGED inv
  /\ Leave(c)
  /\ UNCHANGED <<config, running, epoch, stopping, began, token, alarm, bodies, joins, ret, scope, outside, calls>>

----------------------------------------------------------------------------
(* An invocation: invoke(), invokeTimed(), invokeWithDeadline() *)

Step(j, from, to) == inv[j] = from /\ inv' = [inv EXCEPT ![j] = to]
Body(j) == <<j, began[j]>>

\* The body starts, on the executor's thread or, timed and not cancellable, on one of its own.
\* Its deadline is armed first; an injected service may refuse, and the job fails.
Enter(j) ==
  /\ inv[j] = "queued"
  /\ status' = [status EXCEPT ![j] = "kRunning"]
  /\ token' = [token EXCEPT ![j] = source[j]]
  /\ \/ /\ Stopped(j, source[j])
        /\ Step(j, "queued", "finish") /\ UNCHANGED <<alarm, bodies>>
     \/ /\ ~Stopped(j, source[j]) /\ service /\ j \in Timed
        /\ Step(j, "queued", "finish") /\ UNCHANGED <<alarm, bodies>>
     \/ /\ ~Stopped(j, source[j])
        /\ IF j \in Timed \ cancellable
           THEN Step(j, "queued", "waiting") /\ bodies' = bodies \cup {Body(j)}
           ELSE Step(j, "queued", "inline") /\ UNCHANGED bodies
        /\ alarm' = [alarm EXCEPT ![j] = IF j \in Timed /\ (service \/ j \in cancellable) THEN "armed" ELSE "off"]
  /\ UNCHANGED <<config, running, epoch, stopping, began, joins, calling, outside, calls>>

\* The body returns on the executor's thread; what it armed is disarmed next.
BodyReturns(j) ==
  /\ Step(j, "inline", "disarm")
  /\ UNCHANGED <<config, running, epoch, stopping, status, began, token, alarm, bodies, joins, calling, outside, calls>>

\* The body returns on its own thread, awaited or orphaned.
HelperReturns(b) ==
  /\ b \in bodies
  /\ bodies' = bodies \ {b}
  /\ UNCHANGED <<config, running, epoch, stopping, status, inv, began, token, alarm, joins, calling, outside, calls>>

\* The watchdog, unless the job was stopped, or the service's thread finds the time up: expired
\* is set first.
AlarmFires(j) ==
  /\ alarm[j] = "armed"
  /\ service \/ ~Stopped(j, token[j])
  /\ alarm' = [alarm EXCEPT ![j] = "firing"]
  /\ UNCHANGED <<config, running, epoch, stopping, status, inv, began, token, bodies, joins, calling, outside, calls>>

AlarmStops(j) ==
  /\ alarm[j] = "firing"
  /\ Request(j, token[j], "run", began[j])
  /\ alarm' = [alarm EXCEPT ![j] = "off"]
  /\ UNCHANGED <<config, running, epoch, source, status, inv, began, token, bodies, joins, calling, outside, calls>>

\* A dispatcher that waits for a body on its own thread: the body has returned, or it is
\* abandoned, by the service's deadline or any other stop, or when its own wait times out.
HelperDone(j) ==
  /\ Body(j) \notin bodies
  /\ Step(j, "waiting", "disarm")
  /\ UNCHANGED <<config, running, epoch, stopping, status, began, token, alarm, bodies, joins, calling, outside, calls>>

HelperStopped(j) ==
  /\ service /\ Stopped(j, token[j])
  /\ Step(j, "waiting", "abandon")
  /\ UNCHANGED <<config, running, epoch, stopping, status, began, token, alarm, bodies, joins, calling, outside, calls>>

HelperTimesOut(j) ==
  /\ ~service
  /\ Step(j, "waiting", "abandon")
  /\ Request(j, source[j], "run", began[j])
  /\ UNCHANGED <<config, running, epoch, source, status, began, token, alarm, bodies, joins, calling, outside, calls>>

\* watchdog.join() or cancelAndWait(): an alarm not yet firing never will, one that is has ended.
Disarmed(j) == alarm[j] # "firing" /\ alarm' = [alarm EXCEPT ![j] = "off"]

Disarm(j) ==
  /\ Step(j, "disarm", "finish")
  /\ Disarmed(j)
  /\ UNCHANGED <<config, running, epoch, stopping, status, began, token, bodies, joins, calling, outside, calls>>

\* registration.reset() and retain().
Retain(j) ==
  /\ Step(j, "abandon", "finish")
  /\ Disarmed(j)
  /\ orphans' = orphans \cup {Body(j)}
  /\ pendingOrphans' = pendingOrphans + 1
  /\ UNCHANGED <<config, running, epoch, stopping, status, began, token, bodies, batch, joining, calling, outside, calls>>

\* The final status; which one it is, is Scheduler's subject.
Finish(j) ==
  /\ Step(j, "finish", "none")
  /\ status' = [status EXCEPT ![j] = "kDone"]
  /\ began' = [began EXCEPT ![j] = None]
  /\ token' = [token EXCEPT ![j] = None]
  /\ UNCHANGED <<config, running, epoch, stopping, alarm, bodies, joins, calling, outside, calls>>

----------------------------------------------------------------------------
(* joinOrphans(), from run(), a RunScope, the owner or the destructor *)

CallJoin(c) ==
  /\ pc[c] = "idle" /\ Alive /\ calls < MaxCalls
  /\ calls' = calls + 1
  /\ ret' = [ret EXCEPT ![c] = "idle"]
  /\ Goto(c, "join")
  /\ UNCHANGED <<config, running, epoch, stopping, invoking, joins, target, scope, outside>>

\* The owner destroys an idle pipeline whose executor has no job left.
Destroy(c) ==
  /\ Alive /\ \A d \in Callers : pc[d] = "idle"
  /\ \A k \in Cancellers : cancel[k] = <<>>
  /\ \A j \in Jobs : inv[j] = "none"
  /\ ret' = [ret EXCEPT ![c] = "destroyed"]
  /\ Goto(c, "join")
  /\ UNCHANGED <<config, running, epoch, stopping, invoking, joins, target, scope, outside, calls>>

NothingToJoin(c) ==
  /\ pc[c] = "join" /\ ~HasOrphans
  /\ Goto(c, ret[c])
  /\ UNCHANGED <<config, running, epoch, stopping, invoking, joins, ret, target, scope, outside, calls>>

JoinBegins(c) ==
  /\ pc[c] = "join" /\ HasOrphans /\ joining = Nobody
  /\ joining' = c
  /\ batch' = orphans
  /\ orphans' = {}
  /\ Goto(c, "joining")
  /\ UNCHANGED <<config, running, epoch, stopping, invoking, pendingOrphans, ret, target, scope, outside, calls>>

JoinEnds(c) ==
  /\ pc[c] = "joining"
  /\ batch \cap bodies = {}
  /\ pendingOrphans' = pendingOrphans - Cardinality(batch)
  /\ batch' = {}
  /\ joining' = Nobody
  /\ Goto(c, ret[c])
  /\ UNCHANGED <<config, running, epoch, stopping, invoking, orphans, ret, target, scope, outside, calls>>

----------------------------------------------------------------------------
(* Job::cancel() *)

\* Copies the source under stopMtx_.
CancelCopies(k, j) ==
  /\ Alive /\ calls < MaxCalls /\ cancel[k] = <<>>
  /\ calls' = calls + 1
  /\ cancel' = [cancel EXCEPT ![k] = <<j, source[j], epoch>>]
  /\ UNCHANGED <<config, running, epoch, stopping, invoking, joins, calling, external, forwarding>>

CancelStops(k) ==
  /\ cancel[k] # <<>>
  /\ Request(cancel[k][1], cancel[k][2], "cancel", cancel[k][3])
  /\ cancel' = [cancel EXCEPT ![k] = <<>>]
  /\ UNCHANGED <<config, running, epoch, source, invoking, joins, calling, external, forwarding, calls>>

----------------------------------------------------------------------------
(* The specification *)

RunSteps(c) == Renew(c) \/ Register(c) \/ Forwarded(c) \/ DispatchRoots(c) \/ RunEnds(c) \/ ScopeEnds(c)
TriggerSteps(c) == TriggerClaim(c) \/ TriggerSubmit(c)
JoinSteps(c) == NothingToJoin(c) \/ JoinBegins(c) \/ JoinEnds(c)
JobSteps(j) ==
  \/ Enter(j) \/ BodyReturns(j) \/ HelperDone(j) \/ HelperStopped(j)
  \/ AlarmStops(j) \/ Disarm(j) \/ Retain(j) \/ Finish(j)

Next ==
  \/ \E c \in Callers : CallRun(c) \/ CallJoin(c) \/ Destroy(c) \/ StopExternal(c)
  \/ \E c \in Callers : RunSteps(c) \/ TriggerSteps(c) \/ JoinSteps(c)
  \/ \E c \in Callers, j \in Jobs : TriggerCheck(c, j) \/ ForwardStop(c, j)
  \/ \E j \in Jobs : JobSteps(j) \/ AlarmFires(j) \/ HelperTimesOut(j)
  \/ \E b \in bodies : HelperReturns(b)
  \/ \E k \in Cancellers : CancelStops(k) \/ \E j \in Jobs : CancelCopies(k, j)

\* Threads make progress and every body returns; calls, stops and timeouts may not come.
Fairness ==
  /\ \A c \in Callers : /\ WF_vars(RunSteps(c) \/ TriggerSteps(c) \/ JoinSteps(c))
                        /\ WF_vars(\E j \in Jobs : ForwardStop(c, j))
  /\ \A j \in Jobs : WF_vars(JobSteps(j))
  /\ WF_vars(\E b \in bodies : HelperReturns(b))
  /\ \A k \in Cancellers : WF_vars(CancelStops(k))

Spec == Init /\ [][Next]_vars /\ Fairness

----------------------------------------------------------------------------
(* Properties *)

\* The invocation of job j in progress.
Active(j) == inv[j] # "none"

(* A stop stays in the run it was meant for.  While a job runs, its stop source
   carries only requests of its own epoch: no watchdog, deadline or external
   stop of an earlier run reaches it, nor a cancel() that copied the source
   before a cancellable job was renewed.  (renewStopState() under stopMtx_,
   stopSource(), ForwardStop, and the joins that end each alarm.) *)
StopStaysInItsEpoch ==
  \A j \in Jobs : \A r \in requests :
    (Active(j) /\ r.job = j /\ r.source = source[j] /\ r.epoch < began[j])
      => r.by = "cancel" /\ j \notin cancellable

(* No body of an earlier run or trigger is left when a run has renewed its
   state, none of the run's own when its RunScope is complete, and none at all
   when the pipeline is destroyed.  (runImpl(): "A new epoch must not reuse
   borrowed state while an old job still runs"; RunScope; ~Impl().) *)
NoBodyOutlivesItsOwner ==
  /\ \A c \in Callers, b \in bodies :
       (pc[c] \in {"register", "forward", "dispatch", "wait"}) => b[2] = epoch
  /\ \A c \in Callers : pc[c] = "destroyed" => bodies = {} /\ pendingOrphans = 0
  /\ \A c \in Callers, b \in bodies : pc[c] = "complete" => b[2] # scope[c]

(* One body of a job runs at a time: trigger() "returns kBusy for a
   queued/running duplicate or unreaped timeout work".  (pipeline.hpp.) *)
OneBody ==
  \A j \in Jobs : LET mine == {b \in bodies : b[1] = j}
                  IN Cardinality(mine) + (IF inv[j] = "inline" THEN 1 ELSE 0) <= 1

\* c is inside run(), trigger(), joinOrphans() or the destructor.
Calling(c) == pc[c] \notin {"idle", "destroyed"}
=============================================================================
