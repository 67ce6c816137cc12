-------------------------- MODULE LifecycleProofs --------------------------
(***************************************************************************)
(* A Pipeline across its calls, for any number of jobs, callers and        *)
(* cancellers and any number of calls: no body outlives the run, the scope *)
(* or the pipeline it belongs to, and no stop reaches a later invocation.  *)
(***************************************************************************)
EXTENDS Lifecycle, FiniteSetTheorems, TLAPS

----------------------------------------------------------------------------
(* The inductive invariant *)

Labels == {"idle", "join", "joining", "renew", "register", "forward", "dispatch", "wait",
           "complete", "checked", "submit", "destroyed"}

ConfigType == onDemand \subseteq Jobs /\ cancellable \subseteq Jobs /\ service \in BOOLEAN

JobType ==
  /\ source \in [Jobs -> Nat]
  /\ status \in [Jobs -> {"kPending", "kReady", "kRunning", "kFailed", "kDone"}]
  /\ inv \in [Jobs -> {"none", "queued", "inline", "waiting", "disarm", "abandon", "finish"}]
  /\ began \in [Jobs -> Nat \cup {None}]
  /\ token \in [Jobs -> Nat \cup {None}]
  /\ alarm \in [Jobs -> {"off", "armed", "firing"}]
  /\ bodies \subseteq Jobs \X Nat

CallType ==
  /\ running \in BOOLEAN /\ epoch \in Nat
  /\ orphans \subseteq Jobs \X Nat /\ batch \subseteq Jobs \X Nat /\ pendingOrphans \in Nat
  /\ joining \in Callers \cup {Nobody}
  /\ pc \in [Callers -> Labels]
  /\ ret \in [Callers -> {"idle", "renew", "complete", "destroyed"}]
  /\ target \in [Callers -> Jobs \cup {Nobody}]
  /\ scope \in [Callers -> Nat \cup {None}]

StopType ==
  /\ requests \subseteq [job : Jobs, source : Nat, by : {"run", "cancel"}, epoch : Nat]
  /\ forwarding \in [Callers -> SUBSET Jobs]
  /\ cancel \in [Cancellers -> {<<>>} \cup (Jobs \X Nat \X Nat)]

\* Where a caller is, and what it came for.
Renewing == {"register", "forward", "dispatch"}
Triggering == {"checked", "submit"}

Places ==
  \A c \in Callers :
    /\ pc[c] \in Renewing \cup {"renew", "wait"} => ret[c] = "renew"
    /\ ret[c] = "renew" => pc[c] \in Renewing \cup {"join", "joining", "renew", "wait"}
    /\ pc[c] = "complete" => ret[c] = "complete"
    /\ ret[c] = "complete" => pc[c] \in {"join", "joining", "complete"}
    /\ pc[c] = "destroyed" => ret[c] = "destroyed"
    /\ ret[c] = "destroyed" => pc[c] \in {"join", "joining", "destroyed"}
    /\ ret[c] = "complete" => scope[c] # None
    /\ scope[c] # None => ret[c] \in {"renew", "complete"}
    /\ pc[c] = "joining" <=> joining = c
    /\ forwarding[c] # {} => pc[c] \in {"forward", "dispatch", "wait"}

\* One run at a time, none beside a trigger() or a triggered job, and its jobs are those
\* of its epoch.
OneRun ==
  /\ \A c, d \in Callers : ret[c] = "renew" /\ ret[d] = "renew" => c = d
  /\ running <=> \E c \in Callers : ret[c] = "renew"
  /\ running => /\ \A c \in Callers : pc[c] \notin Triggering
                /\ \A j \in onDemand : inv[j] = "none"
  /\ \A c \in Callers : ret[c] = "renew" /\ pc[c] # "wait" => \A j \in Jobs : inv[j] = "none"
  /\ \A c \in Callers : pc[c] \in Renewing => \A j \in Jobs \ onDemand : began[j] = epoch
  /\ \A j \in Jobs \ onDemand : inv[j] # "none" => running /\ began[j] = epoch

\* A job that trigger() has claimed is claimed once; a RunScope keeps trigger() out.
Triggers ==
  /\ \A c \in Callers :
       /\ pc[c] \in Triggering => target[c] \in onDemand /\ \A d \in Callers : scope[d] = None
       /\ pc[c] = "submit" => inv[target[c]] = "none" /\ status[target[c]] = "kReady"
       /\ scope[c] # None => \A j \in onDemand : inv[j] = "none"
  /\ \A c, d \in Callers :
       pc[c] = "submit" /\ pc[d] = "submit" /\ target[c] = target[d] => c = d
  /\ \A j \in onDemand : inv[j] # "none" => status[j] \in {"kReady", "kRunning"}

\* The job's cancellation state was renewed and the invocation has not ended.
Claimed(j) ==
  \/ inv[j] # "none"
  \/ j \notin onDemand /\ \E c \in Callers : pc[c] \in Renewing
  \/ \E c \in Callers : pc[c] = "submit" /\ target[c] = j

\* A body that no dispatcher waits for any more is in the ledger, once.
Ledger ==
  /\ IsFiniteSet(orphans) /\ IsFiniteSet(batch) /\ orphans \cap batch = {}
  /\ pendingOrphans = Cardinality(orphans) + Cardinality(batch)
  /\ joining = Nobody => batch = {}
  /\ \A b \in orphans \cup batch : b[2] <= epoch
  /\ \A b \in bodies : \/ b \in orphans \cup batch
                       \/ inv[b[1]] \in {"waiting", "abandon"} /\ b[2] = began[b[1]]
  /\ \A j \in Jobs : Claimed(j) /\ inv[j] # "finish" => Body(j) \notin orphans \cup batch

\* What those who join have behind them.
Joined ==
  /\ \A c \in Callers :
       /\ pc[c] \in Renewing \cup {"renew", "destroyed"} => orphans = {} /\ batch = {}
       /\ pc[c] = "wait" => \A b \in orphans \cup batch : b[2] = epoch
       /\ pc[c] = "joining" /\ ret[c] \in {"renew", "destroyed"} => orphans = {}
       /\ pc[c] = "joining" /\ ret[c] = "complete" => \A b \in orphans : b[2] # scope[c]
       /\ pc[c] = "complete" => \A b \in orphans \cup batch : b[2] # scope[c]
       /\ ret[c] = "destroyed" => /\ \A j \in Jobs : inv[j] = "none"
                                  /\ \A d \in Callers \ {c} : pc[d] = "idle"
  /\ \A c \in Callers : scope[c] <= epoch
  /\ \A c, d \in Callers :
       ret[c] = "complete" /\ pc[d] \in Renewing \cup {"wait"} => scope[c] < epoch

\* A claimed job has a stop source on which no run before it has asked for a stop.
OwnSource(j) ==
  /\ began[j] \in Nat /\ source[j] <= began[j] /\ began[j] <= epoch
  /\ j \in cancellable => source[j] = began[j]
  /\ \A r \in requests :
       r.job = j /\ r.source = source[j] /\ r.by = "run" => began[j] <= r.epoch

Stops ==
  /\ \A r \in requests : r.source <= r.epoch /\ r.epoch <= epoch
  /\ \A k \in Cancellers :
       cancel[k] # <<>> => cancel[k][2] <= cancel[k][3] /\ cancel[k][3] <= epoch
  /\ \A j \in Jobs :
       /\ source[j] <= epoch
       /\ Claimed(j) => OwnSource(j)
       /\ inv[j] \in {"inline", "waiting", "disarm", "abandon"} => token[j] = source[j]
       /\ alarm[j] # "off" => inv[j] \in {"inline", "waiting", "disarm", "abandon"}

LifeType == ConfigType /\ JobType /\ CallType /\ StopType

LifeInv == LifeType /\ Places /\ OneRun /\ Triggers /\ Ledger /\ Joined /\ Stops

----------------------------------------------------------------------------
(* Types *)

\* The configuration does not change.
LEMMA ConfigTypeStep ==
  ASSUME LifeInv, [Next]_vars
  PROVE  ConfigType' /\ UNCHANGED config
<1> USE DEF LifeInv, LifeType, ConfigType
<1>1. ASSUME \/ (\E c \in Callers : CallRun(c) \/ CallJoin(c) \/ Destroy(c))
             \/ (\E c \in Callers : StopExternal(c) \/ Renew(c) \/ Register(c))
             \/ (\E c \in Callers : Forwarded(c) \/ DispatchRoots(c) \/ RunEnds(c))
             \/ (\E c \in Callers : ScopeEnds(c) \/ TriggerClaim(c) \/ TriggerSubmit(c))
             \/ (\E c \in Callers : NothingToJoin(c) \/ JoinBegins(c) \/ JoinEnds(c))
             \/ (\E c \in Callers, j \in Jobs : TriggerCheck(c, j) \/ ForwardStop(c, j))
             \/ (\E j \in Jobs : Enter(j) \/ BodyReturns(j) \/ HelperDone(j))
             \/ (\E j \in Jobs : HelperStopped(j) \/ AlarmStops(j) \/ Disarm(j))
             \/ (\E j \in Jobs : Retain(j) \/ Finish(j) \/ AlarmFires(j))
             \/ (\E j \in Jobs : HelperTimesOut(j))
             \/ (\E b \in bodies : HelperReturns(b))
             \/ (\E k \in Cancellers : CancelStops(k))
             \/ (\E k \in Cancellers, j \in Jobs : CancelCopies(k, j))
      PROVE  ConfigType' /\ UNCHANGED config
  BY <1>1
     DEF CallRun, CallJoin, Destroy, StopExternal, Renew, Register, Forwarded, DispatchRoots,
         RunEnds, ScopeEnds, TriggerClaim, TriggerSubmit, NothingToJoin, JoinBegins, JoinEnds,
         TriggerCheck, ForwardStop, Enter, BodyReturns, HelperDone, HelperStopped, AlarmStops,
         Disarm, Retain, Finish, AlarmFires, HelperTimesOut, HelperReturns, CancelStops,
         CancelCopies, Goto, HasOrphans, NoTrigger, Renewed, Leave, Request, Step, Body,
         Disarmed, config, stopping, invoking, joins, calling, outside
<1>2. CASE UNCHANGED vars
  BY <1>2 DEF vars, config, stopping, invoking, joins, calling, outside
<1> QED
  BY <1>1, <1>2
     DEF Next, RunSteps, TriggerSteps, JoinSteps, JobSteps

\* The jobs' variables keep their types.
LEMMA JobTypeStep ==
  ASSUME LifeInv, [Next]_vars
  PROVE  JobType'
<1> USE LifecycleAssumption DEF LifeInv, LifeType, ConfigType, JobType, CallType, None
<1>1. ASSUME NEW c \in Callers, CallRun(c) PROVE JobType'
  BY <1>1
     DEF CallRun, Goto, HasOrphans, NoTrigger, config, stopping, invoking, joins, calling,
         outside
<1>2. ASSUME NEW c \in Callers, CallJoin(c) PROVE JobType'
  BY <1>2 DEF CallJoin, Goto, config, stopping, invoking, joins, calling, outside
<1>3. ASSUME NEW c \in Callers, Destroy(c) PROVE JobType'
  BY <1>3 DEF Destroy, Goto, config, stopping, invoking, joins, calling, outside
<1>4. ASSUME NEW c \in Callers, StopExternal(c) PROVE JobType'
  BY <1>4 DEF StopExternal, config, stopping, invoking, joins, calling, outside
<1>5. ASSUME NEW c \in Callers, Renew(c) PROVE JobType'
  BY <1>5 DEF Renew, Goto, Renewed, config, stopping, invoking, joins, calling, outside
<1>6. ASSUME NEW c \in Callers, Register(c) PROVE JobType'
  BY <1>6 DEF Register, Goto, config, stopping, invoking, joins, calling, outside
<1>7. ASSUME NEW c \in Callers, Forwarded(c) PROVE JobType'
  BY <1>7 DEF Forwarded, Goto, config, stopping, invoking, joins, calling, outside
<1>8. ASSUME NEW c \in Callers, DispatchRoots(c) PROVE JobType'
  BY <1>8 DEF DispatchRoots, Goto, config, stopping, invoking, joins, calling, outside
<1>9. ASSUME NEW c \in Callers, RunEnds(c) PROVE JobType'
  BY <1>9 DEF RunEnds, Goto, config, stopping, invoking, joins, calling, outside
<1>10. ASSUME NEW c \in Callers, ScopeEnds(c) PROVE JobType'
  BY <1>10 DEF ScopeEnds, Goto, config, stopping, invoking, joins, calling, outside
<1>11. ASSUME NEW c \in Callers, TriggerClaim(c) PROVE JobType'
  BY <1>11
     DEF TriggerClaim, Goto, Leave, Renewed, config, stopping, invoking, joins, calling, outside
<1>12. ASSUME NEW c \in Callers, TriggerSubmit(c) PROVE JobType'
  BY <1>12 DEF TriggerSubmit, Goto, Leave, config, stopping, invoking, joins, calling, outside
<1>13. ASSUME NEW c \in Callers, NothingToJoin(c) PROVE JobType'
  BY <1>13
     DEF NothingToJoin, Goto, HasOrphans, config, stopping, invoking, joins, calling, outside
<1>14. ASSUME NEW c \in Callers, JoinBegins(c) PROVE JobType'
  BY <1>14 DEF JoinBegins, Goto, HasOrphans, config, stopping, invoking, joins, calling, outside
<1>15. ASSUME NEW c \in Callers, JoinEnds(c) PROVE JobType'
  BY <1>15 DEF JoinEnds, Goto, config, stopping, invoking, joins, calling, outside
<1>16. ASSUME NEW c \in Callers, NEW j \in Jobs, TriggerCheck(c, j) PROVE JobType'
  BY <1>16
     DEF TriggerCheck, Goto, HasOrphans, config, stopping, invoking, joins, calling, outside
<1>17. ASSUME NEW c \in Callers, NEW j \in Jobs, ForwardStop(c, j) PROVE JobType'
  BY <1>17 DEF ForwardStop, Request, config, stopping, invoking, joins, calling, outside
<1>18. ASSUME NEW j \in Jobs, Enter(j) PROVE JobType'
  <2>1. began[j] \in Nat
    BY <1>18 DEF Enter, Stops, Claimed, OwnSource
  <2> QED
    BY <1>18, <2>1 DEF Enter, Step, Body, config, stopping, invoking, joins, calling, outside
<1>19. ASSUME NEW j \in Jobs, BodyReturns(j) PROVE JobType'
  BY <1>19 DEF BodyReturns, Step, config, stopping, invoking, joins, calling, outside
<1>20. ASSUME NEW j \in Jobs, HelperDone(j) PROVE JobType'
  BY <1>20 DEF HelperDone, Step, config, stopping, invoking, joins, calling, outside
<1>21. ASSUME NEW j \in Jobs, HelperStopped(j) PROVE JobType'
  BY <1>21 DEF HelperStopped, Step, config, stopping, invoking, joins, calling, outside
<1>22. ASSUME NEW j \in Jobs, AlarmStops(j) PROVE JobType'
  BY <1>22 DEF AlarmStops, Request, config, stopping, invoking, joins, calling, outside
<1>23. ASSUME NEW j \in Jobs, Disarm(j) PROVE JobType'
  BY <1>23 DEF Disarm, Step, Disarmed, config, stopping, invoking, joins, calling, outside
<1>24. ASSUME NEW j \in Jobs, Retain(j) PROVE JobType'
  BY <1>24 DEF Retain, Step, Disarmed, Body, config, stopping, invoking, joins, calling, outside
<1>25. ASSUME NEW j \in Jobs, Finish(j) PROVE JobType'
  BY <1>25 DEF Finish, Step, config, stopping, invoking, joins, calling, outside
<1>26. ASSUME NEW j \in Jobs, AlarmFires(j) PROVE JobType'
  BY <1>26 DEF AlarmFires, config, stopping, invoking, joins, calling, outside
<1>27. ASSUME NEW j \in Jobs, HelperTimesOut(j) PROVE JobType'
  BY <1>27
     DEF HelperTimesOut, Step, Request, config, stopping, invoking, joins, calling, outside
<1>28. ASSUME NEW b \in bodies, HelperReturns(b) PROVE JobType'
  BY <1>28 DEF HelperReturns, config, stopping, invoking, joins, calling, outside
<1>29. ASSUME NEW k \in Cancellers, CancelStops(k) PROVE JobType'
  BY <1>29 DEF CancelStops, Request, config, stopping, invoking, joins, calling, outside
<1>30. ASSUME NEW k \in Cancellers, NEW j \in Jobs, CancelCopies(k, j) PROVE JobType'
  BY <1>30 DEF CancelCopies, config, stopping, invoking, joins, calling, outside
<1>31. CASE UNCHANGED vars
  BY <1>31 DEF vars, config, stopping, invoking, joins, calling, outside
<1> QED
  BY <1>1, <1>2, <1>3, <1>4, <1>5, <1>6, <1>7, <1>8, <1>9, <1>10, <1>11, <1>12, <1>13, <1>14,
     <1>15, <1>16, <1>17, <1>18, <1>19, <1>20, <1>21, <1>22, <1>23, <1>24, <1>25, <1>26, <1>27,
     <1>28, <1>29, <1>30, <1>31
     DEF Next, RunSteps, TriggerSteps, JoinSteps, JobSteps

\* The callers' variables keep their types.
LEMMA CallTypeStep ==
  ASSUME LifeInv, [Next]_vars
  PROVE  CallType'
<1> USE LifecycleAssumption DEF LifeInv, LifeType, ConfigType, JobType, CallType, Labels, None,
      Nobody
<1>1. ASSUME NEW c \in Callers, CallRun(c) PROVE CallType'
  BY <1>1
     DEF CallRun, Goto, HasOrphans, NoTrigger, config, stopping, invoking, joins, calling,
         outside
<1>2. ASSUME NEW c \in Callers, CallJoin(c) PROVE CallType'
  BY <1>2 DEF CallJoin, Goto, config, stopping, invoking, joins, calling, outside
<1>3. ASSUME NEW c \in Callers, Destroy(c) PROVE CallType'
  BY <1>3 DEF Destroy, Goto, config, stopping, invoking, joins, calling, outside
<1>4. ASSUME NEW c \in Callers, StopExternal(c) PROVE CallType'
  BY <1>4 DEF StopExternal, config, stopping, invoking, joins, calling, outside
<1>5. ASSUME NEW c \in Callers, Renew(c) PROVE CallType'
  BY <1>5 DEF Renew, Goto, Renewed, config, stopping, invoking, joins, calling, outside
<1>6. ASSUME NEW c \in Callers, Register(c) PROVE CallType'
  BY <1>6 DEF Register, Goto, config, stopping, invoking, joins, calling, outside
<1>7. ASSUME NEW c \in Callers, Forwarded(c) PROVE CallType'
  BY <1>7 DEF Forwarded, Goto, config, stopping, invoking, joins, calling, outside
<1>8. ASSUME NEW c \in Callers, DispatchRoots(c) PROVE CallType'
  BY <1>8 DEF DispatchRoots, Goto, config, stopping, invoking, joins, calling, outside
<1>9. ASSUME NEW c \in Callers, RunEnds(c) PROVE CallType'
  BY <1>9 DEF RunEnds, Goto, config, stopping, invoking, joins, calling, outside
<1>10. ASSUME NEW c \in Callers, ScopeEnds(c) PROVE CallType'
  BY <1>10 DEF ScopeEnds, Goto, config, stopping, invoking, joins, calling, outside
<1>11. ASSUME NEW c \in Callers, TriggerClaim(c) PROVE CallType'
  BY <1>11
     DEF TriggerClaim, Goto, Leave, Renewed, config, stopping, invoking, joins, calling, outside
<1>12. ASSUME NEW c \in Callers, TriggerSubmit(c) PROVE CallType'
  BY <1>12 DEF TriggerSubmit, Goto, Leave, config, stopping, invoking, joins, calling, outside
<1>13. ASSUME NEW c \in Callers, NothingToJoin(c) PROVE CallType'
  BY <1>13
     DEF NothingToJoin, Goto, HasOrphans, config, stopping, invoking, joins, calling, outside
<1>14. ASSUME NEW c \in Callers, JoinBegins(c) PROVE CallType'
  BY <1>14 DEF JoinBegins, Goto, HasOrphans, config, stopping, invoking, joins, calling, outside
<1>15. ASSUME NEW c \in Callers, JoinEnds(c) PROVE CallType'
  <2>1. pendingOrphans' \in Nat
    <3>1. Cardinality(orphans) \in Nat /\ Cardinality(batch) \in Nat
      BY FS_CardinalityType DEF Ledger
    <3> QED
      BY <1>15, <3>1 DEF Ledger, JoinEnds
  <2> QED
    BY <1>15, <2>1 DEF JoinEnds, Goto, config, stopping, invoking, joins, calling, outside
<1>16. ASSUME NEW c \in Callers, NEW j \in Jobs, TriggerCheck(c, j) PROVE CallType'
  BY <1>16
     DEF TriggerCheck, Goto, HasOrphans, config, stopping, invoking, joins, calling, outside
<1>17. ASSUME NEW c \in Callers, NEW j \in Jobs, ForwardStop(c, j) PROVE CallType'
  BY <1>17 DEF ForwardStop, Request, config, stopping, invoking, joins, calling, outside
<1>18. ASSUME NEW j \in Jobs, Enter(j) PROVE CallType'
  BY <1>18 DEF Enter, Step, Body, config, stopping, invoking, joins, calling, outside
<1>19. ASSUME NEW j \in Jobs, BodyReturns(j) PROVE CallType'
  BY <1>19 DEF BodyReturns, Step, config, stopping, invoking, joins, calling, outside
<1>20. ASSUME NEW j \in Jobs, HelperDone(j) PROVE CallType'
  BY <1>20 DEF HelperDone, Step, config, stopping, invoking, joins, calling, outside
<1>21. ASSUME NEW j \in Jobs, HelperStopped(j) PROVE CallType'
  BY <1>21 DEF HelperStopped, Step, config, stopping, invoking, joins, calling, outside
<1>22. ASSUME NEW j \in Jobs, AlarmStops(j) PROVE CallType'
  BY <1>22 DEF AlarmStops, Request, config, stopping, invoking, joins, calling, outside
<1>23. ASSUME NEW j \in Jobs, Disarm(j) PROVE CallType'
  BY <1>23 DEF Disarm, Step, Disarmed, config, stopping, invoking, joins, calling, outside
<1>24. ASSUME NEW j \in Jobs, Retain(j) PROVE CallType'
  <2>1. began[j] \in Nat
    BY <1>24 DEF Retain, Step, Stops, Claimed, OwnSource
  <2> QED
    BY <1>24, <2>1
       DEF Retain, Step, Disarmed, Body, config, stopping, invoking, joins, calling, outside
<1>25. ASSUME NEW j \in Jobs, Finish(j) PROVE CallType'
  BY <1>25 DEF Finish, Step, config, stopping, invoking, joins, calling, outside
<1>26. ASSUME NEW j \in Jobs, AlarmFires(j) PROVE CallType'
  BY <1>26 DEF AlarmFires, config, stopping, invoking, joins, calling, outside
<1>27. ASSUME NEW j \in Jobs, HelperTimesOut(j) PROVE CallType'
  BY <1>27
     DEF HelperTimesOut, Step, Request, config, stopping, invoking, joins, calling, outside
<1>28. ASSUME NEW b \in bodies, HelperReturns(b) PROVE CallType'
  BY <1>28 DEF HelperReturns, config, stopping, invoking, joins, calling, outside
<1>29. ASSUME NEW k \in Cancellers, CancelStops(k) PROVE CallType'
  BY <1>29 DEF CancelStops, Request, config, stopping, invoking, joins, calling, outside
<1>30. ASSUME NEW k \in Cancellers, NEW j \in Jobs, CancelCopies(k, j) PROVE CallType'
  BY <1>30 DEF CancelCopies, config, stopping, invoking, joins, calling, outside
<1>31. CASE UNCHANGED vars
  BY <1>31 DEF vars, config, stopping, invoking, joins, calling, outside
<1> QED
  BY <1>1, <1>2, <1>3, <1>4, <1>5, <1>6, <1>7, <1>8, <1>9, <1>10, <1>11, <1>12, <1>13, <1>14,
     <1>15, <1>16, <1>17, <1>18, <1>19, <1>20, <1>21, <1>22, <1>23, <1>24, <1>25, <1>26, <1>27,
     <1>28, <1>29, <1>30, <1>31
     DEF Next, RunSteps, TriggerSteps, JoinSteps, JobSteps

\* The stops' variables keep their types.
LEMMA StopTypeStep ==
  ASSUME LifeInv, [Next]_vars
  PROVE  StopType'
<1> USE LifecycleAssumption DEF LifeInv, LifeType, ConfigType, JobType, CallType, StopType
<1>1. ASSUME NEW c \in Callers, CallRun(c) PROVE StopType'
  BY <1>1
     DEF CallRun, Goto, HasOrphans, NoTrigger, config, stopping, invoking, joins, calling,
         outside
<1>2. ASSUME NEW c \in Callers, CallJoin(c) PROVE StopType'
  BY <1>2 DEF CallJoin, Goto, config, stopping, invoking, joins, calling, outside
<1>3. ASSUME NEW c \in Callers, Destroy(c) PROVE StopType'
  BY <1>3 DEF Destroy, Goto, config, stopping, invoking, joins, calling, outside
<1>4. ASSUME NEW c \in Callers, StopExternal(c) PROVE StopType'
  BY <1>4 DEF StopExternal, config, stopping, invoking, joins, calling, outside
<1>5. ASSUME NEW c \in Callers, Renew(c) PROVE StopType'
  BY <1>5 DEF Renew, Goto, Renewed, config, stopping, invoking, joins, calling, outside
<1>6. ASSUME NEW c \in Callers, Register(c) PROVE StopType'
  BY <1>6 DEF Register, Goto, config, stopping, invoking, joins, calling, outside
<1>7. ASSUME NEW c \in Callers, Forwarded(c) PROVE StopType'
  BY <1>7 DEF Forwarded, Goto, config, stopping, invoking, joins, calling, outside
<1>8. ASSUME NEW c \in Callers, DispatchRoots(c) PROVE StopType'
  BY <1>8 DEF DispatchRoots, Goto, config, stopping, invoking, joins, calling, outside
<1>9. ASSUME NEW c \in Callers, RunEnds(c) PROVE StopType'
  BY <1>9 DEF RunEnds, Goto, config, stopping, invoking, joins, calling, outside
<1>10. ASSUME NEW c \in Callers, ScopeEnds(c) PROVE StopType'
  BY <1>10 DEF ScopeEnds, Goto, config, stopping, invoking, joins, calling, outside
<1>11. ASSUME NEW c \in Callers, TriggerClaim(c) PROVE StopType'
  BY <1>11
     DEF TriggerClaim, Goto, Leave, Renewed, config, stopping, invoking, joins, calling, outside
<1>12. ASSUME NEW c \in Callers, TriggerSubmit(c) PROVE StopType'
  BY <1>12 DEF TriggerSubmit, Goto, Leave, config, stopping, invoking, joins, calling, outside
<1>13. ASSUME NEW c \in Callers, NothingToJoin(c) PROVE StopType'
  BY <1>13
     DEF NothingToJoin, Goto, HasOrphans, config, stopping, invoking, joins, calling, outside
<1>14. ASSUME NEW c \in Callers, JoinBegins(c) PROVE StopType'
  BY <1>14 DEF JoinBegins, Goto, HasOrphans, config, stopping, invoking, joins, calling, outside
<1>15. ASSUME NEW c \in Callers, JoinEnds(c) PROVE StopType'
  BY <1>15 DEF JoinEnds, Goto, config, stopping, invoking, joins, calling, outside
<1>16. ASSUME NEW c \in Callers, NEW j \in Jobs, TriggerCheck(c, j) PROVE StopType'
  BY <1>16
     DEF TriggerCheck, Goto, HasOrphans, config, stopping, invoking, joins, calling, outside
<1>17. ASSUME NEW c \in Callers, NEW j \in Jobs, ForwardStop(c, j) PROVE StopType'
  BY <1>17 DEF ForwardStop, Request, config, stopping, invoking, joins, calling, outside
<1>18. ASSUME NEW j \in Jobs, Enter(j) PROVE StopType'
  BY <1>18 DEF Enter, Step, Body, config, stopping, invoking, joins, calling, outside
<1>19. ASSUME NEW j \in Jobs, BodyReturns(j) PROVE StopType'
  BY <1>19 DEF BodyReturns, Step, config, stopping, invoking, joins, calling, outside
<1>20. ASSUME NEW j \in Jobs, HelperDone(j) PROVE StopType'
  BY <1>20 DEF HelperDone, Step, config, stopping, invoking, joins, calling, outside
<1>21. ASSUME NEW j \in Jobs, HelperStopped(j) PROVE StopType'
  BY <1>21 DEF HelperStopped, Step, config, stopping, invoking, joins, calling, outside
<1>22. ASSUME NEW j \in Jobs, AlarmStops(j) PROVE StopType'
  <2>1. began[j] \in Nat /\ token[j] \in Nat
    BY <1>22 DEF AlarmStops, Stops, Claimed, OwnSource
  <2> QED
    BY <1>22, <2>1 DEF AlarmStops, Request, config, stopping, invoking, joins, calling, outside
<1>23. ASSUME NEW j \in Jobs, Disarm(j) PROVE StopType'
  BY <1>23 DEF Disarm, Step, Disarmed, config, stopping, invoking, joins, calling, outside
<1>24. ASSUME NEW j \in Jobs, Retain(j) PROVE StopType'
  BY <1>24 DEF Retain, Step, Disarmed, Body, config, stopping, invoking, joins, calling, outside
<1>25. ASSUME NEW j \in Jobs, Finish(j) PROVE StopType'
  BY <1>25 DEF Finish, Step, config, stopping, invoking, joins, calling, outside
<1>26. ASSUME NEW j \in Jobs, AlarmFires(j) PROVE StopType'
  BY <1>26 DEF AlarmFires, config, stopping, invoking, joins, calling, outside
<1>27. ASSUME NEW j \in Jobs, HelperTimesOut(j) PROVE StopType'
  <2>1. began[j] \in Nat
    BY <1>27 DEF HelperTimesOut, Step, Stops, Claimed, OwnSource
  <2> QED
    BY <1>27, <2>1
       DEF HelperTimesOut, Step, Request, config, stopping, invoking, joins, calling, outside
<1>28. ASSUME NEW b \in bodies, HelperReturns(b) PROVE StopType'
  BY <1>28 DEF HelperReturns, config, stopping, invoking, joins, calling, outside
<1>29. ASSUME NEW k \in Cancellers, CancelStops(k) PROVE StopType'
  <2>1. cancel[k] \in Jobs \X Nat \X Nat
    BY <1>29 DEF CancelStops
  <2>2. cancel[k][1] \in Jobs /\ cancel[k][2] \in Nat /\ cancel[k][3] \in Nat
    BY <2>1
  <2> QED
    BY <1>29, <2>2 DEF CancelStops, Request, config, stopping, invoking, joins, calling, outside
<1>30. ASSUME NEW k \in Cancellers, NEW j \in Jobs, CancelCopies(k, j) PROVE StopType'
  BY <1>30 DEF CancelCopies, config, stopping, invoking, joins, calling, outside
<1>31. CASE UNCHANGED vars
  BY <1>31 DEF vars, config, stopping, invoking, joins, calling, outside
<1> QED
  BY <1>1, <1>2, <1>3, <1>4, <1>5, <1>6, <1>7, <1>8, <1>9, <1>10, <1>11, <1>12, <1>13, <1>14,
     <1>15, <1>16, <1>17, <1>18, <1>19, <1>20, <1>21, <1>22, <1>23, <1>24, <1>25, <1>26, <1>27,
     <1>28, <1>29, <1>30, <1>31
     DEF Next, RunSteps, TriggerSteps, JoinSteps, JobSteps

----------------------------------------------------------------------------
(* Callers *)

\* Every caller is where its call takes it.
LEMMA PlacesStep ==
  ASSUME LifeInv, [Next]_vars
  PROVE  Places'
<1> USE LifecycleAssumption DEF LifeInv, LifeType, ConfigType, JobType, CallType, StopType,
      Places, Renewing, Labels, Nobody, None
<1>1. ASSUME NEW c \in Callers, CallRun(c) PROVE Places'
  BY <1>1
     DEF CallRun, Goto, HasOrphans, NoTrigger, config, stopping, invoking, joins, calling,
         outside
<1>2. ASSUME NEW c \in Callers, CallJoin(c) PROVE Places'
  BY <1>2 DEF CallJoin, Goto, config, stopping, invoking, joins, calling, outside
<1>3. ASSUME NEW c \in Callers, Destroy(c) PROVE Places'
  BY <1>3 DEF Destroy, Goto, config, stopping, invoking, joins, calling, outside
<1>4. ASSUME NEW c \in Callers, StopExternal(c) PROVE Places'
  BY <1>4 DEF StopExternal, config, stopping, invoking, joins, calling, outside
<1>5. ASSUME NEW c \in Callers, Renew(c) PROVE Places'
  BY <1>5 DEF Renew, Goto, Renewed, config, stopping, invoking, joins, calling, outside
<1>6. ASSUME NEW c \in Callers, Register(c) PROVE Places'
  BY <1>6 DEF Register, Goto, config, stopping, invoking, joins, calling, outside
<1>7. ASSUME NEW c \in Callers, Forwarded(c) PROVE Places'
  BY <1>7 DEF Forwarded, Goto, config, stopping, invoking, joins, calling, outside
<1>8. ASSUME NEW c \in Callers, DispatchRoots(c) PROVE Places'
  BY <1>8 DEF DispatchRoots, Goto, config, stopping, invoking, joins, calling, outside
<1>9. ASSUME NEW c \in Callers, RunEnds(c) PROVE Places'
  BY <1>9 DEF RunEnds, Goto, config, stopping, invoking, joins, calling, outside
<1>10. ASSUME NEW c \in Callers, ScopeEnds(c) PROVE Places'
  BY <1>10 DEF ScopeEnds, Goto, config, stopping, invoking, joins, calling, outside
<1>11. ASSUME NEW c \in Callers, TriggerClaim(c) PROVE Places'
  BY <1>11
     DEF TriggerClaim, Goto, Leave, Renewed, config, stopping, invoking, joins, calling, outside
<1>12. ASSUME NEW c \in Callers, TriggerSubmit(c) PROVE Places'
  BY <1>12 DEF TriggerSubmit, Goto, Leave, config, stopping, invoking, joins, calling, outside
<1>13. ASSUME NEW c \in Callers, NothingToJoin(c) PROVE Places'
  BY <1>13
     DEF NothingToJoin, Goto, HasOrphans, config, stopping, invoking, joins, calling, outside
<1>14. ASSUME NEW c \in Callers, JoinBegins(c) PROVE Places'
  BY <1>14 DEF JoinBegins, Goto, HasOrphans, config, stopping, invoking, joins, calling, outside
<1>15. ASSUME NEW c \in Callers, JoinEnds(c) PROVE Places'
  BY <1>15 DEF JoinEnds, Goto, config, stopping, invoking, joins, calling, outside
<1>16. ASSUME NEW c \in Callers, NEW j \in Jobs, TriggerCheck(c, j) PROVE Places'
  BY <1>16
     DEF TriggerCheck, Goto, HasOrphans, config, stopping, invoking, joins, calling, outside
<1>17. ASSUME NEW c \in Callers, NEW j \in Jobs, ForwardStop(c, j) PROVE Places'
  BY <1>17 DEF ForwardStop, Request, config, stopping, invoking, joins, calling, outside
<1>18. ASSUME NEW j \in Jobs, Enter(j) PROVE Places'
  BY <1>18 DEF Enter, Step, Body, config, stopping, invoking, joins, calling, outside
<1>19. ASSUME NEW j \in Jobs, BodyReturns(j) PROVE Places'
  BY <1>19 DEF BodyReturns, Step, config, stopping, invoking, joins, calling, outside
<1>20. ASSUME NEW j \in Jobs, HelperDone(j) PROVE Places'
  BY <1>20 DEF HelperDone, Step, config, stopping, invoking, joins, calling, outside
<1>21. ASSUME NEW j \in Jobs, HelperStopped(j) PROVE Places'
  BY <1>21 DEF HelperStopped, Step, config, stopping, invoking, joins, calling, outside
<1>22. ASSUME NEW j \in Jobs, AlarmStops(j) PROVE Places'
  BY <1>22 DEF AlarmStops, Request, config, stopping, invoking, joins, calling, outside
<1>23. ASSUME NEW j \in Jobs, Disarm(j) PROVE Places'
  BY <1>23 DEF Disarm, Step, Disarmed, config, stopping, invoking, joins, calling, outside
<1>24. ASSUME NEW j \in Jobs, Retain(j) PROVE Places'
  BY <1>24 DEF Retain, Step, Disarmed, Body, config, stopping, invoking, joins, calling, outside
<1>25. ASSUME NEW j \in Jobs, Finish(j) PROVE Places'
  BY <1>25 DEF Finish, Step, config, stopping, invoking, joins, calling, outside
<1>26. ASSUME NEW j \in Jobs, AlarmFires(j) PROVE Places'
  BY <1>26 DEF AlarmFires, config, stopping, invoking, joins, calling, outside
<1>27. ASSUME NEW j \in Jobs, HelperTimesOut(j) PROVE Places'
  BY <1>27
     DEF HelperTimesOut, Step, Request, config, stopping, invoking, joins, calling, outside
<1>28. ASSUME NEW b \in bodies, HelperReturns(b) PROVE Places'
  BY <1>28 DEF HelperReturns, config, stopping, invoking, joins, calling, outside
<1>29. ASSUME NEW k \in Cancellers, CancelStops(k) PROVE Places'
  BY <1>29 DEF CancelStops, Request, config, stopping, invoking, joins, calling, outside
<1>30. ASSUME NEW k \in Cancellers, NEW j \in Jobs, CancelCopies(k, j) PROVE Places'
  BY <1>30 DEF CancelCopies, config, stopping, invoking, joins, calling, outside
<1>31. CASE UNCHANGED vars
  BY <1>31 DEF vars, config, stopping, invoking, joins, calling, outside
<1> QED
  BY <1>1, <1>2, <1>3, <1>4, <1>5, <1>6, <1>7, <1>8, <1>9, <1>10, <1>11, <1>12, <1>13, <1>14,
     <1>15, <1>16, <1>17, <1>18, <1>19, <1>20, <1>21, <1>22, <1>23, <1>24, <1>25, <1>26, <1>27,
     <1>28, <1>29, <1>30, <1>31
     DEF Next, RunSteps, TriggerSteps, JoinSteps, JobSteps

\* A step that neither starts nor ends a run, nor an invocation of its jobs.
LEMMA OneRunKept ==
  ASSUME LifeInv, UNCHANGED <<running, epoch, onDemand>>,
         \A d \in Callers :
           /\ ret'[d] = "renew" <=> ret[d] = "renew"
           /\ pc'[d] \in Triggering => pc[d] \in Triggering \/ ~running
           /\ ret'[d] = "renew" /\ pc'[d] # "wait" => pc[d] # "wait"
           /\ pc'[d] \in Renewing => pc[d] \in Renewing,
         \A j \in Jobs :
           /\ inv'[j] # "none" => inv[j] # "none" \/ (j \in onDemand /\ ~running)
           /\ began'[j] = began[j] \/ (inv[j] # "none" /\ inv'[j] = "none")
  PROVE  OneRun'
<1> USE DEF LifeInv, LifeType, ConfigType, OneRun
<1>1. \A c, d \in Callers : ret'[c] = "renew" /\ ret'[d] = "renew" => c = d
  OBVIOUS
<1>2. running' <=> \E c \in Callers : ret'[c] = "renew"
  OBVIOUS
<1>3. running' => /\ \A c \in Callers : pc'[c] \notin Triggering
                  /\ \A j \in onDemand' : inv'[j] = "none"
  OBVIOUS
<1>4. \A c \in Callers :
        ret'[c] = "renew" /\ pc'[c] # "wait" => \A j \in Jobs : inv'[j] = "none"
  OBVIOUS
<1>5. \A c \in Callers : pc'[c] \in Renewing => \A j \in Jobs \ onDemand' : began'[j] = epoch'
  BY DEF Places, Renewing
<1>6. \A j \in Jobs \ onDemand' : inv'[j] # "none" => running' /\ began'[j] = epoch'
  OBVIOUS
<1> QED
  BY <1>1, <1>2, <1>3, <1>4, <1>5, <1>6

\* running_ keeps a second run out, and trigger() out of a run.
LEMMA OneRunStep ==
  ASSUME LifeInv, [Next]_vars
  PROVE  OneRun'
<1> USE LifecycleAssumption DEF LifeInv, LifeType, ConfigType, JobType, CallType, StopType,
      Places, OneRun, Renewing, Triggering, Labels, None
<1>1. ASSUME NEW c \in Callers, CallRun(c) PROVE OneRun'
  BY <1>1
     DEF CallRun, Goto, HasOrphans, NoTrigger, config, stopping, invoking, joins, calling,
         outside
<1>2. ASSUME NEW c \in Callers, CallJoin(c) PROVE OneRun'
  <2> HIDE DEF OneRun
  <2>1. /\ UNCHANGED <<running, epoch, onDemand, inv, began>>
        /\ \A d \in Callers : ret'[d] = "renew" <=> ret[d] = "renew"
    BY <1>2 DEF CallJoin, Goto, config, stopping, invoking, joins, calling, outside
  <2>2. \A d \in Callers :
          /\ pc'[d] \in Triggering => pc[d] \in Triggering
          /\ pc'[d] \in Renewing => pc[d] \in Renewing
          /\ ret'[d] = "renew" /\ pc'[d] # "wait" => pc[d] # "wait"
    BY <1>2 DEF CallJoin, Goto, config, stopping, invoking, joins, calling, outside
  <2> QED
    BY <2>1, <2>2, OneRunKept
<1>3. ASSUME NEW c \in Callers, Destroy(c) PROVE OneRun'
  BY <1>3 DEF Destroy, Goto, config, stopping, invoking, joins, calling, outside
<1>4. ASSUME NEW c \in Callers, StopExternal(c) PROVE OneRun'
  BY <1>4 DEF StopExternal, config, stopping, invoking, joins, calling, outside
<1>5. ASSUME NEW c \in Callers, Renew(c) PROVE OneRun'
  BY <1>5 DEF Renew, Goto, Renewed, config, stopping, invoking, joins, calling, outside
<1>6. ASSUME NEW c \in Callers, Register(c) PROVE OneRun'
  BY <1>6 DEF Register, Goto, config, stopping, invoking, joins, calling, outside
<1>7. ASSUME NEW c \in Callers, Forwarded(c) PROVE OneRun'
  BY <1>7 DEF Forwarded, Goto, config, stopping, invoking, joins, calling, outside
<1>8. ASSUME NEW c \in Callers, DispatchRoots(c) PROVE OneRun'
  BY <1>8 DEF DispatchRoots, Goto, config, stopping, invoking, joins, calling, outside
<1>9. ASSUME NEW c \in Callers, RunEnds(c) PROVE OneRun'
  BY <1>9 DEF RunEnds, Goto, config, stopping, invoking, joins, calling, outside
<1>10. ASSUME NEW c \in Callers, ScopeEnds(c) PROVE OneRun'
  BY <1>10 DEF ScopeEnds, Goto, config, stopping, invoking, joins, calling, outside
<1>11. ASSUME NEW c \in Callers, TriggerClaim(c) PROVE OneRun'
  BY <1>11
     DEF TriggerClaim, Goto, Leave, Renewed, config, stopping, invoking, joins, calling, outside
<1>12. ASSUME NEW c \in Callers, TriggerSubmit(c) PROVE OneRun'
  <2>1. target[c] \in onDemand /\ ~running
    BY <1>12 DEF TriggerSubmit, Triggers
  <2>2. /\ UNCHANGED <<running, epoch, onDemand, ret, began>>
        /\ \A i \in Jobs : inv'[i] # "none" => inv[i] # "none" \/ i = target[c]
    BY <1>12 DEF TriggerSubmit, Goto, Leave, config, stopping, invoking, joins, calling, outside
  <2>3. \A d \in Callers :
          /\ pc'[d] \in Triggering => pc[d] \in Triggering
          /\ pc'[d] \in Renewing => pc[d] \in Renewing
          /\ ret'[d] = "renew" /\ pc'[d] # "wait" => pc[d] # "wait"
    BY <1>12 DEF TriggerSubmit, Goto, Leave, config, stopping, invoking, joins, calling, outside
  <2> HIDE DEF OneRun, Places, JobType, CallType, Renewing, Triggering
  <2>4. \A i \in Jobs : inv'[i] # "none" => inv[i] # "none" \/ (i \in onDemand /\ ~running)
    BY <2>1, <2>2
  <2> QED
    BY <2>2, <2>3, <2>4, OneRunKept
<1>13. ASSUME NEW c \in Callers, NothingToJoin(c) PROVE OneRun'
  <2> HIDE DEF OneRun
  <2>1. /\ UNCHANGED <<running, epoch, onDemand, inv, began>>
        /\ \A d \in Callers : ret'[d] = "renew" <=> ret[d] = "renew"
    BY <1>13
       DEF NothingToJoin, Goto, HasOrphans, config, stopping, invoking, joins, calling, outside
  <2>2. \A d \in Callers :
          /\ pc'[d] \in Triggering => pc[d] \in Triggering
          /\ pc'[d] \in Renewing => pc[d] \in Renewing
          /\ ret'[d] = "renew" /\ pc'[d] # "wait" => pc[d] # "wait"
    BY <1>13
       DEF NothingToJoin, Goto, HasOrphans, config, stopping, invoking, joins, calling, outside
  <2> QED
    BY <2>1, <2>2, OneRunKept
<1>14. ASSUME NEW c \in Callers, JoinBegins(c) PROVE OneRun'
  BY <1>14 DEF JoinBegins, Goto, HasOrphans, config, stopping, invoking, joins, calling, outside
<1>15. ASSUME NEW c \in Callers, JoinEnds(c) PROVE OneRun'
  <2> HIDE DEF OneRun
  <2>1. /\ UNCHANGED <<running, epoch, onDemand, inv, began>>
        /\ \A d \in Callers : ret'[d] = "renew" <=> ret[d] = "renew"
    BY <1>15 DEF JoinEnds, Goto, config, stopping, invoking, joins, calling, outside
  <2>2. \A d \in Callers :
          /\ pc'[d] \in Triggering => pc[d] \in Triggering
          /\ pc'[d] \in Renewing => pc[d] \in Renewing
          /\ ret'[d] = "renew" /\ pc'[d] # "wait" => pc[d] # "wait"
    BY <1>15 DEF JoinEnds, Goto, config, stopping, invoking, joins, calling, outside
  <2> QED
    BY <2>1, <2>2, OneRunKept
<1>16. ASSUME NEW c \in Callers, NEW j \in Jobs, TriggerCheck(c, j) PROVE OneRun'
  BY <1>16
     DEF TriggerCheck, Goto, HasOrphans, config, stopping, invoking, joins, calling, outside
<1>17. ASSUME NEW c \in Callers, NEW j \in Jobs, ForwardStop(c, j) PROVE OneRun'
  BY <1>17 DEF ForwardStop, Request, config, stopping, invoking, joins, calling, outside
<1>18. ASSUME NEW j \in Jobs, Enter(j) PROVE OneRun'
  BY <1>18 DEF Enter, Step, Body, config, stopping, invoking, joins, calling, outside
<1>19. ASSUME NEW j \in Jobs, BodyReturns(j) PROVE OneRun'
  BY <1>19 DEF BodyReturns, Step, config, stopping, invoking, joins, calling, outside
<1>20. ASSUME NEW j \in Jobs, HelperDone(j) PROVE OneRun'
  BY <1>20 DEF HelperDone, Step, config, stopping, invoking, joins, calling, outside
<1>21. ASSUME NEW j \in Jobs, HelperStopped(j) PROVE OneRun'
  BY <1>21 DEF HelperStopped, Step, config, stopping, invoking, joins, calling, outside
<1>22. ASSUME NEW j \in Jobs, AlarmStops(j) PROVE OneRun'
  BY <1>22 DEF AlarmStops, Request, config, stopping, invoking, joins, calling, outside
<1>23. ASSUME NEW j \in Jobs, Disarm(j) PROVE OneRun'
  BY <1>23 DEF Disarm, Step, Disarmed, config, stopping, invoking, joins, calling, outside
<1>24. ASSUME NEW j \in Jobs, Retain(j) PROVE OneRun'
  BY <1>24 DEF Retain, Step, Disarmed, Body, config, stopping, invoking, joins, calling, outside
<1>25. ASSUME NEW j \in Jobs, Finish(j) PROVE OneRun'
  <2> HIDE DEF OneRun
  <2>1. /\ UNCHANGED <<running, epoch, onDemand, pc, ret>>
        /\ inv[j] = "finish" /\ inv'[j] = "none"
        /\ \A i \in Jobs \ {j} : inv'[i] = inv[i] /\ began'[i] = began[i]
    BY <1>25 DEF Finish, Step, config, stopping, invoking, joins, calling, outside
  <2> QED
    BY <2>1, OneRunKept
<1>26. ASSUME NEW j \in Jobs, AlarmFires(j) PROVE OneRun'
  BY <1>26 DEF AlarmFires, config, stopping, invoking, joins, calling, outside
<1>27. ASSUME NEW j \in Jobs, HelperTimesOut(j) PROVE OneRun'
  BY <1>27
     DEF HelperTimesOut, Step, Request, config, stopping, invoking, joins, calling, outside
<1>28. ASSUME NEW b \in bodies, HelperReturns(b) PROVE OneRun'
  BY <1>28 DEF HelperReturns, config, stopping, invoking, joins, calling, outside
<1>29. ASSUME NEW k \in Cancellers, CancelStops(k) PROVE OneRun'
  BY <1>29 DEF CancelStops, Request, config, stopping, invoking, joins, calling, outside
<1>30. ASSUME NEW k \in Cancellers, NEW j \in Jobs, CancelCopies(k, j) PROVE OneRun'
  BY <1>30 DEF CancelCopies, config, stopping, invoking, joins, calling, outside
<1>31. CASE UNCHANGED vars
  BY <1>31 DEF vars, config, stopping, invoking, joins, calling, outside
<1> QED
  BY <1>1, <1>2, <1>3, <1>4, <1>5, <1>6, <1>7, <1>8, <1>9, <1>10, <1>11, <1>12, <1>13, <1>14,
     <1>15, <1>16, <1>17, <1>18, <1>19, <1>20, <1>21, <1>22, <1>23, <1>24, <1>25, <1>26, <1>27,
     <1>28, <1>29, <1>30, <1>31
     DEF Next, RunSteps, TriggerSteps, JoinSteps, JobSteps

\* A step that starts no trigger and no invocation.
LEMMA TriggersKept ==
  ASSUME LifeInv, onDemand' = onDemand,
         \A d \in Callers :
           /\ pc'[d] \in Triggering => pc'[d] = pc[d] /\ target'[d] = target[d]
           /\ scope'[d] # None => scope[d] # None,
         \A j \in onDemand :
           /\ inv'[j] # "none" => inv[j] # "none"
           /\ status'[j] = status[j] \/ status'[j] = "kRunning" \/ inv'[j] = "none"
           /\ inv[j] = "none" => status'[j] = status[j]
  PROVE  Triggers'
<1> USE DEF LifeInv, LifeType, ConfigType, Triggers, Triggering
<1>1. \A c \in Callers :
        pc'[c] \in Triggering => target'[c] \in onDemand' /\ \A d \in Callers : scope'[d] = None
  OBVIOUS
<1>2. \A c \in Callers :
        pc'[c] = "submit" => inv'[target'[c]] = "none" /\ status'[target'[c]] = "kReady"
  OBVIOUS
<1>3. \A c \in Callers : scope'[c] # None => \A j \in onDemand' : inv'[j] = "none"
  OBVIOUS
<1>4. \A c, d \in Callers :
        pc'[c] = "submit" /\ pc'[d] = "submit" /\ target'[c] = target'[d] => c = d
  OBVIOUS
<1>5. \A j \in onDemand' : inv'[j] # "none" => status'[j] \in {"kReady", "kRunning"}
  OBVIOUS
<1> QED
  BY <1>1, <1>2, <1>3, <1>4, <1>5

\* stopMtx_ and the status keep a second trigger of a job out.
LEMMA TriggersStep ==
  ASSUME LifeInv, [Next]_vars
  PROVE  Triggers'
<1> USE LifecycleAssumption DEF LifeInv, LifeType, ConfigType, JobType, CallType, StopType,
      Places, OneRun, Triggers, Renewing, Triggering, Labels, None
<1>1. ASSUME NEW c \in Callers, CallRun(c) PROVE Triggers'
  BY <1>1
     DEF CallRun, Goto, HasOrphans, NoTrigger, config, stopping, invoking, joins, calling,
         outside
<1>2. ASSUME NEW c \in Callers, CallJoin(c) PROVE Triggers'
  BY <1>2 DEF CallJoin, Goto, config, stopping, invoking, joins, calling, outside
<1>3. ASSUME NEW c \in Callers, Destroy(c) PROVE Triggers'
  BY <1>3 DEF Destroy, Goto, config, stopping, invoking, joins, calling, outside
<1>4. ASSUME NEW c \in Callers, StopExternal(c) PROVE Triggers'
  BY <1>4 DEF StopExternal, config, stopping, invoking, joins, calling, outside
<1>5. ASSUME NEW c \in Callers, Renew(c) PROVE Triggers'
  BY <1>5 DEF Renew, Goto, Renewed, config, stopping, invoking, joins, calling, outside
<1>6. ASSUME NEW c \in Callers, Register(c) PROVE Triggers'
  BY <1>6 DEF Register, Goto, config, stopping, invoking, joins, calling, outside
<1>7. ASSUME NEW c \in Callers, Forwarded(c) PROVE Triggers'
  BY <1>7 DEF Forwarded, Goto, config, stopping, invoking, joins, calling, outside
<1>8. ASSUME NEW c \in Callers, DispatchRoots(c) PROVE Triggers'
  BY <1>8 DEF DispatchRoots, Goto, config, stopping, invoking, joins, calling, outside
<1>9. ASSUME NEW c \in Callers, RunEnds(c) PROVE Triggers'
  BY <1>9 DEF RunEnds, Goto, config, stopping, invoking, joins, calling, outside
<1>10. ASSUME NEW c \in Callers, ScopeEnds(c) PROVE Triggers'
  BY <1>10 DEF ScopeEnds, Goto, config, stopping, invoking, joins, calling, outside
<1>11. ASSUME NEW c \in Callers, TriggerClaim(c) PROVE Triggers'
  <2>1. PICK i \in onDemand : i = target[c]
    BY <1>11 DEF TriggerClaim
  <2>2. UNCHANGED <<onDemand, scope, inv>> /\ i \in Jobs /\ pc[c] = "checked"
    BY <1>11, <2>1
       DEF TriggerClaim, Goto, Leave, Renewed, config, stopping, invoking, joins, calling,
           outside
  <2>3. CASE status[i] \in {"kReady", "kRunning"}
    <3>1. /\ UNCHANGED <<onDemand, scope, inv, status>>
          /\ pc' = [pc EXCEPT ![c] = "idle"] /\ target' = [target EXCEPT ![c] = Nobody]
      BY <1>11, <2>1, <2>3
         DEF TriggerClaim, Goto, Leave, Renewed, config, stopping, invoking, joins, calling,
             outside
    <3>2. \A d \in Callers :
            pc'[d] \in Triggering => pc'[d] = pc[d] /\ target'[d] = target[d]
      BY <3>1
    <3> HIDE DEF Triggers
    <3> QED
      BY <3>1, <3>2, TriggersKept
  <2>4. CASE status[i] \notin {"kReady", "kRunning"}
    <3>1. /\ status' = [status EXCEPT ![i] = "kReady"] /\ target' = target
          /\ pc' = [pc EXCEPT ![c] = "submit"]
      BY <1>11, <2>1, <2>4 DEF TriggerClaim, Goto
    <3>2. inv[i] = "none" /\ \A d \in Callers : pc[d] = "submit" => target[d] # i
      BY <2>4
    <3> QED
      BY <2>1, <2>2, <3>1, <3>2
  <2> QED
    BY <2>3, <2>4
<1>12. ASSUME NEW c \in Callers, TriggerSubmit(c) PROVE Triggers'
  <2>1. PICK i \in onDemand : i = target[c]
    BY <1>12 DEF TriggerSubmit
  <2>2. /\ UNCHANGED <<onDemand, scope, ret>> /\ i \in Jobs
        /\ inv' = [inv EXCEPT ![i] = "queued"] \/ inv' = inv
        /\ status' = status \/ (status' = [status EXCEPT ![i] = "kFailed"] /\ inv' = inv)
    BY <1>12, <2>1
       DEF TriggerSubmit, Goto, Leave, config, stopping, invoking, joins, calling, outside
  <2>3. /\ pc'[c] = "idle"
        /\ \A d \in Callers \ {c} :
             /\ pc'[d] = pc[d] /\ target'[d] = target[d]
             /\ pc[d] = "submit" => target[d] # i
    BY <1>12, <2>1
       DEF TriggerSubmit, Goto, Leave, config, stopping, invoking, joins, calling, outside
  <2>4. \A d \in Callers : scope[d] = None
    BY <1>12 DEF TriggerSubmit
  <2>5. inv[i] = "none" /\ status[i] = "kReady"
    BY <1>12, <2>1 DEF TriggerSubmit
  <2>6. \A d \in Callers : pc'[d] = "submit" => /\ inv'[target'[d]] = "none"
                                              /\ status'[target'[d]] = "kReady"
    BY <2>2, <2>3
  <2>7. \A j \in onDemand' : inv'[j] # "none" => status'[j] \in {"kReady", "kRunning"}
    BY <2>2, <2>5
  <2>8. \A d \in Callers :
          /\ pc'[d] \in Triggering => target'[d] \in onDemand'
          /\ scope'[d] = None
    BY <2>2, <2>3, <2>4
  <2>9. \A d, e \in Callers :
          pc'[d] = "submit" /\ pc'[e] = "submit" /\ target'[d] = target'[e] => d = e
    <3>1. \A d \in Callers : pc'[d] = "submit" => pc[d] = "submit" /\ target'[d] = target[d]
      BY <2>3
    <3> QED
      BY <3>1
  <2> QED
    BY <2>6, <2>7, <2>8, <2>9
<1>13. ASSUME NEW c \in Callers, NothingToJoin(c) PROVE Triggers'
  <2> HIDE DEF Triggers
  <2>1. UNCHANGED <<onDemand, target, scope, inv, status>>
    BY <1>13
       DEF NothingToJoin, Goto, HasOrphans, config, stopping, invoking, joins, calling, outside
  <2>2. pc' = [pc EXCEPT ![c] = ret[c]]
    BY <1>13
       DEF NothingToJoin, Goto, HasOrphans, config, stopping, invoking, joins, calling, outside
  <2>3. ret[c] \in {"idle", "renew", "complete", "destroyed"}
    OBVIOUS
  <2>4. pc'[c] \notin Triggering /\ \A d \in Callers \ {c} : pc'[d] = pc[d]
    BY <2>2, <2>3
  <2> QED
    BY <2>1, <2>4, TriggersKept
<1>14. ASSUME NEW c \in Callers, JoinBegins(c) PROVE Triggers'
  BY <1>14 DEF JoinBegins, Goto, HasOrphans, config, stopping, invoking, joins, calling, outside
<1>15. ASSUME NEW c \in Callers, JoinEnds(c) PROVE Triggers'
  <2> HIDE DEF Triggers
  <2>1. UNCHANGED <<onDemand, target, scope, inv, status>>
    BY <1>15 DEF JoinEnds, Goto, config, stopping, invoking, joins, calling, outside
  <2>2. pc' = [pc EXCEPT ![c] = ret[c]]
    BY <1>15 DEF JoinEnds, Goto, config, stopping, invoking, joins, calling, outside
  <2>3. ret[c] \in {"idle", "renew", "complete", "destroyed"}
    OBVIOUS
  <2>4. pc'[c] \notin Triggering /\ \A d \in Callers \ {c} : pc'[d] = pc[d]
    BY <2>2, <2>3
  <2> QED
    BY <2>1, <2>4, TriggersKept
<1>16. ASSUME NEW c \in Callers, NEW j \in Jobs, TriggerCheck(c, j) PROVE Triggers'
  <2>1. CASE UNCHANGED <<pc, target>>
    BY <1>16, <2>1
       DEF TriggerCheck, Goto, HasOrphans, config, stopping, invoking, joins, calling, outside
  <2>2. CASE target' = [target EXCEPT ![c] = j] /\ Goto(c, "checked")
    <3>1. UNCHANGED <<onDemand, scope, inv, status>> /\ j \in onDemand
      BY <1>16
         DEF TriggerCheck, Goto, HasOrphans, config, stopping, invoking, joins, calling, outside
    <3>2. \A d \in Callers : scope[d] = None
      BY <1>16 DEF TriggerCheck
    <3>3. /\ pc'[c] = "checked" /\ target'[c] = j
          /\ \A d \in Callers \ {c} : pc'[d] = pc[d] /\ target'[d] = target[d]
      BY <2>2 DEF Goto
    <3>4. \A d \in Callers :
            /\ pc'[d] \in Triggering => target'[d] \in onDemand'
            /\ pc'[d] = "submit" => pc[d] = "submit" /\ target'[d] = target[d]
            /\ scope'[d] = None
      BY <3>1, <3>2, <3>3
    <3>5. \A d, e \in Callers :
            pc'[d] = "submit" /\ pc'[e] = "submit" /\ target'[d] = target'[e] => d = e
      BY <3>4
    <3>6. \A d \in Callers :
            pc'[d] = "submit" => inv'[target'[d]] = "none" /\ status'[target'[d]] = "kReady"
      BY <3>1, <3>4
    <3> QED
      BY <3>1, <3>4, <3>5, <3>6
  <2> QED
    BY <1>16, <2>1, <2>2 DEF TriggerCheck
<1>17. ASSUME NEW c \in Callers, NEW j \in Jobs, ForwardStop(c, j) PROVE Triggers'
  BY <1>17 DEF ForwardStop, Request, config, stopping, invoking, joins, calling, outside
<1>18. ASSUME NEW j \in Jobs, Enter(j) PROVE Triggers'
  BY <1>18 DEF Enter, Step, Body, config, stopping, invoking, joins, calling, outside
<1>19. ASSUME NEW j \in Jobs, BodyReturns(j) PROVE Triggers'
  BY <1>19 DEF BodyReturns, Step, config, stopping, invoking, joins, calling, outside
<1>20. ASSUME NEW j \in Jobs, HelperDone(j) PROVE Triggers'
  BY <1>20 DEF HelperDone, Step, config, stopping, invoking, joins, calling, outside
<1>21. ASSUME NEW j \in Jobs, HelperStopped(j) PROVE Triggers'
  BY <1>21 DEF HelperStopped, Step, config, stopping, invoking, joins, calling, outside
<1>22. ASSUME NEW j \in Jobs, AlarmStops(j) PROVE Triggers'
  BY <1>22 DEF AlarmStops, Request, config, stopping, invoking, joins, calling, outside
<1>23. ASSUME NEW j \in Jobs, Disarm(j) PROVE Triggers'
  BY <1>23 DEF Disarm, Step, Disarmed, config, stopping, invoking, joins, calling, outside
<1>24. ASSUME NEW j \in Jobs, Retain(j) PROVE Triggers'
  BY <1>24 DEF Retain, Step, Disarmed, Body, config, stopping, invoking, joins, calling, outside
<1>25. ASSUME NEW j \in Jobs, Finish(j) PROVE Triggers'
  BY <1>25 DEF Finish, Step, config, stopping, invoking, joins, calling, outside
<1>26. ASSUME NEW j \in Jobs, AlarmFires(j) PROVE Triggers'
  BY <1>26 DEF AlarmFires, config, stopping, invoking, joins, calling, outside
<1>27. ASSUME NEW j \in Jobs, HelperTimesOut(j) PROVE Triggers'
  BY <1>27
     DEF HelperTimesOut, Step, Request, config, stopping, invoking, joins, calling, outside
<1>28. ASSUME NEW b \in bodies, HelperReturns(b) PROVE Triggers'
  BY <1>28 DEF HelperReturns, config, stopping, invoking, joins, calling, outside
<1>29. ASSUME NEW k \in Cancellers, CancelStops(k) PROVE Triggers'
  BY <1>29 DEF CancelStops, Request, config, stopping, invoking, joins, calling, outside
<1>30. ASSUME NEW k \in Cancellers, NEW j \in Jobs, CancelCopies(k, j) PROVE Triggers'
  BY <1>30 DEF CancelCopies, config, stopping, invoking, joins, calling, outside
<1>31. CASE UNCHANGED vars
  BY <1>31 DEF vars, config, stopping, invoking, joins, calling, outside
<1> QED
  BY <1>1, <1>2, <1>3, <1>4, <1>5, <1>6, <1>7, <1>8, <1>9, <1>10, <1>11, <1>12, <1>13, <1>14,
     <1>15, <1>16, <1>17, <1>18, <1>19, <1>20, <1>21, <1>22, <1>23, <1>24, <1>25, <1>26, <1>27,
     <1>28, <1>29, <1>30, <1>31
     DEF Next, RunSteps, TriggerSteps, JoinSteps, JobSteps

----------------------------------------------------------------------------
(* Invocations *)

\* j is claimed as before the step, or by this step with a new epoch.
Held(j) ==
  /\ Claimed(j) /\ began'[j] = began[j] /\ source'[j] = source[j]
  /\ inv'[j] # "finish" => inv[j] # "finish"

Taken(j) ==
  /\ epoch' = epoch + 1 /\ began'[j] = epoch + 1 /\ inv'[j] = "none"
  /\ source'[j] = epoch + 1 \/ source'[j] = source[j]
  /\ source'[j] = epoch + 1 \/ (j \notin cancellable /\ ~Stopped(j, source[j]))

\* Only a renewal under stopMtx_ claims a job, and it gives the job an epoch of its own.
LEMMA ClaimedStep ==
  ASSUME LifeInv, [Next]_vars
  PROVE  \A i \in Jobs : Claimed(i)' => Held(i) \/ Taken(i)
<1> USE LifecycleAssumption DEF LifeInv, LifeType, ConfigType, JobType, CallType, StopType,
      Places, OneRun, Triggers, Claimed, Held, Taken, Renewing, Triggering, Labels
<1>1. ASSUME NEW c \in Callers, CallRun(c)
      PROVE  \A i \in Jobs : Claimed(i)' => Held(i) \/ Taken(i)
  <2>1. UNCHANGED <<onDemand, inv, began, source>>
    BY <1>1
       DEF CallRun, Goto, HasOrphans, NoTrigger, config, stopping, invoking, joins, calling,
           outside
  <2>2. \A d \in Callers :
          /\ pc'[d] \in Renewing => pc[d] \in Renewing
          /\ pc'[d] = "submit" => pc[d] = "submit" /\ target'[d] = target[d]
    BY <1>1
       DEF CallRun, Goto, HasOrphans, NoTrigger, config, stopping, invoking, joins, calling,
           outside
  <2> QED
    BY <2>1, <2>2
<1>2. ASSUME NEW c \in Callers, CallJoin(c)
      PROVE  \A i \in Jobs : Claimed(i)' => Held(i) \/ Taken(i)
  <2>1. UNCHANGED <<onDemand, inv, began, source>>
    BY <1>2 DEF CallJoin, Goto, config, stopping, invoking, joins, calling, outside
  <2>2. \A d \in Callers :
          /\ pc'[d] \in Renewing => pc[d] \in Renewing
          /\ pc'[d] = "submit" => pc[d] = "submit" /\ target'[d] = target[d]
    BY <1>2 DEF CallJoin, Goto, config, stopping, invoking, joins, calling, outside
  <2> QED
    BY <2>1, <2>2
<1>3. ASSUME NEW c \in Callers, Destroy(c)
      PROVE  \A i \in Jobs : Claimed(i)' => Held(i) \/ Taken(i)
  <2>1. UNCHANGED <<onDemand, inv, began, source>>
    BY <1>3 DEF Destroy, Goto, config, stopping, invoking, joins, calling, outside
  <2>2. \A d \in Callers :
          /\ pc'[d] \in Renewing => pc[d] \in Renewing
          /\ pc'[d] = "submit" => pc[d] = "submit" /\ target'[d] = target[d]
    BY <1>3 DEF Destroy, Goto, config, stopping, invoking, joins, calling, outside
  <2> QED
    BY <2>1, <2>2
<1>4. ASSUME NEW c \in Callers, StopExternal(c)
      PROVE  \A i \in Jobs : Claimed(i)' => Held(i) \/ Taken(i)
  BY <1>4 DEF StopExternal, config, stopping, invoking, joins, calling, outside
<1>5. ASSUME NEW c \in Callers, Renew(c)
      PROVE  \A i \in Jobs : Claimed(i)' => Held(i) \/ Taken(i)
  <2>1. /\ epoch' = epoch + 1 /\ UNCHANGED <<onDemand, inv, target>>
        /\ source' = Renewed(Jobs, epoch + 1)
        /\ began' = [j \in Jobs |-> IF j \in onDemand THEN began[j] ELSE epoch + 1]
        /\ pc' = [pc EXCEPT ![c] = "register"]
    BY <1>5 DEF Renew, Goto, Renewed, config, stopping, invoking, joins, calling, outside
  <2>2. /\ \A j \in Jobs : inv[j] = "none"
        /\ \A d \in Callers : pc[d] # "submit"
    BY <1>5 DEF Renew
  <2> SUFFICES ASSUME NEW i \in Jobs, Claimed(i)' PROVE Taken(i)
    OBVIOUS
  <2>3. i \notin onDemand
    BY <2>1, <2>2
  <2> QED
    BY <2>1, <2>2, <2>3 DEF Renewed
<1>6. ASSUME NEW c \in Callers, Register(c)
      PROVE  \A i \in Jobs : Claimed(i)' => Held(i) \/ Taken(i)
  <2>1. UNCHANGED <<onDemand, inv, began, source>>
    BY <1>6 DEF Register, Goto, config, stopping, invoking, joins, calling, outside
  <2>2. \A d \in Callers :
          /\ pc'[d] \in Renewing => pc[d] \in Renewing
          /\ pc'[d] = "submit" => pc[d] = "submit" /\ target'[d] = target[d]
    BY <1>6 DEF Register, Goto, config, stopping, invoking, joins, calling, outside
  <2> QED
    BY <2>1, <2>2
<1>7. ASSUME NEW c \in Callers, Forwarded(c)
      PROVE  \A i \in Jobs : Claimed(i)' => Held(i) \/ Taken(i)
  <2>1. UNCHANGED <<onDemand, inv, began, source>>
    BY <1>7 DEF Forwarded, Goto, config, stopping, invoking, joins, calling, outside
  <2>2. \A d \in Callers :
          /\ pc'[d] \in Renewing => pc[d] \in Renewing
          /\ pc'[d] = "submit" => pc[d] = "submit" /\ target'[d] = target[d]
    BY <1>7 DEF Forwarded, Goto, config, stopping, invoking, joins, calling, outside
  <2> QED
    BY <2>1, <2>2
<1>8. ASSUME NEW c \in Callers, DispatchRoots(c)
      PROVE  \A i \in Jobs : Claimed(i)' => Held(i) \/ Taken(i)
  <2>1. /\ UNCHANGED <<onDemand, began, source, target>> /\ pc[c] = "dispatch"
        /\ inv' = [j \in Jobs |-> IF j \in onDemand THEN inv[j] ELSE "queued"]
        /\ pc' = [pc EXCEPT ![c] = "wait"]
    BY <1>8 DEF DispatchRoots, Goto, config, stopping, invoking, joins, calling, outside
  <2>2. \A j \in Jobs : inv[j] = "none"
    BY <2>1
  <2>3. \A d \in Callers : pc'[d] = "submit" => pc[d] = "submit"
    BY <2>1
  <2> QED
    BY <2>1, <2>2, <2>3
<1>9. ASSUME NEW c \in Callers, RunEnds(c)
      PROVE  \A i \in Jobs : Claimed(i)' => Held(i) \/ Taken(i)
  <2>1. UNCHANGED <<onDemand, inv, began, source>>
    BY <1>9 DEF RunEnds, Goto, config, stopping, invoking, joins, calling, outside
  <2>2. \A d \in Callers :
          /\ pc'[d] \in Renewing => pc[d] \in Renewing
          /\ pc'[d] = "submit" => pc[d] = "submit" /\ target'[d] = target[d]
    BY <1>9 DEF RunEnds, Goto, config, stopping, invoking, joins, calling, outside
  <2> QED
    BY <2>1, <2>2
<1>10. ASSUME NEW c \in Callers, ScopeEnds(c)
      PROVE  \A i \in Jobs : Claimed(i)' => Held(i) \/ Taken(i)
  <2>1. UNCHANGED <<onDemand, inv, began, source>>
    BY <1>10 DEF ScopeEnds, Goto, config, stopping, invoking, joins, calling, outside
  <2>2. \A d \in Callers :
          /\ pc'[d] \in Renewing => pc[d] \in Renewing
          /\ pc'[d] = "submit" => pc[d] = "submit" /\ target'[d] = target[d]
    BY <1>10 DEF ScopeEnds, Goto, config, stopping, invoking, joins, calling, outside
  <2> QED
    BY <2>1, <2>2
<1>11. ASSUME NEW c \in Callers, TriggerClaim(c)
      PROVE  \A i \in Jobs : Claimed(i)' => Held(i) \/ Taken(i)
  <2>1. PICK t \in onDemand : t = target[c]
    BY <1>11 DEF TriggerClaim
  <2>2. UNCHANGED <<onDemand, inv>> /\ t \in Jobs /\ pc[c] = "checked"
    BY <1>11, <2>1
       DEF TriggerClaim, Goto, Leave, Renewed, config, stopping, invoking, joins, calling,
           outside
  <2>3. CASE status[t] \in {"kReady", "kRunning"}
    <3>1. /\ UNCHANGED <<began, source>>
          /\ pc' = [pc EXCEPT ![c] = "idle"] /\ target' = [target EXCEPT ![c] = Nobody]
      BY <1>11, <2>1, <2>3
         DEF TriggerClaim, Goto, Leave, Renewed, config, stopping, invoking, joins, calling,
             outside
    <3>2. \A d \in Callers :
            /\ pc'[d] \in Renewing => pc[d] \in Renewing
            /\ pc'[d] = "submit" => pc[d] = "submit" /\ target'[d] = target[d]
      BY <3>1
    <3>3. \A i \in Jobs : Claimed(i)' => Claimed(i)
      BY <2>2, <3>2
    <3> HIDE DEF Claimed, Taken
    <3> QED
      BY <2>2, <3>1, <3>3
  <2>4. CASE status[t] \notin {"kReady", "kRunning"}
    <3>1. /\ epoch' = epoch + 1 /\ target' = target
          /\ source' = Renewed({t}, epoch + 1)
          /\ began' = [began EXCEPT ![t] = epoch + 1]
          /\ pc' = [pc EXCEPT ![c] = "submit"]
      BY <1>11, <2>1, <2>4 DEF TriggerClaim, Goto
    <3>2. inv[t] = "none"
      BY <2>1, <2>4
    <3>3. Taken(t)
      BY <2>2, <3>1, <3>2 DEF Renewed
    <3>4. \A d \in Callers :
            /\ pc'[d] \in Renewing => pc[d] \in Renewing
            /\ pc'[d] = "submit" /\ d # c => pc[d] = "submit"
      BY <3>1
    <3>5. ASSUME NEW i \in Jobs \ {t}, Claimed(i)' PROVE Held(i)
      <4>1. began'[i] = began[i] /\ source'[i] = source[i]
        BY <2>2, <3>1 DEF Renewed
      <4> QED
        BY <2>1, <2>2, <3>1, <3>4, <3>5, <4>1
    <3> HIDE DEF Claimed, Held, Taken
    <3> QED
      BY <3>3, <3>5
  <2> QED
    BY <2>3, <2>4
<1>12. ASSUME NEW c \in Callers, TriggerSubmit(c)
      PROVE  \A i \in Jobs : Claimed(i)' => Held(i) \/ Taken(i)
  <2>1. PICK t \in onDemand : t = target[c]
    BY <1>12 DEF TriggerSubmit
  <2>2. /\ UNCHANGED <<onDemand, began, source>> /\ t \in Jobs /\ inv[t] = "none" /\ Claimed(t)
        /\ inv' = [inv EXCEPT ![t] = "queued"] \/ inv' = inv
    BY <1>12, <2>1
       DEF TriggerSubmit, Goto, Leave, config, stopping, invoking, joins, calling, outside
  <2>3. \A d \in Callers :
          /\ pc'[d] \in Renewing => pc[d] \in Renewing
          /\ pc'[d] = "submit" => pc[d] = "submit" /\ target'[d] = target[d]
    BY <1>12 DEF TriggerSubmit, Goto, Leave, config, stopping, invoking, joins, calling, outside
  <2>4. \A i \in Jobs \ {t} : inv'[i] = inv[i]
    BY <2>2
  <2> QED
    BY <2>2, <2>3, <2>4
<1>13. ASSUME NEW c \in Callers, NothingToJoin(c)
      PROVE  \A i \in Jobs : Claimed(i)' => Held(i) \/ Taken(i)
  <2>1. UNCHANGED <<onDemand, inv, began, source, target>> /\ pc' = [pc EXCEPT ![c] = ret[c]]
    BY <1>13
       DEF NothingToJoin, Goto, HasOrphans, config, stopping, invoking, joins, calling, outside
  <2>2. ret[c] \in {"idle", "renew", "complete", "destroyed"}
    OBVIOUS
  <2>3. \A d \in Callers :
          /\ pc'[d] \in Renewing => pc[d] \in Renewing
          /\ pc'[d] = "submit" => pc[d] = "submit"
    BY <2>1, <2>2
  <2> QED
    BY <2>1, <2>3
<1>14. ASSUME NEW c \in Callers, JoinBegins(c)
      PROVE  \A i \in Jobs : Claimed(i)' => Held(i) \/ Taken(i)
  <2>1. UNCHANGED <<onDemand, inv, began, source>>
    BY <1>14
       DEF JoinBegins, Goto, HasOrphans, config, stopping, invoking, joins, calling, outside
  <2>2. \A d \in Callers :
          /\ pc'[d] \in Renewing => pc[d] \in Renewing
          /\ pc'[d] = "submit" => pc[d] = "submit" /\ target'[d] = target[d]
    BY <1>14
       DEF JoinBegins, Goto, HasOrphans, config, stopping, invoking, joins, calling, outside
  <2> QED
    BY <2>1, <2>2
<1>15. ASSUME NEW c \in Callers, JoinEnds(c)
      PROVE  \A i \in Jobs : Claimed(i)' => Held(i) \/ Taken(i)
  <2>1. UNCHANGED <<onDemand, inv, began, source, target>> /\ pc' = [pc EXCEPT ![c] = ret[c]]
    BY <1>15 DEF JoinEnds, Goto, config, stopping, invoking, joins, calling, outside
  <2>2. ret[c] \in {"idle", "renew", "complete", "destroyed"}
    OBVIOUS
  <2>3. \A d \in Callers :
          /\ pc'[d] \in Renewing => pc[d] \in Renewing
          /\ pc'[d] = "submit" => pc[d] = "submit"
    BY <2>1, <2>2
  <2> QED
    BY <2>1, <2>3
<1>16. ASSUME NEW c \in Callers, NEW j \in Jobs, TriggerCheck(c, j)
      PROVE  \A i \in Jobs : Claimed(i)' => Held(i) \/ Taken(i)
  <2>1. UNCHANGED <<onDemand, inv, began, source>>
    BY <1>16
       DEF TriggerCheck, Goto, HasOrphans, config, stopping, invoking, joins, calling, outside
  <2>2. \A d \in Callers :
          /\ pc'[d] \in Renewing => pc[d] \in Renewing
          /\ pc'[d] = "submit" => pc[d] = "submit" /\ target'[d] = target[d]
    BY <1>16
       DEF TriggerCheck, Goto, HasOrphans, config, stopping, invoking, joins, calling, outside
  <2> QED
    BY <2>1, <2>2
<1>17. ASSUME NEW c \in Callers, NEW j \in Jobs, ForwardStop(c, j)
      PROVE  \A i \in Jobs : Claimed(i)' => Held(i) \/ Taken(i)
  BY <1>17 DEF ForwardStop, Request, config, stopping, invoking, joins, calling, outside
<1>18. ASSUME NEW j \in Jobs, Enter(j) PROVE \A i \in Jobs : Claimed(i)' => Held(i) \/ Taken(i)
  <2>1. UNCHANGED <<onDemand, pc, target, began, source>> /\ inv[j] \notin {"none", "finish"}
    BY <1>18 DEF Enter, Step, Body, config, stopping, invoking, joins, calling, outside
  <2>2. \A i \in Jobs \ {j} : inv'[i] = inv[i]
    BY <1>18 DEF Enter, Step, Body, config, stopping, invoking, joins, calling, outside
  <2> QED
    BY <2>1, <2>2
<1>19. ASSUME NEW j \in Jobs, BodyReturns(j)
      PROVE  \A i \in Jobs : Claimed(i)' => Held(i) \/ Taken(i)
  <2>1. UNCHANGED <<onDemand, pc, target, began, source>> /\ inv[j] \notin {"none", "finish"}
    BY <1>19 DEF BodyReturns, Step, config, stopping, invoking, joins, calling, outside
  <2>2. \A i \in Jobs \ {j} : inv'[i] = inv[i]
    BY <1>19 DEF BodyReturns, Step, config, stopping, invoking, joins, calling, outside
  <2> QED
    BY <2>1, <2>2
<1>20. ASSUME NEW j \in Jobs, HelperDone(j)
      PROVE  \A i \in Jobs : Claimed(i)' => Held(i) \/ Taken(i)
  <2>1. UNCHANGED <<onDemand, pc, target, began, source>> /\ inv[j] \notin {"none", "finish"}
    BY <1>20 DEF HelperDone, Step, config, stopping, invoking, joins, calling, outside
  <2>2. \A i \in Jobs \ {j} : inv'[i] = inv[i]
    BY <1>20 DEF HelperDone, Step, config, stopping, invoking, joins, calling, outside
  <2> QED
    BY <2>1, <2>2
<1>21. ASSUME NEW j \in Jobs, HelperStopped(j)
      PROVE  \A i \in Jobs : Claimed(i)' => Held(i) \/ Taken(i)
  <2>1. UNCHANGED <<onDemand, pc, target, began, source>> /\ inv[j] \notin {"none", "finish"}
    BY <1>21 DEF HelperStopped, Step, config, stopping, invoking, joins, calling, outside
  <2>2. \A i \in Jobs \ {j} : inv'[i] = inv[i]
    BY <1>21 DEF HelperStopped, Step, config, stopping, invoking, joins, calling, outside
  <2> QED
    BY <2>1, <2>2
<1>22. ASSUME NEW j \in Jobs, AlarmStops(j)
      PROVE  \A i \in Jobs : Claimed(i)' => Held(i) \/ Taken(i)
  BY <1>22 DEF AlarmStops, Request, config, stopping, invoking, joins, calling, outside
<1>23. ASSUME NEW j \in Jobs, Disarm(j) PROVE \A i \in Jobs : Claimed(i)' => Held(i) \/ Taken(i)
  <2>1. UNCHANGED <<onDemand, pc, target, began, source>> /\ inv[j] \notin {"none", "finish"}
    BY <1>23 DEF Disarm, Step, Disarmed, config, stopping, invoking, joins, calling, outside
  <2>2. \A i \in Jobs \ {j} : inv'[i] = inv[i]
    BY <1>23 DEF Disarm, Step, Disarmed, config, stopping, invoking, joins, calling, outside
  <2> QED
    BY <2>1, <2>2
<1>24. ASSUME NEW j \in Jobs, Retain(j) PROVE \A i \in Jobs : Claimed(i)' => Held(i) \/ Taken(i)
  <2>1. UNCHANGED <<onDemand, pc, target, began, source>> /\ inv[j] \notin {"none", "finish"}
    BY <1>24
       DEF Retain, Step, Disarmed, Body, config, stopping, invoking, joins, calling, outside
  <2>2. \A i \in Jobs \ {j} : inv'[i] = inv[i]
    BY <1>24
       DEF Retain, Step, Disarmed, Body, config, stopping, invoking, joins, calling, outside
  <2> QED
    BY <2>1, <2>2
<1>25. ASSUME NEW j \in Jobs, Finish(j) PROVE \A i \in Jobs : Claimed(i)' => Held(i) \/ Taken(i)
  <2>1. /\ UNCHANGED <<onDemand, pc, target, source>> /\ inv[j] = "finish" /\ inv'[j] = "none"
        /\ \A i \in Jobs \ {j} : inv'[i] = inv[i] /\ began'[i] = began[i]
    BY <1>25 DEF Finish, Step, config, stopping, invoking, joins, calling, outside
  <2>2. \A d \in Callers : pc[d] \notin Renewing /\ (pc[d] = "submit" => target[d] # j)
    BY <2>1
  <2>3. ~Claimed(j)'
    BY <2>1, <2>2
  <2> QED
    BY <2>1, <2>3
<1>26. ASSUME NEW j \in Jobs, AlarmFires(j)
      PROVE  \A i \in Jobs : Claimed(i)' => Held(i) \/ Taken(i)
  BY <1>26 DEF AlarmFires, config, stopping, invoking, joins, calling, outside
<1>27. ASSUME NEW j \in Jobs, HelperTimesOut(j)
      PROVE  \A i \in Jobs : Claimed(i)' => Held(i) \/ Taken(i)
  <2>1. UNCHANGED <<onDemand, pc, target, began, source>> /\ inv[j] \notin {"none", "finish"}
    BY <1>27
       DEF HelperTimesOut, Step, Request, config, stopping, invoking, joins, calling, outside
  <2>2. \A i \in Jobs \ {j} : inv'[i] = inv[i]
    BY <1>27
       DEF HelperTimesOut, Step, Request, config, stopping, invoking, joins, calling, outside
  <2> QED
    BY <2>1, <2>2
<1>28. ASSUME NEW b \in bodies, HelperReturns(b)
      PROVE  \A i \in Jobs : Claimed(i)' => Held(i) \/ Taken(i)
  BY <1>28 DEF HelperReturns, config, stopping, invoking, joins, calling, outside
<1>29. ASSUME NEW k \in Cancellers, CancelStops(k)
      PROVE  \A i \in Jobs : Claimed(i)' => Held(i) \/ Taken(i)
  BY <1>29 DEF CancelStops, Request, config, stopping, invoking, joins, calling, outside
<1>30. ASSUME NEW k \in Cancellers, NEW j \in Jobs, CancelCopies(k, j)
      PROVE  \A i \in Jobs : Claimed(i)' => Held(i) \/ Taken(i)
  BY <1>30 DEF CancelCopies, config, stopping, invoking, joins, calling, outside
<1>31. CASE UNCHANGED vars
  BY <1>31 DEF vars, config, stopping, invoking, joins, calling, outside
<1> QED
  BY <1>1, <1>2, <1>3, <1>4, <1>5, <1>6, <1>7, <1>8, <1>9, <1>10, <1>11, <1>12, <1>13, <1>14,
     <1>15, <1>16, <1>17, <1>18, <1>19, <1>20, <1>21, <1>22, <1>23, <1>24, <1>25, <1>26, <1>27,
     <1>28, <1>29, <1>30, <1>31
     DEF Next, RunSteps, TriggerSteps, JoinSteps, JobSteps

----------------------------------------------------------------------------
(* The ledger of abandoned bodies *)

\* The ledger itself is left alone.
LEMMA LedgerKept ==
  ASSUME LifeInv, [Next]_vars, UNCHANGED joins,
         epoch' \in Nat, epoch' >= epoch,
         \A b \in bodies' :
           \/ b \in orphans \cup batch
           \/ inv'[b[1]] \in {"waiting", "abandon"} /\ b[2] = began'[b[1]]
  PROVE  Ledger'
<1> USE DEF LifeInv, LifeType, CallType, Ledger, joins
<1>1. \A b \in orphans' \cup batch' : b[2] <= epoch'
  <2> SUFFICES ASSUME NEW b \in orphans \cup batch PROVE b[2] <= epoch'
    OBVIOUS
  <2>1. b[2] \in Nat /\ epoch \in Nat /\ b[2] <= epoch
    OBVIOUS
  <2> QED
    BY <2>1
<1>2. ASSUME NEW j \in Jobs, Claimed(j)', inv'[j] # "finish"
      PROVE  Body(j)' \notin orphans \cup batch
  <2>1. CASE Held(j)
    BY <1>2, <2>1 DEF Held, Body
  <2>2. CASE Taken(j)
    <3>1. ASSUME NEW b \in orphans \cup batch, b = <<j, began'[j]>> PROVE FALSE
      <4>1. b[2] \in Nat /\ epoch \in Nat /\ b[2] <= epoch
        OBVIOUS
      <4>2. b[2] = epoch + 1
        BY <2>2, <3>1 DEF Taken
      <4> QED
        BY <4>1, <4>2
    <3> QED
      BY <3>1 DEF Body
  <2> QED
    BY <1>2, <2>1, <2>2, ClaimedStep
<1> QED
  BY <1>1, <1>2

LEMMA LedgerSame ==
  ASSUME LifeInv, [Next]_vars, UNCHANGED <<joins, epoch, bodies, inv, began>>
  PROVE  Ledger'
<1>1. \A b \in bodies :
        b \in orphans \cup batch \/ (inv[b[1]] \in {"waiting", "abandon"} /\ b[2] = began[b[1]])
  BY DEF LifeInv, Ledger
<1>2. epoch \in Nat /\ epoch >= epoch
  BY DEF LifeInv, LifeType, CallType
<1> QED
  BY <1>1, <1>2, LedgerKept

\* retain() and joinOrphans() move a body, and never lose or double one.
LEMMA LedgerStep ==
  ASSUME LifeInv, [Next]_vars
  PROVE  Ledger'
<1> USE LifecycleAssumption DEF LifeInv, LifeType, ConfigType, JobType, CallType, StopType,
      Places, OneRun, Triggers, Ledger, Renewing, Triggering
<1>1. ASSUME NEW c \in Callers, Renew(c) PROVE Ledger'
  <2>1. /\ UNCHANGED <<joins, bodies, inv>> /\ epoch' = epoch + 1
        /\ \A j \in Jobs : inv[j] = "none"
    BY <1>1 DEF Renew, Goto, Renewed, config, stopping, invoking, joins, calling, outside
  <2>2. \A b \in bodies' : b \in orphans \cup batch
    BY <2>1
  <2> QED
    BY <2>1, <2>2, LedgerKept
<1>2. ASSUME NEW c \in Callers, DispatchRoots(c) PROVE Ledger'
  <2>1. UNCHANGED <<joins, epoch, bodies>> /\ \A j \in Jobs : inv[j] = "none"
    BY <1>2 DEF DispatchRoots, Goto, config, stopping, invoking, joins, calling, outside
  <2>2. ASSUME NEW b \in bodies'
        PROVE  \/ b \in orphans \cup batch
               \/ inv'[b[1]] \in {"waiting", "abandon"} /\ b[2] = began'[b[1]]
    BY <2>1, <2>2 DEF Ledger
  <2> QED
    BY <2>1, <2>2, LedgerKept
<1>3. ASSUME NEW c \in Callers, TriggerClaim(c) PROVE Ledger'
  <2>1. PICK t \in onDemand : t = target[c]
    BY <1>3 DEF TriggerClaim
  <2>2. UNCHANGED <<joins, bodies, inv>> /\ t \in Jobs
    BY <1>3, <2>1
       DEF TriggerClaim, Goto, Leave, Renewed, config, stopping, invoking, joins, calling,
           outside
  <2>3. epoch' \in Nat /\ epoch' >= epoch
    BY <1>3
       DEF TriggerClaim, Goto, Leave, Renewed, config, stopping, invoking, joins, calling,
           outside
  <2>4. began' = began \/ (inv[t] = "none" /\ began' = [began EXCEPT ![t] = epoch + 1])
    BY <1>3, <2>1
       DEF TriggerClaim, Goto, Leave, Renewed, config, stopping, invoking, joins, calling,
           outside
  <2>5. ASSUME NEW b \in bodies'
        PROVE  \/ b \in orphans \cup batch
               \/ inv'[b[1]] \in {"waiting", "abandon"} /\ b[2] = began'[b[1]]
    BY <2>2, <2>4, <2>5
  <2> QED
    BY <2>2, <2>3, <2>5, LedgerKept
<1>4. ASSUME NEW c \in Callers, TriggerSubmit(c) PROVE Ledger'
  <2>1. PICK t \in onDemand : t = target[c]
    BY <1>4 DEF TriggerSubmit
  <2>2. /\ UNCHANGED <<joins, epoch, bodies, began>> /\ t \in Jobs /\ inv[t] = "none"
        /\ inv' = [inv EXCEPT ![t] = "queued"] \/ inv' = inv
    BY <1>4, <2>1
       DEF TriggerSubmit, Goto, Leave, config, stopping, invoking, joins, calling, outside
  <2>3. ASSUME NEW b \in bodies'
        PROVE  \/ b \in orphans \cup batch
               \/ inv'[b[1]] \in {"waiting", "abandon"} /\ b[2] = began'[b[1]]
    BY <2>2, <2>3
  <2> QED
    BY <2>2, <2>3, LedgerKept
<1>5. ASSUME NEW c \in Callers, JoinBegins(c) PROVE Ledger'
  <2>1. /\ UNCHANGED <<epoch, bodies, began, inv, pendingOrphans>>
        /\ batch = {} /\ orphans' = {} /\ batch' = orphans /\ joining' = c
    BY <1>5
       DEF JoinBegins, Goto, HasOrphans, config, stopping, invoking, joins, calling, outside
  <2>2. joining' # Nobody
    BY <2>1 DEF Nobody
  <2>3. orphans' \cup batch' = orphans \cup batch
    BY <2>1
  <2>4. /\ IsFiniteSet(orphans') /\ IsFiniteSet(batch')
        /\ pendingOrphans' = Cardinality(orphans') + Cardinality(batch')
    <3>1. IsFiniteSet({}) /\ Cardinality({}) = 0 /\ Cardinality(orphans) \in Nat
      BY FS_EmptySet, FS_CardinalityType
    <3> QED
      BY <2>1, <3>1

  <2>5. ASSUME NEW j \in Jobs, Claimed(j)', inv'[j] # "finish"
        PROVE  Claimed(j) /\ inv[j] # "finish" /\ Body(j)' = Body(j)
    <3>1. epoch' # epoch + 1
      BY <2>1
    <3> QED
      BY <2>5, <3>1, ClaimedStep DEF Held, Taken, Body

  <2> QED
    BY <2>1, <2>2, <2>3, <2>4, <2>5
<1>6. ASSUME NEW c \in Callers, JoinEnds(c) PROVE Ledger'
  <2>1. /\ UNCHANGED <<epoch, bodies, began, inv, orphans>>
        /\ batch \cap bodies = {} /\ batch' = {}
        /\ pendingOrphans' = pendingOrphans - Cardinality(batch)
    BY <1>6 DEF JoinEnds, Goto, config, stopping, invoking, joins, calling, outside
  <2>3. orphans' \cup batch' \subseteq orphans \cup batch
    BY <2>1
  <2>4. /\ IsFiniteSet(orphans') /\ IsFiniteSet(batch')
        /\ pendingOrphans' = Cardinality(orphans') + Cardinality(batch')
    <3>1. /\ IsFiniteSet({}) /\ Cardinality({}) = 0
          /\ Cardinality(orphans) \in Nat /\ Cardinality(batch) \in Nat
      BY FS_EmptySet, FS_CardinalityType
    <3> QED
      BY <2>1, <3>1

  <2>5. ASSUME NEW j \in Jobs, Claimed(j)', inv'[j] # "finish"
        PROVE  Claimed(j) /\ inv[j] # "finish" /\ Body(j)' = Body(j)
    <3>1. epoch' # epoch + 1
      BY <2>1
    <3> QED
      BY <2>5, <3>1, ClaimedStep DEF Held, Taken, Body

  <2> QED
    BY <2>1, <2>3, <2>4, <2>5
<1>7. ASSUME NEW j \in Jobs, Enter(j) PROVE Ledger'
  <2>1. /\ UNCHANGED <<joins, epoch, began>> /\ inv[j] = "queued"
        /\ \A i \in Jobs \ {j} : inv'[i] = inv[i]
        /\ bodies' = bodies \/ (inv'[j] = "waiting" /\ bodies' = bodies \cup {<<j, began[j]>>})
    BY <1>7 DEF Enter, Step, Body, config, stopping, invoking, joins, calling, outside
  <2>2. ASSUME NEW b \in bodies'
        PROVE  \/ b \in orphans \cup batch
               \/ inv'[b[1]] \in {"waiting", "abandon"} /\ b[2] = began'[b[1]]
    <3>1. CASE b \in bodies
      BY <2>1, <3>1
    <3>2. CASE inv'[j] = "waiting" /\ b = <<j, began[j]>>
      BY <2>1, <3>2
    <3> QED
      BY <2>1, <2>2, <3>1, <3>2
  <2> QED
    BY <2>1, <2>2, LedgerKept
<1>8. ASSUME NEW j \in Jobs, BodyReturns(j) PROVE Ledger'
  <2>1. UNCHANGED <<joins, epoch>>
    BY <1>8 DEF BodyReturns, Step, config, stopping, invoking, joins, calling, outside
  <2>2. ASSUME NEW b \in bodies'
        PROVE  \/ b \in orphans \cup batch
               \/ inv'[b[1]] \in {"waiting", "abandon"} /\ b[2] = began'[b[1]]
    BY <1>8, <2>1, <2>2
       DEF BodyReturns, Step, config, stopping, invoking, joins, calling, outside
  <2> QED
    BY <2>1, <2>2, LedgerKept
<1>9. ASSUME NEW j \in Jobs, HelperDone(j) PROVE Ledger'
  <2>1. /\ UNCHANGED <<joins, epoch, bodies, began>> /\ <<j, began[j]>> \notin bodies
        /\ \A i \in Jobs \ {j} : inv'[i] = inv[i]
    BY <1>9 DEF HelperDone, Step, config, stopping, invoking, joins, calling, outside, Body
  <2>2. ASSUME NEW b \in bodies'
        PROVE  \/ b \in orphans \cup batch
               \/ inv'[b[1]] \in {"waiting", "abandon"} /\ b[2] = began'[b[1]]
    <3>1. b \in bodies /\ b = <<b[1], b[2]>> /\ b[1] \in Jobs
      BY <2>1, <2>2
    <3>2. CASE b[1] = j
      <4>1. ASSUME b[2] = began[j] PROVE FALSE
        <5> HIDE DEF LifeInv
        <5>1. <<b[1], b[2]>> = <<j, began[j]>>
          BY <3>2, <4>1
        <5>2. <<b[1], b[2]>> \in bodies
          BY <3>1
        <5> QED
          BY <2>1, <5>1, <5>2
      <4> QED
        BY <2>1, <3>1, <3>2, <4>1
    <3>3. CASE b[1] # j
      BY <2>1, <3>1, <3>3
    <3> QED
      BY <3>2, <3>3
  <2> QED
    BY <2>1, <2>2, LedgerKept
<1>10. ASSUME NEW j \in Jobs, HelperStopped(j) PROVE Ledger'
  <2>1. UNCHANGED <<joins, epoch>>
    BY <1>10 DEF HelperStopped, Step, config, stopping, invoking, joins, calling, outside
  <2>2. ASSUME NEW b \in bodies'
        PROVE  \/ b \in orphans \cup batch
               \/ inv'[b[1]] \in {"waiting", "abandon"} /\ b[2] = began'[b[1]]
    BY <1>10, <2>1, <2>2
       DEF HelperStopped, Step, config, stopping, invoking, joins, calling, outside
  <2> QED
    BY <2>1, <2>2, LedgerKept
<1>11. ASSUME NEW j \in Jobs, Disarm(j) PROVE Ledger'
  <2>1. UNCHANGED <<joins, epoch>>
    BY <1>11 DEF Disarm, Step, Disarmed, config, stopping, invoking, joins, calling, outside
  <2>2. ASSUME NEW b \in bodies'
        PROVE  \/ b \in orphans \cup batch
               \/ inv'[b[1]] \in {"waiting", "abandon"} /\ b[2] = began'[b[1]]
    BY <1>11, <2>1, <2>2
       DEF Disarm, Step, Disarmed, config, stopping, invoking, joins, calling, outside
  <2> QED
    BY <2>1, <2>2, LedgerKept
<1>12. ASSUME NEW j \in Jobs, Retain(j) PROVE Ledger'
  <2> DEFINE b == Body(j)
  <2>1. /\ UNCHANGED <<epoch, bodies, began, batch, joining, pc, target, onDemand, source>>
        /\ orphans' = orphans \cup {b} /\ pendingOrphans' = pendingOrphans + 1
        /\ inv[j] = "abandon" /\ inv' = [inv EXCEPT ![j] = "finish"]
    BY <1>12
       DEF Retain, Step, Disarmed, Body, config, stopping, invoking, joins, calling, outside
  <2>2. b \notin orphans \cup batch /\ b[2] <= epoch /\ b = <<j, began[j]>>
    BY <2>1 DEF Stops, Claimed, OwnSource, Body
  <2>3. /\ IsFiniteSet(orphans') /\ Cardinality(orphans') = Cardinality(orphans) + 1
        /\ IsFiniteSet(batch') /\ orphans' \cap batch' = {}
    <3>1. /\ IsFiniteSet(orphans \cup {b})
          /\ Cardinality(orphans \cup {b}) = Cardinality(orphans) + 1
      <4>1. IsFiniteSet(orphans) /\ b \notin orphans
        BY <2>2
      <4> HIDE DEF b, LifeInv
      <4> QED
        BY <4>1, FS_AddElement
    <3>2. batch' = batch /\ IsFiniteSet(batch) /\ orphans \cap batch = {} /\ b \notin batch
      BY <2>1, <2>2
    <3> HIDE DEF b, LifeInv
    <3> QED
      BY <2>1, <3>1, <3>2
  <2>4. pendingOrphans' = Cardinality(orphans') + Cardinality(batch')
    <3>1. Cardinality(orphans) \in Nat /\ Cardinality(batch) \in Nat
      BY FS_CardinalityType
    <3> QED
      BY <2>1, <2>3, <3>1
  <2>5. \A x \in orphans' \cup batch' : x[2] <= epoch'
    BY <2>1, <2>2
  <2>6. ASSUME NEW x \in bodies'
        PROVE  \/ x \in orphans' \cup batch'
               \/ inv'[x[1]] \in {"waiting", "abandon"} /\ x[2] = began'[x[1]]
    <3>1. x \in bodies /\ x = <<x[1], x[2]>> /\ x[1] \in Jobs
      BY <2>1, <2>6
    <3> QED
      BY <2>1, <2>2, <3>1
  <2>7. ASSUME NEW i \in Jobs, Claimed(i)', inv'[i] # "finish"
        PROVE  Body(i)' \notin orphans' \cup batch'
    <3>1. i # j /\ Claimed(i) /\ inv[i] # "finish"
      BY <2>1, <2>7 DEF Claimed
    <3> QED
      BY <2>1, <2>2, <3>1 DEF Body
  <2> QED
    BY <2>1, <2>3, <2>4, <2>5, <2>6, <2>7
<1>13. ASSUME NEW j \in Jobs, Finish(j) PROVE Ledger'
  <2>1. UNCHANGED <<joins, epoch>>
    BY <1>13 DEF Finish, Step, config, stopping, invoking, joins, calling, outside
  <2>2. ASSUME NEW b \in bodies'
        PROVE  \/ b \in orphans \cup batch
               \/ inv'[b[1]] \in {"waiting", "abandon"} /\ b[2] = began'[b[1]]
    BY <1>13, <2>1, <2>2 DEF Finish, Step, config, stopping, invoking, joins, calling, outside
  <2> QED
    BY <2>1, <2>2, LedgerKept
<1>14. ASSUME NEW j \in Jobs, HelperTimesOut(j) PROVE Ledger'
  <2>1. UNCHANGED <<joins, epoch>>
    BY <1>14
       DEF HelperTimesOut, Step, Request, config, stopping, invoking, joins, calling, outside
  <2>2. ASSUME NEW b \in bodies'
        PROVE  \/ b \in orphans \cup batch
               \/ inv'[b[1]] \in {"waiting", "abandon"} /\ b[2] = began'[b[1]]
    BY <1>14, <2>1, <2>2
       DEF HelperTimesOut, Step, Request, config, stopping, invoking, joins, calling, outside
  <2> QED
    BY <2>1, <2>2, LedgerKept
<1>15. ASSUME NEW b \in bodies, HelperReturns(b) PROVE Ledger'
  <2>1. UNCHANGED <<joins, epoch>>
    BY <1>15 DEF HelperReturns, config, stopping, invoking, joins, calling, outside
  <2>2. ASSUME NEW x \in bodies'
        PROVE  \/ x \in orphans \cup batch
               \/ inv'[x[1]] \in {"waiting", "abandon"} /\ x[2] = began'[x[1]]
    BY <1>15, <2>1, <2>2 DEF HelperReturns, config, stopping, invoking, joins, calling, outside
  <2> QED
    BY <2>1, <2>2, LedgerKept
<1>16. ASSUME \/ (\E c \in Callers : CallRun(c) \/ CallJoin(c) \/ Destroy(c))
              \/ (\E c \in Callers : StopExternal(c) \/ Register(c) \/ Forwarded(c))
              \/ (\E c \in Callers : RunEnds(c) \/ ScopeEnds(c) \/ NothingToJoin(c))
              \/ (\E c \in Callers, j \in Jobs : TriggerCheck(c, j) \/ ForwardStop(c, j))
              \/ (\E j \in Jobs : AlarmStops(j) \/ AlarmFires(j))
              \/ (\E k \in Cancellers : CancelStops(k))
              \/ (\E k \in Cancellers, j \in Jobs : CancelCopies(k, j))
      PROVE  Ledger'
  <2>1. UNCHANGED <<joins, epoch, bodies, inv, began>>
    BY <1>16
       DEF CallRun, CallJoin, Destroy, StopExternal, Register, Forwarded, RunEnds, ScopeEnds,
           NothingToJoin, TriggerCheck, ForwardStop, AlarmStops, AlarmFires, CancelStops,
           CancelCopies, Goto, HasOrphans, NoTrigger, Request, config, stopping, invoking,
           joins, calling, outside
  <2> HIDE DEF LifeInv
  <2> QED
    BY <2>1, LedgerSame
<1>17. CASE UNCHANGED vars
  <2> HIDE DEF LifeInv
  <2> QED
    BY <1>17, LedgerSame DEF vars, invoking, joins
<1> QED
  BY <1>1, <1>2, <1>3, <1>4, <1>5, <1>6, <1>7, <1>8, <1>9, <1>10, <1>11, <1>12, <1>13, <1>14,
     <1>15, <1>16, <1>17
     DEF Next, RunSteps, TriggerSteps, JoinSteps, JobSteps

----------------------------------------------------------------------------
(* Those who join *)

\* pendingOrphans_ counts what was retained and not yet joined, the joiner's batch included.
LEMMA NoOrphans ==
  ASSUME LifeInv, ~HasOrphans
  PROVE  orphans = {} /\ batch = {}
<1>1. /\ IsFiniteSet(orphans) /\ IsFiniteSet(batch)
      /\ Cardinality(orphans) + Cardinality(batch) = 0
  BY DEF LifeInv, Ledger, HasOrphans
<1>2. Cardinality(orphans) \in Nat /\ Cardinality(batch) \in Nat
  BY <1>1, FS_CardinalityType
<1>3. Cardinality(orphans) = 0 /\ Cardinality(batch) = 0
  BY <1>1, <1>2
<1> QED
  BY <1>1, <1>3, FS_EmptySet

\* Nobody passes a join while a body it must wait for runs.
LEMMA JoinedStep ==
  ASSUME LifeInv, [Next]_vars
  PROVE  Joined'
<1> USE LifecycleAssumption DEF LifeInv, LifeType, ConfigType, JobType, CallType, StopType,
      Places, OneRun, Triggers, Joined, Renewing, Triggering, None, Nobody
<1>1. ASSUME NEW c \in Callers, CallRun(c) PROVE Joined'
  <2>1. UNCHANGED <<epoch, orphans, batch, inv>> /\ \A d \in Callers : ret[d] # "destroyed"
    BY <1>1
       DEF CallRun, Goto, HasOrphans, NoTrigger, config, stopping, invoking, joins, calling,
           outside, Alive
  <2>2. CASE running
    BY <1>1, <2>1, <2>2
       DEF CallRun, Goto, HasOrphans, NoTrigger, config, stopping, invoking, joins, calling,
           outside
  <2>3. CASE ~running
    <3>1. /\ pc' = [pc EXCEPT ![c] = IF HasOrphans THEN "join" ELSE "renew"]
          /\ ret' = [ret EXCEPT ![c] = "renew"]
          /\ scope' = [scope EXCEPT ![c] = None] \/ scope' = [scope EXCEPT ![c] = 0]
      BY <1>1, <2>3 DEF CallRun, Goto
    <3>2. pc'[c] = "join" \/ (pc'[c] = "renew" /\ orphans = {} /\ batch = {})
      <4> HIDE DEF LifeInv
      <4>1. HasOrphans \/ (orphans = {} /\ batch = {})
        BY NoOrphans
      <4>2. pc \in [Callers -> Labels]
        BY DEF LifeInv, LifeType, CallType
      <4> QED
        BY <3>1, <4>1, <4>2
    <3>3. \A d \in Callers : pc[d] \notin Renewing \cup {"renew", "wait"}
      BY <2>3
    <3>4. \A d \in Callers \ {c} : pc'[d] = pc[d] /\ ret'[d] = ret[d] /\ scope'[d] = scope[d]
      BY <3>1
    <3>5. ret'[c] = "renew" /\ scope'[c] \in {None, 0} /\ epoch \in Nat
      BY <3>1
    <3>6. \A d \in Callers : scope'[d] <= epoch'
      <4>1. epoch' = epoch /\ epoch \in Nat /\ scope'[c] <= epoch
        BY <2>1, <3>5
      <4>2. \A d \in Callers : scope[d] <= epoch
        OBVIOUS
      <4> HIDE DEF LifeInv
      <4> QED
        BY <3>4, <4>1, <4>2
    <3>7. \A d \in Callers : ret'[d] # "destroyed"
                             /\ pc'[d] \notin Renewing \cup {"wait", "destroyed"}
      BY <2>1, <3>2, <3>3, <3>4, <3>5
    <3>8. \A d \in Callers \ {c} :
            /\ pc'[d] = "joining" => pc[d] = "joining"
            /\ ret'[d] = "complete" => ret[d] = "complete"
            /\ pc'[d] = "complete" => pc[d] = "complete"
            /\ pc'[d] # "renew"
      BY <3>3, <3>4
    <3>9. pc'[c] \notin {"joining", "complete"}
      BY <3>2
    <3> QED
      BY <2>1, <3>2, <3>4, <3>6, <3>7, <3>8, <3>9
  <2> QED
    BY <2>2, <2>3
<1>2. ASSUME NEW c \in Callers, CallJoin(c) PROVE Joined'
  <2>1. /\ UNCHANGED <<epoch, orphans, batch, inv, scope>>
        /\ \A d \in Callers : ret[d] # "destroyed"
        /\ pc' = [pc EXCEPT ![c] = "join"] /\ ret' = [ret EXCEPT ![c] = "idle"]
    BY <1>2 DEF CallJoin, Goto, config, stopping, invoking, joins, calling, outside, Alive
  <2> QED
    BY <2>1
<1>3. ASSUME NEW c \in Callers, Destroy(c) PROVE Joined'
  BY <1>3 DEF Destroy, Goto, config, stopping, invoking, joins, calling, outside
<1>4. ASSUME NEW c \in Callers, StopExternal(c) PROVE Joined'
  BY <1>4 DEF StopExternal, config, stopping, invoking, joins, calling, outside
<1>5. ASSUME NEW c \in Callers, Renew(c) PROVE Joined'
  BY <1>5 DEF Renew, Goto, Renewed, config, stopping, invoking, joins, calling, outside
<1>6. ASSUME NEW c \in Callers, Register(c) PROVE Joined'
  BY <1>6 DEF Register, Goto, config, stopping, invoking, joins, calling, outside
<1>7. ASSUME NEW c \in Callers, Forwarded(c) PROVE Joined'
  BY <1>7 DEF Forwarded, Goto, config, stopping, invoking, joins, calling, outside
<1>8. ASSUME NEW c \in Callers, DispatchRoots(c) PROVE Joined'
  BY <1>8 DEF DispatchRoots, Goto, config, stopping, invoking, joins, calling, outside
<1>9. ASSUME NEW c \in Callers, RunEnds(c) PROVE Joined'
  BY <1>9 DEF RunEnds, Goto, config, stopping, invoking, joins, calling, outside
<1>10. ASSUME NEW c \in Callers, ScopeEnds(c) PROVE Joined'
  BY <1>10 DEF ScopeEnds, Goto, config, stopping, invoking, joins, calling, outside
<1>11. ASSUME NEW c \in Callers, TriggerClaim(c) PROVE Joined'
  <2>1. /\ UNCHANGED <<orphans, batch, inv, ret, scope>> /\ pc[c] = "checked"
        /\ epoch' \in {epoch, epoch + 1}
        /\ \E l \in {"idle", "submit"} : pc' = [pc EXCEPT ![c] = l]
    BY <1>11
       DEF TriggerClaim, Goto, Leave, Renewed, config, stopping, invoking, joins, calling,
           outside
  <2>2. \A d \in Callers : pc[d] \notin Renewing \cup {"renew", "wait"} /\ ret[d] # "destroyed"
    BY <2>1
  <2>3. \A d \in Callers : scope[d] <= epoch'
    BY <2>1
  <2> QED
    BY <2>1, <2>2, <2>3
<1>12. ASSUME NEW c \in Callers, TriggerSubmit(c) PROVE Joined'
  BY <1>12 DEF TriggerSubmit, Goto, Leave, config, stopping, invoking, joins, calling, outside
<1>13. ASSUME NEW c \in Callers, NothingToJoin(c) PROVE Joined'
  <2>1. /\ UNCHANGED <<epoch, orphans, batch, inv, ret, scope>> /\ pc[c] = "join"
        /\ pc' = [pc EXCEPT ![c] = ret[c]]
    BY <1>13
       DEF NothingToJoin, Goto, HasOrphans, config, stopping, invoking, joins, calling, outside
  <2>2. orphans = {} /\ batch = {}
    BY <1>13, NoOrphans DEF NothingToJoin
  <2>3. ret[c] \in {"idle", "renew", "complete", "destroyed"}
    OBVIOUS
  <2> QED
    BY <2>1, <2>2, <2>3
<1>14. ASSUME NEW c \in Callers, JoinBegins(c) PROVE Joined'
  BY <1>14 DEF JoinBegins, Goto, HasOrphans, config, stopping, invoking, joins, calling, outside
<1>15. ASSUME NEW c \in Callers, JoinEnds(c) PROVE Joined'
  BY <1>15 DEF JoinEnds, Goto, config, stopping, invoking, joins, calling, outside
<1>16. ASSUME NEW c \in Callers, NEW j \in Jobs, TriggerCheck(c, j) PROVE Joined'
  <2>1. /\ UNCHANGED <<epoch, orphans, batch, inv, scope, ret>>
        /\ \A d \in Callers : ret[d] # "destroyed"
        /\ pc' = pc \/ pc' = [pc EXCEPT ![c] = "checked"]
    BY <1>16
       DEF TriggerCheck, Goto, HasOrphans, config, stopping, invoking, joins, calling, outside,
           Alive
  <2> QED
    BY <2>1
<1>17. ASSUME NEW c \in Callers, NEW j \in Jobs, ForwardStop(c, j) PROVE Joined'
  BY <1>17 DEF ForwardStop, Request, config, stopping, invoking, joins, calling, outside
<1>18. ASSUME NEW j \in Jobs, Enter(j) PROVE Joined'
  BY <1>18 DEF Enter, Step, Body, config, stopping, invoking, joins, calling, outside
<1>19. ASSUME NEW j \in Jobs, BodyReturns(j) PROVE Joined'
  BY <1>19 DEF BodyReturns, Step, config, stopping, invoking, joins, calling, outside
<1>20. ASSUME NEW j \in Jobs, HelperDone(j) PROVE Joined'
  BY <1>20 DEF HelperDone, Step, config, stopping, invoking, joins, calling, outside
<1>21. ASSUME NEW j \in Jobs, HelperStopped(j) PROVE Joined'
  BY <1>21 DEF HelperStopped, Step, config, stopping, invoking, joins, calling, outside
<1>22. ASSUME NEW j \in Jobs, AlarmStops(j) PROVE Joined'
  BY <1>22 DEF AlarmStops, Request, config, stopping, invoking, joins, calling, outside
<1>23. ASSUME NEW j \in Jobs, Disarm(j) PROVE Joined'
  BY <1>23 DEF Disarm, Step, Disarmed, config, stopping, invoking, joins, calling, outside
<1>24. ASSUME NEW j \in Jobs, Retain(j) PROVE Joined'
  BY <1>24 DEF Retain, Step, Disarmed, Body, config, stopping, invoking, joins, calling, outside
<1>25. ASSUME NEW j \in Jobs, Finish(j) PROVE Joined'
  BY <1>25 DEF Finish, Step, config, stopping, invoking, joins, calling, outside
<1>26. ASSUME NEW j \in Jobs, AlarmFires(j) PROVE Joined'
  BY <1>26 DEF AlarmFires, config, stopping, invoking, joins, calling, outside
<1>27. ASSUME NEW j \in Jobs, HelperTimesOut(j) PROVE Joined'
  BY <1>27
     DEF HelperTimesOut, Step, Request, config, stopping, invoking, joins, calling, outside
<1>28. ASSUME NEW b \in bodies, HelperReturns(b) PROVE Joined'
  BY <1>28 DEF HelperReturns, config, stopping, invoking, joins, calling, outside
<1>29. ASSUME NEW k \in Cancellers, CancelStops(k) PROVE Joined'
  BY <1>29 DEF CancelStops, Request, config, stopping, invoking, joins, calling, outside
<1>30. ASSUME NEW k \in Cancellers, NEW j \in Jobs, CancelCopies(k, j) PROVE Joined'
  BY <1>30 DEF CancelCopies, config, stopping, invoking, joins, calling, outside
<1>31. CASE UNCHANGED vars
  BY <1>31 DEF vars, config, stopping, invoking, joins, calling, outside
<1> QED
  BY <1>1, <1>2, <1>3, <1>4, <1>5, <1>6, <1>7, <1>8, <1>9, <1>10, <1>11, <1>12, <1>13, <1>14,
     <1>15, <1>16, <1>17, <1>18, <1>19, <1>20, <1>21, <1>22, <1>23, <1>24, <1>25, <1>26, <1>27,
     <1>28, <1>29, <1>30, <1>31
     DEF Next, RunSteps, TriggerSteps, JoinSteps, JobSteps

----------------------------------------------------------------------------
(* Stops *)

\* A claimed job keeps its source to itself through a step that asks for stops as its own.
LEMMA SourcesStep ==
  ASSUME LifeInv, [Next]_vars, epoch' \in Nat, epoch' >= epoch, cancellable' = cancellable,
         \A r \in requests' : \/ r \in requests
                              \/ r.by = "cancel"
                              \/ r.by = "run" /\ (Claimed(r.job) => began[r.job] <= r.epoch),
         \A r \in requests' : r \in requests \/ epoch' = epoch
  PROVE  \A j \in Jobs : Claimed(j)' => OwnSource(j)'
<1> SUFFICES ASSUME NEW j \in Jobs, Claimed(j)' PROVE OwnSource(j)'
  OBVIOUS
<1>0. epoch \in Nat
  BY DEF LifeInv, LifeType, CallType
<1>1. CASE Held(j)
  <2>1. OwnSource(j) /\ began'[j] = began[j] /\ source'[j] = source[j] /\ Claimed(j)
    BY <1>1 DEF Held, LifeInv, Stops
  <2>2. began[j] \in Nat /\ began[j] <= epoch
    BY <2>1 DEF OwnSource
  <2>3. began[j] <= epoch'
    BY <1>0, <2>2
  <2> QED
    BY <2>1, <2>2, <2>3 DEF OwnSource
<1>2. CASE Taken(j)
  <2>1. /\ epoch' = epoch + 1 /\ requests' \subseteq requests
        /\ began'[j] = epoch + 1
    BY <1>0, <1>2 DEF Taken
  <2>2. \A r \in requests : r.epoch \in Nat /\ r.source \in Nat
                            /\ r.source <= r.epoch /\ r.epoch <= epoch
    BY DEF LifeInv, LifeType, StopType, Stops
  <2>3. source[j] \in Nat /\ source[j] <= epoch
    BY DEF LifeInv, LifeType, JobType, Stops
  <2>4. ASSUME NEW r \in requests', r.job = j, r.source = source'[j]
        PROVE  FALSE
    <3>1. CASE source'[j] = epoch + 1
      BY <1>0, <2>1, <2>2, <2>4, <3>1
    <3>2. CASE ~Stopped(j, source[j]) /\ source'[j] = source[j]
      BY <2>1, <2>4, <3>2 DEF Stopped
    <3> QED
      BY <1>2, <3>1, <3>2 DEF Taken
  <2>5. source'[j] <= began'[j] /\ (j \in cancellable => source'[j] = began'[j])
    BY <1>0, <1>2, <2>1, <2>3 DEF Taken
  <2> QED
    BY <1>0, <2>1, <2>4, <2>5 DEF OwnSource
<1> QED
  BY <1>1, <1>2, ClaimedStep

\* No stop meant for an earlier run is on the source of a claimed job.
LEMMA OwnSourceStep ==
  ASSUME LifeInv, [Next]_vars
  PROVE  \A i \in Jobs : Claimed(i)' => OwnSource(i)'
<1> USE DEF LifeInv, LifeType, ConfigType, JobType, CallType, StopType, Request
<1>1. ASSUME NEW c \in Callers, Renew(c) PROVE \A i \in Jobs : Claimed(i)' => OwnSource(i)'
  <2>1. epoch' \in Nat /\ epoch' >= epoch /\ UNCHANGED <<cancellable, requests>>
    BY <1>1 DEF Renew, Goto, Renewed, config, stopping, invoking, joins, calling, outside
  <2> HIDE DEF LifeInv
  <2> QED
    BY <2>1, SourcesStep
<1>2. ASSUME NEW c \in Callers, TriggerClaim(c)
      PROVE  \A i \in Jobs : Claimed(i)' => OwnSource(i)'
  <2>1. epoch' \in Nat /\ epoch' >= epoch /\ UNCHANGED <<cancellable, requests>>
    BY <1>2
       DEF TriggerClaim, Goto, Leave, Renewed, config, stopping, invoking, joins, calling,
           outside
  <2> HIDE DEF LifeInv
  <2> QED
    BY <2>1, SourcesStep
<1>3. ASSUME NEW c \in Callers, NEW j \in Jobs, ForwardStop(c, j)
      PROVE  \A i \in Jobs : Claimed(i)' => OwnSource(i)'
  <2> DEFINE r == [job |-> j, source |-> source[j], by |-> "run", epoch |-> epoch]
  <2>1. UNCHANGED <<epoch, cancellable>> /\ requests' = requests \cup {r} /\ epoch \in Nat
    BY <1>3 DEF ForwardStop, Request, config, stopping, invoking, joins, calling, outside
  <2>2. Claimed(j) => began[j] <= epoch
    BY DEF Stops, OwnSource
  <2>3. \A x \in requests' :
          \/ x \in requests
          \/ x.by = "cancel"
          \/ x.by = "run" /\ (Claimed(x.job) => began[x.job] <= x.epoch)
    BY <2>1, <2>2
  <2> HIDE DEF LifeInv, r
  <2> QED
    BY <2>1, <2>3, SourcesStep
<1>4. ASSUME NEW j \in Jobs, AlarmStops(j) PROVE \A i \in Jobs : Claimed(i)' => OwnSource(i)'
  <2> DEFINE r == [job |-> j, source |-> token[j], by |-> "run", epoch |-> began[j]]
  <2>1. UNCHANGED <<epoch, cancellable>> /\ requests' = requests \cup {r} /\ epoch \in Nat
    BY <1>4 DEF AlarmStops, Request, config, stopping, invoking, joins, calling, outside
  <2>2. Claimed(j) => began[j] <= began[j]
    BY DEF Stops, OwnSource
  <2>3. \A x \in requests' :
          \/ x \in requests
          \/ x.by = "cancel"
          \/ x.by = "run" /\ (Claimed(x.job) => began[x.job] <= x.epoch)
    BY <2>1, <2>2
  <2> HIDE DEF LifeInv, r
  <2> QED
    BY <2>1, <2>3, SourcesStep
<1>5. ASSUME NEW j \in Jobs, HelperTimesOut(j)
      PROVE  \A i \in Jobs : Claimed(i)' => OwnSource(i)'
  <2> DEFINE r == [job |-> j, source |-> source[j], by |-> "run", epoch |-> began[j]]
  <2>1. UNCHANGED <<epoch, cancellable>> /\ requests' = requests \cup {r} /\ epoch \in Nat
    BY <1>5
       DEF HelperTimesOut, Step, Request, config, stopping, invoking, joins, calling, outside
  <2>2. Claimed(j) => began[j] <= began[j]
    BY DEF Stops, OwnSource
  <2>3. \A x \in requests' :
          \/ x \in requests
          \/ x.by = "cancel"
          \/ x.by = "run" /\ (Claimed(x.job) => began[x.job] <= x.epoch)
    BY <2>1, <2>2
  <2> HIDE DEF LifeInv, r
  <2> QED
    BY <2>1, <2>3, SourcesStep
<1>6. ASSUME NEW k \in Cancellers, CancelStops(k)
      PROVE  \A i \in Jobs : Claimed(i)' => OwnSource(i)'
  <2> DEFINE r == [job |-> cancel[k][1], source |-> cancel[k][2],
                   by |-> "cancel", epoch |-> cancel[k][3]]
  <2>1. UNCHANGED <<epoch, cancellable>> /\ requests' = requests \cup {r} /\ epoch \in Nat
    BY <1>6 DEF CancelStops, Request, config, stopping, invoking, joins, calling, outside
  <2>2. r.by = "cancel"
    OBVIOUS
  <2>3. \A x \in requests' :
          \/ x \in requests
          \/ x.by = "cancel"
          \/ x.by = "run" /\ (Claimed(x.job) => began[x.job] <= x.epoch)
    BY <2>1, <2>2
  <2> HIDE DEF LifeInv, r
  <2> QED
    BY <2>1, <2>3, SourcesStep
<1>7. ASSUME \/ (\E c \in Callers : CallRun(c) \/ CallJoin(c) \/ Destroy(c))
             \/ (\E c \in Callers : StopExternal(c) \/ Register(c) \/ Forwarded(c))
             \/ (\E c \in Callers : DispatchRoots(c) \/ RunEnds(c) \/ ScopeEnds(c))
             \/ (\E c \in Callers : TriggerSubmit(c) \/ NothingToJoin(c) \/ JoinBegins(c))
             \/ (\E c \in Callers : JoinEnds(c))
             \/ (\E c \in Callers, j \in Jobs : TriggerCheck(c, j))
             \/ (\E j \in Jobs : Enter(j) \/ BodyReturns(j) \/ HelperDone(j))
             \/ (\E j \in Jobs : HelperStopped(j) \/ Disarm(j) \/ Retain(j) \/ Finish(j))
             \/ (\E j \in Jobs : AlarmFires(j))
             \/ (\E b \in bodies : HelperReturns(b))
             \/ (\E k \in Cancellers, j \in Jobs : CancelCopies(k, j))
      PROVE  \A i \in Jobs : Claimed(i)' => OwnSource(i)'
  <2>1. UNCHANGED <<epoch, cancellable, requests>>
    BY <1>7
       DEF CallRun, CallJoin, Destroy, StopExternal, Register, Forwarded, DispatchRoots,
           RunEnds, ScopeEnds, TriggerSubmit, NothingToJoin, JoinBegins, JoinEnds, TriggerCheck,
           Enter, BodyReturns, HelperDone, HelperStopped, Disarm, Retain, Finish, AlarmFires,
           HelperReturns, CancelCopies, Goto, HasOrphans, NoTrigger, Leave, Step, Body,
           Disarmed, config, stopping, invoking, joins, calling, outside
  <2>2. epoch \in Nat /\ epoch >= epoch
    OBVIOUS
  <2> HIDE DEF LifeInv
  <2> QED
    BY <2>1, <2>2, SourcesStep
<1>8. CASE UNCHANGED vars
  <2>1. epoch' \in Nat /\ epoch' >= epoch /\ UNCHANGED <<cancellable, requests>>
    BY <1>8 DEF vars, config, stopping
  <2> HIDE DEF LifeInv
  <2> QED
    BY <2>1, SourcesStep
<1> QED
  BY <1>1, <1>2, <1>3, <1>4, <1>5, <1>6, <1>7, <1>8
     DEF Next, RunSteps, TriggerSteps, JoinSteps, JobSteps

\* Watchdogs and deadlines end with the invocation that armed them.
Alarms ==
  \A j \in Jobs :
    /\ inv[j] \in {"inline", "waiting", "disarm", "abandon"} => token[j] = source[j]
    /\ alarm[j] # "off" => inv[j] \in {"inline", "waiting", "disarm", "abandon"}

\* The invocation keeps the token it was given and disarms what it armed.
LEMMA AlarmsStep ==
  ASSUME LifeInv, [Next]_vars
  PROVE  Alarms'
<1> USE DEF LifeInv, LifeType, ConfigType, JobType, CallType, StopType, Stops, Alarms
<1>1. ASSUME NEW c \in Callers, CallRun(c) PROVE Alarms'
  BY <1>1
     DEF CallRun, Goto, HasOrphans, NoTrigger, config, stopping, invoking, joins, calling,
         outside
<1>2. ASSUME NEW c \in Callers, CallJoin(c) PROVE Alarms'
  BY <1>2 DEF CallJoin, Goto, config, stopping, invoking, joins, calling, outside
<1>3. ASSUME NEW c \in Callers, Destroy(c) PROVE Alarms'
  BY <1>3 DEF Destroy, Goto, config, stopping, invoking, joins, calling, outside
<1>4. ASSUME NEW c \in Callers, StopExternal(c) PROVE Alarms'
  BY <1>4 DEF StopExternal, config, stopping, invoking, joins, calling, outside
<1>5. ASSUME NEW c \in Callers, Renew(c) PROVE Alarms'
  <2>1. UNCHANGED <<inv, token, alarm>> /\ \A j \in Jobs : inv[j] = "none"
    BY <1>5
       DEF Renew, Goto, Renewed, config, stopping, invoking, joins, calling, outside, OneRun,
           Places
  <2> QED
    BY <2>1
<1>6. ASSUME NEW c \in Callers, Register(c) PROVE Alarms'
  BY <1>6 DEF Register, Goto, config, stopping, invoking, joins, calling, outside
<1>7. ASSUME NEW c \in Callers, Forwarded(c) PROVE Alarms'
  BY <1>7 DEF Forwarded, Goto, config, stopping, invoking, joins, calling, outside
<1>8. ASSUME NEW c \in Callers, DispatchRoots(c) PROVE Alarms'
  <2>1. /\ UNCHANGED <<source, token, alarm>> /\ \A j \in Jobs : inv[j] = "none"
        /\ \A j \in Jobs : inv'[j] \in {"none", "queued"}
    BY <1>8
       DEF DispatchRoots, Goto, config, stopping, invoking, joins, calling, outside, OneRun,
           Places, Renewing
  <2> QED
    BY <2>1
<1>9. ASSUME NEW c \in Callers, RunEnds(c) PROVE Alarms'
  BY <1>9 DEF RunEnds, Goto, config, stopping, invoking, joins, calling, outside
<1>10. ASSUME NEW c \in Callers, ScopeEnds(c) PROVE Alarms'
  BY <1>10 DEF ScopeEnds, Goto, config, stopping, invoking, joins, calling, outside
<1>11. ASSUME NEW c \in Callers, TriggerClaim(c) PROVE Alarms'
  <2>1. PICK t \in onDemand : t = target[c]
    BY <1>11 DEF TriggerClaim, Triggers, Triggering
  <2>2. UNCHANGED <<inv, token, alarm>> /\ t \in Jobs
    BY <1>11, <2>1
       DEF TriggerClaim, Goto, Leave, Renewed, config, stopping, invoking, joins, calling,
           outside
  <2>3. CASE status[t] \in {"kReady", "kRunning"}
    BY <1>11, <2>1, <2>2, <2>3
       DEF TriggerClaim, Goto, Leave, Renewed, config, stopping, invoking, joins, calling,
           outside
  <2>4. CASE status[t] \notin {"kReady", "kRunning"}
    <3>1. source' = Renewed({t}, epoch + 1)
      BY <1>11, <2>1, <2>4 DEF TriggerClaim
    <3>2. inv[t] = "none"
      BY <2>1, <2>4 DEF Triggers
    <3>3. \A i \in Jobs \ {t} : source'[i] = source[i]
      BY <3>1 DEF Renewed
    <3> QED
      BY <2>2, <3>2, <3>3
  <2> QED
    BY <2>3, <2>4
<1>12. ASSUME NEW c \in Callers, TriggerSubmit(c) PROVE Alarms'
  <2>1. PICK t \in onDemand : t = target[c]
    BY <1>12 DEF TriggerSubmit, Triggers, Triggering
  <2>2. UNCHANGED <<source, token, alarm>> /\ t \in Jobs /\ inv[t] = "none"
    BY <1>12, <2>1
       DEF TriggerSubmit, Goto, Leave, config, stopping, invoking, joins, calling, outside,
           Triggers, Triggering
  <2>3. inv' = [inv EXCEPT ![t] = "queued"] \/ inv' = inv
    BY <1>12, <2>1
       DEF TriggerSubmit, Goto, Leave, config, stopping, invoking, joins, calling, outside
  <2> QED
    BY <2>2, <2>3
<1>13. ASSUME NEW c \in Callers, NothingToJoin(c) PROVE Alarms'
  BY <1>13
     DEF NothingToJoin, Goto, HasOrphans, config, stopping, invoking, joins, calling, outside
<1>14. ASSUME NEW c \in Callers, JoinBegins(c) PROVE Alarms'
  BY <1>14 DEF JoinBegins, Goto, HasOrphans, config, stopping, invoking, joins, calling, outside
<1>15. ASSUME NEW c \in Callers, JoinEnds(c) PROVE Alarms'
  BY <1>15 DEF JoinEnds, Goto, config, stopping, invoking, joins, calling, outside
<1>16. ASSUME NEW c \in Callers, NEW j \in Jobs, TriggerCheck(c, j) PROVE Alarms'
  BY <1>16
     DEF TriggerCheck, Goto, HasOrphans, config, stopping, invoking, joins, calling, outside
<1>17. ASSUME NEW c \in Callers, NEW j \in Jobs, ForwardStop(c, j) PROVE Alarms'
  BY <1>17 DEF ForwardStop, Request, config, stopping, invoking, joins, calling, outside
<1>18. ASSUME NEW j \in Jobs, Enter(j) PROVE Alarms'
  BY <1>18 DEF Enter, Step, Body, config, stopping, invoking, joins, calling, outside
<1>19. ASSUME NEW j \in Jobs, BodyReturns(j) PROVE Alarms'
  BY <1>19 DEF BodyReturns, Step, config, stopping, invoking, joins, calling, outside
<1>20. ASSUME NEW j \in Jobs, HelperDone(j) PROVE Alarms'
  BY <1>20 DEF HelperDone, Step, config, stopping, invoking, joins, calling, outside
<1>21. ASSUME NEW j \in Jobs, HelperStopped(j) PROVE Alarms'
  BY <1>21 DEF HelperStopped, Step, config, stopping, invoking, joins, calling, outside
<1>22. ASSUME NEW j \in Jobs, AlarmStops(j) PROVE Alarms'
  BY <1>22 DEF AlarmStops, Request, config, stopping, invoking, joins, calling, outside
<1>23. ASSUME NEW j \in Jobs, Disarm(j) PROVE Alarms'
  BY <1>23 DEF Disarm, Step, Disarmed, config, stopping, invoking, joins, calling, outside
<1>24. ASSUME NEW j \in Jobs, Retain(j) PROVE Alarms'
  BY <1>24 DEF Retain, Step, Disarmed, Body, config, stopping, invoking, joins, calling, outside
<1>25. ASSUME NEW j \in Jobs, Finish(j) PROVE Alarms'
  BY <1>25 DEF Finish, Step, config, stopping, invoking, joins, calling, outside
<1>26. ASSUME NEW j \in Jobs, AlarmFires(j) PROVE Alarms'
  BY <1>26 DEF AlarmFires, config, stopping, invoking, joins, calling, outside
<1>27. ASSUME NEW j \in Jobs, HelperTimesOut(j) PROVE Alarms'
  BY <1>27
     DEF HelperTimesOut, Step, Request, config, stopping, invoking, joins, calling, outside
<1>28. ASSUME NEW b \in bodies, HelperReturns(b) PROVE Alarms'
  BY <1>28 DEF HelperReturns, config, stopping, invoking, joins, calling, outside
<1>29. ASSUME NEW k \in Cancellers, CancelStops(k) PROVE Alarms'
  BY <1>29 DEF CancelStops, Request, config, stopping, invoking, joins, calling, outside
<1>30. ASSUME NEW k \in Cancellers, NEW j \in Jobs, CancelCopies(k, j) PROVE Alarms'
  BY <1>30 DEF CancelCopies, config, stopping, invoking, joins, calling, outside
<1>31. CASE UNCHANGED vars
  BY <1>31 DEF vars, config, stopping, invoking, joins, calling, outside
<1> QED
  BY <1>1, <1>2, <1>3, <1>4, <1>5, <1>6, <1>7, <1>8, <1>9, <1>10, <1>11, <1>12, <1>13, <1>14,
     <1>15, <1>16, <1>17, <1>18, <1>19, <1>20, <1>21, <1>22, <1>23, <1>24, <1>25, <1>26, <1>27,
     <1>28, <1>29, <1>30, <1>31
     DEF Next, RunSteps, TriggerSteps, JoinSteps, JobSteps

\* What has been asked for, and what a canceller holds, is no newer than the epoch.
Aged ==
  /\ \A r \in requests : r.source <= r.epoch /\ r.epoch <= epoch
  /\ \A k \in Cancellers :
       cancel[k] # <<>> => cancel[k][2] <= cancel[k][3] /\ cancel[k][3] <= epoch
  /\ \A j \in Jobs : source[j] <= epoch

\* Time only goes forward: a later epoch has later sources.
LEMMA AgedStep ==
  ASSUME LifeInv, [Next]_vars
  PROVE  Aged'
<1> USE DEF LifeInv, LifeType, ConfigType, JobType, CallType, StopType, Stops, Aged, Request,
      Renewed
<1>1. ASSUME NEW c \in Callers, CallRun(c) PROVE Aged'
  BY <1>1
     DEF CallRun, Goto, HasOrphans, NoTrigger, config, stopping, invoking, joins, calling,
         outside
<1>2. ASSUME NEW c \in Callers, CallJoin(c) PROVE Aged'
  BY <1>2 DEF CallJoin, Goto, config, stopping, invoking, joins, calling, outside
<1>3. ASSUME NEW c \in Callers, Destroy(c) PROVE Aged'
  BY <1>3 DEF Destroy, Goto, config, stopping, invoking, joins, calling, outside
<1>4. ASSUME NEW c \in Callers, StopExternal(c) PROVE Aged'
  BY <1>4 DEF StopExternal, config, stopping, invoking, joins, calling, outside
<1>5. ASSUME NEW c \in Callers, Renew(c) PROVE Aged'
  <2>1. UNCHANGED <<requests, cancel>> /\ epoch' \in {epoch, epoch + 1} /\ epoch \in Nat
    BY <1>5 DEF Renew, Goto, Renewed, config, stopping, invoking, joins, calling, outside
  <2>2. \A r \in requests : r.epoch \in Nat /\ r.epoch <= epoch'
    BY <2>1
  <2>3. \A k \in Cancellers : cancel[k] # <<>> => cancel[k][3] \in Nat /\ cancel[k][3] <= epoch'
    BY <2>1
  <2>4. \A j \in Jobs : source'[j] <= epoch'
    BY <1>5, <2>1 DEF Renew, Goto, Renewed, config, stopping, invoking, joins, calling, outside
  <2> QED
    BY <2>1, <2>2, <2>3, <2>4
<1>6. ASSUME NEW c \in Callers, Register(c) PROVE Aged'
  BY <1>6 DEF Register, Goto, config, stopping, invoking, joins, calling, outside
<1>7. ASSUME NEW c \in Callers, Forwarded(c) PROVE Aged'
  BY <1>7 DEF Forwarded, Goto, config, stopping, invoking, joins, calling, outside
<1>8. ASSUME NEW c \in Callers, DispatchRoots(c) PROVE Aged'
  BY <1>8 DEF DispatchRoots, Goto, config, stopping, invoking, joins, calling, outside
<1>9. ASSUME NEW c \in Callers, RunEnds(c) PROVE Aged'
  BY <1>9 DEF RunEnds, Goto, config, stopping, invoking, joins, calling, outside
<1>10. ASSUME NEW c \in Callers, ScopeEnds(c) PROVE Aged'
  BY <1>10 DEF ScopeEnds, Goto, config, stopping, invoking, joins, calling, outside
<1>11. ASSUME NEW c \in Callers, TriggerClaim(c) PROVE Aged'
  <2>1. UNCHANGED <<requests, cancel>> /\ epoch' \in {epoch, epoch + 1} /\ epoch \in Nat
    BY <1>11
       DEF TriggerClaim, Goto, Leave, Renewed, config, stopping, invoking, joins, calling,
           outside
  <2>2. \A r \in requests : r.epoch \in Nat /\ r.epoch <= epoch'
    BY <2>1
  <2>3. \A k \in Cancellers : cancel[k] # <<>> => cancel[k][3] \in Nat /\ cancel[k][3] <= epoch'
    BY <2>1
  <2>4. \A j \in Jobs : source'[j] <= epoch'
    BY <1>11, <2>1
       DEF TriggerClaim, Goto, Leave, Renewed, config, stopping, invoking, joins, calling,
           outside
  <2> QED
    BY <2>1, <2>2, <2>3, <2>4
<1>12. ASSUME NEW c \in Callers, TriggerSubmit(c) PROVE Aged'
  BY <1>12 DEF TriggerSubmit, Goto, Leave, config, stopping, invoking, joins, calling, outside
<1>13. ASSUME NEW c \in Callers, NothingToJoin(c) PROVE Aged'
  BY <1>13
     DEF NothingToJoin, Goto, HasOrphans, config, stopping, invoking, joins, calling, outside
<1>14. ASSUME NEW c \in Callers, JoinBegins(c) PROVE Aged'
  BY <1>14 DEF JoinBegins, Goto, HasOrphans, config, stopping, invoking, joins, calling, outside
<1>15. ASSUME NEW c \in Callers, JoinEnds(c) PROVE Aged'
  BY <1>15 DEF JoinEnds, Goto, config, stopping, invoking, joins, calling, outside
<1>16. ASSUME NEW c \in Callers, NEW j \in Jobs, TriggerCheck(c, j) PROVE Aged'
  BY <1>16
     DEF TriggerCheck, Goto, HasOrphans, config, stopping, invoking, joins, calling, outside
<1>17. ASSUME NEW c \in Callers, NEW j \in Jobs, ForwardStop(c, j) PROVE Aged'
  <2> DEFINE r == [job |-> j, source |-> source[j], by |-> "run", epoch |-> epoch]
  <2>1. /\ UNCHANGED <<epoch, cancel, source>>
        /\ requests' = requests \cup {r}
    BY <1>17 DEF ForwardStop, Request, config, stopping, invoking, joins, calling, outside
  <2>2. r.source <= r.epoch /\ r.epoch <= epoch
    OBVIOUS
  <2> HIDE DEF r
  <2> QED
    BY <2>1, <2>2
<1>18. ASSUME NEW j \in Jobs, Enter(j) PROVE Aged'
  BY <1>18 DEF Enter, Step, Body, config, stopping, invoking, joins, calling, outside
<1>19. ASSUME NEW j \in Jobs, BodyReturns(j) PROVE Aged'
  BY <1>19 DEF BodyReturns, Step, config, stopping, invoking, joins, calling, outside
<1>20. ASSUME NEW j \in Jobs, HelperDone(j) PROVE Aged'
  BY <1>20 DEF HelperDone, Step, config, stopping, invoking, joins, calling, outside
<1>21. ASSUME NEW j \in Jobs, HelperStopped(j) PROVE Aged'
  BY <1>21 DEF HelperStopped, Step, config, stopping, invoking, joins, calling, outside
<1>22. ASSUME NEW j \in Jobs, AlarmStops(j) PROVE Aged'
  <2> DEFINE r == [job |-> j, source |-> token[j], by |-> "run", epoch |-> began[j]]
  <2>1. /\ UNCHANGED <<epoch, cancel, source>>
        /\ requests' = requests \cup {r}
    BY <1>22 DEF AlarmStops, Request, config, stopping, invoking, joins, calling, outside
  <2>2. r.source <= r.epoch /\ r.epoch <= epoch
    <3>1. Claimed(j) /\ token[j] = source[j]
      BY <1>22
         DEF Claimed, Stops, AlarmStops, Request, config, stopping, invoking, joins, calling,
             outside
    <3> QED
      BY <3>1 DEF Stops, OwnSource
  <2> HIDE DEF r
  <2> QED
    BY <2>1, <2>2
<1>23. ASSUME NEW j \in Jobs, Disarm(j) PROVE Aged'
  BY <1>23 DEF Disarm, Step, Disarmed, config, stopping, invoking, joins, calling, outside
<1>24. ASSUME NEW j \in Jobs, Retain(j) PROVE Aged'
  BY <1>24 DEF Retain, Step, Disarmed, Body, config, stopping, invoking, joins, calling, outside
<1>25. ASSUME NEW j \in Jobs, Finish(j) PROVE Aged'
  BY <1>25 DEF Finish, Step, config, stopping, invoking, joins, calling, outside
<1>26. ASSUME NEW j \in Jobs, AlarmFires(j) PROVE Aged'
  BY <1>26 DEF AlarmFires, config, stopping, invoking, joins, calling, outside
<1>27. ASSUME NEW j \in Jobs, HelperTimesOut(j) PROVE Aged'
  <2> DEFINE r == [job |-> j, source |-> source[j], by |-> "run", epoch |-> began[j]]
  <2>1. /\ UNCHANGED <<epoch, cancel, source>>
        /\ requests' = requests \cup {r}
    BY <1>27
       DEF HelperTimesOut, Step, Request, config, stopping, invoking, joins, calling, outside
  <2>2. r.source <= r.epoch /\ r.epoch <= epoch
    <3>1. Claimed(j)
      BY <1>27
         DEF Claimed, Stops, HelperTimesOut, Step, Request, config, stopping, invoking, joins,
             calling, outside
    <3> QED
      BY <3>1 DEF Stops, OwnSource
  <2> HIDE DEF r
  <2> QED
    BY <2>1, <2>2
<1>28. ASSUME NEW b \in bodies, HelperReturns(b) PROVE Aged'
  BY <1>28 DEF HelperReturns, config, stopping, invoking, joins, calling, outside
<1>29. ASSUME NEW k \in Cancellers, CancelStops(k) PROVE Aged'
  <2> DEFINE r == [job |-> cancel[k][1], source |-> cancel[k][2],
                   by |-> "cancel", epoch |-> cancel[k][3]]
  <2>1. /\ UNCHANGED <<epoch, source>> /\ cancel' = [cancel EXCEPT ![k] = <<>>]
        /\ requests' = requests \cup {r}
    BY <1>29 DEF CancelStops, Request, config, stopping, invoking, joins, calling, outside
  <2>2. r.source <= r.epoch /\ r.epoch <= epoch
    BY <1>29 DEF CancelStops
  <2> HIDE DEF r
  <2> QED
    BY <2>1, <2>2
<1>30. ASSUME NEW k \in Cancellers, NEW j \in Jobs, CancelCopies(k, j) PROVE Aged'
  <2>1. /\ UNCHANGED <<epoch, source, requests>>
        /\ cancel' = [cancel EXCEPT ![k] = <<j, source[j], epoch>>]
    BY <1>30 DEF CancelCopies, config, stopping, invoking, joins, calling, outside
  <2>2. cancel'[k][2] <= cancel'[k][3] /\ cancel'[k][3] <= epoch
    BY <2>1
  <2>3. \A i \in Cancellers \ {k} : cancel'[i] = cancel[i]
    BY <2>1
  <2> QED
    BY <2>1, <2>2, <2>3
<1>31. CASE UNCHANGED vars
  BY <1>31 DEF vars, config, stopping, invoking, joins, calling, outside
<1> QED
  BY <1>1, <1>2, <1>3, <1>4, <1>5, <1>6, <1>7, <1>8, <1>9, <1>10, <1>11, <1>12, <1>13, <1>14,
     <1>15, <1>16, <1>17, <1>18, <1>19, <1>20, <1>21, <1>22, <1>23, <1>24, <1>25, <1>26, <1>27,
     <1>28, <1>29, <1>30, <1>31
     DEF Next, RunSteps, TriggerSteps, JoinSteps, JobSteps

LEMMA StopsStep ==
  ASSUME LifeInv, [Next]_vars
  PROVE  Stops'
<1>1. Aged' /\ Alarms' /\ \A j \in Jobs : Claimed(j)' => OwnSource(j)'
  BY AgedStep, AlarmsStep, OwnSourceStep
<1> QED
  BY <1>1 DEF Stops, Aged, Alarms

----------------------------------------------------------------------------
(* The theorems *)

LEMMA LifeInit == Init => LifeInv
<1> SUFFICES ASSUME Init PROVE LifeInv
  OBVIOUS
<1> USE LifecycleAssumption DEF Init, Start, None, Nobody
<1>1. LifeType
  BY DEF LifeType, ConfigType, JobType, CallType, StopType, Labels
<1>2. Places
  BY DEF Places, Renewing
<1>3. OneRun
  BY DEF OneRun, Renewing, Triggering
<1>4. Triggers
  BY DEF Triggers, Triggering
<1>5. \A j \in Jobs : ~Claimed(j)
  BY DEF Claimed, Renewing
<1>6. Ledger
  <2>1. IsFiniteSet({}) /\ Cardinality({}) = 0
    BY FS_EmptySet
  <2> QED
    BY <1>5, <2>1 DEF Ledger
<1>7. Joined
  BY DEF Joined, Renewing
<1>8. Stops
  BY <1>5 DEF Stops
<1> QED
  BY <1>1, <1>2, <1>3, <1>4, <1>6, <1>7, <1>8 DEF LifeInv

LEMMA LifeStep == LifeInv /\ [Next]_vars => LifeInv'
<1> SUFFICES ASSUME LifeInv, [Next]_vars PROVE LifeInv'
  OBVIOUS
<1>1. ConfigType' /\ JobType' /\ CallType' /\ StopType'
  BY ConfigTypeStep, JobTypeStep, CallTypeStep, StopTypeStep
<1>2. Places' /\ OneRun' /\ Triggers'
  BY PlacesStep, OneRunStep, TriggersStep
<1>3. Ledger' /\ Joined' /\ Stops'
  BY LedgerStep, JoinedStep, StopsStep
<1> QED
  BY <1>1, <1>2, <1>3 DEF LifeInv, LifeType

(* The invariant of a Pipeline across its calls: running_ admits one run and no
   trigger() beside it, stopMtx_ and the status admit one trigger of a job, every
   body that no dispatcher waits for is in orphanThreads_ or in a joiner's batch
   and counted once in pendingOrphans_, and a renewed job has a stop source on
   which no earlier run has asked for a stop.  (runImpl(), trigger(),
   joinOrphans(), retain(), renewStopState().) *)
THEOREM LifeInvariance == Spec => []LifeInv
<1> QED
  BY LifeInit, LifeStep, PTL DEF Spec

LEMMA OwnersOutlast == LifeInv => NoBodyOutlivesItsOwner
<1> SUFFICES ASSUME LifeInv PROVE NoBodyOutlivesItsOwner
  OBVIOUS
<1> USE DEF LifeInv
<1>1. ASSUME NEW c \in Callers, NEW b \in bodies, pc[c] \in Renewing \cup {"wait"}
      PROVE  b[2] = epoch
  <2>1. b[1] \in Jobs /\ running /\ ret[c] = "renew"
    BY <1>1 DEF LifeType, JobType, OneRun, Places
  <2>2. CASE b \in orphans \cup batch
    BY <1>1, <2>2 DEF Joined
  <2>3. CASE inv[b[1]] # "none" /\ b[2] = began[b[1]]
    BY <2>1, <2>3 DEF OneRun
  <2> QED
    BY <2>2, <2>3 DEF Ledger
<1>2. ASSUME NEW c \in Callers, pc[c] = "destroyed"
      PROVE  bodies = {} /\ pendingOrphans = 0
  <2>1. orphans = {} /\ batch = {} /\ \A j \in Jobs : inv[j] = "none"
    BY <1>2 DEF Joined, Places
  <2>2. bodies = {}
    BY <2>1 DEF Ledger, LifeType, JobType
  <2>3. Cardinality({}) = 0
    BY FS_EmptySet
  <2> QED
    BY <2>1, <2>2, <2>3 DEF Ledger
<1>3. ASSUME NEW c \in Callers, NEW b \in bodies, pc[c] = "complete"
      PROVE  b[2] # scope[c]
  <2>1. b[1] \in Jobs /\ ret[c] = "complete" /\ scope[c] # None /\ epoch \in Nat
    BY <1>3 DEF LifeType, JobType, CallType, Places
  <2>2. CASE b \in orphans \cup batch
    BY <1>3, <2>2 DEF Joined
  <2>3. CASE inv[b[1]] # "none" /\ b[2] = began[b[1]]
    <3>1. b[1] \notin onDemand
      BY <2>1, <2>3 DEF Triggers
    <3>2. running /\ b[2] = epoch
      BY <2>1, <2>3, <3>1 DEF OneRun
    <3>3. PICK d \in Callers : ret[d] = "renew"
      BY <3>2 DEF OneRun
    <3>4. pc[d] = "wait"
      BY <2>1, <2>3, <3>3 DEF OneRun
    <3>5. scope[c] < epoch
      BY <2>1, <3>4 DEF Joined
    <3>6. scope[c] \in Nat
      BY <2>1 DEF LifeType, CallType
    <3> QED
      BY <2>1, <3>2, <3>5, <3>6
  <2> QED
    BY <2>2, <2>3 DEF Ledger
<1> QED
  BY <1>1, <1>2, <1>3 DEF NoBodyOutlivesItsOwner, Renewing

(* No body of an earlier run or trigger is left when a run has renewed its
   state, none of its own when a RunScope is complete, none at all when the
   pipeline is destroyed, for any number of jobs, callers and calls, however
   timeouts, joins and scopes overlap.  (runImpl(): "A new epoch must not reuse
   borrowed state while an old job still runs"; RunScope; ~Impl().) *)
THEOREM BodiesEndWithTheirOwner == Spec => []NoBodyOutlivesItsOwner
<1> QED
  BY LifeInvariance, OwnersOutlast, PTL

LEMMA SourcesKeepEpochs == LifeInv => StopStaysInItsEpoch
<1> SUFFICES ASSUME LifeInv, NEW j \in Jobs, NEW r \in requests,
                    Active(j), r.job = j, r.source = source[j], r.epoch < began[j]
             PROVE  r.by = "cancel" /\ j \notin cancellable
  BY DEF StopStaysInItsEpoch
<1>1. OwnSource(j)
  BY DEF LifeInv, Stops, Claimed, Active
<1>2. /\ r.by \in {"run", "cancel"} /\ r.epoch \in Nat /\ r.source \in Nat
      /\ r.source <= r.epoch
  BY DEF LifeInv, LifeType, StopType, Stops
<1>3. r.by # "run"
  BY <1>1, <1>2 DEF OwnSource
<1>4. j \notin cancellable
  BY <1>1, <1>2 DEF OwnSource
<1> QED
  BY <1>2, <1>3, <1>4

(* A stop stays in the run or trigger it was meant for: no watchdog, deadline or
   external stop of an earlier one is on the source of a running job, nor a
   cancel() that copied the source before a cancellable job was renewed, for any
   number of callers and cancellers.  (renewStopState() under stopMtx_,
   Job::cancel(), ForwardStop, the joins that end each alarm.) *)
THEOREM StopsStayInTheirEpoch == Spec => []StopStaysInItsEpoch
<1> QED
  BY LifeInvariance, SourcesKeepEpochs, PTL

============================================================================
