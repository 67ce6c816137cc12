--------------------------- MODULE ExecutorProofs ---------------------------
(***************************************************************************)
(* The executors, for any submissions, any nesting of dispatches and any   *)
(* number of workers and callers: the pool's counters are exact and it     *)
(* loses no wake-up, DesktopExecutor loses no thread, no executor is used  *)
(* after its destruction, no caller of waitAll() sleeps through the last   *)
(* completion, and every step is a step of IExecutor's contract.           *)
(***************************************************************************)
EXTENDS Executors, FiniteSetTheorems, TLAPS

----------------------------------------------------------------------------
(* BasicPriorityExecutor: counting *)

\* The counted sets are finite and the sizes are numbers.
LEMMA PoolSets ==
  ASSUME TypeOK
  PROVE  /\ IsFiniteSet(queue) /\ IsFiniteSet(toNotify)
         /\ IsFiniteSet(Coming) /\ IsFiniteSet(OnWake) /\ IsFiniteSet(Busy)
         /\ Cardinality(queue) \in Nat /\ Cardinality(toNotify) \in Nat
         /\ Cardinality(Coming) \in Nat /\ Cardinality(OnWake) \in Nat
         /\ Cardinality(Busy) \in Nat
<1>1. /\ IsFiniteSet(queue) /\ IsFiniteSet(toNotify)
      /\ IsFiniteSet(Coming) /\ IsFiniteSet(OnWake) /\ IsFiniteSet(Busy)
  BY PoolAssumption, FS_Subset DEF TypeOK, Coming, OnWake, Busy
<1> QED
  BY <1>1, FS_CardinalityType

\* One more.
LEMMA OneMore ==
  ASSUME NEW S, NEW x, IsFiniteSet(S), x \notin S
  PROVE  Cardinality(S \cup {x}) = Cardinality(S) + 1
  BY FS_AddElement

\* One less.
LEMMA OneLess ==
  ASSUME NEW S, NEW x, IsFiniteSet(S), x \in S
  PROVE  /\ Cardinality(S \ {x}) = Cardinality(S) - 1
         /\ Cardinality(S) \in Nat \ {0}
<1>1. Cardinality(S \ {x}) = Cardinality(S) - 1
  BY FS_RemoveElement
<1>2. Cardinality(S) \in Nat /\ Cardinality(S) # 0
  BY FS_CardinalityType, FS_EmptySet
<1> QED
  BY <1>1, <1>2

\* A larger set.
LEMMA NoFewer ==
  ASSUME NEW S, NEW T, IsFiniteSet(T), S \subseteq T
  PROVE  Cardinality(S) <= Cardinality(T)
  BY FS_Subset

\* inFlight_ is zero exactly when nothing is queued or held.
LEMMA IdleMeansEmpty ==
  ASSUME TypeOK, CountsExact
  PROVE  inFlight = 0 <=> queue = {} /\ Held = {}
<1>1. /\ Cardinality(queue) \in Nat /\ Cardinality(Busy) \in Nat
      /\ Cardinality(queue) = 0 <=> queue = {}
      /\ Cardinality(Busy) = 0 <=> Busy = {}
  BY PoolSets, FS_EmptySet
<1>2. Busy = {} <=> Held = {}
  BY DEF Busy, Held
<1> QED
  BY <1>1, <1>2 DEF CountsExact, TypeOK

----------------------------------------------------------------------------
(* The type invariant *)

\* Taking a job from wake_ and publishing lower counters that are not zero.
LEMMA CountersPositive ==
  ASSUME PoolInv
  PROVE  /\ \A w \in Workers : worker[w] \in {"asleep", "woken"} => idle \in Nat \ {0}
         /\ \A w \in Workers : worker[w] \in {"body", "publish"} => inFlight \in Nat \ {0}
<1>1. ASSUME NEW w \in Workers, worker[w] \in {"asleep", "woken"}
      PROVE  idle \in Nat \ {0}
  <2>1. w \in OnWake
    BY <1>1 DEF OnWake
  <2> QED
    BY <2>1, PoolSets, OneLess DEF PoolInv, CountsExact
<1>2. ASSUME NEW w \in Workers, worker[w] \in {"body", "publish"}
      PROVE  inFlight \in Nat \ {0}
  <2>1. w \in Busy
    BY <1>2 DEF Busy, PoolInv, OnePlace
  <2>2. Cardinality(Busy) \in Nat \ {0} /\ Cardinality(queue) \in Nat
    BY <2>1, PoolSets, OneLess DEF PoolInv
  <2> QED
    BY <2>2 DEF PoolInv, CountsExact
<1> QED
  BY <1>1, <1>2

\* nextSequence_ is a number.
LEMMA NextSequenceType == NextSequence \in Nat
  BY PoolAssumption, FS_Subset, FS_CardinalityType DEF NextSequence

\* Every step keeps the types.
LEMMA TypeStep ==
  ASSUME PoolInv, [Next]_vars
  PROVE  TypeOK'
<1> USE PoolAssumption DEF PoolInv, TypeOK
<1>1. ASSUME NEW k \in Tasks, Dispatch(k) PROVE TypeOK'
  BY <1>1, NextSequenceType DEF Dispatch
<1>2. ASSUME NEW k \in Tasks, RejectDispatch(k) PROVE TypeOK'
  BY <1>2 DEF RejectDispatch
<1>3. ASSUME NEW k \in Tasks, NotifyOne(k) PROVE TypeOK'
  BY <1>3 DEF NotifyOne
<1>4. ASSUME NEW w \in Workers, Take(w) PROVE TypeOK'
  BY <1>4, CountersPositive DEF Take
<1>5. ASSUME NEW w \in Workers, Sleep(w) PROVE TypeOK'
  BY <1>5 DEF Sleep
<1>6. ASSUME NEW w \in Workers, BodyReturns(w) PROVE TypeOK'
  BY <1>6 DEF BodyReturns
<1>7. ASSUME NEW w \in Workers, Publish(w) PROVE TypeOK'
  BY <1>7, CountersPositive DEF Publish, OnePlace
<1>8. ASSUME NEW w \in Workers, NotifyDone(w) PROVE TypeOK'
  BY <1>8 DEF NotifyDone
<1>9. ASSUME NEW c \in Callers, EnterWait(c) \/ TestIdle(c) \/ Block(c) PROVE TypeOK'
  BY <1>9 DEF EnterWait, TestIdle, Block
<1>10. CASE SpuriousWakeup
  BY <1>10 DEF SpuriousWakeup
<1>11. CASE Destroy
  BY <1>11 DEF Destroy
<1>12. CASE StopWorkers
  BY <1>12 DEF StopWorkers
<1>13. CASE UNCHANGED vars
  BY <1>13 DEF vars
<1> QED
  BY <1>1, <1>2, <1>3, <1>4, <1>5, <1>6, <1>7, <1>8, <1>9, <1>10, <1>11, <1>12, <1>13
     DEF Next, WorkerStep, CallerStep

----------------------------------------------------------------------------
(* Every task is in one place *)

\* Only a dispatch, a take and a publication move a task.
LEMMA OnePlaceStep ==
  ASSUME PoolInv, [Next]_vars
  PROVE  OnePlace'
<1> USE PoolAssumption DEF PoolInv, TypeOK, OnePlace
<1>1. ASSUME NEW k \in Tasks, Dispatch(k) PROVE OnePlace'
  <2>1. k \notin queue /\ k \notin rejected /\ k \notin finished
        /\ \A w \in Workers : job[w] # k
    BY <1>1 DEF Dispatch, New, Held
  <2> QED
    BY <1>1, <2>1 DEF Dispatch
<1>2. ASSUME NEW k \in Tasks, RejectDispatch(k) PROVE OnePlace'
  <2>1. k \notin queue /\ k \notin rejected /\ k \notin finished
        /\ \A w \in Workers : job[w] # k
    BY <1>2 DEF RejectDispatch, New, Held
  <2> QED
    BY <1>2, <2>1 DEF RejectDispatch
<1>3. ASSUME NEW k \in Tasks, NotifyOne(k) PROVE OnePlace'
  BY <1>3 DEF NotifyOne
<1>4. ASSUME NEW w \in Workers, Take(w) PROVE OnePlace'
  <2>1. ASSUME NEW k \in queue, queue' = queue \ {k}, job' = [job EXCEPT ![w] = k],
               worker' = [worker EXCEPT ![w] = "body"]
        PROVE  OnePlace'
    <3>1. \A u \in Workers : job[u] # k
      BY <2>1
    <3>2. k # NoTask /\ k \notin rejected /\ k \notin finished
      BY <2>1
    <3>3. rejected' = rejected /\ finished' = finished
      BY <1>4 DEF Take
    <3> QED
      BY <2>1, <3>1, <3>2, <3>3
  <2>2. ASSUME worker' = [worker EXCEPT ![w] = "exited"], UNCHANGED <<queue, job>>
        PROVE  OnePlace'
    BY <1>4, <2>2 DEF Take
  <2> QED
    BY <1>4, <2>1, <2>2 DEF Take
<1>5. ASSUME NEW w \in Workers, Sleep(w) PROVE OnePlace'
  BY <1>5 DEF Sleep
<1>6. ASSUME NEW w \in Workers, BodyReturns(w) PROVE OnePlace'
  BY <1>6 DEF BodyReturns
<1>7. ASSUME NEW w \in Workers, Publish(w) PROVE OnePlace'
  BY <1>7 DEF Publish
<1>8. ASSUME NEW w \in Workers, NotifyDone(w) PROVE OnePlace'
  BY <1>8 DEF NotifyDone
<1>9. ASSUME NEW c \in Callers, EnterWait(c) \/ TestIdle(c) \/ Block(c) PROVE OnePlace'
  BY <1>9 DEF EnterWait, TestIdle, Block
<1>10. CASE SpuriousWakeup
  BY <1>10 DEF SpuriousWakeup
<1>11. CASE Destroy
  BY <1>11 DEF Destroy
<1>12. CASE StopWorkers
  BY <1>12 DEF StopWorkers
<1>13. CASE UNCHANGED vars
  BY <1>13 DEF vars
<1> QED
  BY <1>1, <1>2, <1>3, <1>4, <1>5, <1>6, <1>7, <1>8, <1>9, <1>10, <1>11, <1>12, <1>13
     DEF Next, WorkerStep, CallerStep

----------------------------------------------------------------------------
(* Notifications, the counters and the wake-ups *)

\* The call that owes a notification is still under way: its body has not returned, and
\* a client's call keeps the destructor from starting.
LEMMA NotifyingStep ==
  ASSUME PoolInv, [Next]_vars
  PROVE  Notifying'
<1> USE PoolAssumption DEF PoolInv, TypeOK, Notifying, New, Held, MayDispatch
<1>1. ASSUME NEW k \in Tasks, Dispatch(k) PROVE Notifying'
  <2>1. \A j \in Tasks : MayDispatch(j)' <=> MayDispatch(j)
    BY <1>1 DEF Dispatch
  <2>2. New' = New \ {k}
    BY <1>1 DEF Dispatch
  <2> QED
    BY <1>1, <2>1, <2>2 DEF Dispatch
<1>2. ASSUME NEW k \in Tasks, RejectDispatch(k) PROVE Notifying'
  BY <1>2 DEF RejectDispatch
<1>3. ASSUME NEW k \in Tasks, NotifyOne(k) PROVE Notifying'
  BY <1>3 DEF NotifyOne
<1>4. ASSUME NEW w \in Workers, Take(w) PROVE Notifying'
  <2>1. New' = New
    BY <1>4 DEF Take, OnePlace
  <2>2. job[w] = NoTask
    BY <1>4 DEF Take, OnePlace
  <2> QED
    BY <1>4, <2>1, <2>2 DEF Take, OnePlace
<1>5. ASSUME NEW w \in Workers, Sleep(w) PROVE Notifying'
  BY <1>5 DEF Sleep
<1>6. ASSUME NEW w \in Workers, BodyReturns(w) PROVE Notifying'
  <2>1. \A j \in toNotify : Parent[j] # job[w]
    BY <1>6 DEF BodyReturns
  <2>2. New' = New
    BY <1>6 DEF BodyReturns
  <2> QED
    BY <1>6, <2>1, <2>2 DEF BodyReturns, OnePlace
<1>7. ASSUME NEW w \in Workers, Publish(w) PROVE Notifying'
  <2>1. New' = New
    BY <1>7 DEF Publish, OnePlace
  <2> QED
    BY <1>7, <2>1 DEF Publish, OnePlace
<1>8. ASSUME NEW w \in Workers, NotifyDone(w) PROVE Notifying'
  BY <1>8 DEF NotifyDone
<1>9. ASSUME NEW c \in Callers, EnterWait(c) PROVE Notifying'
  BY <1>9 DEF EnterWait
<1>10. ASSUME NEW c \in Callers, TestIdle(c) PROVE Notifying'
  BY <1>10 DEF TestIdle
<1>11. ASSUME NEW c \in Callers, Block(c) PROVE Notifying'
  BY <1>11 DEF Block
<1>12. CASE SpuriousWakeup
  BY <1>12 DEF SpuriousWakeup
<1>13. CASE Destroy
  BY <1>13 DEF Destroy
<1>14. CASE StopWorkers
  BY <1>14 DEF StopWorkers
<1>15. CASE UNCHANGED vars
  BY <1>15 DEF vars
<1> QED
  BY <1>1, <1>2, <1>3, <1>4, <1>5, <1>6, <1>7, <1>8, <1>9, <1>10, <1>11, <1>12, <1>13, <1>14,
     <1>15
     DEF Next, WorkerStep, CallerStep

\* Both counters move with the sets they count.
LEMMA CountsStep ==
  ASSUME PoolInv, [Next]_vars
  PROVE  CountsExact'
<1> USE PoolAssumption DEF PoolInv, TypeOK, CountsExact
<1>1. ASSUME NEW k \in Tasks, Dispatch(k) PROVE CountsExact'
  <2>1. Busy' = Busy /\ OnWake' = OnWake
    BY <1>1 DEF Dispatch, Busy, OnWake
  <2>2. Cardinality(queue') = Cardinality(queue) + 1
    BY <1>1, PoolSets, OneMore DEF Dispatch, New
  <2> QED
    BY <1>1, <2>1, <2>2, PoolSets DEF Dispatch
<1>2. ASSUME NEW k \in Tasks, RejectDispatch(k) PROVE CountsExact'
  <2>1. Busy' = Busy /\ OnWake' = OnWake
    BY <1>2 DEF RejectDispatch, Busy, OnWake
  <2> QED
    BY <1>2, <2>1 DEF RejectDispatch
<1>3. ASSUME NEW k \in Tasks, NotifyOne(k) PROVE CountsExact'
  <2>1. Busy' = Busy /\ OnWake' = OnWake
    BY <1>3 DEF NotifyOne, Busy, OnWake
  <2> QED
    BY <1>3, <2>1 DEF NotifyOne
<1>4. ASSUME NEW w \in Workers, Take(w) PROVE CountsExact'
  <2>1. idle' = Cardinality(OnWake')
    <3>1. CASE worker[w] = "woken"
      <4>1. w \in OnWake /\ OnWake' = OnWake \ {w}
        BY <1>4, <3>1 DEF Take, OnWake
      <4> QED
        BY <1>4, <3>1, <4>1, PoolSets, OneLess DEF Take
    <3>2. CASE worker[w] = "lock"
      <4>1. OnWake' = OnWake
        BY <1>4, <3>2 DEF Take, OnWake
      <4> QED
        BY <1>4, <3>2, <4>1 DEF Take
    <3> QED
      BY <1>4, <3>1, <3>2 DEF Take
  <2>2. ASSUME NEW k \in queue, queue' = queue \ {k}, job' = [job EXCEPT ![w] = k]
        PROVE  inFlight' = Cardinality(queue') + Cardinality(Busy')
    <3>1. w \notin Busy /\ Busy' = Busy \cup {w}
      BY <1>4, <2>2 DEF Take, Busy, OnePlace
    <3>2. Cardinality(Busy') = Cardinality(Busy) + 1
      BY <3>1, PoolSets, OneMore
    <3>3. Cardinality(queue') = Cardinality(queue) - 1
      BY <2>2, PoolSets, OneLess
    <3> QED
      BY <1>4, <3>2, <3>3, PoolSets DEF Take
  <2>3. ASSUME UNCHANGED <<queue, job>>
        PROVE  inFlight' = Cardinality(queue') + Cardinality(Busy')
    BY <1>4, <2>3 DEF Take, Busy
  <2> QED
    BY <1>4, <2>1, <2>2, <2>3 DEF Take
<1>5. ASSUME NEW w \in Workers, Sleep(w) PROVE CountsExact'
  <2>1. Busy' = Busy
    BY <1>5 DEF Sleep, Busy
  <2>2. CASE worker[w] = "lock"
    <3>1. w \notin OnWake /\ OnWake' = OnWake \cup {w}
      BY <1>5, <2>2 DEF Sleep, OnWake
    <3> QED
      BY <1>5, <2>1, <2>2, <3>1, PoolSets, OneMore DEF Sleep
  <2>3. CASE worker[w] = "woken"
    <3>1. OnWake' = OnWake
      BY <1>5, <2>3 DEF Sleep, OnWake
    <3> QED
      BY <1>5, <2>1, <2>3, <3>1 DEF Sleep
  <2> QED
    BY <1>5, <2>2, <2>3 DEF Sleep
<1>6. ASSUME NEW w \in Workers, BodyReturns(w) PROVE CountsExact'
  <2>1. Busy' = Busy /\ OnWake' = OnWake
    BY <1>6 DEF BodyReturns, Busy, OnWake
  <2> QED
    BY <1>6, <2>1 DEF BodyReturns
<1>7. ASSUME NEW w \in Workers, Publish(w) PROVE CountsExact'
  <2>1. OnWake' = OnWake
    BY <1>7 DEF Publish, OnWake
  <2>2. w \in Busy /\ Busy' = Busy \ {w}
    BY <1>7 DEF Publish, Busy, OnePlace
  <2>3. Cardinality(Busy') = Cardinality(Busy) - 1
    BY <2>2, PoolSets, OneLess
  <2> QED
    BY <1>7, <2>1, <2>3, PoolSets DEF Publish
<1>8. ASSUME NEW w \in Workers, NotifyDone(w) PROVE CountsExact'
  <2>1. Busy' = Busy /\ OnWake' = OnWake
    BY <1>8 DEF NotifyDone, Busy, OnWake
  <2> QED
    BY <1>8, <2>1 DEF NotifyDone
<1>9. ASSUME NEW c \in Callers, EnterWait(c) PROVE CountsExact'
  BY <1>9 DEF EnterWait, Busy, OnWake
<1>10. ASSUME NEW c \in Callers, TestIdle(c) PROVE CountsExact'
  BY <1>10 DEF TestIdle, Busy, OnWake
<1>11. ASSUME NEW c \in Callers, Block(c) PROVE CountsExact'
  BY <1>11 DEF Block, Busy, OnWake
<1>12. CASE SpuriousWakeup
  <2>1. Busy' = Busy /\ OnWake' = OnWake
    BY <1>12 DEF SpuriousWakeup, Busy, OnWake
  <2> QED
    BY <1>12, <2>1 DEF SpuriousWakeup
<1>13. CASE Destroy
  BY <1>13 DEF Destroy, Busy, OnWake
<1>14. CASE StopWorkers
  <2>1. Busy' = Busy /\ OnWake' = OnWake
    BY <1>14 DEF StopWorkers, Busy, OnWake
  <2> QED
    BY <1>14, <2>1 DEF StopWorkers
<1>15. CASE UNCHANGED vars
  BY <1>15 DEF vars, Busy, OnWake
<1> QED
  BY <1>1, <1>2, <1>3, <1>4, <1>5, <1>6, <1>7, <1>8, <1>9, <1>10, <1>11, <1>12, <1>13, <1>14,
     <1>15
     DEF Next, WorkerStep, CallerStep

\* idle_ is not zero while a worker sleeps, so a dispatch owes it a notification; a
\* notification or a spurious wake-up turns a sleeper into a worker that comes.
LEMMA NoStrandedStep ==
  ASSUME PoolInv, [Next]_vars
  PROVE  NoStrandedJob'
<1> USE PoolAssumption DEF PoolInv, TypeOK, NoStrandedJob
<1>1. ASSUME NEW k \in Tasks, Dispatch(k) PROVE NoStrandedJob'
  <2>1. k \notin queue /\ k \notin toNotify
    BY <1>1 DEF Dispatch, New, Notifying
  <2>2. Cardinality(queue') = Cardinality(queue) + 1 /\ Coming' = Coming
    BY <1>1, <2>1, PoolSets, OneMore DEF Dispatch, Coming
  <2>3. SUFFICES ASSUME NEW w \in Workers, worker[w] = "asleep"
                 PROVE  Cardinality(queue') <= Cardinality(toNotify') + Cardinality(Coming')
    BY <1>1 DEF Dispatch
  <2>4. toNotify' = toNotify \cup {k}
    BY <1>1, <2>3, CountersPositive DEF Dispatch
  <2>5. Cardinality(toNotify') = Cardinality(toNotify) + 1
    BY <2>1, <2>4, PoolSets, OneMore
  <2>6. Cardinality(queue) <= Cardinality(toNotify) + Cardinality(Coming)
    BY <2>3
  <2> QED
    BY <2>2, <2>5, <2>6, PoolSets
<1>2. ASSUME NEW k \in Tasks, RejectDispatch(k) PROVE NoStrandedJob'
  BY <1>2 DEF RejectDispatch, Coming
<1>3. ASSUME NEW k \in Tasks, NotifyOne(k) PROVE NoStrandedJob'
  <2>1. Cardinality(toNotify') = Cardinality(toNotify) - 1
    BY <1>3, PoolSets, OneLess DEF NotifyOne
  <2>2. ASSUME NEW w \in Workers, worker[w] = "asleep", worker' = [worker EXCEPT ![w] = "woken"]
        PROVE  NoStrandedJob'
    <3>1. w \notin Coming /\ Coming' = Coming \cup {w}
      BY <2>2 DEF Coming
    <3>2. Cardinality(Coming') = Cardinality(Coming) + 1
      BY <3>1, PoolSets, OneMore
    <3>3. queue' = queue
      BY <1>3 DEF NotifyOne
    <3>4. Cardinality(queue) <= Cardinality(toNotify) + Cardinality(Coming)
      BY <2>2
    <3> QED
      BY <2>1, <3>2, <3>3, <3>4, PoolSets
  <2>3. ASSUME \A w \in Workers : worker[w] # "asleep", UNCHANGED worker
        PROVE  NoStrandedJob'
    BY <2>3
  <2> QED
    BY <1>3, <2>2, <2>3 DEF NotifyOne
<1>4. ASSUME NEW w \in Workers, Take(w) PROVE NoStrandedJob'
  <2>1. w \in Coming /\ Coming' = Coming \ {w}
    BY <1>4 DEF Take, Coming
  <2>2. Cardinality(Coming') = Cardinality(Coming) - 1 /\ Cardinality(Coming') \in Nat
    BY <2>1, PoolSets, OneLess
  <2>3. \A u \in Workers : worker'[u] = "asleep" => worker[u] = "asleep"
    BY <1>4 DEF Take
  <2>4. toNotify' = toNotify
    BY <1>4 DEF Take
  <2>5. ASSUME NEW k \in queue, queue' = queue \ {k}
        PROVE  NoStrandedJob'
    <3>1. Cardinality(queue') = Cardinality(queue) - 1
      BY <2>5, PoolSets, OneLess
    <3> QED
      BY <2>2, <2>3, <2>4, <3>1, PoolSets
  <2>6. ASSUME queue = {}, queue' = queue
        PROVE  NoStrandedJob'
    <3>1. Cardinality(queue') = 0
      BY <2>6, FS_EmptySet
    <3> QED
      BY <2>2, <2>4, <3>1, PoolSets
  <2> QED
    BY <1>4, <2>5, <2>6 DEF Take
<1>5. ASSUME NEW w \in Workers, Sleep(w) PROVE NoStrandedJob'
  <2>1. Cardinality(queue') = 0
    BY <1>5, FS_EmptySet DEF Sleep
  <2>2. IsFiniteSet(Coming') /\ toNotify' = toNotify
    BY <1>5, PoolAssumption, FS_Subset DEF Coming, Sleep
  <2>3. Cardinality(Coming') \in Nat
    BY <2>2, FS_CardinalityType
  <2> QED
    BY <2>1, <2>2, <2>3, PoolSets
<1>6. ASSUME NEW w \in Workers, BodyReturns(w) PROVE NoStrandedJob'
  <2>1. Coming' = Coming
    BY <1>6 DEF BodyReturns, Coming
  <2> QED
    BY <1>6, <2>1 DEF BodyReturns
<1>7. ASSUME NEW w \in Workers, Publish(w) PROVE NoStrandedJob'
  <2>1. Coming \subseteq Coming' /\ IsFiniteSet(Coming')
    BY <1>7, PoolAssumption, FS_Subset DEF Publish, Coming
  <2>2. Cardinality(Coming) <= Cardinality(Coming') /\ Cardinality(Coming') \in Nat
    BY <2>1, NoFewer, FS_CardinalityType
  <2>3. \A u \in Workers : worker'[u] = "asleep" => worker[u] = "asleep"
    BY <1>7 DEF Publish
  <2>4. queue' = queue /\ toNotify' = toNotify
    BY <1>7 DEF Publish
  <2> QED
    BY <2>2, <2>3, <2>4, PoolSets
<1>8. ASSUME NEW w \in Workers, NotifyDone(w) PROVE NoStrandedJob'
  <2>1. Coming \subseteq Coming' /\ IsFiniteSet(Coming')
    BY <1>8, PoolAssumption, FS_Subset DEF NotifyDone, Coming
  <2>2. Cardinality(Coming) <= Cardinality(Coming') /\ Cardinality(Coming') \in Nat
    BY <2>1, NoFewer, FS_CardinalityType
  <2>3. \A u \in Workers : worker'[u] = "asleep" => worker[u] = "asleep"
    BY <1>8 DEF NotifyDone
  <2>4. queue' = queue /\ toNotify' = toNotify
    BY <1>8 DEF NotifyDone
  <2> QED
    BY <2>2, <2>3, <2>4, PoolSets
<1>9. ASSUME NEW c \in Callers, EnterWait(c) PROVE NoStrandedJob'
  BY <1>9 DEF EnterWait, Coming
<1>10. ASSUME NEW c \in Callers, TestIdle(c) PROVE NoStrandedJob'
  BY <1>10 DEF TestIdle, Coming
<1>11. ASSUME NEW c \in Callers, Block(c) PROVE NoStrandedJob'
  BY <1>11 DEF Block, Coming
<1>12. CASE SpuriousWakeup
  <2>1. Coming \subseteq Coming' /\ IsFiniteSet(Coming')
    BY <1>12, PoolAssumption, FS_Subset DEF SpuriousWakeup, Coming
  <2>2. Cardinality(Coming) <= Cardinality(Coming') /\ Cardinality(Coming') \in Nat
    BY <2>1, NoFewer, FS_CardinalityType
  <2>3. \A u \in Workers : worker'[u] = "asleep" => worker[u] = "asleep"
    BY <1>12 DEF SpuriousWakeup
  <2>4. queue' = queue /\ toNotify' = toNotify
    BY <1>12 DEF SpuriousWakeup
  <2> QED
    BY <2>2, <2>3, <2>4, PoolSets
<1>13. CASE Destroy
  BY <1>13 DEF Destroy, Coming
<1>14. CASE StopWorkers
  <2>1. ASSUME worker' = [u \in Workers |-> IF worker[u] = "asleep" THEN "woken" ELSE worker[u]]
        PROVE  NoStrandedJob'
    BY <2>1
  <2>2. ASSUME UNCHANGED worker
        PROVE  NoStrandedJob'
    BY <1>14, <2>2 DEF StopWorkers, Coming
  <2> QED
    BY <1>14, <2>1, <2>2 DEF StopWorkers
<1>15. CASE UNCHANGED vars
  BY <1>15 DEF vars, Coming
<1> QED
  BY <1>1, <1>2, <1>3, <1>4, <1>5, <1>6, <1>7, <1>8, <1>9, <1>10, <1>11, <1>12, <1>13, <1>14,
     <1>15
     DEF Next, WorkerStep, CallerStep

----------------------------------------------------------------------------
(* waitAll() and the destructor *)

\* A caller that is about to sleep is the one that holds doneMtx_.
LEMMA HolderStep ==
  ASSUME PoolInv, [Next]_vars
  PROVE  SleeperHolds'
<1> USE PoolAssumption DEF PoolInv, TypeOK, SleeperHolds
<1>1. ASSUME NEW k \in Tasks, Dispatch(k) PROVE SleeperHolds'
  BY <1>1 DEF Dispatch
<1>2. ASSUME NEW k \in Tasks, RejectDispatch(k) PROVE SleeperHolds'
  BY <1>2 DEF RejectDispatch
<1>3. ASSUME NEW k \in Tasks, NotifyOne(k) PROVE SleeperHolds'
  BY <1>3 DEF NotifyOne
<1>4. ASSUME NEW w \in Workers, Take(w) PROVE SleeperHolds'
  BY <1>4 DEF Take
<1>5. ASSUME NEW w \in Workers, Sleep(w) PROVE SleeperHolds'
  BY <1>5 DEF Sleep
<1>6. ASSUME NEW w \in Workers, BodyReturns(w) PROVE SleeperHolds'
  BY <1>6 DEF BodyReturns
<1>7. ASSUME NEW w \in Workers, Publish(w) PROVE SleeperHolds'
  BY <1>7 DEF Publish
<1>8. ASSUME NEW w \in Workers, NotifyDone(w) PROVE SleeperHolds'
  BY <1>8 DEF NotifyDone
<1>9. ASSUME NEW c \in Callers, EnterWait(c) PROVE SleeperHolds'
  BY <1>9 DEF EnterWait
<1>10. ASSUME NEW c \in Callers, TestIdle(c) PROVE SleeperHolds'
  BY <1>10 DEF TestIdle
<1>11. ASSUME NEW c \in Callers, Block(c) PROVE SleeperHolds'
  BY <1>11 DEF Block
<1>12. CASE SpuriousWakeup
  BY <1>12 DEF SpuriousWakeup
<1>13. CASE Destroy
  BY <1>13 DEF Destroy
<1>14. CASE StopWorkers
  BY <1>14 DEF StopWorkers
<1>15. CASE UNCHANGED vars
  BY <1>15 DEF vars
<1> QED
  BY <1>1, <1>2, <1>3, <1>4, <1>5, <1>6, <1>7, <1>8, <1>9, <1>10, <1>11, <1>12, <1>13, <1>14,
     <1>15
     DEF Next, WorkerStep, CallerStep

\* The last completion is announced under doneMtx_, when nobody is between the failed
\* test and the sleep.
LEMMA NoMissedStep ==
  ASSUME PoolInv, [Next]_vars
  PROVE  NoMissedCompletion'
<1> USE PoolAssumption DEF PoolInv, TypeOK, SleeperHolds, NoMissedCompletion
<1>1. ASSUME NEW k \in Tasks, Dispatch(k) PROVE NoMissedCompletion'
  BY <1>1 DEF Dispatch
<1>2. ASSUME NEW k \in Tasks, RejectDispatch(k) PROVE NoMissedCompletion'
  BY <1>2 DEF RejectDispatch
<1>3. ASSUME NEW k \in Tasks, NotifyOne(k) PROVE NoMissedCompletion'
  BY <1>3 DEF NotifyOne
<1>4. ASSUME NEW w \in Workers, Take(w) PROVE NoMissedCompletion'
  BY <1>4 DEF Take
<1>5. ASSUME NEW w \in Workers, Sleep(w) PROVE NoMissedCompletion'
  BY <1>5 DEF Sleep
<1>6. ASSUME NEW w \in Workers, BodyReturns(w) PROVE NoMissedCompletion'
  BY <1>6 DEF BodyReturns
<1>7. ASSUME NEW w \in Workers, Publish(w) PROVE NoMissedCompletion'
  BY <1>7, CountersPositive DEF Publish
<1>8. ASSUME NEW w \in Workers, NotifyDone(w) PROVE NoMissedCompletion'
  BY <1>8 DEF NotifyDone
<1>9. ASSUME NEW c \in Callers, EnterWait(c) PROVE NoMissedCompletion'
  BY <1>9 DEF EnterWait
<1>10. ASSUME NEW c \in Callers, TestIdle(c) PROVE NoMissedCompletion'
  BY <1>10 DEF TestIdle
<1>11. ASSUME NEW c \in Callers, Block(c) PROVE NoMissedCompletion'
  BY <1>11 DEF Block
<1>12. CASE SpuriousWakeup
  BY <1>12 DEF SpuriousWakeup
<1>13. CASE Destroy
  BY <1>13 DEF Destroy
<1>14. CASE StopWorkers
  BY <1>14 DEF StopWorkers
<1>15. CASE UNCHANGED vars
  BY <1>15 DEF vars
<1> QED
  BY <1>1, <1>2, <1>3, <1>4, <1>5, <1>6, <1>7, <1>8, <1>9, <1>10, <1>11, <1>12, <1>13, <1>14,
     <1>15
     DEF Next, WorkerStep, CallerStep

\* waitAll() lets the destructor go on when nothing is queued or held, and then no body
\* is left to dispatch.
LEMMA DrainedStep ==
  ASSUME PoolInv, [Next]_vars
  PROVE  Drained'
<1> USE PoolAssumption DEF PoolInv, TypeOK, Drained, Emptied, Held
<1>1. ASSUME NEW k \in Tasks, Dispatch(k) PROVE Drained'
  BY <1>1 DEF Dispatch, MayDispatch, OnePlace
<1>2. ASSUME NEW k \in Tasks, RejectDispatch(k) PROVE Drained'
  BY <1>2 DEF RejectDispatch
<1>3. ASSUME NEW k \in Tasks, NotifyOne(k) PROVE Drained'
  BY <1>3 DEF NotifyOne
<1>4. ASSUME NEW w \in Workers, Take(w) PROVE Drained'
  BY <1>4 DEF Take
<1>5. ASSUME NEW w \in Workers, Sleep(w) PROVE Drained'
  BY <1>5 DEF Sleep
<1>6. ASSUME NEW w \in Workers, BodyReturns(w) PROVE Drained'
  BY <1>6 DEF BodyReturns
<1>7. ASSUME NEW w \in Workers, Publish(w) PROVE Drained'
  BY <1>7 DEF Publish
<1>8. ASSUME NEW w \in Workers, NotifyDone(w) PROVE Drained'
  BY <1>8 DEF NotifyDone
<1>9. ASSUME NEW c \in Callers, EnterWait(c) PROVE Drained'
  BY <1>9 DEF EnterWait
<1>10. ASSUME NEW c \in Callers, TestIdle(c) PROVE Drained'
  BY <1>10, IdleMeansEmpty DEF TestIdle
<1>11. ASSUME NEW c \in Callers, Block(c) PROVE Drained'
  BY <1>11 DEF Block
<1>12. CASE SpuriousWakeup
  BY <1>12 DEF SpuriousWakeup
<1>13. CASE Destroy
  BY <1>13 DEF Destroy
<1>14. CASE StopWorkers
  BY <1>14 DEF StopWorkers
<1>15. CASE UNCHANGED vars
  BY <1>15 DEF vars
<1> QED
  BY <1>1, <1>2, <1>3, <1>4, <1>5, <1>6, <1>7, <1>8, <1>9, <1>10, <1>11, <1>12, <1>13, <1>14,
     <1>15
     DEF Next, WorkerStep, CallerStep

----------------------------------------------------------------------------
(* The invariant *)

\* A new pool.
LEMMA PoolInit == Init => PoolInv
<1> SUFFICES ASSUME Init PROVE PoolInv
  OBVIOUS
<1> USE PoolAssumption DEF Init, Start
<1>1. TypeOK
  BY DEF TypeOK
<1>2. OnePlace /\ Notifying
  BY DEF OnePlace, Notifying
<1>3. CountsExact
  <2>1. Busy = {} /\ OnWake = {}
    BY DEF Busy, OnWake
  <2> QED
    BY <2>1, FS_EmptySet DEF CountsExact
<1>4. NoStrandedJob /\ NoMissedCompletion /\ SleeperHolds /\ Drained
  BY DEF SleeperHolds, NoStrandedJob, NoMissedCompletion, Drained, Emptied
<1> QED
  BY <1>1, <1>2, <1>3, <1>4 DEF PoolInv

\* Every step of a worker, a caller, a dispatch or the destructor keeps the invariant.
LEMMA PoolStep == PoolInv /\ [Next]_vars => PoolInv'
  BY TypeStep, OnePlaceStep, NotifyingStep, CountsStep, NoStrandedStep, HolderStep,
     NoMissedStep, DrainedStep DEF PoolInv

\* BasicPriorityExecutor: the inductive invariant holds for every number of workers,
\* callers and submissions, every capacity and every nesting of dispatches.
THEOREM PoolInvariance == Spec => []PoolInv
  BY PoolInit, PoolStep, PTL DEF Spec

\* dispatch() and work(): no job is left beside a sleeping worker, and no caller of
\* waitAll() sleeps on an idle pool without a notification to come.
THEOREM WakeupsArrive == Spec => []NoLostWakeup
<1>1. PoolInv => NoLostWakeup
  BY DEF PoolInv, NoLostWakeup
<1> QED
  BY <1>1, PoolInvariance, PTL

\* inFlight_ and idle_ are exact, so neither wraps.
THEOREM PoolCounts == Spec => []CountsExact
<1>1. PoolInv => CountsExact
  BY DEF PoolInv
<1> QED
  BY <1>1, PoolInvariance, PTL

\* A pool that was destroyed has no job, body or pending notification left.
LEMMA PoolLeavesNothing ==
  ASSUME PoolInv
  PROVE  NotUsedAfterDestruction
<1> SUFFICES ASSUME teardown = "destroyed"
             PROVE  queue = {} /\ Held = {} /\ toNotify = {}
  BY DEF NotUsedAfterDestruction
<1>1. queue = {} /\ Held = {}
  BY DEF PoolInv, Drained, Emptied
<1>2. \A k \in Tasks : ~MayDispatch(k)
  BY <1>1, PoolAssumption DEF MayDispatch, Held, PoolInv, OnePlace
<1> QED
  BY <1>1, <1>2 DEF PoolInv, Notifying, TypeOK

\* ~BasicPriorityExecutor(): no job, body or pending notification is left.
THEOREM DestructorLeavesNothing == Spec => []NotUsedAfterDestruction
<1>1. PoolInv => NotUsedAfterDestruction
  BY PoolLeavesNothing
<1> QED
  BY <1>1, PoolInvariance, PTL

----------------------------------------------------------------------------
(* The pool implements IExecutor's contract *)

InWait == {c \in Callers : caller[c] # "out"}

\* A step that moves one task and no caller.
LEMMA TaskMoves ==
  ASSUME NEW k \in Tasks, NEW from, NEW to, caller' = caller,
         TaskState[k] = from, TaskState'[k] = to,
         \A j \in Tasks \ {k} : TaskState'[j] = TaskState[j]
  PROVE  Contract!Moves(k, from, to)
<1>1. TaskState' = [TaskState EXCEPT ![k] = to]
  BY DEF TaskState
<1> QED
  BY <1>1 DEF Contract!Moves

\* A step that moves no task and leaves every caller inside or outside waitAll().
LEMMA Stutters ==
  ASSUME UNCHANGED <<queue, job, rejected, finished>>,
         \A c \in Callers : caller'[c] = "out" <=> caller[c] = "out"
  PROVE  UNCHANGED Contract!vars
  BY DEF Contract!vars, TaskState, Held

\* An accepted dispatch.
LEMMA DispatchAccepts ==
  ASSUME PoolInv, NEW k \in Tasks, Dispatch(k)
  PROVE  Contract!Next
<1>1. TaskState[k] = "new" /\ TaskState'[k] = "queued"
  BY DEF Dispatch, New, TaskState
<1>2. \A j \in Tasks \ {k} : TaskState'[j] = TaskState[j]
  BY DEF Dispatch, TaskState, Held
<1>3. Contract!Accept(k)
  BY <1>1, <1>2, TaskMoves DEF Dispatch, Contract!Accept
<1> QED
  BY <1>3 DEF Contract!Next

\* A dispatch that throws.
LEMMA DispatchRejects ==
  ASSUME PoolInv, NEW k \in Tasks, RejectDispatch(k)
  PROVE  Contract!Next
<1>1. TaskState[k] = "new" /\ TaskState'[k] = "rejected"
  BY DEF RejectDispatch, New, TaskState, Held
<1>2. \A j \in Tasks \ {k} : TaskState'[j] = TaskState[j]
  BY DEF RejectDispatch, TaskState, Held
<1>3. Contract!Reject(k)
  BY <1>1, <1>2, TaskMoves DEF RejectDispatch, Contract!Reject
<1> QED
  BY <1>3 DEF Contract!Next

\* A worker takes a job, or leaves.
LEMMA TakeStarts ==
  ASSUME PoolInv, NEW w \in Workers, Take(w)
  PROVE  Contract!Next \/ UNCHANGED Contract!vars
<1> USE PoolAssumption DEF PoolInv, TypeOK, OnePlace
<1>1. caller' = caller /\ rejected' = rejected /\ finished' = finished
  BY DEF Take
<1>2. ASSUME NEW k \in queue, queue' = queue \ {k}, job' = [job EXCEPT ![w] = k]
      PROVE  Contract!Next
  <2>1. job[w] = NoTask
    BY DEF Take
  <2>2. Held' = Held \cup {k}
    BY <1>2, <2>1 DEF Held
  <2>3. TaskState[k] = "queued" /\ TaskState'[k] = "running"
    BY <1>2, <2>2 DEF TaskState
  <2>4. \A j \in Tasks \ {k} : TaskState'[j] = TaskState[j]
    BY <1>1, <1>2, <2>2 DEF TaskState
  <2>5. Contract!Start(k)
    BY <1>1, <2>3, <2>4, TaskMoves DEF Contract!Start
  <2> QED
    BY <2>5 DEF Contract!Next
<1>3. ASSUME UNCHANGED <<queue, job>>
      PROVE  UNCHANGED Contract!vars
  BY <1>1, <1>3, Stutters
<1> QED
  BY <1>2, <1>3 DEF Take

\* inFlight_ is lowered: the job has ended.
LEMMA PublishFinishes ==
  ASSUME PoolInv, NEW w \in Workers, Publish(w)
  PROVE  Contract!Next
<1> USE PoolAssumption DEF PoolInv, TypeOK, OnePlace
<1> DEFINE k == job[w]
<1>1. k \in Tasks /\ k \notin queue /\ k \notin rejected
  BY DEF Publish
<1>2. Held' = Held \ {k}
  BY DEF Publish, Held
<1>3. TaskState[k] = "running" /\ TaskState'[k] = "done"
  BY <1>1, <1>2 DEF Publish, TaskState, Held
<1>4. \A j \in Tasks \ {k} : TaskState'[j] = TaskState[j]
  BY <1>2 DEF Publish, TaskState
<1>5. Contract!Finish(k)
  BY <1>1, <1>3, <1>4, TaskMoves DEF Publish, Contract!Finish
<1> QED
  BY <1>1, <1>5 DEF Contract!Next

\* waitAll() is entered, by a client or by the destructor.
LEMMA WaitEntered ==
  ASSUME PoolInv, NEW c \in Callers, caller[c] = "out",
         caller' = [caller EXCEPT ![c] = "test"],
         UNCHANGED <<queue, job, rejected, finished>>
  PROVE  Contract!Next
<1>1. TaskState' = TaskState
  BY DEF TaskState, Held
<1>2. c \notin InWait /\ InWait' = InWait \cup {c}
  BY DEF InWait, PoolInv, TypeOK
<1>3. Contract!EnterWait(c)
  BY <1>1, <1>2 DEF Contract!EnterWait, InWait
<1> QED
  BY <1>3 DEF Contract!Next

\* waitAll() returns when inFlight_ is zero, that is, when nothing accepted is left.
LEMMA WaitLeft ==
  ASSUME PoolInv, NEW c \in Callers, TestIdle(c)
  PROVE  Contract!Next \/ UNCHANGED Contract!vars
<1> USE DEF PoolInv, TypeOK
<1>1. UNCHANGED <<queue, job, rejected, finished>>
  BY DEF TestIdle
<1>2. CASE inFlight = 0
  <2>1. TaskState' = TaskState
    BY <1>1 DEF TaskState, Held
  <2>2. c \in InWait /\ InWait' = InWait \ {c}
    BY <1>2 DEF TestIdle, InWait
  <2>3. Contract!Idle
    BY <1>2, IdleMeansEmpty DEF Contract!Idle, TaskState
  <2>4. Contract!LeaveWait(c)
    BY <2>1, <2>2, <2>3 DEF Contract!LeaveWait, InWait
  <2> QED
    BY <2>4 DEF Contract!Next
<1>3. CASE inFlight # 0
  BY <1>1, <1>3, Stutters DEF TestIdle
<1> QED
  BY <1>2, <1>3

\* Each step of the pool is a step of the contract or leaves its state alone.
LEMMA PoolSimulates ==
  ASSUME PoolInv, [Next]_vars
  PROVE  [Contract!Next]_Contract!vars
<1> USE DEF PoolInv, TypeOK
<1>1. ASSUME NEW k \in Tasks, Dispatch(k) \/ RejectDispatch(k)
      PROVE  Contract!Next
  BY <1>1, DispatchAccepts, DispatchRejects
<1>2. ASSUME NEW k \in Tasks, NotifyOne(k)
      PROVE  UNCHANGED Contract!vars
  BY <1>2, Stutters DEF NotifyOne
<1>3. ASSUME NEW w \in Workers, Sleep(w) \/ BodyReturns(w) \/ NotifyDone(w)
      PROVE  UNCHANGED Contract!vars
  BY <1>3, Stutters DEF Sleep, BodyReturns, NotifyDone
<1>4. ASSUME NEW w \in Workers, Take(w) \/ Publish(w)
      PROVE  Contract!Next \/ UNCHANGED Contract!vars
  BY <1>4, TakeStarts, PublishFinishes
<1>5. ASSUME NEW c \in Callers, EnterWait(c)
      PROVE  Contract!Next
  BY <1>5, WaitEntered DEF EnterWait
<1>6. ASSUME NEW c \in Callers, TestIdle(c)
      PROVE  Contract!Next \/ UNCHANGED Contract!vars
  BY <1>6, WaitLeft
<1>7. ASSUME NEW c \in Callers, Block(c)
      PROVE  UNCHANGED Contract!vars
  BY <1>7, Stutters DEF Block
<1>8. CASE SpuriousWakeup
  BY <1>8, Stutters DEF SpuriousWakeup
<1>9. CASE Destroy
  BY <1>9, WaitEntered, PoolAssumption DEF Destroy
<1>10. CASE StopWorkers
  BY <1>10, Stutters DEF StopWorkers
<1>11. CASE UNCHANGED vars
  BY <1>11, Stutters DEF vars
<1> QED
  BY <1>1, <1>2, <1>3, <1>4, <1>5, <1>6, <1>7, <1>8, <1>9, <1>10, <1>11
     DEF Next, WorkerStep, CallerStep

\* BasicPriorityExecutor keeps the safety part of IExecutor's contract: an accepted job
\* runs once and ends, a rejected one never runs, and waitAll() returns only when
\* nothing accepted is left.
THEOREM PoolImplementsContract == Spec => Contract!Init /\ [][Contract!Next]_Contract!vars
<1>1. Init => Contract!Init
  BY PoolAssumption DEF Init, Start, Contract!Init, TaskState, Held
<1>2. PoolInv /\ [Next]_vars => [Contract!Next]_Contract!vars
  BY PoolSimulates
<1> QED
  BY <1>1, <1>2, PoolInvariance, PTL DEF Spec

----------------------------------------------------------------------------
(* DesktopExecutor, FreeRtosExecutor and ScopedExecutor *)

\* What a task set has is the same through every instance.
LEMMA Counting ==
  /\ IsFiniteSet(Few)
  /\ \A S : Desktop!Cardinality(S) = Cardinality(S)
<1>1. IsFiniteSet(Few)
  BY ExecutorsAssumption DEF Scoped!ScopeAssumption, Scoped!IsFiniteSet, IsFiniteSet
<1>2. \A S : Desktop!Cardinality(S) = Cardinality(S)
  BY DEF Desktop!Cardinality, Cardinality
<1> QED
  BY <1>1, <1>2

\* Any selection of the tasks can be counted.
LEMMA CountTasks ==
  ASSUME NEW S, S \subseteq Few
  PROVE  /\ IsFiniteSet(S) /\ Cardinality(S) \in Nat
         /\ Cardinality(S) = 0 <=> S = {}
<1>1. IsFiniteSet(S)
  BY Counting, FS_Subset
<1> QED
  BY <1>1, FS_CardinalityType, FS_EmptySet

----------------------------------------------------------------------------
(* ScopedExecutor *)

\* The dispatches that localInFlight_ counts.
Using == {k \in Few : phase[k] \in {"counted", "accepted", "body", "finishing", "failing"}}

ScopeCount == count = Cardinality(Using)

\* mtx_ is held by the finishDispatch() or the owner that is in its critical section.
ScopeLock ==
  /\ \A k \in Few : sHolder = k <=> phase[k] \in {"finished", "failed"}
  /\ sHolder = Owner <=> owner.at = "block"

\* What the parent executor has been told of each task.
ScopeParent ==
  \A k \in Few :
    /\ phase[k] \in {"new", "counted"} => parent[k] = "new"
    /\ phase[k] = "accepted" => parent[k] = "queued"
    /\ phase[k] \in {"body", "finishing", "finished"} => parent[k] = "running"
    /\ phase[k] = "done" => parent[k] \in {"running", "done"}
    /\ phase[k] \in {"failing", "failed", "rejected"} => parent[k] = "rejected"

\* The owner sleeps, or is about to, only while something is left to wake it.
ScopeWakes == owner.at \in {"block", "asleep"} => count # 0

ScopeInv ==
  /\ Scoped!TypeOK /\ ScopeCount /\ ScopeLock /\ ScopeParent /\ ScopeWakes
  /\ Scoped!NotUsedAfterDestruction

\* localInFlight_ never falls below zero.
LEMMA ScopeTypeStep ==
  ASSUME ScopeInv, [Scoped!Next]_Scoped!vars
  PROVE  Scoped!TypeOK'
<1> USE ExecutorsAssumption DEF ScopeInv, Scoped!TypeOK, Scoped!ScopeAssumption,
      Scoped!ParentExecutor!TaskStates
<1>1. ASSUME NEW k \in Few, Scoped!Count(k) PROVE Scoped!TypeOK'
  BY <1>1 DEF Scoped!Count, Scoped!MayDispatch
<1>2. ASSUME NEW k \in Few, Scoped!ParentAccepts(k) PROVE Scoped!TypeOK'
  BY <1>2 DEF Scoped!ParentAccepts, Scoped!ParentExecutor!Accept, Scoped!ParentExecutor!Moves
<1>3. ASSUME NEW k \in Few, Scoped!ParentThrows(k) PROVE Scoped!TypeOK'
  BY <1>3 DEF Scoped!ParentThrows, Scoped!ParentExecutor!Reject, Scoped!ParentExecutor!Moves
<1>4. ASSUME NEW k \in Few, Scoped!BodyStarts(k) PROVE Scoped!TypeOK'
  BY <1>4 DEF Scoped!BodyStarts, Scoped!ParentExecutor!Start, Scoped!ParentExecutor!Moves
<1>5. ASSUME NEW k \in Few, Scoped!BodyReturns(k) PROVE Scoped!TypeOK'
  BY <1>5 DEF Scoped!BodyReturns
<1>6. ASSUME NEW k \in Few, Scoped!FinishDispatch(k) PROVE Scoped!TypeOK'
  <2>1. count - 1 \in Nat
    <3>1. k \in Using
      BY <1>6 DEF Scoped!FinishDispatch, Using
    <3>2. Cardinality(Using) \in Nat /\ Cardinality(Using) # 0
      BY <3>1, OneLess, CountTasks DEF Using
    <3> QED
      BY <3>2 DEF ScopeCount
  <2> QED
    BY <1>6, <2>1 DEF Scoped!FinishDispatch
<1>7. ASSUME NEW k \in Few, Scoped!Unlock(k) PROVE Scoped!TypeOK'
  BY <1>7 DEF Scoped!Unlock
<1>8. ASSUME NEW k \in Few, Scoped!ParentFinishes(k) PROVE Scoped!TypeOK'
  BY <1>8 DEF Scoped!ParentFinishes, Scoped!ParentExecutor!Finish, Scoped!ParentExecutor!Moves
<1>9. ASSUME NEW leaving \in BOOLEAN, Scoped!EnterWait(leaving) PROVE Scoped!TypeOK'
  BY <1>9 DEF Scoped!EnterWait
<1>10. CASE Scoped!TestIdle
  BY <1>10 DEF Scoped!TestIdle
<1>11. CASE Scoped!Block
  BY <1>11 DEF Scoped!Block
<1>12. CASE Scoped!SpuriousWakeup
  BY <1>12 DEF Scoped!SpuriousWakeup
<1>13. CASE UNCHANGED Scoped!vars
  BY <1>13 DEF Scoped!vars
<1> QED
  BY <1>1, <1>2, <1>3, <1>4, <1>5, <1>6, <1>7, <1>8, <1>9, <1>10, <1>11, <1>12, <1>13
     DEF Scoped!Next

\* dispatch() counts first, finishDispatch() gives the count back.
LEMMA ScopeCountStep ==
  ASSUME ScopeInv, [Scoped!Next]_Scoped!vars
  PROVE  ScopeCount'
<1> USE ExecutorsAssumption DEF ScopeInv, Scoped!TypeOK, Scoped!ScopeAssumption,
      Scoped!ParentExecutor!TaskStates, ScopeCount
<1>1. ASSUME NEW k \in Few, Scoped!Count(k) PROVE ScopeCount'
  <2>1. Using' = Using \cup {k} /\ k \notin Using
    BY <1>1 DEF Scoped!Count, Scoped!MayDispatch, Using
  <2> QED
    BY <1>1, <2>1, OneMore, CountTasks DEF Scoped!Count, Scoped!MayDispatch, Using
<1>2. ASSUME NEW k \in Few, Scoped!ParentAccepts(k) PROVE ScopeCount'
  <2>1. Using' = Using /\ count' = count
    BY <1>2
       DEF Scoped!ParentAccepts, Scoped!ParentExecutor!Accept, Scoped!ParentExecutor!Moves,
           Using
  <2> QED
    BY <2>1
<1>3. ASSUME NEW k \in Few, Scoped!ParentThrows(k) PROVE ScopeCount'
  <2>1. Using' = Using /\ count' = count
    BY <1>3
       DEF Scoped!ParentThrows, Scoped!ParentExecutor!Reject, Scoped!ParentExecutor!Moves, Using
  <2> QED
    BY <2>1
<1>4. ASSUME NEW k \in Few, Scoped!BodyStarts(k) PROVE ScopeCount'
  <2>1. Using' = Using /\ count' = count
    BY <1>4
       DEF Scoped!BodyStarts, Scoped!ParentExecutor!Start, Scoped!ParentExecutor!Moves, Using
  <2> QED
    BY <2>1
<1>5. ASSUME NEW k \in Few, Scoped!BodyReturns(k) PROVE ScopeCount'
  <2>1. Using' = Using /\ count' = count
    BY <1>5 DEF Scoped!BodyReturns, Using
  <2> QED
    BY <2>1
<1>6. ASSUME NEW k \in Few, Scoped!FinishDispatch(k) PROVE ScopeCount'
  <2>1. Using' = Using \ {k} /\ k \in Using
    BY <1>6 DEF Scoped!FinishDispatch, Using
  <2> QED
    BY <1>6, <2>1, OneLess, CountTasks DEF Scoped!FinishDispatch, Using
<1>7. ASSUME NEW k \in Few, Scoped!Unlock(k) PROVE ScopeCount'
  <2>1. Using' = Using /\ count' = count
    BY <1>7 DEF Scoped!Unlock, Using
  <2> QED
    BY <2>1
<1>8. ASSUME NEW k \in Few, Scoped!ParentFinishes(k) PROVE ScopeCount'
  <2>1. Using' = Using /\ count' = count
    BY <1>8
       DEF Scoped!ParentFinishes, Scoped!ParentExecutor!Finish, Scoped!ParentExecutor!Moves,
           Using
  <2> QED
    BY <2>1
<1>9. ASSUME NEW leaving \in BOOLEAN, Scoped!EnterWait(leaving) PROVE ScopeCount'
  <2>1. Using' = Using /\ count' = count
    BY <1>9 DEF Scoped!EnterWait, Using
  <2> QED
    BY <2>1
<1>10. CASE Scoped!TestIdle
  <2>1. Using' = Using /\ count' = count
    BY <1>10 DEF Scoped!TestIdle, Using
  <2> QED
    BY <2>1
<1>11. CASE Scoped!Block
  <2>1. Using' = Using /\ count' = count
    BY <1>11 DEF Scoped!Block, Using
  <2> QED
    BY <2>1
<1>12. CASE Scoped!SpuriousWakeup
  <2>1. Using' = Using /\ count' = count
    BY <1>12 DEF Scoped!SpuriousWakeup, Using
  <2> QED
    BY <2>1
<1>13. CASE UNCHANGED Scoped!vars
  <2>1. Using' = Using /\ count' = count
    BY <1>13 DEF Scoped!vars, Using
  <2> QED
    BY <2>1
<1> QED
  BY <1>1, <1>2, <1>3, <1>4, <1>5, <1>6, <1>7, <1>8, <1>9, <1>10, <1>11, <1>12, <1>13
     DEF Scoped!Next

\* mtx_ has one holder.
LEMMA ScopeLockStep ==
  ASSUME ScopeInv, [Scoped!Next]_Scoped!vars
  PROVE  ScopeLock'
<1> USE ExecutorsAssumption DEF ScopeInv, Scoped!TypeOK, Scoped!ScopeAssumption,
      Scoped!ParentExecutor!TaskStates, ScopeLock
<1>1. ASSUME NEW k \in Few, Scoped!Count(k) PROVE ScopeLock'
  BY <1>1 DEF Scoped!Count, Scoped!MayDispatch
<1>2. ASSUME NEW k \in Few, Scoped!ParentAccepts(k) PROVE ScopeLock'
  BY <1>2 DEF Scoped!ParentAccepts, Scoped!ParentExecutor!Accept, Scoped!ParentExecutor!Moves
<1>3. ASSUME NEW k \in Few, Scoped!ParentThrows(k) PROVE ScopeLock'
  BY <1>3 DEF Scoped!ParentThrows, Scoped!ParentExecutor!Reject, Scoped!ParentExecutor!Moves
<1>4. ASSUME NEW k \in Few, Scoped!BodyStarts(k) PROVE ScopeLock'
  BY <1>4 DEF Scoped!BodyStarts, Scoped!ParentExecutor!Start, Scoped!ParentExecutor!Moves
<1>5. ASSUME NEW k \in Few, Scoped!BodyReturns(k) PROVE ScopeLock'
  BY <1>5 DEF Scoped!BodyReturns
<1>6. ASSUME NEW k \in Few, Scoped!FinishDispatch(k) PROVE ScopeLock'
  BY <1>6 DEF Scoped!FinishDispatch
<1>7. ASSUME NEW k \in Few, Scoped!Unlock(k) PROVE ScopeLock'
  BY <1>7 DEF Scoped!Unlock
<1>8. ASSUME NEW k \in Few, Scoped!ParentFinishes(k) PROVE ScopeLock'
  BY <1>8 DEF Scoped!ParentFinishes, Scoped!ParentExecutor!Finish, Scoped!ParentExecutor!Moves
<1>9. ASSUME NEW leaving \in BOOLEAN, Scoped!EnterWait(leaving) PROVE ScopeLock'
  BY <1>9 DEF Scoped!EnterWait
<1>10. CASE Scoped!TestIdle
  BY <1>10 DEF Scoped!TestIdle
<1>11. CASE Scoped!Block
  BY <1>11 DEF Scoped!Block
<1>12. CASE Scoped!SpuriousWakeup
  BY <1>12 DEF Scoped!SpuriousWakeup
<1>13. CASE UNCHANGED Scoped!vars
  BY <1>13 DEF Scoped!vars
<1> QED
  BY <1>1, <1>2, <1>3, <1>4, <1>5, <1>6, <1>7, <1>8, <1>9, <1>10, <1>11, <1>12, <1>13
     DEF Scoped!Next

\* The parent hears of a task in the order of its contract.
LEMMA ScopeParentStep ==
  ASSUME ScopeInv, [Scoped!Next]_Scoped!vars
  PROVE  ScopeParent'
<1> USE ExecutorsAssumption DEF ScopeInv, Scoped!TypeOK, Scoped!ScopeAssumption,
      Scoped!ParentExecutor!TaskStates, ScopeParent
<1>1. ASSUME NEW k \in Few, Scoped!Count(k) PROVE ScopeParent'
  BY <1>1 DEF Scoped!Count, Scoped!MayDispatch
<1>2. ASSUME NEW k \in Few, Scoped!ParentAccepts(k) PROVE ScopeParent'
  BY <1>2 DEF Scoped!ParentAccepts, Scoped!ParentExecutor!Accept, Scoped!ParentExecutor!Moves
<1>3. ASSUME NEW k \in Few, Scoped!ParentThrows(k) PROVE ScopeParent'
  BY <1>3 DEF Scoped!ParentThrows, Scoped!ParentExecutor!Reject, Scoped!ParentExecutor!Moves
<1>4. ASSUME NEW k \in Few, Scoped!BodyStarts(k) PROVE ScopeParent'
  BY <1>4 DEF Scoped!BodyStarts, Scoped!ParentExecutor!Start, Scoped!ParentExecutor!Moves
<1>5. ASSUME NEW k \in Few, Scoped!BodyReturns(k) PROVE ScopeParent'
  BY <1>5 DEF Scoped!BodyReturns
<1>6. ASSUME NEW k \in Few, Scoped!FinishDispatch(k) PROVE ScopeParent'
  BY <1>6 DEF Scoped!FinishDispatch
<1>7. ASSUME NEW k \in Few, Scoped!Unlock(k) PROVE ScopeParent'
  BY <1>7 DEF Scoped!Unlock
<1>8. ASSUME NEW k \in Few, Scoped!ParentFinishes(k) PROVE ScopeParent'
  BY <1>8 DEF Scoped!ParentFinishes, Scoped!ParentExecutor!Finish, Scoped!ParentExecutor!Moves
<1>9. ASSUME NEW leaving \in BOOLEAN, Scoped!EnterWait(leaving) PROVE ScopeParent'
  BY <1>9 DEF Scoped!EnterWait
<1>10. CASE Scoped!TestIdle
  BY <1>10 DEF Scoped!TestIdle
<1>11. CASE Scoped!Block
  BY <1>11 DEF Scoped!Block
<1>12. CASE Scoped!SpuriousWakeup
  BY <1>12 DEF Scoped!SpuriousWakeup
<1>13. CASE UNCHANGED Scoped!vars
  BY <1>13 DEF Scoped!vars
<1> QED
  BY <1>1, <1>2, <1>3, <1>4, <1>5, <1>6, <1>7, <1>8, <1>9, <1>10, <1>11, <1>12, <1>13
     DEF Scoped!Next

\* The completion that empties the scope cannot come between the test and the wait.
LEMMA ScopeWakesStep ==
  ASSUME ScopeInv, [Scoped!Next]_Scoped!vars
  PROVE  ScopeWakes'
<1> USE ExecutorsAssumption DEF ScopeInv, Scoped!TypeOK, Scoped!ScopeAssumption,
      Scoped!ParentExecutor!TaskStates, ScopeWakes, ScopeLock
<1>1. ASSUME NEW k \in Few, Scoped!Count(k) PROVE ScopeWakes'
  BY <1>1 DEF Scoped!Count, Scoped!MayDispatch
<1>2. ASSUME NEW k \in Few, Scoped!ParentAccepts(k) PROVE ScopeWakes'
  BY <1>2 DEF Scoped!ParentAccepts, Scoped!ParentExecutor!Accept, Scoped!ParentExecutor!Moves
<1>3. ASSUME NEW k \in Few, Scoped!ParentThrows(k) PROVE ScopeWakes'
  BY <1>3 DEF Scoped!ParentThrows, Scoped!ParentExecutor!Reject, Scoped!ParentExecutor!Moves
<1>4. ASSUME NEW k \in Few, Scoped!BodyStarts(k) PROVE ScopeWakes'
  BY <1>4 DEF Scoped!BodyStarts, Scoped!ParentExecutor!Start, Scoped!ParentExecutor!Moves
<1>5. ASSUME NEW k \in Few, Scoped!BodyReturns(k) PROVE ScopeWakes'
  BY <1>5 DEF Scoped!BodyReturns
<1>6. ASSUME NEW k \in Few, Scoped!FinishDispatch(k) PROVE ScopeWakes'
  <2>1. count \in Nat /\ k \in Using /\ owner.at # "block"
    BY <1>6 DEF Scoped!FinishDispatch, Using
  <2>2. count # 1 => count - 1 # 0
    BY <2>1
  <2>3. count = 1 \/ owner' = owner
    BY <1>6 DEF Scoped!FinishDispatch
  <2>4. count = 1 => owner'.at \notin {"block", "asleep"}
    BY <1>6, <2>1 DEF Scoped!FinishDispatch
  <2> QED
    BY <1>6, <2>1, <2>2, <2>3, <2>4 DEF Scoped!FinishDispatch
<1>7. ASSUME NEW k \in Few, Scoped!Unlock(k) PROVE ScopeWakes'
  BY <1>7 DEF Scoped!Unlock
<1>8. ASSUME NEW k \in Few, Scoped!ParentFinishes(k) PROVE ScopeWakes'
  BY <1>8 DEF Scoped!ParentFinishes, Scoped!ParentExecutor!Finish, Scoped!ParentExecutor!Moves
<1>9. ASSUME NEW leaving \in BOOLEAN, Scoped!EnterWait(leaving) PROVE ScopeWakes'
  BY <1>9 DEF Scoped!EnterWait
<1>10. CASE Scoped!TestIdle
  BY <1>10 DEF Scoped!TestIdle
<1>11. CASE Scoped!Block
  BY <1>11 DEF Scoped!Block
<1>12. CASE Scoped!SpuriousWakeup
  BY <1>12 DEF Scoped!SpuriousWakeup
<1>13. CASE UNCHANGED Scoped!vars
  BY <1>13 DEF Scoped!vars
<1> QED
  BY <1>1, <1>2, <1>3, <1>4, <1>5, <1>6, <1>7, <1>8, <1>9, <1>10, <1>11, <1>12, <1>13
     DEF Scoped!Next

\* Nobody can dispatch to a scope that has seen zero under mtx_.
LEMMA ScopeEndStep ==
  ASSUME ScopeInv, [Scoped!Next]_Scoped!vars
  PROVE  Scoped!NotUsedAfterDestruction'
<1> USE ExecutorsAssumption DEF ScopeInv, Scoped!TypeOK, Scoped!ScopeAssumption,
      Scoped!ParentExecutor!TaskStates, Scoped!NotUsedAfterDestruction, ScopeLock
<1>1. ASSUME NEW k \in Few, Scoped!Count(k) PROVE Scoped!NotUsedAfterDestruction'
  BY <1>1 DEF Scoped!Count, Scoped!MayDispatch
<1>2. ASSUME NEW k \in Few, Scoped!ParentAccepts(k) PROVE Scoped!NotUsedAfterDestruction'
  BY <1>2 DEF Scoped!ParentAccepts, Scoped!ParentExecutor!Accept, Scoped!ParentExecutor!Moves
<1>3. ASSUME NEW k \in Few, Scoped!ParentThrows(k) PROVE Scoped!NotUsedAfterDestruction'
  BY <1>3 DEF Scoped!ParentThrows, Scoped!ParentExecutor!Reject, Scoped!ParentExecutor!Moves
<1>4. ASSUME NEW k \in Few, Scoped!BodyStarts(k) PROVE Scoped!NotUsedAfterDestruction'
  BY <1>4 DEF Scoped!BodyStarts, Scoped!ParentExecutor!Start, Scoped!ParentExecutor!Moves
<1>5. ASSUME NEW k \in Few, Scoped!BodyReturns(k) PROVE Scoped!NotUsedAfterDestruction'
  BY <1>5 DEF Scoped!BodyReturns
<1>6. ASSUME NEW k \in Few, Scoped!FinishDispatch(k) PROVE Scoped!NotUsedAfterDestruction'
  BY <1>6 DEF Scoped!FinishDispatch
<1>7. ASSUME NEW k \in Few, Scoped!Unlock(k) PROVE Scoped!NotUsedAfterDestruction'
  BY <1>7 DEF Scoped!Unlock
<1>8. ASSUME NEW k \in Few, Scoped!ParentFinishes(k) PROVE Scoped!NotUsedAfterDestruction'
  BY <1>8 DEF Scoped!ParentFinishes, Scoped!ParentExecutor!Finish, Scoped!ParentExecutor!Moves
<1>9. ASSUME NEW leaving \in BOOLEAN, Scoped!EnterWait(leaving)
      PROVE  Scoped!NotUsedAfterDestruction'
  BY <1>9 DEF Scoped!EnterWait
<1>10. CASE Scoped!TestIdle
  <2>1. CASE count = 0
    <3>1. Using = {}
      BY <2>1, CountTasks DEF ScopeCount, Using
    <3> QED
      BY <1>10, <2>1, <3>1 DEF Scoped!TestIdle, Using
  <2>2. CASE count # 0
    BY <1>10, <2>2 DEF Scoped!TestIdle
  <2> QED
    BY <2>1, <2>2
<1>11. CASE Scoped!Block
  BY <1>11 DEF Scoped!Block
<1>12. CASE Scoped!SpuriousWakeup
  BY <1>12 DEF Scoped!SpuriousWakeup
<1>13. CASE UNCHANGED Scoped!vars
  BY <1>13 DEF Scoped!vars
<1> QED
  BY <1>1, <1>2, <1>3, <1>4, <1>5, <1>6, <1>7, <1>8, <1>9, <1>10, <1>11, <1>12, <1>13
     DEF Scoped!Next

\* Whether the scope is used or not.
LEMMA ScopeStart ==
  ASSUME Scoped!Init \/ Scoped!Unused
  PROVE  ScopeInv
<1> USE ExecutorsAssumption DEF Scoped!Init, Scoped!Unused, Scoped!ScopeAssumption,
      Scoped!ParentExecutor!Init
<1>1. Scoped!TypeOK
  <2>1. owner \in [at : {"out", "test", "block", "asleep", "destroyed"}, leaving : BOOLEAN]
    <3>1. CASE owner = [at |-> "out", leaving |-> FALSE]
      BY <3>1
    <3>2. CASE owner = [at |-> "destroyed", leaving |-> TRUE]
      BY <3>2
    <3> QED
      BY <3>1, <3>2
  <2>2. parent \in [Few -> Scoped!ParentExecutor!TaskStates]
    BY DEF Scoped!ParentExecutor!TaskStates
  <2> QED
    BY <2>1, <2>2 DEF Scoped!TypeOK
<1>2. ScopeLock /\ ScopeParent /\ ScopeWakes
  BY DEF ScopeLock, ScopeParent, ScopeWakes
<1>3. ScopeCount
  <2>1. Using = {} /\ count = 0
    BY DEF Using
  <2> QED
    BY <2>1, FS_EmptySet DEF ScopeCount
<1>4. Scoped!NotUsedAfterDestruction
  BY DEF Scoped!NotUsedAfterDestruction
<1> QED
  BY <1>1, <1>2, <1>3, <1>4 DEF ScopeInv

LEMMA ScopeStep == ScopeInv /\ [Scoped!Next]_Scoped!vars => ScopeInv'
  BY ScopeTypeStep, ScopeCountStep, ScopeLockStep, ScopeParentStep, ScopeWakesStep, ScopeEndStep
     DEF ScopeInv

\* The task's view of the contract changes with its own phase only.
LEMMA ScopeMoves ==
  ASSUME NEW k \in Few, NEW to, Scoped!TypeOK, owner' = owner,
         \A j \in Few \ {k} : phase'[j] = phase[j], Scoped!TaskState'[k] = to
  PROVE  Scoped!Contract!Moves(k, Scoped!TaskState[k], to)
<1>1. Scoped!TaskState' = [Scoped!TaskState EXCEPT ![k] = to]
  BY DEF Scoped!TaskState
<1> QED
  BY <1>1 DEF Scoped!Contract!Moves

\* A step that leaves every task and the owner where the contract sees them.
LEMMA ScopeStutters ==
  ASSUME Scoped!TaskState' = Scoped!TaskState,
         owner'.at \in {"test", "block", "asleep"} <=> owner.at \in {"test", "block", "asleep"}
  PROVE  UNCHANGED Scoped!Contract!vars
  BY DEF Scoped!Contract!vars

\* A completion, or the failure of a dispatch, is published.
LEMMA ScopeFinishes ==
  ASSUME ScopeInv, NEW k \in Few, Scoped!FinishDispatch(k)
  PROVE  Scoped!Contract!Next \/ UNCHANGED Scoped!Contract!vars
<1> USE DEF ScopeInv, Scoped!TypeOK
<1>1. owner'.at \in {"test", "block", "asleep"} <=> owner.at \in {"test", "block", "asleep"}
  BY DEF Scoped!FinishDispatch
<1>2. CASE phase[k] = "finishing"
  <2>1. /\ Scoped!TaskState[k] = "running"
        /\ Scoped!TaskState' = [Scoped!TaskState EXCEPT ![k] = "done"]
    BY <1>2 DEF Scoped!TaskState, Scoped!FinishDispatch
  <2>2. Scoped!Contract!Finish(k)
    BY <1>1, <2>1 DEF Scoped!Contract!Finish, Scoped!Contract!Moves
  <2> QED
    BY <2>2 DEF Scoped!Contract!Next
<1>3. CASE phase[k] = "failing"
  <2>1. Scoped!TaskState' = Scoped!TaskState
    BY <1>3 DEF Scoped!TaskState, Scoped!FinishDispatch
  <2> QED
    BY <1>1, <2>1, ScopeStutters
<1> QED
  BY <1>2, <1>3 DEF Scoped!FinishDispatch

\* waitAll() returns when localInFlight_ is zero: nothing accepted is left.
LEMMA ScopeLeaves ==
  ASSUME ScopeInv, Scoped!TestIdle
  PROVE  Scoped!Contract!Next \/ UNCHANGED Scoped!Contract!vars
<1> USE DEF ScopeInv, Scoped!TypeOK
<1>1. Scoped!TaskState' = Scoped!TaskState
  BY DEF Scoped!TaskState, Scoped!TestIdle
<1>2. CASE count = 0
  <2>1. Using = {}
    BY <1>2, CountTasks DEF ScopeCount, Using
  <2>2. Scoped!Contract!Idle
    BY <2>1 DEF Scoped!Contract!Idle, Scoped!TaskState, Using
  <2>3. owner.at = "test" /\ owner'.at \in {"out", "destroyed"}
    BY <1>2 DEF Scoped!TestIdle
  <2>4. Scoped!Contract!LeaveWait(Owner)
    BY <1>1, <2>2, <2>3 DEF Scoped!Contract!LeaveWait
  <2> QED
    BY <2>4 DEF Scoped!Contract!Next
<1>3. CASE count # 0
  <2>1. owner.at = "test" /\ owner'.at = "block"
    BY <1>3 DEF Scoped!TestIdle
  <2> QED
    BY <1>1, <2>1, ScopeStutters
<1> QED
  BY <1>2, <1>3

\* Each step of the scope is a step of the contract or leaves its state alone.
LEMMA ScopeSimulates ==
  ASSUME ScopeInv, [Scoped!Next]_Scoped!vars
  PROVE  [Scoped!Contract!Next]_Scoped!Contract!vars
<1> USE DEF ScopeInv, Scoped!TypeOK
<1>1. ASSUME NEW k \in Few, Scoped!Count(k) \/ Scoped!BodyReturns(k) \/ Scoped!Unlock(k)
             \/ Scoped!ParentFinishes(k)
      PROVE  UNCHANGED Scoped!Contract!vars
  <2>1. Scoped!TaskState' = Scoped!TaskState /\ owner' = owner
    BY <1>1 DEF Scoped!TaskState, Scoped!Count, Scoped!BodyReturns, Scoped!Unlock,
       Scoped!ParentFinishes
  <2> QED
    BY <2>1, ScopeStutters
<1>2. ASSUME NEW k \in Few, Scoped!ParentAccepts(k) PROVE Scoped!Contract!Next
  <2>1. Scoped!TaskState[k] = "new" /\ Scoped!TaskState'[k] = "queued"
    BY <1>2 DEF Scoped!TaskState, Scoped!ParentAccepts
  <2>2. Scoped!Contract!Accept(k)
    BY <1>2, <2>1, ScopeMoves DEF Scoped!ParentAccepts, Scoped!Contract!Accept
  <2> QED
    BY <2>2 DEF Scoped!Contract!Next
<1>3. ASSUME NEW k \in Few, Scoped!ParentThrows(k) PROVE Scoped!Contract!Next
  <2>1. Scoped!TaskState[k] = "new" /\ Scoped!TaskState'[k] = "rejected"
    BY <1>3 DEF Scoped!TaskState, Scoped!ParentThrows
  <2>2. Scoped!Contract!Reject(k)
    BY <1>3, <2>1, ScopeMoves DEF Scoped!ParentThrows, Scoped!Contract!Reject
  <2> QED
    BY <2>2 DEF Scoped!Contract!Next
<1>4. ASSUME NEW k \in Few, Scoped!BodyStarts(k) PROVE Scoped!Contract!Next
  <2>1. Scoped!TaskState[k] = "queued" /\ Scoped!TaskState'[k] = "running"
    BY <1>4 DEF Scoped!TaskState, Scoped!BodyStarts
  <2>2. Scoped!Contract!Start(k)
    BY <1>4, <2>1, ScopeMoves DEF Scoped!BodyStarts, Scoped!Contract!Start
  <2> QED
    BY <2>2 DEF Scoped!Contract!Next
<1>5. ASSUME NEW k \in Few, Scoped!FinishDispatch(k)
      PROVE  [Scoped!Contract!Next]_Scoped!Contract!vars
  BY <1>5, ScopeFinishes
<1>6. ASSUME NEW leaving \in BOOLEAN, Scoped!EnterWait(leaving) PROVE Scoped!Contract!Next
  <2>1. Scoped!TaskState' = Scoped!TaskState /\ owner.at = "out" /\ owner'.at = "test"
    BY <1>6 DEF Scoped!TaskState, Scoped!EnterWait
  <2>2. Scoped!Contract!EnterWait(Owner)
    BY <2>1 DEF Scoped!Contract!EnterWait
  <2> QED
    BY <2>2 DEF Scoped!Contract!Next
<1>7. CASE Scoped!TestIdle
  BY <1>7, ScopeLeaves
<1>8. CASE Scoped!Block \/ Scoped!SpuriousWakeup
  <2>1. Scoped!TaskState' = Scoped!TaskState
    BY <1>8 DEF Scoped!TaskState, Scoped!Block, Scoped!SpuriousWakeup
  <2>2. owner.at \in {"block", "asleep"} /\ owner'.at \in {"asleep", "test"}
    BY <1>8 DEF Scoped!Block, Scoped!SpuriousWakeup
  <2> QED
    BY <2>1, <2>2, ScopeStutters
<1>9. CASE UNCHANGED Scoped!vars
  <2>1. Scoped!TaskState' = Scoped!TaskState /\ owner' = owner
    BY <1>9 DEF Scoped!TaskState, Scoped!vars
  <2> QED
    BY <2>1, ScopeStutters
<1> QED
  BY <1>1, <1>2, <1>3, <1>4, <1>5, <1>6, <1>7, <1>8, <1>9 DEF Scoped!Next

----------------------------------------------------------------------------
(* DesktopExecutor *)

DesktopCount == dInFlight = Cardinality(Desktop!Live)

\* Every thread that was started is in threads_ or with one caller until it is joined,
\* and threads_ holds nothing else; what a caller took has published its completion.
DesktopPlaces ==
  /\ \A k \in Few : dThread[k] \in {"started", "body", "exiting"} =>
       k \in dThreads \/ \E c \in Clients : k \in dTaken[c]
  /\ \A k \in dThreads : dThread[k] \in {"started", "body", "exiting", "exited"}
  /\ \A c \in Clients : \A k \in dTaken[c] :
       k \notin dThreads /\ dThread[k] \in {"exiting", "exited"}
  /\ \A c, e \in Clients : c # e => dTaken[c] \cap dTaken[e] = {}
  /\ \A c \in Clients : dTaken[c] # {} => dCaller[c] = "join"

\* A caller sleeps only while a completion is still to come.
DesktopWakes == \A c \in Clients : dCaller[c] = "asleep" => dInFlight # 0

\* The destructor is the only caller left, and returns when nothing is.
DesktopEnd ==
  /\ dTeardown = "waits" => /\ dCaller[Owner] # "out"
                            /\ \A c \in Clients \ {Owner} : dCaller[c] = "out"
  /\ dTeardown = "destroyed" =>
       /\ dThreads = {}
       /\ \A c \in Clients : dCaller[c] = "out"
       /\ \A k \in Few : dThread[k] \notin {"started", "body", "exiting"}

DesktopInv == Desktop!TypeOK /\ DesktopCount /\ DesktopPlaces /\ DesktopWakes /\ DesktopEnd

\* inFlight_ is zero exactly when no job is live.
LEMMA DesktopIdle ==
  ASSUME DesktopInv
  PROVE  dInFlight \in Nat /\ (dInFlight = 0 <=> Desktop!Live = {})
  BY CountTasks DEF DesktopInv, DesktopCount, Desktop!Live, Desktop!TypeOK

\* inFlight_ never falls below zero.
LEMMA DesktopTypeStep ==
  ASSUME DesktopInv, [Desktop!Next]_Desktop!vars
  PROVE  Desktop!TypeOK'
<1> USE ExecutorsAssumption DEF DesktopInv, Desktop!TypeOK, Desktop!DesktopAssumption
<1>1. ASSUME NEW k \in Few, Desktop!Dispatch(k) PROVE Desktop!TypeOK'
  BY <1>1 DEF Desktop!Dispatch, Desktop!MayDispatch
<1>2. ASSUME NEW k \in Few, Desktop!RejectDispatch(k) PROVE Desktop!TypeOK'
  BY <1>2 DEF Desktop!RejectDispatch, Desktop!MayDispatch
<1>3. ASSUME NEW k \in Few, Desktop!BodyStarts(k) PROVE Desktop!TypeOK'
  BY <1>3 DEF Desktop!BodyStarts
<1>4. ASSUME NEW k \in Few, Desktop!Publish(k) PROVE Desktop!TypeOK'
  <2>1. dInFlight - 1 \in Nat
    <3>1. k \in Desktop!Live
      BY <1>4 DEF Desktop!Publish, Desktop!Completes, Desktop!Live
    <3> QED
      BY <3>1, DesktopIdle
  <2> QED
    BY <1>4, <2>1 DEF Desktop!Publish, Desktop!Completes
<1>5. ASSUME NEW k \in Few, Desktop!Exit(k) PROVE Desktop!TypeOK'
  BY <1>5 DEF Desktop!Exit
<1>6. ASSUME NEW c \in Clients, Desktop!EnterWait(c) PROVE Desktop!TypeOK'
  BY <1>6 DEF Desktop!EnterWait
<1>7. ASSUME NEW c \in Clients, Desktop!LoopDone(c) PROVE Desktop!TypeOK'
  BY <1>7 DEF Desktop!LoopDone
<1>8. ASSUME NEW c \in Clients, Desktop!Sleep(c) PROVE Desktop!TypeOK'
  BY <1>8 DEF Desktop!Sleep
<1>9. ASSUME NEW c \in Clients, Desktop!TakeThreads(c) PROVE Desktop!TypeOK'
  BY <1>9 DEF Desktop!TakeThreads
<1>10. ASSUME NEW c \in Clients, Desktop!Join(c) PROVE Desktop!TypeOK'
  BY <1>10 DEF Desktop!Join
<1>11. ASSUME NEW c \in Clients, Desktop!SpuriousWakeup(c) PROVE Desktop!TypeOK'
  BY <1>11 DEF Desktop!SpuriousWakeup
<1>12. CASE Desktop!Destroy
  BY <1>12 DEF Desktop!Destroy
<1>13. CASE UNCHANGED Desktop!vars
  BY <1>13 DEF Desktop!vars
<1> QED
  BY <1>1, <1>2, <1>3, <1>4, <1>5, <1>6, <1>7, <1>8, <1>9, <1>10, <1>11, <1>12, <1>13
     DEF Desktop!Next, Desktop!CallerStep

\* A thread is counted from its start until its callbacks are destroyed.
LEMMA DesktopCountStep ==
  ASSUME DesktopInv, [Desktop!Next]_Desktop!vars
  PROVE  DesktopCount'
<1> USE ExecutorsAssumption DEF DesktopInv, Desktop!TypeOK, Desktop!DesktopAssumption,
      DesktopCount
<1>1. ASSUME NEW k \in Few, Desktop!Dispatch(k) PROVE DesktopCount'
  <2>1. Desktop!Live' = Desktop!Live \cup {k} /\ k \notin Desktop!Live
    BY <1>1 DEF Desktop!Dispatch, Desktop!MayDispatch, Desktop!Live
  <2> QED
    BY <1>1, <2>1, OneMore, CountTasks DEF Desktop!Dispatch, Desktop!MayDispatch, Desktop!Live
<1>2. ASSUME NEW k \in Few, Desktop!RejectDispatch(k) PROVE DesktopCount'
  <2>1. Desktop!Live' = Desktop!Live /\ dInFlight' = dInFlight
    BY <1>2 DEF Desktop!RejectDispatch, Desktop!MayDispatch, Desktop!Live
  <2> QED
    BY <2>1
<1>3. ASSUME NEW k \in Few, Desktop!BodyStarts(k) PROVE DesktopCount'
  <2>1. Desktop!Live' = Desktop!Live /\ dInFlight' = dInFlight
    BY <1>3 DEF Desktop!BodyStarts, Desktop!Live
  <2> QED
    BY <2>1
<1>4. ASSUME NEW k \in Few, Desktop!Publish(k) PROVE DesktopCount'
  <2>1. Desktop!Live' = Desktop!Live \ {k} /\ k \in Desktop!Live
    BY <1>4 DEF Desktop!Publish, Desktop!Completes, Desktop!Live
  <2> QED
    BY <1>4, <2>1, OneLess, CountTasks DEF Desktop!Publish, Desktop!Completes, Desktop!Live
<1>5. ASSUME NEW k \in Few, Desktop!Exit(k) PROVE DesktopCount'
  <2>1. Desktop!Live' = Desktop!Live /\ dInFlight' = dInFlight
    BY <1>5 DEF Desktop!Exit, Desktop!Live
  <2> QED
    BY <2>1
<1>6. ASSUME NEW c \in Clients, Desktop!EnterWait(c) PROVE DesktopCount'
  <2>1. Desktop!Live' = Desktop!Live /\ dInFlight' = dInFlight
    BY <1>6 DEF Desktop!EnterWait, Desktop!Live
  <2> QED
    BY <2>1
<1>7. ASSUME NEW c \in Clients, Desktop!LoopDone(c) PROVE DesktopCount'
  <2>1. Desktop!Live' = Desktop!Live /\ dInFlight' = dInFlight
    BY <1>7 DEF Desktop!LoopDone, Desktop!Live
  <2> QED
    BY <2>1
<1>8. ASSUME NEW c \in Clients, Desktop!Sleep(c) PROVE DesktopCount'
  <2>1. Desktop!Live' = Desktop!Live /\ dInFlight' = dInFlight
    BY <1>8 DEF Desktop!Sleep, Desktop!Live
  <2> QED
    BY <2>1
<1>9. ASSUME NEW c \in Clients, Desktop!TakeThreads(c) PROVE DesktopCount'
  <2>1. Desktop!Live' = Desktop!Live /\ dInFlight' = dInFlight
    BY <1>9 DEF Desktop!TakeThreads, Desktop!Live
  <2> QED
    BY <2>1
<1>10. ASSUME NEW c \in Clients, Desktop!Join(c) PROVE DesktopCount'
  <2>1. Desktop!Live' = Desktop!Live /\ dInFlight' = dInFlight
    BY <1>10 DEF Desktop!Join, Desktop!Live
  <2> QED
    BY <2>1
<1>11. ASSUME NEW c \in Clients, Desktop!SpuriousWakeup(c) PROVE DesktopCount'
  <2>1. Desktop!Live' = Desktop!Live /\ dInFlight' = dInFlight
    BY <1>11 DEF Desktop!SpuriousWakeup, Desktop!Live
  <2> QED
    BY <2>1
<1>12. CASE Desktop!Destroy
  <2>1. Desktop!Live' = Desktop!Live /\ dInFlight' = dInFlight
    BY <1>12 DEF Desktop!Destroy, Desktop!Live
  <2> QED
    BY <2>1
<1>13. CASE UNCHANGED Desktop!vars
  <2>1. Desktop!Live' = Desktop!Live /\ dInFlight' = dInFlight
    BY <1>13 DEF Desktop!vars, Desktop!Live
  <2> QED
    BY <2>1
<1> QED
  BY <1>1, <1>2, <1>3, <1>4, <1>5, <1>6, <1>7, <1>8, <1>9, <1>10, <1>11, <1>12, <1>13
     DEF Desktop!Next, Desktop!CallerStep

\* threads_ is moved out whole, and only when no job is live.
LEMMA DesktopPlacesStep ==
  ASSUME DesktopInv, [Desktop!Next]_Desktop!vars
  PROVE  DesktopPlaces'
<1> USE ExecutorsAssumption DEF DesktopInv, Desktop!TypeOK, Desktop!DesktopAssumption,
      DesktopPlaces, Desktop!Live
<1>1. ASSUME NEW k \in Few, Desktop!Dispatch(k) PROVE DesktopPlaces'
  BY <1>1 DEF Desktop!Dispatch, Desktop!MayDispatch
<1>2. ASSUME NEW k \in Few, Desktop!RejectDispatch(k) PROVE DesktopPlaces'
  BY <1>2 DEF Desktop!RejectDispatch, Desktop!MayDispatch
<1>3. ASSUME NEW k \in Few, Desktop!BodyStarts(k) PROVE DesktopPlaces'
  BY <1>3 DEF Desktop!BodyStarts
<1>4. ASSUME NEW k \in Few, Desktop!Publish(k) PROVE DesktopPlaces'
  BY <1>4 DEF Desktop!Publish, Desktop!Completes
<1>5. ASSUME NEW k \in Few, Desktop!Exit(k) PROVE DesktopPlaces'
  BY <1>5 DEF Desktop!Exit
<1>6. ASSUME NEW c \in Clients, Desktop!EnterWait(c) PROVE DesktopPlaces'
  BY <1>6 DEF Desktop!EnterWait
<1>7. ASSUME NEW c \in Clients, Desktop!LoopDone(c) PROVE DesktopPlaces'
  BY <1>7 DEF Desktop!LoopDone
<1>8. ASSUME NEW c \in Clients, Desktop!Sleep(c) PROVE DesktopPlaces'
  BY <1>8 DEF Desktop!Sleep
<1>9. ASSUME NEW c \in Clients, Desktop!TakeThreads(c) PROVE DesktopPlaces'
  <2>1. Desktop!Live = {}
    BY <1>9, DesktopIdle DEF Desktop!TakeThreads
  <2>2. dTaken[c] = {} /\ dThreads \subseteq Few
    BY <1>9 DEF Desktop!TakeThreads
  <2>3. \A k \in dThreads : dThread[k] \in {"exiting", "exited"}
    BY <2>1, <2>2
  <2>4. /\ dTaken' = [dTaken EXCEPT ![c] = dThreads] /\ dThreads' = {} /\ dThread' = dThread
        /\ dCaller' = [dCaller EXCEPT ![c] = "join"]
    BY <1>9 DEF Desktop!TakeThreads
  <2> QED
    BY <2>2, <2>3, <2>4
<1>10. ASSUME NEW c \in Clients, Desktop!Join(c) PROVE DesktopPlaces'
  BY <1>10 DEF Desktop!Join
<1>11. ASSUME NEW c \in Clients, Desktop!SpuriousWakeup(c) PROVE DesktopPlaces'
  BY <1>11 DEF Desktop!SpuriousWakeup
<1>12. CASE Desktop!Destroy
  BY <1>12 DEF Desktop!Destroy
<1>13. CASE UNCHANGED Desktop!vars
  BY <1>13 DEF Desktop!vars
<1> QED
  BY <1>1, <1>2, <1>3, <1>4, <1>5, <1>6, <1>7, <1>8, <1>9, <1>10, <1>11, <1>12, <1>13
     DEF Desktop!Next, Desktop!CallerStep

\* The last completion wakes every caller.
LEMMA DesktopWakesStep ==
  ASSUME DesktopInv, [Desktop!Next]_Desktop!vars
  PROVE  DesktopWakes'
<1> USE ExecutorsAssumption DEF DesktopInv, Desktop!TypeOK, Desktop!DesktopAssumption,
      DesktopWakes
<1>1. ASSUME NEW k \in Few, Desktop!Dispatch(k) PROVE DesktopWakes'
  BY <1>1 DEF Desktop!Dispatch, Desktop!MayDispatch
<1>2. ASSUME NEW k \in Few, Desktop!RejectDispatch(k) PROVE DesktopWakes'
  BY <1>2 DEF Desktop!RejectDispatch, Desktop!MayDispatch
<1>3. ASSUME NEW k \in Few, Desktop!BodyStarts(k) PROVE DesktopWakes'
  BY <1>3 DEF Desktop!BodyStarts
<1>4. ASSUME NEW k \in Few, Desktop!Publish(k) PROVE DesktopWakes'
  <2>1. dInFlight \in Nat
    OBVIOUS
  <2>2. CASE dInFlight = 1
    BY <1>4, <2>2 DEF Desktop!Publish, Desktop!Completes
  <2>3. CASE dInFlight # 1
    BY <1>4, <2>1, <2>3 DEF Desktop!Publish, Desktop!Completes
  <2> QED
    BY <2>2, <2>3
<1>5. ASSUME NEW k \in Few, Desktop!Exit(k) PROVE DesktopWakes'
  BY <1>5 DEF Desktop!Exit
<1>6. ASSUME NEW c \in Clients, Desktop!EnterWait(c) PROVE DesktopWakes'
  BY <1>6 DEF Desktop!EnterWait
<1>7. ASSUME NEW c \in Clients, Desktop!LoopDone(c) PROVE DesktopWakes'
  BY <1>7 DEF Desktop!LoopDone
<1>8. ASSUME NEW c \in Clients, Desktop!Sleep(c) PROVE DesktopWakes'
  BY <1>8 DEF Desktop!Sleep
<1>9. ASSUME NEW c \in Clients, Desktop!TakeThreads(c) PROVE DesktopWakes'
  BY <1>9 DEF Desktop!TakeThreads
<1>10. ASSUME NEW c \in Clients, Desktop!Join(c) PROVE DesktopWakes'
  BY <1>10 DEF Desktop!Join
<1>11. ASSUME NEW c \in Clients, Desktop!SpuriousWakeup(c) PROVE DesktopWakes'
  BY <1>11 DEF Desktop!SpuriousWakeup
<1>12. CASE Desktop!Destroy
  BY <1>12 DEF Desktop!Destroy
<1>13. CASE UNCHANGED Desktop!vars
  BY <1>13 DEF Desktop!vars
<1> QED
  BY <1>1, <1>2, <1>3, <1>4, <1>5, <1>6, <1>7, <1>8, <1>9, <1>10, <1>11, <1>12, <1>13
     DEF Desktop!Next, Desktop!CallerStep

\* The destructor leaves its loop with no thread to join, and none can be started.
LEMMA DesktopEndStep ==
  ASSUME DesktopInv, [Desktop!Next]_Desktop!vars
  PROVE  DesktopEnd'
<1> USE ExecutorsAssumption DEF DesktopInv, Desktop!TypeOK, Desktop!DesktopAssumption,
      DesktopEnd
<1>1. ASSUME NEW k \in Few, Desktop!Dispatch(k) PROVE DesktopEnd'
  BY <1>1 DEF Desktop!Dispatch, Desktop!MayDispatch
<1>2. ASSUME NEW k \in Few, Desktop!RejectDispatch(k) PROVE DesktopEnd'
  BY <1>2 DEF Desktop!RejectDispatch, Desktop!MayDispatch
<1>3. ASSUME NEW k \in Few, Desktop!BodyStarts(k) PROVE DesktopEnd'
  BY <1>3 DEF Desktop!BodyStarts
<1>4. ASSUME NEW k \in Few, Desktop!Publish(k) PROVE DesktopEnd'
  BY <1>4 DEF Desktop!Publish, Desktop!Completes
<1>5. ASSUME NEW k \in Few, Desktop!Exit(k) PROVE DesktopEnd'
  BY <1>5 DEF Desktop!Exit
<1>6. ASSUME NEW c \in Clients, Desktop!EnterWait(c) PROVE DesktopEnd'
  BY <1>6 DEF Desktop!EnterWait
<1>7. ASSUME NEW c \in Clients, Desktop!LoopDone(c) PROVE DesktopEnd'
  <2>1. Desktop!Live = {} /\ dThreads = {}
    BY <1>7, DesktopIdle DEF Desktop!LoopDone
  <2>2. ASSUME dTeardown = "waits"
        PROVE  \A k \in Few : dThread[k] \notin {"started", "body", "exiting"}
    <3>1. c = Owner /\ \A e \in Clients : dCaller[e] # "join"
      BY <1>7, <2>2 DEF Desktop!LoopDone
    <3>2. \A e \in Clients : dTaken[e] = {}
      BY <3>1 DEF DesktopPlaces
    <3> QED
      BY <2>1, <3>2 DEF DesktopPlaces
  <2>3. dTeardown = "waits" => c = Owner
    BY <1>7 DEF Desktop!LoopDone
  <2> QED
    BY <1>7, <2>1, <2>2, <2>3 DEF Desktop!LoopDone
<1>8. ASSUME NEW c \in Clients, Desktop!Sleep(c) PROVE DesktopEnd'
  BY <1>8 DEF Desktop!Sleep
<1>9. ASSUME NEW c \in Clients, Desktop!TakeThreads(c) PROVE DesktopEnd'
  BY <1>9 DEF Desktop!TakeThreads
<1>10. ASSUME NEW c \in Clients, Desktop!Join(c) PROVE DesktopEnd'
  BY <1>10 DEF Desktop!Join
<1>11. ASSUME NEW c \in Clients, Desktop!SpuriousWakeup(c) PROVE DesktopEnd'
  BY <1>11 DEF Desktop!SpuriousWakeup
<1>12. CASE Desktop!Destroy
  BY <1>12 DEF Desktop!Destroy
<1>13. CASE UNCHANGED Desktop!vars
  BY <1>13 DEF Desktop!vars
<1> QED
  BY <1>1, <1>2, <1>3, <1>4, <1>5, <1>6, <1>7, <1>8, <1>9, <1>10, <1>11, <1>12, <1>13
     DEF Desktop!Next, Desktop!CallerStep

\* Whether the executor is used or not.
LEMMA DesktopStart ==
  ASSUME Desktop!Init \/ Desktop!Unused
  PROVE  DesktopInv
<1> USE ExecutorsAssumption DEF Desktop!Init, Desktop!Unused, Desktop!DesktopAssumption
<1>1. Desktop!TypeOK /\ DesktopPlaces /\ DesktopWakes /\ DesktopEnd
  BY DEF Desktop!TypeOK, DesktopPlaces, DesktopWakes, DesktopEnd
<1>2. DesktopCount
  <2>1. Desktop!Live = {} /\ dInFlight = 0
    BY DEF Desktop!Live
  <2> QED
    BY <2>1, FS_EmptySet DEF DesktopCount
<1> QED
  BY <1>1, <1>2 DEF DesktopInv

LEMMA DesktopStep == DesktopInv /\ [Desktop!Next]_Desktop!vars => DesktopInv'
  BY DesktopTypeStep, DesktopCountStep, DesktopPlacesStep, DesktopWakesStep, DesktopEndStep
     DEF DesktopInv

\* The properties of DesktopExecutor follow.
LEMMA DesktopKeepsThreads ==
  ASSUME DesktopInv
  PROVE  Desktop!NoThreadLost /\ Desktop!CountsLive
<1> USE DEF DesktopInv, Desktop!TypeOK
<1>1. Desktop!NoThreadLost
  BY DEF Desktop!NoThreadLost, DesktopPlaces, DesktopEnd
<1>2. Desktop!CountsLive
  <2>1. dInFlight = Desktop!Cardinality(Desktop!Live)
    BY Counting DEF DesktopCount
  <2>2. \A c \in Clients : dTaken[c] \cap Desktop!Live = {}
    BY DEF DesktopPlaces, Desktop!Live
  <2> QED
    BY <2>1, <2>2 DEF Desktop!CountsLive
<1> QED
  BY <1>1, <1>2

\* A step that moves one task and no caller into or out of waitAll().
LEMMA DesktopMoves ==
  ASSUME NEW k \in Few, NEW to, Desktop!TypeOK,
         \A c \in Clients : dCaller'[c] = "out" <=> dCaller[c] = "out",
         \A j \in Few \ {k} : dThread'[j] = dThread[j], Desktop!TaskState'[k] = to
  PROVE  Desktop!Contract!Moves(k, Desktop!TaskState[k], to)
<1>1. Desktop!TaskState' = [Desktop!TaskState EXCEPT ![k] = to]
  BY DEF Desktop!TaskState
<1> QED
  BY <1>1 DEF Desktop!Contract!Moves

\* A step that moves neither.
LEMMA DesktopStutters ==
  ASSUME Desktop!TaskState' = Desktop!TaskState,
         \A c \in Clients : dCaller'[c] = "out" <=> dCaller[c] = "out"
  PROVE  UNCHANGED Desktop!Contract!vars
  BY DEF Desktop!Contract!vars

\* waitAll() is entered, by a client or by the destructor.
LEMMA DesktopEnters ==
  ASSUME Desktop!TypeOK, NEW c \in Clients, dCaller[c] = "out",
         dCaller' = [dCaller EXCEPT ![c] = "loop"], dThread' = dThread
  PROVE  Desktop!Contract!Next
<1>1. Desktop!TaskState' = Desktop!TaskState
  BY DEF Desktop!TaskState
<1>2. {e \in Clients : dCaller'[e] # "out"} = {e \in Clients : dCaller[e] # "out"} \cup {c}
  BY DEF Desktop!TypeOK
<1>3. Desktop!Contract!EnterWait(c)
  BY <1>1, <1>2 DEF Desktop!Contract!EnterWait
<1> QED
  BY <1>3 DEF Desktop!Contract!Next

\* waitAll() returns only when no accepted job is left.
LEMMA DesktopLeaves ==
  ASSUME DesktopInv, NEW c \in Clients, Desktop!LoopDone(c)
  PROVE  Desktop!Contract!Next
<1> USE DEF DesktopInv, Desktop!TypeOK
<1>1. Desktop!TaskState' = Desktop!TaskState
  BY DEF Desktop!TaskState, Desktop!LoopDone
<1>2. {e \in Clients : dCaller'[e] # "out"} = {e \in Clients : dCaller[e] # "out"} \ {c}
  BY DEF Desktop!LoopDone
<1>3. Desktop!Live = {} /\ dCaller[c] # "out"
  BY DesktopIdle DEF Desktop!LoopDone
<1>4. Desktop!Contract!Idle
  BY <1>3 DEF Desktop!Contract!Idle, Desktop!TaskState, Desktop!Live
<1>5. Desktop!Contract!LeaveWait(c)
  BY <1>1, <1>2, <1>3, <1>4 DEF Desktop!Contract!LeaveWait
<1> QED
  BY <1>5 DEF Desktop!Contract!Next

\* Each step of the executor is a step of the contract or leaves its state alone.
LEMMA DesktopSimulates ==
  ASSUME DesktopInv, [Desktop!Next]_Desktop!vars
  PROVE  [Desktop!Contract!Next]_Desktop!Contract!vars
<1> USE DEF DesktopInv, Desktop!TypeOK
<1>1. ASSUME NEW k \in Few, Desktop!Dispatch(k) PROVE Desktop!Contract!Next
  <2>1. Desktop!TaskState[k] = "new" /\ Desktop!TaskState'[k] = "queued"
    BY <1>1 DEF Desktop!TaskState, Desktop!Dispatch, Desktop!MayDispatch
  <2>2. Desktop!Contract!Accept(k)
    BY <1>1, <2>1, DesktopMoves DEF Desktop!Dispatch, Desktop!Contract!Accept
  <2> QED
    BY <2>2 DEF Desktop!Contract!Next
<1>2. ASSUME NEW k \in Few, Desktop!RejectDispatch(k) PROVE Desktop!Contract!Next
  <2>1. Desktop!TaskState[k] = "new" /\ Desktop!TaskState'[k] = "rejected"
    BY <1>2 DEF Desktop!TaskState, Desktop!RejectDispatch, Desktop!MayDispatch
  <2>2. Desktop!Contract!Reject(k)
    BY <1>2, <2>1, DesktopMoves DEF Desktop!RejectDispatch, Desktop!Contract!Reject
  <2> QED
    BY <2>2 DEF Desktop!Contract!Next
<1>3. ASSUME NEW k \in Few, Desktop!BodyStarts(k) PROVE Desktop!Contract!Next
  <2>1. Desktop!TaskState[k] = "queued" /\ Desktop!TaskState'[k] = "running"
    BY <1>3 DEF Desktop!TaskState, Desktop!BodyStarts
  <2>2. Desktop!Contract!Start(k)
    BY <1>3, <2>1, DesktopMoves DEF Desktop!BodyStarts, Desktop!Contract!Start
  <2> QED
    BY <2>2 DEF Desktop!Contract!Next
<1>4. ASSUME NEW k \in Few, Desktop!Publish(k) PROVE Desktop!Contract!Next
  <2>1. Desktop!TaskState[k] = "running" /\ Desktop!TaskState'[k] = "done"
    BY <1>4 DEF Desktop!TaskState, Desktop!Publish, Desktop!Completes
  <2>2. \A c \in Clients : dCaller'[c] = "out" <=> dCaller[c] = "out"
    BY <1>4 DEF Desktop!Publish
  <2>3. \A j \in Few \ {k} : dThread'[j] = dThread[j]
    BY <1>4 DEF Desktop!Publish
  <2>4. Desktop!Contract!Finish(k)
    BY <2>1, <2>2, <2>3, DesktopMoves DEF Desktop!Contract!Finish
  <2> QED
    BY <2>4 DEF Desktop!Contract!Next
<1>5. ASSUME NEW k \in Few, Desktop!Exit(k) PROVE UNCHANGED Desktop!Contract!vars
  <2>1. Desktop!TaskState' = Desktop!TaskState
    BY <1>5 DEF Desktop!TaskState, Desktop!Exit
  <2> QED
    BY <1>5, <2>1, DesktopStutters DEF Desktop!Exit
<1>6. ASSUME NEW c \in Clients, Desktop!EnterWait(c) PROVE Desktop!Contract!Next
  BY <1>6, DesktopEnters DEF Desktop!EnterWait
<1>7. ASSUME NEW c \in Clients, Desktop!LoopDone(c) PROVE Desktop!Contract!Next
  BY <1>7, DesktopLeaves
<1>8. ASSUME NEW c \in Clients, Desktop!Sleep(c) \/ Desktop!TakeThreads(c) \/ Desktop!Join(c)
             \/ Desktop!SpuriousWakeup(c)
      PROVE  UNCHANGED Desktop!Contract!vars
  <2>1. Desktop!TaskState' = Desktop!TaskState
    BY <1>8 DEF Desktop!TaskState, Desktop!Sleep, Desktop!TakeThreads, Desktop!Join,
       Desktop!SpuriousWakeup
  <2>2. \A e \in Clients : dCaller'[e] = "out" <=> dCaller[e] = "out"
    BY <1>8 DEF Desktop!Sleep, Desktop!TakeThreads, Desktop!Join, Desktop!SpuriousWakeup
  <2> QED
    BY <2>1, <2>2, DesktopStutters
<1>9. CASE Desktop!Destroy
  BY <1>9, DesktopEnters, ExecutorsAssumption DEF Desktop!Destroy, Desktop!DesktopAssumption
<1>10. CASE UNCHANGED Desktop!vars
  <2>1. Desktop!TaskState' = Desktop!TaskState
    BY <1>10 DEF Desktop!TaskState, Desktop!vars
  <2> QED
    BY <1>10, <2>1, DesktopStutters DEF Desktop!vars
<1> QED
  BY <1>1, <1>2, <1>3, <1>4, <1>5, <1>6, <1>7, <1>8, <1>9, <1>10
     DEF Desktop!Next, Desktop!CallerStep

----------------------------------------------------------------------------
(* FreeRtosExecutor *)

BusyTasks == {k \in Few : FreeRtos!Busy(k)}

FreeRtosInv ==
  FreeRtos!TypeOK /\ fInFlight = Cardinality(BusyTasks) /\ FreeRtos!NotUsedAfterDestruction

\* inFlight_ is zero exactly when no task is busy.
LEMMA FreeRtosIdle ==
  ASSUME FreeRtosInv
  PROVE  fInFlight \in Nat /\ (fInFlight = 0 <=> \A k \in Few : ~FreeRtos!Busy(k))
<1>1. fInFlight \in Nat /\ (fInFlight = 0 <=> BusyTasks = {})
  BY CountTasks DEF FreeRtosInv, BusyTasks, FreeRtos!TypeOK
<1> QED
  BY <1>1 DEF BusyTasks

\* inFlight_ never falls below zero, and the semaphore keeps its limit.
LEMMA FreeRtosTypeStep ==
  ASSUME FreeRtosInv, [FreeRtos!Next]_FreeRtos!vars
  PROVE  FreeRtos!TypeOK'
<1> USE ExecutorsAssumption DEF FreeRtosInv, FreeRtos!TypeOK, FreeRtos!FreeRtosAssumption,
      FreeRtos!Busy
<1>1. ASSUME NEW k \in Few, FreeRtos!RejectDispatch(k) PROVE FreeRtos!TypeOK'
  BY <1>1 DEF FreeRtos!RejectDispatch, FreeRtos!MayDispatch
<1>2. ASSUME NEW k \in Few, FreeRtos!CreateTask(k) PROVE FreeRtos!TypeOK'
  BY <1>2 DEF FreeRtos!CreateTask, FreeRtos!MayDispatch
<1>3. ASSUME NEW k \in Few, FreeRtos!RunInline(k) PROVE FreeRtos!TypeOK'
  BY <1>3 DEF FreeRtos!RunInline, FreeRtos!MayDispatch
<1>4. ASSUME NEW k \in Few, FreeRtos!TaskStarts(k) PROVE FreeRtos!TypeOK'
  BY <1>4 DEF FreeRtos!TaskStarts
<1>5. ASSUME NEW k \in Few, FreeRtos!BodyReturns(k) PROVE FreeRtos!TypeOK'
  BY <1>5 DEF FreeRtos!BodyReturns
<1>6. ASSUME NEW k \in Few, FreeRtos!Publish(k) PROVE FreeRtos!TypeOK'
  <2>1. fInFlight - 1 \in Nat
    <3>1. FreeRtos!Busy(k)
      BY <1>6 DEF FreeRtos!Publish
    <3> QED
      BY <3>1, FreeRtosIdle
  <2>2. fGiven' \in 0..MaxGiven
    BY <1>6 DEF FreeRtos!Publish, FreeRtos!Give
  <2> QED
    BY <1>6, <2>1, <2>2 DEF FreeRtos!Publish
<1>7. CASE FreeRtos!EnterWait
  BY <1>7 DEF FreeRtos!EnterWait
<1>8. CASE FreeRtos!TestIdle
  BY <1>8 DEF FreeRtos!TestIdle
<1>9. CASE FreeRtos!Take
  <2>1. fGiven' \in 0..MaxGiven
    BY <1>9 DEF FreeRtos!Take
  <2> QED
    BY <1>9, <2>1 DEF FreeRtos!Take
<1>10. CASE FreeRtos!Destroy
  BY <1>10 DEF FreeRtos!Destroy
<1>11. CASE UNCHANGED FreeRtos!vars
  BY <1>11 DEF FreeRtos!vars
<1> QED
  BY <1>1, <1>2, <1>3, <1>4, <1>5, <1>6, <1>7, <1>8, <1>9, <1>10, <1>11 DEF FreeRtos!Next

\* A job is counted, with or without a task of its own, until its last use of the executor.
LEMMA FreeRtosCountStep ==
  ASSUME FreeRtosInv, [FreeRtos!Next]_FreeRtos!vars
  PROVE  fInFlight' = Cardinality(BusyTasks')
<1> USE ExecutorsAssumption DEF FreeRtosInv, FreeRtos!TypeOK, FreeRtos!FreeRtosAssumption,
      FreeRtos!Busy
<1>1. ASSUME NEW k \in Few, FreeRtos!RejectDispatch(k)
      PROVE  fInFlight' = Cardinality(BusyTasks')
  <2>1. BusyTasks' = BusyTasks /\ fInFlight' = fInFlight
    BY <1>1 DEF FreeRtos!RejectDispatch, FreeRtos!MayDispatch, BusyTasks
  <2> QED
    BY <2>1
<1>2. ASSUME NEW k \in Few, FreeRtos!CreateTask(k) PROVE fInFlight' = Cardinality(BusyTasks')
  <2>1. BusyTasks' = BusyTasks \cup {k} /\ k \notin BusyTasks
    BY <1>2 DEF FreeRtos!CreateTask, FreeRtos!MayDispatch, BusyTasks
  <2> QED
    BY <1>2, <2>1, OneMore, CountTasks DEF FreeRtos!CreateTask, FreeRtos!MayDispatch, BusyTasks
<1>3. ASSUME NEW k \in Few, FreeRtos!RunInline(k) PROVE fInFlight' = Cardinality(BusyTasks')
  <2>1. BusyTasks' = BusyTasks \cup {k} /\ k \notin BusyTasks
    BY <1>3 DEF FreeRtos!RunInline, FreeRtos!MayDispatch, BusyTasks
  <2> QED
    BY <1>3, <2>1, OneMore, CountTasks DEF FreeRtos!RunInline, FreeRtos!MayDispatch, BusyTasks
<1>4. ASSUME NEW k \in Few, FreeRtos!TaskStarts(k) PROVE fInFlight' = Cardinality(BusyTasks')
  <2>1. BusyTasks' = BusyTasks /\ fInFlight' = fInFlight
    BY <1>4 DEF FreeRtos!TaskStarts, BusyTasks
  <2> QED
    BY <2>1
<1>5. ASSUME NEW k \in Few, FreeRtos!BodyReturns(k) PROVE fInFlight' = Cardinality(BusyTasks')
  <2>1. BusyTasks' = BusyTasks /\ fInFlight' = fInFlight
    BY <1>5 DEF FreeRtos!BodyReturns, BusyTasks
  <2> QED
    BY <2>1
<1>6. ASSUME NEW k \in Few, FreeRtos!Publish(k) PROVE fInFlight' = Cardinality(BusyTasks')
  <2>1. CASE fPhase[k] = "finishing"
    <3>1. BusyTasks' = BusyTasks /\ fInFlight' = fInFlight
      BY <1>6, <2>1 DEF FreeRtos!Publish, BusyTasks
    <3> QED
      BY <3>1
  <2>2. CASE fPhase[k] = "gave"
    <3>1. BusyTasks' = BusyTasks \ {k} /\ k \in BusyTasks
      BY <1>6, <2>2 DEF FreeRtos!Publish, BusyTasks
    <3>2. fInFlight' = fInFlight - 1
      BY <1>6, <2>2 DEF FreeRtos!Publish
    <3> QED
      BY <3>1, <3>2, OneLess, CountTasks DEF BusyTasks
  <2> QED
    BY <1>6, <2>1, <2>2 DEF FreeRtos!Publish
<1>7. CASE FreeRtos!EnterWait
  <2>1. BusyTasks' = BusyTasks /\ fInFlight' = fInFlight
    BY <1>7 DEF FreeRtos!EnterWait, BusyTasks
  <2> QED
    BY <2>1
<1>8. CASE FreeRtos!TestIdle
  <2>1. BusyTasks' = BusyTasks /\ fInFlight' = fInFlight
    BY <1>8 DEF FreeRtos!TestIdle, BusyTasks
  <2> QED
    BY <2>1
<1>9. CASE FreeRtos!Take
  <2>1. BusyTasks' = BusyTasks /\ fInFlight' = fInFlight
    BY <1>9 DEF FreeRtos!Take, BusyTasks
  <2> QED
    BY <2>1
<1>10. CASE FreeRtos!Destroy
  <2>1. BusyTasks' = BusyTasks /\ fInFlight' = fInFlight
    BY <1>10 DEF FreeRtos!Destroy, BusyTasks
  <2> QED
    BY <2>1
<1>11. CASE UNCHANGED FreeRtos!vars
  <2>1. BusyTasks' = BusyTasks /\ fInFlight' = fInFlight
    BY <1>11 DEF FreeRtos!vars, BusyTasks
  <2> QED
    BY <2>1
<1> QED
  BY <1>1, <1>2, <1>3, <1>4, <1>5, <1>6, <1>7, <1>8, <1>9, <1>10, <1>11 DEF FreeRtos!Next

\* The executor is destroyed at zero, and then nothing can be dispatched.
LEMMA FreeRtosEndStep ==
  ASSUME FreeRtosInv, [FreeRtos!Next]_FreeRtos!vars
  PROVE  FreeRtos!NotUsedAfterDestruction'
<1> USE ExecutorsAssumption DEF FreeRtosInv, FreeRtos!TypeOK, FreeRtos!FreeRtosAssumption,
      FreeRtos!Busy, FreeRtos!NotUsedAfterDestruction
<1>1. ASSUME NEW k \in Few, FreeRtos!RejectDispatch(k) PROVE FreeRtos!NotUsedAfterDestruction'
  BY <1>1 DEF FreeRtos!RejectDispatch, FreeRtos!MayDispatch
<1>2. ASSUME NEW k \in Few, FreeRtos!CreateTask(k) PROVE FreeRtos!NotUsedAfterDestruction'
  BY <1>2 DEF FreeRtos!CreateTask, FreeRtos!MayDispatch
<1>3. ASSUME NEW k \in Few, FreeRtos!RunInline(k) PROVE FreeRtos!NotUsedAfterDestruction'
  BY <1>3 DEF FreeRtos!RunInline, FreeRtos!MayDispatch
<1>4. ASSUME NEW k \in Few, FreeRtos!TaskStarts(k) PROVE FreeRtos!NotUsedAfterDestruction'
  BY <1>4 DEF FreeRtos!TaskStarts
<1>5. ASSUME NEW k \in Few, FreeRtos!BodyReturns(k) PROVE FreeRtos!NotUsedAfterDestruction'
  BY <1>5 DEF FreeRtos!BodyReturns
<1>6. ASSUME NEW k \in Few, FreeRtos!Publish(k) PROVE FreeRtos!NotUsedAfterDestruction'
  BY <1>6 DEF FreeRtos!Publish, FreeRtos!Give
<1>7. CASE FreeRtos!EnterWait
  BY <1>7 DEF FreeRtos!EnterWait
<1>8. CASE FreeRtos!TestIdle
  BY <1>8 DEF FreeRtos!TestIdle
<1>9. CASE FreeRtos!Take
  BY <1>9 DEF FreeRtos!Take
<1>10. CASE FreeRtos!Destroy
  <2>1. \A k \in Few : ~FreeRtos!Busy(k)
    BY <1>10, FreeRtosIdle DEF FreeRtos!Destroy
  <2> QED
    BY <1>10, <2>1 DEF FreeRtos!Destroy
<1>11. CASE UNCHANGED FreeRtos!vars
  BY <1>11 DEF FreeRtos!vars
<1> QED
  BY <1>1, <1>2, <1>3, <1>4, <1>5, <1>6, <1>7, <1>8, <1>9, <1>10, <1>11 DEF FreeRtos!Next

\* Whether the executor is used or not.
LEMMA FreeRtosStart ==
  ASSUME FreeRtos!Init \/ FreeRtos!Unused
  PROVE  FreeRtosInv
<1> USE ExecutorsAssumption DEF FreeRtos!Init, FreeRtos!Unused, FreeRtos!FreeRtosAssumption
<1>1. FreeRtos!TypeOK
  BY DEF FreeRtos!TypeOK
<1>2. \A k \in Few : ~FreeRtos!Busy(k)
  BY DEF FreeRtos!Busy
<1>3. BusyTasks = {} /\ fInFlight = 0
  BY <1>2 DEF BusyTasks
<1> QED
  BY <1>1, <1>2, <1>3, FS_EmptySet DEF FreeRtosInv, FreeRtos!NotUsedAfterDestruction

LEMMA FreeRtosStep == FreeRtosInv /\ [FreeRtos!Next]_FreeRtos!vars => FreeRtosInv'
  BY FreeRtosTypeStep, FreeRtosCountStep, FreeRtosEndStep DEF FreeRtosInv

\* A step that moves one task and not the owner.
LEMMA FreeRtosMoves ==
  ASSUME NEW k \in Few, NEW to, FreeRtos!TypeOK, fOwner' = fOwner,
         \A j \in Few \ {k} : fPhase'[j] = fPhase[j], FreeRtos!TaskState'[k] = to
  PROVE  FreeRtos!Contract!Moves(k, FreeRtos!TaskState[k], to)
<1>1. FreeRtos!TaskState' = [FreeRtos!TaskState EXCEPT ![k] = to]
  BY DEF FreeRtos!TaskState
<1> QED
  BY <1>1 DEF FreeRtos!Contract!Moves

\* A step that moves neither as the contract sees them.
LEMMA FreeRtosStutters ==
  ASSUME FreeRtos!TaskState' = FreeRtos!TaskState,
         fOwner' \in {"test", "take"} <=> fOwner \in {"test", "take"}
  PROVE  UNCHANGED FreeRtos!Contract!vars
  BY DEF FreeRtos!Contract!vars

\* Each step of the executor is a step of the contract or leaves its state alone.
LEMMA FreeRtosSimulates ==
  ASSUME FreeRtosInv, [FreeRtos!Next]_FreeRtos!vars
  PROVE  [FreeRtos!Contract!Next]_FreeRtos!Contract!vars
<1> USE DEF FreeRtosInv, FreeRtos!TypeOK
<1>1. ASSUME NEW k \in Few, FreeRtos!RejectDispatch(k) PROVE FreeRtos!Contract!Next
  <2>1. FreeRtos!TaskState[k] = "new" /\ FreeRtos!TaskState'[k] = "rejected"
    BY <1>1 DEF FreeRtos!TaskState, FreeRtos!RejectDispatch, FreeRtos!MayDispatch
  <2>2. FreeRtos!Contract!Reject(k)
    BY <1>1, <2>1, FreeRtosMoves DEF FreeRtos!RejectDispatch, FreeRtos!Contract!Reject
  <2> QED
    BY <2>2 DEF FreeRtos!Contract!Next
<1>2. ASSUME NEW k \in Few, FreeRtos!CreateTask(k) \/ FreeRtos!RunInline(k)
      PROVE  FreeRtos!Contract!Next
  <2>1. FreeRtos!TaskState[k] = "new" /\ FreeRtos!TaskState'[k] = "queued" /\ fOwner' = fOwner
    BY <1>2
       DEF FreeRtos!TaskState, FreeRtos!CreateTask, FreeRtos!RunInline, FreeRtos!MayDispatch
  <2>2. \A j \in Few \ {k} : fPhase'[j] = fPhase[j]
    BY <1>2 DEF FreeRtos!CreateTask, FreeRtos!RunInline
  <2>3. FreeRtos!Contract!Accept(k)
    BY <2>1, <2>2, FreeRtosMoves DEF FreeRtos!Contract!Accept
  <2> QED
    BY <2>3 DEF FreeRtos!Contract!Next
<1>3. ASSUME NEW k \in Few, FreeRtos!TaskStarts(k) PROVE FreeRtos!Contract!Next
  <2>1. FreeRtos!TaskState[k] = "queued" /\ FreeRtos!TaskState'[k] = "running"
    BY <1>3 DEF FreeRtos!TaskState, FreeRtos!TaskStarts
  <2>2. FreeRtos!Contract!Start(k)
    BY <1>3, <2>1, FreeRtosMoves DEF FreeRtos!TaskStarts, FreeRtos!Contract!Start
  <2> QED
    BY <2>2 DEF FreeRtos!Contract!Next
<1>4. ASSUME NEW k \in Few, FreeRtos!BodyReturns(k) PROVE UNCHANGED FreeRtos!Contract!vars
  <2>1. FreeRtos!TaskState' = FreeRtos!TaskState /\ fOwner' = fOwner
    BY <1>4 DEF FreeRtos!TaskState, FreeRtos!BodyReturns
  <2> QED
    BY <2>1, FreeRtosStutters
<1>5. ASSUME NEW k \in Few, FreeRtos!Publish(k)
      PROVE  [FreeRtos!Contract!Next]_FreeRtos!Contract!vars
  <2>1. CASE fPhase[k] = "finishing"
    <3>1. FreeRtos!TaskState' = FreeRtos!TaskState /\ fOwner' = fOwner
      BY <1>5, <2>1 DEF FreeRtos!TaskState, FreeRtos!Publish
    <3> QED
      BY <3>1, FreeRtosStutters
  <2>2. CASE fPhase[k] = "gave"
    <3>1. FreeRtos!TaskState[k] = "running" /\ FreeRtos!TaskState'[k] = "done"
      BY <1>5, <2>2 DEF FreeRtos!TaskState, FreeRtos!Publish
    <3>2. FreeRtos!Contract!Finish(k)
      BY <1>5, <2>2, <3>1, FreeRtosMoves DEF FreeRtos!Publish, FreeRtos!Contract!Finish
    <3> QED
      BY <3>2 DEF FreeRtos!Contract!Next
  <2> QED
    BY <1>5, <2>1, <2>2 DEF FreeRtos!Publish
<1>6. CASE FreeRtos!EnterWait
  <2>1. FreeRtos!TaskState' = FreeRtos!TaskState /\ fOwner = "out" /\ fOwner' = "test"
    BY <1>6 DEF FreeRtos!TaskState, FreeRtos!EnterWait
  <2>2. FreeRtos!Contract!EnterWait(Owner)
    BY <2>1 DEF FreeRtos!Contract!EnterWait
  <2> QED
    BY <2>2 DEF FreeRtos!Contract!Next
<1>7. CASE FreeRtos!TestIdle
  <2>1. FreeRtos!TaskState' = FreeRtos!TaskState /\ fOwner = "test"
    BY <1>7 DEF FreeRtos!TaskState, FreeRtos!TestIdle
  <2>2. CASE fInFlight = 0
    <3>1. \A k \in Few : ~FreeRtos!Busy(k)
      BY <2>2, FreeRtosIdle
    <3>2. FreeRtos!Contract!Idle
      BY <3>1 DEF FreeRtos!Contract!Idle, FreeRtos!TaskState, FreeRtos!Busy
    <3>3. fOwner' = "out"
      BY <1>7, <2>2 DEF FreeRtos!TestIdle
    <3>4. FreeRtos!Contract!LeaveWait(Owner)
      BY <2>1, <3>2, <3>3 DEF FreeRtos!Contract!LeaveWait
    <3> QED
      BY <3>4 DEF FreeRtos!Contract!Next
  <2>3. CASE fInFlight # 0
    <3>1. fOwner' = "take"
      BY <1>7, <2>3, FreeRtosIdle DEF FreeRtos!TestIdle
    <3> QED
      BY <2>1, <3>1, FreeRtosStutters
  <2> QED
    BY <2>2, <2>3
<1>8. CASE FreeRtos!Take
  <2>1. FreeRtos!TaskState' = FreeRtos!TaskState /\ fOwner = "take" /\ fOwner' = "test"
    BY <1>8 DEF FreeRtos!TaskState, FreeRtos!Take
  <2> QED
    BY <2>1, FreeRtosStutters
<1>9. CASE FreeRtos!Destroy
  <2>1. FreeRtos!TaskState' = FreeRtos!TaskState /\ fOwner = "out" /\ fOwner' = "destroyed"
    BY <1>9 DEF FreeRtos!TaskState, FreeRtos!Destroy
  <2> QED
    BY <2>1, FreeRtosStutters
<1>10. CASE UNCHANGED FreeRtos!vars
  <2>1. FreeRtos!TaskState' = FreeRtos!TaskState /\ fOwner' = fOwner
    BY <1>10 DEF FreeRtos!TaskState, FreeRtos!vars
  <2> QED
    BY <2>1, FreeRtosStutters
<1> QED
  BY <1>1, <1>2, <1>3, <1>4, <1>5, <1>6, <1>7, <1>8, <1>9, <1>10 DEF FreeRtos!Next

----------------------------------------------------------------------------
(* The program *)

\* Each step of the program is a step of one executor, and the others do nothing.
LEMMA OneAtATime ==
  ASSUME [ProgramNext]_<<dVars, fVars, sVars, vars>>
  PROVE  /\ [Desktop!Next]_Desktop!vars /\ [FreeRtos!Next]_FreeRtos!vars
         /\ [Scoped!Next]_Scoped!vars /\ [Next]_vars
<1>1. UNCHANGED dVars => UNCHANGED Desktop!vars
  BY DEF dVars, Desktop!vars
<1>2. UNCHANGED fVars => UNCHANGED FreeRtos!vars
  BY DEF fVars, FreeRtos!vars
<1>3. UNCHANGED sVars => UNCHANGED Scoped!vars
  BY DEF sVars, Scoped!vars
<1> QED
  BY <1>1, <1>2, <1>3 DEF ProgramNext

\* A pool that was destroyed unused has the invariant of the pool.
LEMMA PoolStart ==
  ASSUME Init \/ Unused
  PROVE  PoolInv
<1>1. CASE Init
  BY <1>1, PoolInit
<1>2. CASE Unused
  <2> USE <1>2, PoolAssumption DEF Unused, Start
  <2>0. Held = {} /\ Coming = {} /\ OnWake = {} /\ Busy = {}
    BY DEF Held, Coming, OnWake, Busy
  <2>1. TypeOK
    BY DEF TypeOK
  <2>2. OnePlace /\ Notifying /\ SleeperHolds /\ NoMissedCompletion /\ Drained
    BY <2>0 DEF OnePlace, Notifying, SleeperHolds, NoMissedCompletion, Drained, Emptied, New,
       MayDispatch
  <2>3. CountsExact /\ NoStrandedJob
    BY <2>0, FS_EmptySet DEF CountsExact, NoStrandedJob
  <2> QED
    BY <2>1, <2>2, <2>3 DEF PoolInv
<1> QED
  BY <1>1, <1>2

(* Executors: the inductive invariants of the four executors, for any submissions, any
   nesting of dispatches, any callers and workers. *)
THEOREM ProgramInvariance == Program => [](DesktopInv /\ FreeRtosInv /\ ScopeInv /\ PoolInv)
<1>1. ProgramInit => DesktopInv /\ FreeRtosInv /\ ScopeInv /\ PoolInv
  BY DesktopStart, FreeRtosStart, ScopeStart, PoolStart DEF ProgramInit
<1>2. /\ DesktopInv /\ FreeRtosInv /\ ScopeInv /\ PoolInv
      /\ [ProgramNext]_<<dVars, fVars, sVars, vars>>
      => (DesktopInv /\ FreeRtosInv /\ ScopeInv /\ PoolInv)'
  BY OneAtATime, DesktopStep, FreeRtosStep, ScopeStep, PoolStep
<1> QED
  BY <1>1, <1>2, PTL DEF Program

(* DesktopExecutor::waitAll(): every std::thread is joined by exactly one caller,
   inFlight_ is the number of live jobs, and the destructor leaves no thread behind. *)
THEOREM ThreadsAreJoined == Program => []NoThreadLost
<1>1. DesktopInv => NoThreadLost
  BY DesktopKeepsThreads DEF NoThreadLost
<1> QED
  BY <1>1, ProgramInvariance, PTL

(* waitAll() of the scope, of FreeRtosExecutor and of the pool lets the destructor run
   only when no wrapper, task, body or notification will touch the members any more. *)
THEOREM DestructorsComeLast == Program => []NoneUsedAfterDestruction
<1>1. FreeRtosInv /\ ScopeInv /\ PoolInv => NoneUsedAfterDestruction
  BY PoolLeavesNothing DEF FreeRtosInv, ScopeInv, NoneUsedAfterDestruction
<1> QED
  BY <1>1, ProgramInvariance, PTL

\* A caller of waitAll() sleeps, or is about to, only while a completion is to come.
NobodySleepsThrough ==
  /\ \A c \in Clients : dCaller[c] = "asleep" => Desktop!Live # {}
  /\ owner.at \in {"block", "asleep"} => Using # {}

(* idle_ of DesktopExecutor and of ScopedExecutor: the completion that empties the
   executor cannot fall between the test of the predicate and the wait, so no caller
   waits for a notification that was already given. *)
THEOREM CompletionsWake == Program => []NobodySleepsThrough
<1>1. DesktopInv /\ ScopeInv => NobodySleepsThrough
  <2> SUFFICES ASSUME DesktopInv, ScopeInv PROVE NobodySleepsThrough
    OBVIOUS
  <2>1. \A c \in Clients : dCaller[c] = "asleep" => Desktop!Live # {}
    BY DesktopIdle DEF DesktopInv, DesktopWakes
  <2>2. owner.at \in {"block", "asleep"} => Using # {}
    BY FS_EmptySet DEF ScopeInv, ScopeWakes, ScopeCount
  <2> QED
    BY <2>1, <2>2 DEF NobodySleepsThrough
<1> QED
  BY <1>1, ProgramInvariance, PTL

(* IExecutor's contract: with each of the four executors an accepted job runs at most
   once, a rejected one never, and waitAll() returns only when nothing accepted is
   left. *)
THEOREM ProgramKeepsContract ==
  Program => /\ Desktop!Contract!Init /\ [][Desktop!Contract!Next]_(Desktop!Contract!vars)
             /\ FreeRtos!Contract!Init /\ [][FreeRtos!Contract!Next]_(FreeRtos!Contract!vars)
             /\ Scoped!Contract!Init /\ [][Scoped!Contract!Next]_(Scoped!Contract!vars)
             /\ Contract!Init /\ [][Contract!Next]_(Contract!vars)
<1>1. ASSUME ProgramInit
      PROVE  /\ Desktop!Contract!Init /\ FreeRtos!Contract!Init
             /\ Scoped!Contract!Init /\ Contract!Init
  <2>1. /\ Desktop!Init \/ Desktop!Unused
        /\ FreeRtos!Init \/ FreeRtos!Unused
        /\ Scoped!Init \/ Scoped!Unused
        /\ Init \/ Unused
    BY <1>1 DEF ProgramInit
  <2>2. Desktop!Contract!Init
    BY <2>1 DEF Desktop!Init, Desktop!Unused, Desktop!Contract!Init, Desktop!TaskState
  <2>3. FreeRtos!Contract!Init
    BY <2>1 DEF FreeRtos!Init, FreeRtos!Unused, FreeRtos!Contract!Init, FreeRtos!TaskState
  <2>4. Scoped!Contract!Init
    BY <2>1 DEF Scoped!Init, Scoped!Unused, Scoped!Contract!Init, Scoped!TaskState
  <2>5. Contract!Init
    BY <2>1, PoolAssumption DEF Init, Unused, Start, Contract!Init, TaskState, Held
  <2> QED
    BY <2>2, <2>3, <2>4, <2>5
<1>2. /\ DesktopInv /\ FreeRtosInv /\ ScopeInv /\ PoolInv
      /\ [ProgramNext]_<<dVars, fVars, sVars, vars>>
      => /\ [Desktop!Contract!Next]_(Desktop!Contract!vars)
         /\ [FreeRtos!Contract!Next]_(FreeRtos!Contract!vars)
         /\ [Scoped!Contract!Next]_(Scoped!Contract!vars)
         /\ [Contract!Next]_(Contract!vars)
  BY OneAtATime, DesktopSimulates, FreeRtosSimulates, ScopeSimulates, PoolSimulates
<1> QED
  BY <1>1, <1>2, ProgramInvariance, PTL DEF Program
=============================================================================
