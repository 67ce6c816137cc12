-------------------------- MODULE SchedulerProofs --------------------------
(***************************************************************************)
(* IInv is an inductive invariant of Scheduler, for every graph, every     *)
(* choice of optional, on-demand, deferred and timed jobs and with or      *)
(* without rejections; the safety properties follow.  One lemma per        *)
(* action, one step per part of the invariant.  FullInv adds what a run    *)
(* has done when run() returns: progress is counted exactly, nothing of    *)
(* the run is left behind unless deferred jobs form a chain, and every job *)
(* the run can reach has ended.                                            *)
(***************************************************************************)
EXTENDS SchedulerInvariant, FiniteSetTheorems, TLAPS

\* The threads of different jobs and of different kinds are different threads.
LEMMA ThreadFacts ==
  /\ RunThread \in Threads
  /\ \A j \in Jobs :
       /\ JobThread(j) \in Threads /\ JobThread(j) # RunThread /\ JobOf(JobThread(j)) = j
       /\ ContThread(j) \in Threads /\ ContThread(j) # RunThread /\ JobOf(ContThread(j)) = j
       /\ OutcomeThread(j) \in Threads /\ OutcomeThread(j) # RunThread
       /\ JobOf(OutcomeThread(j)) = j
  /\ \A i, j \in Jobs :
       /\ JobThread(i) = JobThread(j) => i = j
       /\ ContThread(i) = ContThread(j) => i = j
       /\ OutcomeThread(i) = OutcomeThread(j) => i = j
       /\ JobThread(i) # ContThread(j)
       /\ JobThread(i) # OutcomeThread(j)
       /\ ContThread(i) # OutcomeThread(j)
  /\ \A t \in Threads : t # RunThread =>
       /\ JobOf(t) \in Jobs
       /\ \/ t = JobThread(JobOf(t))
          \/ t = ContThread(JobOf(t))
          \/ t = OutcomeThread(JobOf(t))
BY GraphAssumption DEF RunThread, JobThread, ContThread, OutcomeThread, JobOf, Threads

\* The run thread and the other threads share only the labels of LoopLabels.
LEMMA LabelFacts ==
  /\ LoopLabels \subseteq RunLabels /\ LoopLabels \subseteq WorkLabels
  /\ {"submit", "rejected", "recordRejected", "skip", "drain"} = LoopLabels
  /\ {"roots", "waitAll", "awaitDeferred", "waitAgain", "recheck", "returned"} \subseteq RunLabels
  /\ {"idle", "queued", "claim", "invoke", "body", "start", "starting", "arrive",
      "deliver", "finish", "record", "edges", "release", "done"} \subseteq WorkLabels
  /\ RunLabels \cap {"idle", "queued", "claim", "invoke", "body", "start", "starting",
      "arrive", "deliver", "finish", "record", "edges", "release", "done"} = {}
  /\ "roots" \notin WorkLabels
BY DEF LoopLabels, RunLabels, WorkLabels

\* A jump to a label of the right kind keeps the control types.
LEMMA GotoOK ==
  ASSUME ControlOK, NEW t \in Threads, NEW l \in LabelsOf(t), Goto(t, l)
  PROVE  ControlOK'
BY DEF ControlOK, Goto, LabelsOf

\* A run has finitely many threads.
LEMMA FiniteThreads == IsFiniteSet(Threads)
<1>1. IsFiniteSet({"job", "cont", "outcome"})
  <2>1. IsFiniteSet({}) BY FS_EmptySet
  <2>2. IsFiniteSet({} \cup {"job"}) BY <2>1, FS_AddElement
  <2>3. IsFiniteSet(({} \cup {"job"}) \cup {"cont"}) BY <2>2, FS_AddElement
  <2>4. IsFiniteSet((({} \cup {"job"}) \cup {"cont"}) \cup {"outcome"}) BY <2>3, FS_AddElement
  <2>5. ((({} \cup {"job"}) \cup {"cont"}) \cup {"outcome"}) = {"job", "cont", "outcome"}
    OBVIOUS
  <2>6. QED BY <2>4, <2>5
<1>2. IsFiniteSet({"job", "cont", "outcome"} \X Jobs)
  BY <1>1, GraphAssumption, FS_Product
<1>3. QED
  BY <1>2, FS_AddElement DEF Threads

\* enqueueSkip() only turns jobs that have not started into skipped ones.
LEMMA SkipEffect ==
  ASSUME DataOK, NEW S, EnqueueSkip(S)
  PROVE  /\ status' \in [Jobs -> Status]
         /\ \A i \in Jobs : status'[i] # status[i] =>
              status[i] \in Unstarted /\ status'[i] = "kSkipped"
BY DEF EnqueueSkip, Claimable, DataOK, Status, Unstarted, Final

\* enqueueSkip() over a successor list claims nodes of the graph.
LEMMA ClaimableJobs == \A j : Claimable(Successors(j)) \subseteq Jobs
BY GraphAssumption DEF Claimable, Successors, OutEdges

\* Adding a new element to a finite set.
LEMMA AddOne ==
  ASSUME NEW S, IsFiniteSet(S), NEW x, x \notin S
  PROVE  Cardinality(S \cup {x}) = Cardinality(S) + 1
BY FS_AddElement

\* Removing an element from a finite set.
LEMMA RemoveOne ==
  ASSUME NEW S, IsFiniteSet(S), NEW x \in S
  PROVE  /\ Cardinality(S \ {x}) = Cardinality(S) - 1
         /\ Cardinality(S) \in Nat /\ Cardinality(S \ {x}) \in Nat
BY FS_RemoveElement, FS_CardinalityType

\* Fewer unreleased edges and the same counters.
LEMMA CountKept ==
  ASSUME CountInv, DataOK, unmet' = unmet,
         \A j \in Jobs : Unreleased(j)' \subseteq Unreleased(j)
  PROVE  CountInv'
<1> SUFFICES ASSUME NEW j \in Jobs PROVE Cardinality(Unreleased(j)') <= unmet[j]
  BY DEF CountInv
<1>1. IsFiniteSet(Unreleased(j))
  BY GraphAssumption, FS_Subset DEF Unreleased, InEdges
<1>2. /\ Cardinality(Unreleased(j)') <= Cardinality(Unreleased(j))
      /\ Cardinality(Unreleased(j)') \in Nat /\ Cardinality(Unreleased(j)) \in Nat
  BY <1>1, FS_Subset, FS_CardinalityType
<1> QED
  BY <1>2 DEF CountInv, DataOK

\* The sets that deferredInFlight counts are finite.
LEMMA InFlightSets ==
  /\ IsFiniteSet(UndeliveredJobs) /\ IsFiniteSet(Owing) /\ IsFiniteSet(OwingTwo)
  /\ Cardinality(UndeliveredJobs) \in Nat
  /\ Cardinality(Owing) \in Nat
  /\ Cardinality(OwingTwo) \in Nat
<1>1. IsFiniteSet(UndeliveredJobs) /\ IsFiniteSet(Owing) /\ IsFiniteSet(OwingTwo)
  BY GraphAssumption, FiniteThreads, FS_Subset DEF UndeliveredJobs, Owing, OwingTwo
<1> QED
  BY <1>1, FS_CardinalityType

\* A step that leaves these sets alone keeps the count exact.
LEMMA InFlightKept ==
  ASSUME InFlightExact, inFlight' = inFlight, owes' = owes,
         \A j \in Jobs : Undelivered(j)' <=> Undelivered(j)
  PROVE  InFlightExact'
<1>1. UndeliveredJobs' = UndeliveredJobs
  BY DEF UndeliveredJobs
<1>2. Owing' = Owing /\ OwingTwo' = OwingTwo
  BY DEF Owing, OwingTwo
<1> QED
  BY <1>1, <1>2 DEF InFlightExact

\* Every run starts in the invariant.
LEMMA InitIInv == Init => IInv
<1> SUFFICES ASSUME Init PROVE IInv
  OBVIOUS
<1> USE GraphAssumption, ThreadFacts
<1>1. \A j \in Jobs : IsFiniteSet(InEdges(j)) /\ Cardinality(InEdges(j)) \in Nat
  BY FS_Subset, FS_CardinalityType DEF InEdges
<1>2. TypeOK
  <2>1. ControlOK
    BY LabelFacts DEF Init, ControlOK, LabelsOf
  <2>2. status \in [Jobs -> Status]
    BY DEF Init, Status, Unstarted
  <2>3. unmet \in [Jobs -> Nat]
    BY <1>1 DEF Init
  <2>4. stop \in [Jobs -> BOOLEAN] /\ won \in [Jobs -> BOOLEAN] /\ draining \in BOOLEAN
    BY DEF Init
  <2> QED
    BY <2>1, <2>2, <2>3, <2>4 DEF Init, TypeOK, DataOK, Errors
<1>3. Ownership /\ PartyInv
  BY DEF Init, PartyInv, Ownership, HeldByBody, HeldByParties, HeldByOutcome, HeldByCont, Started
<1>4. SubmitInv /\ SubmitOnce /\ PendingInv /\ RootInv
  BY DEF Init, SubmitInv, SubmitOnce, PendingInv, RootInv, Submitting, Roots
<1>5. SkipInv /\ SkippedOnlyAfterFailure /\ RecordInv /\ RejectInv /\ FailureAttributed
  BY DEF Init, SkipInv, SkippedOnlyAfterFailure, RecordInv, RejectInv, FailureAttributed,
         hasFatalFailure
<1>6. TodoInv /\ TodoOnce
  BY DEF Init, TodoInv, TodoOnce
<1>7. CountInv
  <2> SUFFICES ASSUME NEW j \in Jobs PROVE Cardinality(Unreleased(j)) <= unmet[j]
    BY DEF CountInv
  <2>1. Unreleased(j) \subseteq InEdges(j)
    BY DEF Unreleased
  <2> QED
    BY <1>1, <2>1, FS_Subset DEF Init
<1>8. DependencyOrder
  BY DEF Init, DependencyOrder, Roots, InEdges
<1>9. OwesInv
  BY DEF Init, OwesInv
<1>10. InFlightExact
  <2>1. UndeliveredJobs = {} /\ Owing = {} /\ OwingTwo = {}
    BY DEF Init, UndeliveredJobs, Undelivered, Owing, OwingTwo
  <2>2. Cardinality({}) = 0
    BY FS_EmptySet
  <2> QED
    BY <2>1, <2>2 DEF Init, InFlightExact
<1> QED
  BY <1>2, <1>3, <1>4, <1>5, <1>6, <1>7, <1>8, <1>9, <1>10 DEF IInv


\* skipNode() claims only jobs that have not started, after a failure was recorded.
LEMMA SkipNodeIInv ==
  ASSUME IInv, NEW t \in Threads, SkipNode(t)
  PROVE  IInv'
<1> USE GraphAssumption, ThreadFacts, LabelFacts DEF IInv, SkipNode, Goto, TypeOK,
      ControlOK, DataOK, LabelsOf
<1>1. \A i \in Jobs :
        status'[i] # status[i] => status[i] \in Unstarted /\ status'[i] = "kSkipped"
  <2>1. PICK i \in skips[t] :
          status' = status \/ EnqueueSkip({i}) \/ EnqueueSkip(Successors(i) \cup {i})
    BY DEF DrainOne
  <2>2. CASE EnqueueSkip({i})
    BY <2>2, SkipEffect
  <2>3. CASE EnqueueSkip(Successors(i) \cup {i})
    BY <2>3, SkipEffect
  <2> QED
    BY <2>1, <2>2, <2>3
<1>2. ControlOK'
  <2>1. pc' = pc \/ Goto(t, "drain")
    OBVIOUS
  <2> QED
    BY <2>1, GotoOK
<1>3. DataOK'
  <2>1. (status \in [Jobs -> Status])'
    BY SkipEffect DEF DrainOne
  <2>2. (completed \in Nat)'
    BY DEF DrainOne
  <2>3. (undrained \subseteq Jobs)'
    BY ClaimableJobs DEF DrainOne, Claimable
  <2>4. (draining \in BOOLEAN)'
    BY <1>1
  <2>5. (skips \in [Threads -> SUBSET Jobs])'
    BY <1>1
  <2> QED
    BY <2>1, <2>2, <2>3, <2>4, <2>5
<1>4. Ownership' /\ PartyInv'
  BY <1>1 DEF PartyInv, SubmitInv, PendingInv, Submitting, Unstarted, StatusOf,
         Ownership, HeldByBody, HeldByParties, HeldByOutcome, HeldByCont, Started
<1>5. SubmitInv'
  BY <1>1 DEF SubmitInv, SubmitOnce, Submitting, PendingInv, RootInv, Unstarted,
         StatusOf, Ownership, HeldByBody, HeldByParties, HeldByOutcome, HeldByCont, Started
<1>6. SubmitOnce'
  BY <1>1 DEF SubmitInv, SubmitOnce, Submitting, RootInv, Resume
<1>7. PendingInv'
  BY <1>1 DEF PendingInv, SubmitInv, Submitting, Unstarted, StatusOf
<1>8. RootInv'
  BY <1>1 DEF RootInv, Submitting, SubmitInv, Unstarted, Roots, InEdges,
         TodoInv,Ownership, HeldByBody, HeldByParties, HeldByOutcome, HeldByCont, Started
<1>9. SkipInv'
  BY <1>1 DEF SkipInv, RejectInv, hasFatalFailure, RecordInv
<1>10. SkippedOnlyAfterFailure'
  BY <1>1 DEF SkipInv, SkippedOnlyAfterFailure, hasFatalFailure, StatusOf, Unstarted
<1>11. RecordInv'
  BY <1>1 DEF RecordInv, SubmitInv, Submitting, Unstarted, StatusOf, Errors, PartyInv,
         Ownership, HeldByBody, HeldByParties, HeldByOutcome, HeldByCont, Started
<1>12. RejectInv'
  BY <1>1 DEF RejectInv, hasFatalFailure, SkippedOnlyAfterFailure, SubmitInv, Submitting,
         Unstarted, StatusOf, Ownership, HeldByBody, HeldByParties, HeldByOutcome,
         HeldByCont, Started
<1>13. FailureAttributed'
  BY <1>1 DEF RecordInv, RejectInv, FailureAttributed, hasFatalFailure, SubmitInv,
         Submitting, Unstarted, StatusOf, Errors, Ownership, HeldByBody, HeldByParties,
         HeldByOutcome, HeldByCont, Started
<1>14. TodoInv'
  BY <1>1 DEF TodoInv, Satisfied, Unstarted, StatusOf, Ownership, HeldByBody,
         HeldByParties, HeldByOutcome, HeldByCont, Started
<1>15. TodoOnce'
  BY <1>1 DEF TodoInv, TodoOnce, Satisfied, Started, Ownership, HeldByBody,
         HeldByParties, HeldByOutcome, HeldByCont, Started
<1>16. DependencyOrder'
  BY <1>1 DEF DependencyOrder, Satisfied, SubmitInv, Submitting, PartyInv, Unstarted,
         Ownership, HeldByBody, HeldByParties, HeldByOutcome, HeldByCont, Started
<1>17. CountInv'
  <2>1. \A i \in Jobs : Unreleased(i)' \subseteq Unreleased(i)
    BY <1>1 DEF Unreleased, InEdges, Satisfied, SubmitInv, Submitting, Unstarted,
           Ownership, HeldByBody, HeldByParties, HeldByOutcome, HeldByCont, Started
  <2> QED
    BY <2>1, CountKept
<1>18. OwesInv'
  BY <1>1 DEF OwesInv, BeforeFinish, SubmitInv, Submitting, PartyInv
<1>19. InFlightExact'
  <2>1. \A i \in Jobs : Undelivered(i)' <=> Undelivered(i)
    BY DEF Undelivered, SubmitInv, Submitting, PartyInv,
           Ownership, HeldByBody, HeldByParties, HeldByOutcome, HeldByCont, Started
  <2> QED
    BY <2>1, InFlightKept
<1> QED
  BY <1>1, <1>2, <1>3, <1>4, <1>5, <1>6, <1>7, <1>8, <1>9, <1>10, <1>11, <1>12, <1>13,
     <1>14, <1>15, <1>16, <1>17, <1>18, <1>19

\* The drain loop of skipNode() claims only jobs that have not started.
LEMMA DrainIInv ==
  ASSUME IInv, NEW t \in Threads, Drain(t)
  PROVE  IInv'
<1> USE GraphAssumption, ThreadFacts, LabelFacts DEF IInv, Drain, Goto, TypeOK, ControlOK,
      DataOK, LabelsOf
<1>1. \A i \in Jobs :
        status'[i] # status[i] => status[i] \in Unstarted /\ status'[i] = "kSkipped"
  <2>1. CASE \E i \in undrained : DrainOne(i, {})
    <3>1. PICK i \in undrained : EnqueueSkip(Successors(i) \cup {})
      BY <2>1 DEF DrainOne
    <3> QED
      BY <3>1, SkipEffect
  <2> QED
    BY <2>1
<1>2. ControlOK'
  BY <1>1
<1>3. DataOK'
  <2>1. (status \in [Jobs -> Status])'
    BY SkipEffect DEF DrainOne
  <2>2. (completed \in Nat)'
    BY DEF DrainOne
  <2>3. (undrained \subseteq Jobs)'
    BY ClaimableJobs DEF DrainOne, Claimable
  <2>4. (draining \in BOOLEAN)'
    BY <1>1
  <2> QED
    BY <2>1, <2>2, <2>3, <2>4
<1>4. Ownership' /\ PartyInv'
  BY <1>1 DEF PartyInv, SubmitInv, PendingInv, Submitting, Unstarted, StatusOf,
         Ownership, HeldByBody, HeldByParties, HeldByOutcome, HeldByCont, Started
<1>5. SubmitInv' /\ SubmitOnce' /\ PendingInv' /\ RootInv'
  BY <1>1 DEF SubmitInv, SubmitOnce, PendingInv, RootInv, Submitting, Unstarted,
         StatusOf, Roots, InEdges, TodoInv, Ownership, HeldByBody, HeldByParties,
         HeldByOutcome, HeldByCont, Started
<1>6. SkipInv' /\ SkippedOnlyAfterFailure' /\ RecordInv' /\ RejectInv' /\ FailureAttributed'
  BY <1>1 DEF SkipInv, SkippedOnlyAfterFailure, RecordInv, RejectInv, FailureAttributed,
         hasFatalFailure, SubmitInv, Submitting, Unstarted, StatusOf, Errors, Ownership,
         HeldByBody, HeldByParties, HeldByOutcome, HeldByCont, Started
<1>7. TodoInv' /\ TodoOnce' /\ DependencyOrder'
  BY <1>1 DEF TodoInv, TodoOnce, DependencyOrder, Satisfied, SubmitInv, Submitting,
         Unstarted, Ownership, HeldByBody, HeldByParties, HeldByOutcome, HeldByCont,
         Started
<1>8. CountInv'
  <2>1. \A i \in Jobs : Unreleased(i)' \subseteq Unreleased(i)
    BY <1>1 DEF Unreleased, InEdges, Satisfied, SubmitInv, Submitting, Unstarted,
           Ownership, HeldByBody, HeldByParties, HeldByOutcome, HeldByCont, Started
  <2> QED
    BY <2>1, CountKept
<1>9. OwesInv'
  BY <1>1 DEF OwesInv, BeforeFinish, SubmitInv, Submitting, PartyInv
<1>10. InFlightExact'
  <2>1. \A i \in Jobs : Undelivered(i)' <=> Undelivered(i)
    BY DEF Undelivered, SubmitInv, Submitting, PartyInv,
           Ownership, HeldByBody, HeldByParties, HeldByOutcome, HeldByCont, Started
  <2> QED
    BY <2>1, InFlightKept
<1> QED
  BY <1>1, <1>2, <1>3, <1>4, <1>5, <1>6, <1>7, <1>8, <1>9, <1>10

\* Leaving skipNode() changes the thread's position only.
LEMMA SkipsDoneIInv ==
  ASSUME IInv, NEW t \in Threads, SkipsDone(t)
  PROVE  IInv'
<1> USE GraphAssumption, ThreadFacts, LabelFacts DEF IInv, SkipsDone, Goto, Resume, shared,
      TypeOK, ControlOK, DataOK, LabelsOf
<1>1. ControlOK'
  OBVIOUS
<1>2. DataOK'
  BY DEF Status, Unstarted, Final, Errors, StatusOf, Roots
<1>3. Ownership' /\ PartyInv'
  BY DEF PartyInv, SubmitInv, PendingInv, Submitting, Unstarted, StatusOf, Ownership,
         HeldByBody, HeldByParties, HeldByOutcome, HeldByCont, Started
<1>4. SubmitInv' /\ SubmitOnce' /\ PendingInv' /\ RootInv'
  BY DEF SubmitInv, SubmitOnce, PendingInv, RootInv, Submitting, Unstarted, StatusOf,
         Roots, InEdges, TodoInv, Ownership, HeldByBody, HeldByParties, HeldByOutcome,
         HeldByCont, Started
<1>5. SkipInv' /\ SkippedOnlyAfterFailure' /\ RecordInv' /\ RejectInv' /\ FailureAttributed'
  BY DEF SkipInv, SkippedOnlyAfterFailure, RecordInv, RejectInv, FailureAttributed,
         hasFatalFailure, SubmitInv, Submitting, Unstarted, StatusOf, Errors, Ownership,
         HeldByBody, HeldByParties, HeldByOutcome, HeldByCont, Started
<1>6. TodoInv' /\ TodoOnce' /\ DependencyOrder'
  BY DEF TodoInv, TodoOnce, DependencyOrder, Satisfied, SubmitInv, Submitting, Unstarted,
         Ownership, HeldByBody, HeldByParties, HeldByOutcome, HeldByCont, Started
<1>7. CountInv'
  <2>1. \A i \in Jobs : Unreleased(i)' \subseteq Unreleased(i)
    BY DEF Unreleased, InEdges, Satisfied, SubmitInv, Submitting, Unstarted,
           Ownership, HeldByBody, HeldByParties, HeldByOutcome, HeldByCont, Started
  <2> QED
    BY <2>1, CountKept
<1>8. OwesInv'
  BY DEF OwesInv, BeforeFinish, SubmitInv, Submitting, PartyInv
<1>9. InFlightExact'
  <2>1. \A i \in Jobs : Undelivered(i)' <=> Undelivered(i)
    BY DEF Undelivered, SubmitInv, Submitting, PartyInv,
           Ownership, HeldByBody, HeldByParties, HeldByOutcome, HeldByCont, Started
  <2> QED
    BY <2>1, InFlightKept
<1> QED
  BY <1>1, <1>2, <1>3, <1>4, <1>5, <1>6, <1>7, <1>8, <1>9

\* The thread that submits a job hands it over to a callback that was idle.
LEMMA SubmitIInv ==
  ASSUME IInv, NEW t \in Threads, Submit(t)
  PROVE  IInv'
<1> USE GraphAssumption, ThreadFacts, LabelFacts DEF IInv, Submit, Goto, Resume, shared,
      TypeOK, ControlOK, DataOK, LabelsOf
<1>1. ControlOK'
  BY DEF SubmitInv, Submitting
<1>2. DataOK'
  BY DEF Status, Unstarted, Final, Errors, StatusOf, Roots
<1>3. Ownership' /\ PartyInv'
  BY DEF PartyInv, SubmitInv, PendingInv, Submitting, Unstarted, StatusOf, Ownership,
         HeldByBody, HeldByParties, HeldByOutcome, HeldByCont, Started
<1>4. SubmitInv'
  BY DEF SubmitInv, SubmitOnce, Submitting, PendingInv, RootInv, Unstarted, StatusOf,
         Ownership, HeldByBody, HeldByParties, HeldByOutcome, HeldByCont, Started
<1>5. SubmitOnce'
  BY DEF SubmitInv, SubmitOnce, Submitting, RootInv, Resume
<1>6. PendingInv'
  BY DEF PendingInv, SubmitInv, Submitting, Unstarted, StatusOf
<1>7. RootInv'
  BY DEF RootInv, Submitting, SubmitInv, Unstarted, Roots, InEdges, TodoInv,Ownership,
         HeldByBody, HeldByParties, HeldByOutcome, HeldByCont, Started
<1>8. SkipInv'
  BY DEF SkipInv, RejectInv, hasFatalFailure, RecordInv
<1>9. SkippedOnlyAfterFailure'
  BY DEF SkipInv, SkippedOnlyAfterFailure, hasFatalFailure, StatusOf, Unstarted
<1>10. RecordInv'
  BY DEF RecordInv, SubmitInv, Submitting, Unstarted, StatusOf, Errors, PartyInv,
         Ownership, HeldByBody, HeldByParties, HeldByOutcome, HeldByCont, Started
<1>11. RejectInv'
  BY DEF RejectInv, hasFatalFailure, SkippedOnlyAfterFailure, SubmitInv, Submitting,
         Unstarted, StatusOf, Ownership, HeldByBody, HeldByParties, HeldByOutcome,
         HeldByCont, Started
<1>12. FailureAttributed'
  BY DEF RecordInv, RejectInv, FailureAttributed, hasFatalFailure, SubmitInv, Submitting,
         Unstarted, StatusOf, Errors, Ownership, HeldByBody, HeldByParties, HeldByOutcome,
         HeldByCont, Started
<1>13. TodoInv' /\ TodoOnce' /\ DependencyOrder'
  BY DEF TodoInv, TodoOnce, DependencyOrder, Satisfied, SubmitInv, Submitting, Unstarted,
         Ownership, HeldByBody, HeldByParties, HeldByOutcome, HeldByCont, Started
<1>14. CountInv'
  <2>1. \A i \in Jobs : Unreleased(i)' \subseteq Unreleased(i)
    BY DEF Unreleased, InEdges, Satisfied, SubmitInv, Submitting, Unstarted,
           Ownership, HeldByBody, HeldByParties, HeldByOutcome, HeldByCont, Started
  <2> QED
    BY <2>1, CountKept
<1>15. OwesInv'
  BY DEF OwesInv, BeforeFinish, SubmitInv, Submitting, PartyInv
<1>16. InFlightExact'
  <2>1. \A i \in Jobs : Undelivered(i)' <=> Undelivered(i)
    BY DEF Undelivered, SubmitInv, Submitting, PartyInv,
           Ownership, HeldByBody, HeldByParties, HeldByOutcome, HeldByCont, Started
  <2> QED
    BY <2>1, InFlightKept
<1> QED
  BY <1>1, <1>2, <1>3, <1>4, <1>5, <1>6, <1>7, <1>8, <1>9, <1>10, <1>11, <1>12, <1>13,
     <1>14, <1>15, <1>16

\* submissionFailed() claims a job that no callback holds.
LEMMA SubmissionFailedIInv ==
  ASSUME IInv, NEW t \in Threads, SubmissionFailed(t)
  PROVE  IInv'
<1> USE GraphAssumption, ThreadFacts, LabelFacts DEF IInv, SubmissionFailed, Goto, TypeOK,
      ControlOK, DataOK, LabelsOf
<1>1. ControlOK'
  OBVIOUS
<1>2. DataOK'
  <2>1. (status \in [Jobs -> Status])'
    BY DEF Status, Unstarted, Final, StatusOf
  <2> QED
    BY <2>1
<1>3. Ownership' /\ PartyInv'
  BY DEF PartyInv, SubmitInv, PendingInv, Submitting, Unstarted, StatusOf, Ownership,
         HeldByBody, HeldByParties, HeldByOutcome, HeldByCont, Started
<1>4. SubmitInv' /\ SubmitOnce' /\ PendingInv' /\ RootInv'
  BY DEF SubmitInv, SubmitOnce, PendingInv, RootInv, Submitting, Unstarted, StatusOf,
         Roots, InEdges, TodoInv, Ownership, HeldByBody, HeldByParties, HeldByOutcome,
         HeldByCont, Started
<1>5. SkipInv' /\ SkippedOnlyAfterFailure' /\ RecordInv' /\ RejectInv' /\ FailureAttributed'
  BY DEF SkipInv, SkippedOnlyAfterFailure, RecordInv, RejectInv, FailureAttributed,
         hasFatalFailure, SubmitInv, Submitting, Unstarted, StatusOf, Errors, Ownership,
         HeldByBody, HeldByParties, HeldByOutcome, HeldByCont, Started
<1>6. TodoInv' /\ TodoOnce' /\ DependencyOrder'
  BY DEF TodoInv, TodoOnce, DependencyOrder, Satisfied, SubmitInv, Submitting, Unstarted,
         Ownership, HeldByBody, HeldByParties, HeldByOutcome, HeldByCont, Started
<1>7. CountInv'
  <2>1. \A i \in Jobs : Unreleased(i)' \subseteq Unreleased(i)
    BY DEF Unreleased, InEdges, Satisfied, SubmitInv, Submitting, Unstarted,
           Ownership, HeldByBody, HeldByParties, HeldByOutcome, HeldByCont, Started
  <2> QED
    BY <2>1, CountKept
<1>8. OwesInv'
  BY DEF OwesInv, BeforeFinish, SubmitInv, Submitting, PartyInv
<1>9. InFlightExact'
  <2>1. \A i \in Jobs : Undelivered(i)' <=> Undelivered(i)
    BY DEF Undelivered, SubmitInv, Submitting, PartyInv,
           Ownership, HeldByBody, HeldByParties, HeldByOutcome, HeldByCont, Started
  <2> QED
    BY <2>1, InFlightKept
<1> QED
  BY <1>1, <1>2, <1>3, <1>4, <1>5, <1>6, <1>7, <1>8, <1>9

\* A rejected submission is recorded before anything is skipped.
LEMMA RecordRejectedIInv ==
  ASSUME IInv, NEW t \in Threads, RecordRejected(t)
  PROVE  IInv'
<1> USE GraphAssumption, ThreadFacts, LabelFacts DEF IInv, RecordRejected, RecordFailure,
      Goto, TypeOK, ControlOK, DataOK, LabelsOf
<1>1. ControlOK'
  OBVIOUS
<1>2. DataOK'
  BY DEF Status, Unstarted, Final, Errors, StatusOf, Roots
<1>3. Ownership' /\ PartyInv'
  BY DEF PartyInv, SubmitInv, PendingInv, Submitting, Unstarted, StatusOf, Ownership,
         HeldByBody, HeldByParties, HeldByOutcome, HeldByCont, Started
<1>4. SubmitInv' /\ SubmitOnce' /\ PendingInv' /\ RootInv'
  BY DEF SubmitInv, SubmitOnce, PendingInv, RootInv, Submitting, Unstarted, StatusOf,
         Roots, InEdges, TodoInv, Ownership, HeldByBody, HeldByParties, HeldByOutcome,
         HeldByCont, Started
<1>5. SkipInv' /\ SkippedOnlyAfterFailure' /\ RecordInv' /\ RejectInv' /\ FailureAttributed'
  BY DEF SkipInv, SkippedOnlyAfterFailure, RecordInv, RejectInv, FailureAttributed,
         hasFatalFailure, SubmitInv, Submitting, Unstarted, StatusOf, Errors, Ownership,
         HeldByBody, HeldByParties, HeldByOutcome, HeldByCont, Started
<1>6. TodoInv' /\ TodoOnce' /\ DependencyOrder'
  BY DEF TodoInv, TodoOnce, DependencyOrder, Satisfied, SubmitInv, Submitting, Unstarted,
         Ownership, HeldByBody, HeldByParties, HeldByOutcome, HeldByCont, Started
<1>7. CountInv'
  <2>1. \A i \in Jobs : Unreleased(i)' \subseteq Unreleased(i)
    BY DEF Unreleased, InEdges, Satisfied, SubmitInv, Submitting, Unstarted,
           Ownership, HeldByBody, HeldByParties, HeldByOutcome, HeldByCont, Started
  <2> QED
    BY <2>1, CountKept
<1>8. OwesInv'
  BY DEF OwesInv, BeforeFinish, SubmitInv, Submitting, PartyInv
<1>9. InFlightExact'
  <2>1. \A i \in Jobs : Undelivered(i)' <=> Undelivered(i)
    BY DEF Undelivered, SubmitInv, Submitting, PartyInv,
           Ownership, HeldByBody, HeldByParties, HeldByOutcome, HeldByCont, Started
  <2> QED
    BY <2>1, InFlightKept
<1> QED
  BY <1>1, <1>2, <1>3, <1>4, <1>5, <1>6, <1>7, <1>8, <1>9

\* The one holder of a started job gives it its final status.
LEMMA FinishJobIInv ==
  ASSUME IInv, NEW t \in Threads, FinishJob(t)
  PROVE  IInv'
<1> USE GraphAssumption, ThreadFacts, LabelFacts DEF IInv, FinishJob, Goto, IsFatal,
      OutEdges, TypeOK, ControlOK, DataOK, LabelsOf
<1>1. JobOf(t) \in Jobs /\ t # RunThread /\ status[JobOf(t)] \in Started
  BY DEF Ownership, HeldByBody, HeldByParties, HeldByOutcome, HeldByCont, Started
<1>2. ControlOK'
  BY <1>1
<1>3. DataOK'
  <2>1. (status \in [Jobs -> Status])'
    BY <1>1 DEF Status, Unstarted, Final, StatusOf
  <2>2. (completed \in Nat)'
    BY <1>1
  <2>3. (todo \in [Threads -> SUBSET Edges])'
    BY <1>1
  <2> QED
    BY <2>1, <2>2, <2>3
<1>4. Ownership' /\ PartyInv'
  BY <1>1 DEF PartyInv, SubmitInv, PendingInv, Submitting, Unstarted, StatusOf,
         Ownership, HeldByBody, HeldByParties, HeldByOutcome, HeldByCont, Started
<1>5. SubmitInv'
  BY <1>1 DEF SubmitInv, SubmitOnce, Submitting, PendingInv, RootInv, Unstarted,
         StatusOf, Ownership, HeldByBody, HeldByParties, HeldByOutcome, HeldByCont, Started
<1>6. SubmitOnce'
  BY <1>1 DEF SubmitInv, SubmitOnce, Submitting, RootInv, Resume
<1>7. PendingInv'
  BY <1>1 DEF PendingInv, SubmitInv, Submitting, Unstarted, StatusOf
<1>8. RootInv'
  BY <1>1 DEF RootInv, Submitting, SubmitInv, Unstarted, Roots, InEdges,
         TodoInv,Ownership, HeldByBody, HeldByParties, HeldByOutcome, HeldByCont, Started
<1>9. SkipInv' /\ SkippedOnlyAfterFailure' /\ RecordInv' /\ RejectInv' /\ FailureAttributed'
  BY <1>1 DEF SkipInv, SkippedOnlyAfterFailure, RecordInv, RejectInv, FailureAttributed,
         hasFatalFailure, SubmitInv, Submitting, Unstarted, StatusOf, Errors, Ownership,
         HeldByBody, HeldByParties, HeldByOutcome, HeldByCont, Started
<1>10. TodoInv'
  BY <1>1 DEF TodoInv, Satisfied, Unstarted, StatusOf, Ownership, HeldByBody,
         HeldByParties, HeldByOutcome, HeldByCont, Started
<1>11. TodoOnce'
  <2>1. \A u \in Threads : todo[u] \cap OutEdges(JobOf(t)) = {}
    BY <1>1 DEF TodoInv, Satisfied, Started
  <2> QED
    BY <1>1, <2>1 DEF TodoOnce
<1>12. DependencyOrder'
  <2> DEFINE j == JobOf(t)
  <2> SUFFICES ASSUME NEW e \in Edges, status'[e.to] \notin {"kPending", "kSkipped"}
               PROVE  Satisfied(e.from)'
    BY DEF DependencyOrder
  <2>1. status[e.to] \notin {"kPending", "kSkipped"}
    BY <1>1 DEF Started
  <2>2. Satisfied(e.from) /\ e.from # j
    BY <1>1, <2>1 DEF DependencyOrder, Satisfied, Started
  <2> QED
    BY <1>1, <2>2 DEF Satisfied
<1>13. CountInv'
  <2>1. ~Satisfied(JobOf(t))
    BY <1>1 DEF Satisfied, Started
  <2>2. \A i \in Jobs : Unreleased(i)' \subseteq Unreleased(i)
    BY <1>1, <2>1 DEF Unreleased, InEdges, Satisfied
  <2> QED
    BY <2>2, CountKept
<1>14. OwesInv'
  BY <1>1 DEF OwesInv, BeforeFinish, SubmitInv, Submitting, PartyInv
<1>15. InFlightExact'
  <2>1. \A i \in Jobs : Undelivered(i)' <=> Undelivered(i)
    BY DEF Undelivered, SubmitInv, Submitting, PartyInv,
           Ownership, HeldByBody, HeldByParties, HeldByOutcome, HeldByCont, Started
  <2> QED
    BY <2>1, InFlightKept
<1> QED
  BY <1>1, <1>2, <1>3, <1>4, <1>5, <1>6, <1>7, <1>8, <1>9, <1>10, <1>11, <1>12, <1>13,
     <1>14, <1>15

\* The failure recorded is the final status of the finished job.
LEMMA RecordJobFailureIInv ==
  ASSUME IInv, NEW t \in Threads, RecordJobFailure(t)
  PROVE  IInv'
<1> USE GraphAssumption, ThreadFacts, LabelFacts DEF IInv, RecordJobFailure, RecordFailure,
      Goto, Successors, OutEdges, TypeOK, ControlOK, DataOK, LabelsOf
<1>1. ControlOK'
  OBVIOUS
<1>2. DataOK'
  <2>1. (failedJob \in Jobs \cup {NoJob} /\ fatalError \in Errors)'
    BY DEF RecordInv
  <2>2. (skips \in [Threads -> SUBSET Jobs])'
    OBVIOUS
  <2> QED
    BY <2>1, <2>2
<1>3. Ownership' /\ PartyInv'
  BY DEF PartyInv, SubmitInv, PendingInv, Submitting, Unstarted, StatusOf, Ownership,
         HeldByBody, HeldByParties, HeldByOutcome, HeldByCont, Started
<1>4. SubmitInv' /\ SubmitOnce' /\ PendingInv' /\ RootInv'
  BY DEF SubmitInv, SubmitOnce, PendingInv, RootInv, Submitting, Unstarted, StatusOf,
         Roots, InEdges, TodoInv, Ownership, HeldByBody, HeldByParties, HeldByOutcome,
         HeldByCont, Started
<1>5. SkipInv' /\ SkippedOnlyAfterFailure' /\ RecordInv' /\ RejectInv' /\ FailureAttributed'
  BY DEF SkipInv, SkippedOnlyAfterFailure, RecordInv, RejectInv, FailureAttributed,
         hasFatalFailure, SubmitInv, Submitting, Unstarted, StatusOf, Errors, Ownership,
         HeldByBody, HeldByParties, HeldByOutcome, HeldByCont, Started
<1>6. TodoInv' /\ TodoOnce' /\ DependencyOrder'
  BY DEF TodoInv, TodoOnce, DependencyOrder, Satisfied, SubmitInv, Submitting, Unstarted,
         Ownership, HeldByBody, HeldByParties, HeldByOutcome, HeldByCont, Started
<1>7. CountInv'
  <2>1. \A i \in Jobs : Unreleased(i)' \subseteq Unreleased(i)
    BY DEF Unreleased, InEdges, Satisfied, SubmitInv, Submitting, Unstarted,
           Ownership, HeldByBody, HeldByParties, HeldByOutcome, HeldByCont, Started
  <2> QED
    BY <2>1, CountKept
<1>8. OwesInv'
  BY DEF OwesInv, BeforeFinish, SubmitInv, Submitting, PartyInv
<1>9. InFlightExact'
  <2>1. \A i \in Jobs : Undelivered(i)' <=> Undelivered(i)
    BY DEF Undelivered, SubmitInv, Submitting, PartyInv,
           Ownership, HeldByBody, HeldByParties, HeldByOutcome, HeldByCont, Started
  <2> QED
    BY <2>1, InFlightKept
<1> QED
  BY <1>1, <1>2, <1>3, <1>4, <1>5, <1>6, <1>7, <1>8, <1>9

\* The successor loop keeps the edges it has left.
LEMMA NextEdgeIInv ==
  ASSUME IInv, NEW t \in Threads, NextEdge(t)
  PROVE  IInv'
<1> USE GraphAssumption, ThreadFacts, LabelFacts DEF IInv, NextEdge, Goto, shared, TypeOK,
      ControlOK, DataOK, LabelsOf
<1>1. ControlOK'
  <2>1. Goto(t, "skip") \/ Goto(t, "release")
    OBVIOUS
  <2>2. t # RunThread
    OBVIOUS
  <2> QED
    BY <2>1, <2>2, GotoOK
<1>2. DataOK'
  <2>1. (todo \in [Threads -> SUBSET Edges])'
    OBVIOUS
  <2>2. (skips \in [Threads -> SUBSET Jobs])'
    OBVIOUS
  <2>3. (cur \in [Threads -> Jobs \cup {NoJob}])'
    OBVIOUS
  <2> QED
    BY <2>1, <2>2, <2>3
<1>3. Ownership' /\ PartyInv'
  BY DEF PartyInv, SubmitInv, PendingInv, Submitting, Unstarted, StatusOf, Ownership,
         HeldByBody, HeldByParties, HeldByOutcome, HeldByCont, Started
<1>4. SubmitInv'
  BY DEF SubmitInv, SubmitOnce, Submitting, PendingInv, RootInv, Unstarted, StatusOf,
         Ownership, HeldByBody, HeldByParties, HeldByOutcome, HeldByCont, Started
<1>5. SubmitOnce'
  BY DEF SubmitInv, SubmitOnce, Submitting, RootInv, Resume
<1>6. PendingInv'
  BY DEF PendingInv, SubmitInv, Submitting, Unstarted, StatusOf
<1>7. RootInv'
  BY DEF RootInv, Submitting, SubmitInv, Unstarted, Roots, InEdges, TodoInv,Ownership,
         HeldByBody, HeldByParties, HeldByOutcome, HeldByCont, Started
<1>8. SkipInv'
  BY DEF SkipInv, RejectInv, hasFatalFailure, RecordInv
<1>9. SkippedOnlyAfterFailure'
  BY DEF SkipInv, SkippedOnlyAfterFailure, hasFatalFailure, StatusOf, Unstarted
<1>10. RecordInv'
  BY DEF RecordInv, SubmitInv, Submitting, Unstarted, StatusOf, Errors, PartyInv,
         Ownership, HeldByBody, HeldByParties, HeldByOutcome, HeldByCont, Started
<1>11. RejectInv'
  BY DEF RejectInv, hasFatalFailure, SkippedOnlyAfterFailure, SubmitInv, Submitting,
         Unstarted, StatusOf, Ownership, HeldByBody, HeldByParties, HeldByOutcome,
         HeldByCont, Started
<1>12. FailureAttributed'
  BY DEF RecordInv, RejectInv, FailureAttributed, hasFatalFailure, SubmitInv, Submitting,
         Unstarted, StatusOf, Errors, Ownership, HeldByBody, HeldByParties, HeldByOutcome,
         HeldByCont, Started
<1>13. TodoInv'
  <2>1. \A u \in Threads : todo'[u] \subseteq todo[u]
    OBVIOUS
  <2> QED
    BY <2>1 DEF TodoInv, Satisfied
<1>14. TodoOnce'
  BY DEF TodoInv, TodoOnce, Satisfied, Started, Ownership, HeldByBody, HeldByParties,
         HeldByOutcome, HeldByCont, Started
<1>15. DependencyOrder'
  BY DEF DependencyOrder, Satisfied, SubmitInv, Submitting, PartyInv, Unstarted, Ownership,
         HeldByBody, HeldByParties, HeldByOutcome, HeldByCont, Started
<1>16. CountInv'
  <2>1. \A i \in Jobs : Unreleased(i)' \subseteq Unreleased(i)
    BY DEF Unreleased, InEdges, Satisfied, SubmitInv, Submitting, Unstarted,
           Ownership, HeldByBody, HeldByParties, HeldByOutcome, HeldByCont, Started
  <2> QED
    BY <2>1, CountKept
<1>17. OwesInv'
  BY DEF OwesInv, BeforeFinish, SubmitInv, Submitting, PartyInv
<1>18. InFlightExact'
  <2>1. \A i \in Jobs : Undelivered(i)' <=> Undelivered(i)
    BY DEF Undelivered, SubmitInv, Submitting, PartyInv,
           Ownership, HeldByBody, HeldByParties, HeldByOutcome, HeldByCont, Started
  <2> QED
    BY <2>1, InFlightKept
<1> QED
  BY <1>1, <1>2, <1>3, <1>4, <1>5, <1>6, <1>7, <1>8, <1>9, <1>10, <1>11, <1>12, <1>13,
     <1>14, <1>15, <1>16, <1>17, <1>18

\* The last unreleased edge of a successor is the one released here, so every
\* other predecessor is satisfied when the successor becomes ready.
LEMMA ReleaseIInv ==
  ASSUME IInv, NEW t \in Threads, Release(t)
  PROVE  IInv'
<1> USE GraphAssumption, ThreadFacts, LabelFacts DEF IInv, Release, Goto, TypeOK,
      ControlOK, DataOK, LabelsOf
<1>1. PICK e \in todo[t] : e.to = cur[t] /\ todo' = [todo EXCEPT ![t] = @ \ {e}]
  OBVIOUS
<1>2. /\ e \in Edges /\ cur[t] \in Jobs /\ Satisfied(e.from)
      /\ e \in Unreleased(cur[t])
      /\ IsFiniteSet(Unreleased(cur[t]))
  BY <1>1, FS_Subset DEF TodoInv, Unreleased, InEdges
<1>3. /\ Cardinality(Unreleased(cur[t]) \ {e}) = Cardinality(Unreleased(cur[t])) - 1
      /\ Cardinality(Unreleased(cur[t]) \ {e}) \in Nat
      /\ Cardinality(Unreleased(cur[t])) \in Nat /\ unmet[cur[t]] \in Nat
      /\ Cardinality(Unreleased(cur[t])) <= unmet[cur[t]]
  <2>1. Cardinality(Unreleased(cur[t])) <= unmet[cur[t]] /\ unmet[cur[t]] \in Nat
    BY <1>2 DEF CountInv
  <2> QED
    BY <1>2, <2>1, RemoveOne
<1>4. ControlOK'
  BY <1>1, <1>2, <1>3
<1>5. DataOK'
  <2>1. (status \in [Jobs -> Status])'
    BY <1>2 DEF Status, Unstarted
  <2>2. (unmet \in [Jobs -> Nat])'
    BY <1>2, <1>3
  <2>3. (todo \in [Threads -> SUBSET Edges])'
    BY <1>1, <1>2, <1>3
  <2> QED
    BY <2>1, <2>2, <2>3
<1>6. Ownership'
  BY <1>1, <1>2, <1>3 DEF PartyInv, SubmitInv, Submitting, Unstarted, StatusOf,
         Ownership, HeldByBody, HeldByParties, HeldByOutcome, HeldByCont, Started
<1>7. PartyInv'
  BY <1>1, <1>2, <1>3 DEF PartyInv, SubmitInv, Submitting, Ownership, HeldByBody,
         HeldByParties, HeldByOutcome, HeldByCont, Started
<1>8. SubmitInv'
  BY <1>1, <1>2, <1>3 DEF SubmitInv, SubmitOnce, Submitting, PendingInv, RootInv,
         Unstarted, StatusOf, Ownership, HeldByBody, HeldByParties, HeldByOutcome,
         HeldByCont, Started
<1>9. SubmitOnce'
  BY <1>1, <1>2, <1>3 DEF SubmitInv, SubmitOnce, Submitting, RootInv, Resume
<1>10. PendingInv'
  BY <1>1, <1>2, <1>3 DEF PendingInv, SubmitInv, Submitting, Unstarted, StatusOf
<1>11. RootInv'
  BY <1>1, <1>2, <1>3 DEF RootInv, Submitting, SubmitInv, Unstarted, Roots, InEdges,
         TodoInv,Ownership, HeldByBody, HeldByParties, HeldByOutcome, HeldByCont, Started
<1>12. SkipInv' /\ SkippedOnlyAfterFailure' /\ RecordInv' /\ RejectInv' /\ FailureAttributed'
  BY <1>1, <1>2, <1>3 DEF SkipInv, SkippedOnlyAfterFailure, RecordInv, RejectInv,
         FailureAttributed, hasFatalFailure, SubmitInv, Submitting, Unstarted, StatusOf,
         Errors, Ownership, HeldByBody, HeldByParties, HeldByOutcome, HeldByCont, Started
<1>13. TodoInv'
  BY <1>1, <1>2, <1>3 DEF TodoInv, Satisfied, Unstarted, StatusOf, Ownership,
         HeldByBody, HeldByParties, HeldByOutcome, HeldByCont, Started
<1>14. TodoOnce'
  BY <1>1, <1>2, <1>3 DEF TodoInv, TodoOnce, Satisfied, Started, Ownership,
         HeldByBody, HeldByParties, HeldByOutcome, HeldByCont, Started
<1>15. DependencyOrder'
  <2> SUFFICES ASSUME NEW f \in Edges, status'[f.to] \notin {"kPending", "kSkipped"}
               PROVE  Satisfied(f.from)'
    BY DEF DependencyOrder
  <2>1. \A k \in Jobs : Satisfied(k)' <=> Satisfied(k)
    BY <1>2 DEF Satisfied
  <2>2. CASE status[f.to] \notin {"kPending", "kSkipped"}
    BY <2>1, <2>2 DEF DependencyOrder
  <2>3. CASE status[f.to] \in {"kPending", "kSkipped"}
    <3>1. f.to = cur[t] /\ unmet[cur[t]] = 1
      BY <1>2, <2>3
    <3>2. Unreleased(cur[t]) \ {e} = {}
      <4>1. IsFiniteSet(Unreleased(cur[t]) \ {e}) /\ Cardinality(Unreleased(cur[t]) \ {e}) = 0
        BY <1>2, <1>3, <3>1, FS_Subset
      <4> QED
        BY <4>1, FS_EmptySet
    <3>3. Satisfied(f.from)
      BY <1>2, <3>1, <3>2 DEF Unreleased, InEdges
    <3> QED
      BY <2>1, <3>3
  <2> QED
    BY <2>2, <2>3
<1>16. CountInv'
  <2> SUFFICES ASSUME NEW i \in Jobs PROVE Cardinality(Unreleased(i)') <= unmet'[i]
    BY DEF CountInv
  <2>1. \A k \in Jobs : Satisfied(k)' <=> Satisfied(k)
    BY <1>2 DEF Satisfied
  <2>2. CASE i = cur[t]
    <3>1. Unreleased(i)' = Unreleased(i) \ {e}
      BY <1>1, <1>2, <2>1, <2>2 DEF Unreleased, InEdges, TodoOnce
    <3> QED
      BY <1>2, <1>3, <2>2, <3>1
  <2>3. CASE i # cur[t]
    <3>1. Unreleased(i)' = Unreleased(i)
      BY <1>1, <1>2, <2>1, <2>3 DEF Unreleased, InEdges
    <3> QED
      BY <1>2, <2>3, <3>1 DEF CountInv
  <2> QED
    BY <2>2, <2>3
<1>17. OwesInv'
  BY <1>1, <1>2, <1>3 DEF OwesInv, BeforeFinish, SubmitInv, Submitting, PartyInv
<1>18. InFlightExact'
  <2>1. \A i \in Jobs : Undelivered(i)' <=> Undelivered(i)
    BY DEF Undelivered, SubmitInv, Submitting, PartyInv,
           Ownership, HeldByBody, HeldByParties, HeldByOutcome, HeldByCont, Started
  <2> QED
    BY <2>1, InFlightKept
<1> QED
  BY <1>1, <1>2, <1>3, <1>4, <1>5, <1>6, <1>7, <1>8, <1>9, <1>10, <1>11, <1>12, <1>13,
     <1>14, <1>15, <1>16, <1>17, <1>18

\* A thread leaves with exactly the counts it owes.
LEMMA LeaveIInv ==
  ASSUME IInv, NEW t \in Threads, Leave(t)
  PROVE  IInv'
<1> USE GraphAssumption, ThreadFacts, LabelFacts DEF IInv, Leave, Goto, TypeOK, ControlOK,
      DataOK, LabelsOf
<1>1. InFlightExact' /\ inFlight' \in Nat
  <2>1. UndeliveredJobs' = UndeliveredJobs
    BY DEF UndeliveredJobs, Undelivered
  <2>2. CASE owes[t] = 0
    <3>1. Owing' = Owing /\ OwingTwo' = OwingTwo
      BY <2>2 DEF Owing, OwingTwo
    <3> QED
      BY <2>1, <2>2, <3>1, InFlightSets DEF InFlightExact
  <2>3. CASE owes[t] = 1
    <3>1. Owing' = Owing \ {t} /\ t \in Owing /\ OwingTwo' = OwingTwo
      BY <2>3 DEF Owing, OwingTwo
    <3>2. Cardinality(Owing') = Cardinality(Owing) - 1 /\ Cardinality(Owing') \in Nat
      BY <3>1, InFlightSets, RemoveOne
    <3> QED
      BY <2>1, <2>3, <3>1, <3>2, InFlightSets DEF InFlightExact
  <2>4. CASE owes[t] = 2
    <3>1. /\ Owing' = Owing \ {t} /\ t \in Owing
          /\ OwingTwo' = OwingTwo \ {t} /\ t \in OwingTwo
      BY <2>4 DEF Owing, OwingTwo
    <3>2. Cardinality(Owing') = Cardinality(Owing) - 1 /\ Cardinality(Owing') \in Nat
      BY <3>1, InFlightSets, RemoveOne
    <3>3. Cardinality(OwingTwo') = Cardinality(OwingTwo) - 1 /\ Cardinality(OwingTwo') \in Nat
      BY <3>1, InFlightSets, RemoveOne
    <3> QED
      BY <2>1, <2>4, <3>1, <3>2, <3>3, InFlightSets DEF InFlightExact
  <2> QED
    BY <2>2, <2>3, <2>4
<1>2. ControlOK'
  BY <1>1
<1>3. DataOK'
  <2>1. (inFlight \in Nat)'
    BY <1>1
  <2>2. (owes \in [Threads -> 0..2])'
    BY <1>1
  <2> QED
    BY <2>1, <2>2
<1>4. Ownership' /\ PartyInv'
  BY <1>1 DEF PartyInv, SubmitInv, PendingInv, Submitting, Unstarted, StatusOf,
         Ownership, HeldByBody, HeldByParties, HeldByOutcome, HeldByCont, Started
<1>5. SubmitInv' /\ SubmitOnce' /\ PendingInv' /\ RootInv'
  BY <1>1 DEF SubmitInv, SubmitOnce, PendingInv, RootInv, Submitting, Unstarted,
         StatusOf, Roots, InEdges, TodoInv, Ownership, HeldByBody, HeldByParties,
         HeldByOutcome, HeldByCont, Started
<1>6. SkipInv' /\ SkippedOnlyAfterFailure' /\ RecordInv' /\ RejectInv' /\ FailureAttributed'
  BY <1>1 DEF SkipInv, SkippedOnlyAfterFailure, RecordInv, RejectInv,
         FailureAttributed, hasFatalFailure, SubmitInv, Submitting, Unstarted, StatusOf,
         Errors, Ownership, HeldByBody, HeldByParties, HeldByOutcome, HeldByCont, Started
<1>7. TodoInv' /\ TodoOnce' /\ DependencyOrder'
  BY <1>1 DEF TodoInv, TodoOnce, DependencyOrder, Satisfied, SubmitInv, Submitting,
         Unstarted, Ownership, HeldByBody, HeldByParties, HeldByOutcome, HeldByCont,
         Started
<1>8. CountInv'
  <2>1. \A i \in Jobs : Unreleased(i)' \subseteq Unreleased(i)
    BY <1>1 DEF Unreleased, InEdges, Satisfied, SubmitInv, Submitting, Unstarted,
           Ownership, HeldByBody, HeldByParties, HeldByOutcome, HeldByCont, Started
  <2> QED
    BY <2>1, CountKept
<1>9. OwesInv'
  BY <1>1 DEF OwesInv, BeforeFinish, SubmitInv, Submitting, PartyInv
<1>10. InFlightExact'
  BY <1>1
<1> QED
  BY <1>1, <1>2, <1>3, <1>4, <1>5, <1>6, <1>7, <1>8, <1>9, <1>10

\* An accepted dispatchJob() enters, or is skipped after a failure.
LEMMA DispatchJobIInv ==
  ASSUME IInv, NEW j \in Jobs, DispatchJob(j)
  PROVE  IInv'
<1> USE GraphAssumption, ThreadFacts, LabelFacts DEF IInv, DispatchJob, Goto, shared,
      TypeOK, ControlOK, DataOK, LabelsOf
<1>1. ControlOK'
  OBVIOUS
<1>2. DataOK'
  BY DEF Status, Unstarted, Final, Errors, StatusOf, Roots
<1>3. Ownership' /\ PartyInv'
  BY DEF PartyInv, SubmitInv, PendingInv, Submitting, Unstarted, StatusOf, Ownership,
         HeldByBody, HeldByParties, HeldByOutcome, HeldByCont, Started
<1>4. SubmitInv' /\ SubmitOnce' /\ PendingInv' /\ RootInv'
  BY DEF SubmitInv, SubmitOnce, PendingInv, RootInv, Submitting, Unstarted, StatusOf,
         Roots, InEdges, TodoInv, Ownership, HeldByBody, HeldByParties, HeldByOutcome,
         HeldByCont, Started
<1>5. SkipInv' /\ SkippedOnlyAfterFailure' /\ RecordInv' /\ RejectInv' /\ FailureAttributed'
  BY DEF SkipInv, SkippedOnlyAfterFailure, RecordInv, RejectInv, FailureAttributed,
         hasFatalFailure, SubmitInv, Submitting, Unstarted, StatusOf, Errors, Ownership,
         HeldByBody, HeldByParties, HeldByOutcome, HeldByCont, Started
<1>6. TodoInv' /\ TodoOnce' /\ DependencyOrder'
  BY DEF TodoInv, TodoOnce, DependencyOrder, Satisfied, SubmitInv, Submitting, Unstarted,
         Ownership, HeldByBody, HeldByParties, HeldByOutcome, HeldByCont, Started
<1>7. CountInv'
  <2>1. \A i \in Jobs : Unreleased(i)' \subseteq Unreleased(i)
    BY DEF Unreleased, InEdges, Satisfied, SubmitInv, Submitting, Unstarted,
           Ownership, HeldByBody, HeldByParties, HeldByOutcome, HeldByCont, Started
  <2> QED
    BY <2>1, CountKept
<1>8. OwesInv'
  BY DEF OwesInv, BeforeFinish, SubmitInv, Submitting, PartyInv
<1>9. InFlightExact'
  <2>1. \A i \in Jobs : Undelivered(i)' <=> Undelivered(i)
    BY DEF Undelivered, SubmitInv, Submitting, PartyInv,
           Ownership, HeldByBody, HeldByParties, HeldByOutcome, HeldByCont, Started
  <2> QED
    BY <2>1, InFlightKept
<1> QED
  BY <1>1, <1>2, <1>3, <1>4, <1>5, <1>6, <1>7, <1>8, <1>9

\* The claim of a ready job makes its callback the holder.
LEMMA ClaimIInv ==
  ASSUME IInv, NEW j \in Jobs, Claim(j)
  PROVE  IInv'
<1> USE GraphAssumption, ThreadFacts, LabelFacts DEF IInv, Claim, Goto, TypeOK, ControlOK,
      DataOK, LabelsOf
<1>1. ControlOK'
  OBVIOUS
<1>2. DataOK'
  BY DEF Status, Unstarted, Final, Errors, StatusOf, Roots
<1>3. Ownership' /\ PartyInv'
  BY DEF PartyInv, SubmitInv, PendingInv, Submitting, Unstarted, StatusOf, Ownership,
         HeldByBody, HeldByParties, HeldByOutcome, HeldByCont, Started
<1>4. SubmitInv'
  BY DEF SubmitInv, SubmitOnce, Submitting, PendingInv, RootInv, Unstarted, StatusOf,
         Ownership, HeldByBody, HeldByParties, HeldByOutcome, HeldByCont, Started
<1>5. SubmitOnce'
  BY DEF SubmitInv, SubmitOnce, Submitting, RootInv, Resume
<1>6. PendingInv'
  BY DEF PendingInv, SubmitInv, Submitting, Unstarted, StatusOf
<1>7. RootInv'
  BY DEF RootInv, Submitting, SubmitInv, Unstarted, Roots, InEdges, TodoInv,Ownership,
         HeldByBody, HeldByParties, HeldByOutcome, HeldByCont, Started
<1>8. SkipInv' /\ SkippedOnlyAfterFailure' /\ RecordInv' /\ RejectInv' /\ FailureAttributed'
  BY DEF SkipInv, SkippedOnlyAfterFailure, RecordInv, RejectInv, FailureAttributed,
         hasFatalFailure, SubmitInv, Submitting, Unstarted, StatusOf, Errors, Ownership,
         HeldByBody, HeldByParties, HeldByOutcome, HeldByCont, Started
<1>9. TodoInv' /\ TodoOnce' /\ DependencyOrder'
  BY DEF TodoInv, TodoOnce, DependencyOrder, Satisfied, SubmitInv, Submitting, Unstarted,
         Ownership, HeldByBody, HeldByParties, HeldByOutcome, HeldByCont, Started
<1>10. CountInv'
  <2>1. \A i \in Jobs : Unreleased(i)' \subseteq Unreleased(i)
    BY DEF Unreleased, InEdges, Satisfied, SubmitInv, Submitting, Unstarted,
           Ownership, HeldByBody, HeldByParties, HeldByOutcome, HeldByCont, Started
  <2> QED
    BY <2>1, CountKept
<1>11. OwesInv'
  BY DEF OwesInv, BeforeFinish, SubmitInv, Submitting, PartyInv
<1>12. InFlightExact'
  <2>1. \A i \in Jobs : Undelivered(i)' <=> Undelivered(i)
    BY DEF Undelivered, SubmitInv, Submitting, PartyInv,
           Ownership, HeldByBody, HeldByParties, HeldByOutcome, HeldByCont, Started
  <2> QED
    BY <2>1, InFlightKept
<1> QED
  BY <1>1, <1>2, <1>3, <1>4, <1>5, <1>6, <1>7, <1>8, <1>9, <1>10, <1>11, <1>12

\* A stop refuses the body; the callback stays the holder.
LEMMA InvokeIInv ==
  ASSUME IInv, NEW j \in Jobs, Invoke(j)
  PROVE  IInv'
<1> USE GraphAssumption, ThreadFacts, LabelFacts DEF IInv, Invoke, Goto, TypeOK, ControlOK,
      DataOK, LabelsOf
<1>1. ControlOK'
  OBVIOUS
<1>2. DataOK'
  BY DEF Status, Unstarted, Final, Errors, StatusOf, Roots
<1>3. Ownership' /\ PartyInv'
  BY DEF PartyInv, SubmitInv, PendingInv, Submitting, Unstarted, StatusOf, Ownership,
         HeldByBody, HeldByParties, HeldByOutcome, HeldByCont, Started
<1>4. SubmitInv'
  BY DEF SubmitInv, SubmitOnce, Submitting, PendingInv, RootInv, Unstarted, StatusOf,
         Ownership, HeldByBody, HeldByParties, HeldByOutcome, HeldByCont, Started
<1>5. SubmitOnce'
  BY DEF SubmitInv, SubmitOnce, Submitting, RootInv, Resume
<1>6. PendingInv'
  BY DEF PendingInv, SubmitInv, Submitting, Unstarted, StatusOf
<1>7. RootInv'
  BY DEF RootInv, Submitting, SubmitInv, Unstarted, Roots, InEdges, TodoInv,Ownership,
         HeldByBody, HeldByParties, HeldByOutcome, HeldByCont, Started
<1>8. SkipInv' /\ SkippedOnlyAfterFailure' /\ RecordInv' /\ RejectInv' /\ FailureAttributed'
  BY DEF SkipInv, SkippedOnlyAfterFailure, RecordInv, RejectInv, FailureAttributed,
         hasFatalFailure, SubmitInv, Submitting, Unstarted, StatusOf, Errors, Ownership,
         HeldByBody, HeldByParties, HeldByOutcome, HeldByCont, Started
<1>9. TodoInv' /\ TodoOnce' /\ DependencyOrder'
  BY DEF TodoInv, TodoOnce, DependencyOrder, Satisfied, SubmitInv, Submitting, Unstarted,
         Ownership, HeldByBody, HeldByParties, HeldByOutcome, HeldByCont, Started
<1>10. CountInv'
  <2>1. \A i \in Jobs : Unreleased(i)' \subseteq Unreleased(i)
    BY DEF Unreleased, InEdges, Satisfied, SubmitInv, Submitting, Unstarted,
           Ownership, HeldByBody, HeldByParties, HeldByOutcome, HeldByCont, Started
  <2> QED
    BY <2>1, CountKept
<1>11. OwesInv'
  BY DEF OwesInv, BeforeFinish, SubmitInv, Submitting, PartyInv
<1>12. InFlightExact'
  <2>1. \A i \in Jobs : Undelivered(i)' <=> Undelivered(i)
    BY DEF Undelivered, SubmitInv, Submitting, PartyInv,
           Ownership, HeldByBody, HeldByParties, HeldByOutcome, HeldByCont, Started
  <2> QED
    BY <2>1, InFlightKept
<1> QED
  BY <1>1, <1>2, <1>3, <1>4, <1>5, <1>6, <1>7, <1>8, <1>9, <1>10, <1>11, <1>12

\* A body returns; the callback stays the holder.
LEMMA BodyReturnsIInv ==
  ASSUME IInv, NEW j \in Jobs, BodyReturns(j)
  PROVE  IInv'
<1> USE GraphAssumption, ThreadFacts, LabelFacts DEF IInv, BodyReturns, Goto, TypeOK,
      ControlOK, DataOK, LabelsOf
<1>1. ControlOK'
  OBVIOUS
<1>2. DataOK'
  BY DEF Status, Unstarted, Final, Errors, StatusOf, Roots
<1>3. Ownership' /\ PartyInv'
  BY DEF PartyInv, SubmitInv, PendingInv, Submitting, Unstarted, StatusOf, Ownership,
         HeldByBody, HeldByParties, HeldByOutcome, HeldByCont, Started
<1>4. SubmitInv' /\ SubmitOnce' /\ PendingInv' /\ RootInv'
  BY DEF SubmitInv, SubmitOnce, PendingInv, RootInv, Submitting, Unstarted, StatusOf,
         Roots, InEdges, TodoInv, Ownership, HeldByBody, HeldByParties, HeldByOutcome,
         HeldByCont, Started
<1>5. SkipInv' /\ SkippedOnlyAfterFailure' /\ RecordInv' /\ RejectInv' /\ FailureAttributed'
  BY DEF SkipInv, SkippedOnlyAfterFailure, RecordInv, RejectInv, FailureAttributed,
         hasFatalFailure, SubmitInv, Submitting, Unstarted, StatusOf, Errors, Ownership,
         HeldByBody, HeldByParties, HeldByOutcome, HeldByCont, Started
<1>6. TodoInv' /\ TodoOnce' /\ DependencyOrder'
  BY DEF TodoInv, TodoOnce, DependencyOrder, Satisfied, SubmitInv, Submitting, Unstarted,
         Ownership, HeldByBody, HeldByParties, HeldByOutcome, HeldByCont, Started
<1>7. CountInv'
  <2>1. \A i \in Jobs : Unreleased(i)' \subseteq Unreleased(i)
    BY DEF Unreleased, InEdges, Satisfied, SubmitInv, Submitting, Unstarted,
           Ownership, HeldByBody, HeldByParties, HeldByOutcome, HeldByCont, Started
  <2> QED
    BY <2>1, CountKept
<1>8. OwesInv'
  BY DEF OwesInv, BeforeFinish, SubmitInv, Submitting, PartyInv
<1>9. InFlightExact'
  <2>1. \A i \in Jobs : Undelivered(i)' <=> Undelivered(i)
    BY DEF Undelivered, SubmitInv, Submitting, PartyInv,
           Ownership, HeldByBody, HeldByParties, HeldByOutcome, HeldByCont, Started
  <2> QED
    BY <2>1, InFlightKept
<1> QED
  BY <1>1, <1>2, <1>3, <1>4, <1>5, <1>6, <1>7, <1>8, <1>9

\* Starting a deferred job passes it to its two parties and counts it.
LEMMA StartDeferredIInv ==
  ASSUME IInv, NEW j \in Jobs, StartDeferred(j)
  PROVE  IInv'
<1> USE GraphAssumption, ThreadFacts, LabelFacts DEF IInv, StartDeferred, Goto, TypeOK,
      ControlOK, DataOK, LabelsOf
<1>1. ControlOK'
  <2>1. Goto(JobThread(j), "finish") \/ Goto(JobThread(j), "starting")
    OBVIOUS
  <2> QED
    BY <2>1, GotoOK
<1>2. DataOK'
  <2>1. (result \in [Jobs -> {"ok"} \cup Errors])'
    BY DEF Errors
  <2>2. (inFlight \in Nat)'
    BY InFlightSets
  <2>3. (won \in [Jobs -> BOOLEAN])'
    OBVIOUS
  <2>4. (parties \in [Jobs -> 0..2])'
    BY DEF PartyInv
  <2> QED
    BY <2>1, <2>2, <2>3, <2>4
<1>3. Ownership' /\ PartyInv'
  BY DEF PartyInv, SubmitInv, PendingInv, Submitting, Unstarted, StatusOf, Ownership,
         HeldByBody, HeldByParties, HeldByOutcome, HeldByCont, Started
<1>4. SubmitInv'
  BY DEF SubmitInv, SubmitOnce, Submitting, PendingInv, RootInv, Unstarted, StatusOf,
         Ownership, HeldByBody, HeldByParties, HeldByOutcome, HeldByCont, Started
<1>5. SubmitOnce'
  BY DEF SubmitInv, SubmitOnce, Submitting, RootInv, Resume
<1>6. PendingInv'
  BY DEF PendingInv, SubmitInv, Submitting, Unstarted, StatusOf
<1>7. RootInv'
  BY DEF RootInv, Submitting, SubmitInv, Unstarted, Roots, InEdges, TodoInv,Ownership,
         HeldByBody, HeldByParties, HeldByOutcome, HeldByCont, Started
<1>8. SkipInv' /\ SkippedOnlyAfterFailure' /\ RecordInv' /\ RejectInv' /\ FailureAttributed'
  BY DEF SkipInv, SkippedOnlyAfterFailure, RecordInv, RejectInv, FailureAttributed,
         hasFatalFailure, SubmitInv, Submitting, Unstarted, StatusOf, Errors, Ownership,
         HeldByBody, HeldByParties, HeldByOutcome, HeldByCont, Started
<1>9. TodoInv' /\ TodoOnce' /\ DependencyOrder'
  BY DEF TodoInv, TodoOnce, DependencyOrder, Satisfied, SubmitInv, Submitting, Unstarted,
         Ownership, HeldByBody, HeldByParties, HeldByOutcome, HeldByCont, Started
<1>10. CountInv'
  <2>1. \A i \in Jobs : Unreleased(i)' \subseteq Unreleased(i)
    BY DEF Unreleased, InEdges, Satisfied, SubmitInv, Submitting, Unstarted,
           Ownership, HeldByBody, HeldByParties, HeldByOutcome, HeldByCont, Started
  <2> QED
    BY <2>1, CountKept
<1>11. OwesInv'
  BY DEF OwesInv, BeforeFinish, SubmitInv, Submitting, PartyInv
<1>12. InFlightExact'
  <2>1. j \notin UndeliveredJobs /\ Owing' = Owing /\ OwingTwo' = OwingTwo
    BY DEF UndeliveredJobs, Undelivered, Owing, OwingTwo, Ownership, HeldByBody, HeldByParties,
         HeldByOutcome, HeldByCont
  <2>2. CASE parties' = parties
    BY <2>1, <2>2, InFlightKept DEF Undelivered, Ownership, HeldByBody, HeldByParties,
         HeldByOutcome, HeldByCont
  <2>3. CASE parties' # parties
    <3>1. UndeliveredJobs' = UndeliveredJobs \cup {j} /\ inFlight' = inFlight + 1
      BY <2>3 DEF UndeliveredJobs, Undelivered
    <3> QED
      BY <2>1, <3>1, InFlightSets, AddOne DEF InFlightExact
  <2> QED
    BY <2>2, <2>3
<1> QED
  BY <1>1, <1>2, <1>3, <1>4, <1>5, <1>6, <1>7, <1>8, <1>9, <1>10, <1>11, <1>12

\* The announcement kAwaiting concerns a started job.
LEMMA BodyStartedIInv ==
  ASSUME IInv, NEW j \in Jobs, BodyStarted(j)
  PROVE  IInv'
<1> USE GraphAssumption, ThreadFacts, LabelFacts DEF IInv, BodyStarted, Goto, TypeOK,
      ControlOK, DataOK, LabelsOf
<1>1. status[j] \in Started /\ status'[j] \in Started
      /\ \A i \in Jobs : i # j => status'[i] = status[i]
  BY DEF PartyInv, Ownership, HeldByBody, HeldByParties, HeldByOutcome, HeldByCont, Started
<1>2. ControlOK'
  BY <1>1
<1>3. DataOK'
  BY <1>1 DEF Status, Unstarted, Final, Errors, StatusOf, Roots
<1>4. Ownership' /\ PartyInv'
  BY <1>1 DEF PartyInv, SubmitInv, PendingInv, Submitting, Unstarted, StatusOf,
         Ownership, HeldByBody, HeldByParties, HeldByOutcome, HeldByCont, Started
<1>5. SubmitInv' /\ SubmitOnce' /\ PendingInv' /\ RootInv'
  BY <1>1 DEF SubmitInv, SubmitOnce, PendingInv, RootInv, Submitting, Unstarted,
         StatusOf, Roots, InEdges, TodoInv, Ownership, HeldByBody, HeldByParties,
         HeldByOutcome, HeldByCont, Started
<1>6. SkipInv' /\ SkippedOnlyAfterFailure' /\ RecordInv' /\ RejectInv' /\ FailureAttributed'
  BY <1>1 DEF SkipInv, SkippedOnlyAfterFailure, RecordInv, RejectInv,
         FailureAttributed, hasFatalFailure, SubmitInv, Submitting, Unstarted, StatusOf,
         Errors, Ownership, HeldByBody, HeldByParties, HeldByOutcome, HeldByCont, Started
<1>7. TodoInv' /\ TodoOnce' /\ DependencyOrder'
  BY <1>1 DEF TodoInv, TodoOnce, DependencyOrder, Satisfied, SubmitInv, Submitting,
         Unstarted, Ownership, HeldByBody, HeldByParties, HeldByOutcome, HeldByCont,
         Started
<1>8. CountInv'
  <2>1. \A i \in Jobs : Unreleased(i)' \subseteq Unreleased(i)
    BY <1>1 DEF Unreleased, InEdges, Satisfied, SubmitInv, Submitting, Unstarted,
           Ownership, HeldByBody, HeldByParties, HeldByOutcome, HeldByCont, Started
  <2> QED
    BY <2>1, CountKept
<1>9. OwesInv'
  BY <1>1 DEF OwesInv, BeforeFinish, SubmitInv, Submitting, PartyInv
<1>10. InFlightExact'
  <2>1. \A i \in Jobs : Undelivered(i)' <=> Undelivered(i)
    BY DEF Undelivered, SubmitInv, Submitting, PartyInv,
           Ownership, HeldByBody, HeldByParties, HeldByOutcome, HeldByCont, Started
  <2> QED
    BY <2>1, InFlightKept
<1> QED
  BY <1>1, <1>2, <1>3, <1>4, <1>5, <1>6, <1>7, <1>8, <1>9, <1>10

\* The body's arrival passes the job on only when it is the second.
LEMMA BodyArrivesIInv ==
  ASSUME IInv, NEW j \in Jobs, BodyArrives(j)
  PROVE  IInv'
<1> USE GraphAssumption, ThreadFacts, LabelFacts DEF IInv, BodyArrives, Goto, TypeOK,
      ControlOK, DataOK, LabelsOf
<1>1. ControlOK'
  <2>1. Goto(JobThread(j), "finish") \/ Goto(JobThread(j), "done")
    OBVIOUS
  <2> QED
    BY <2>1, GotoOK
<1>2. DataOK'
  <2>1. (parties \in [Jobs -> 0..2])'
    BY DEF PartyInv
  <2>2. (owes \in [Threads -> 0..2])'
    OBVIOUS
  <2> QED
    BY <2>1, <2>2
<1>3. Ownership' /\ PartyInv'
  BY DEF PartyInv, SubmitInv, PendingInv, Submitting, Unstarted, StatusOf, Ownership,
         HeldByBody, HeldByParties, HeldByOutcome, HeldByCont, Started
<1>4. SubmitInv' /\ SubmitOnce' /\ PendingInv' /\ RootInv'
  BY DEF SubmitInv, SubmitOnce, PendingInv, RootInv, Submitting, Unstarted, StatusOf,
         Roots, InEdges, TodoInv, Ownership, HeldByBody, HeldByParties, HeldByOutcome,
         HeldByCont, Started
<1>5. SkipInv' /\ SkippedOnlyAfterFailure' /\ RecordInv' /\ RejectInv' /\ FailureAttributed'
  BY DEF SkipInv, SkippedOnlyAfterFailure, RecordInv, RejectInv, FailureAttributed,
         hasFatalFailure, SubmitInv, Submitting, Unstarted, StatusOf, Errors, Ownership,
         HeldByBody, HeldByParties, HeldByOutcome, HeldByCont, Started
<1>6. TodoInv' /\ TodoOnce' /\ DependencyOrder'
  BY DEF TodoInv, TodoOnce, DependencyOrder, Satisfied, SubmitInv, Submitting, Unstarted,
         Ownership, HeldByBody, HeldByParties, HeldByOutcome, HeldByCont, Started
<1>7. CountInv'
  <2>1. \A i \in Jobs : Unreleased(i)' \subseteq Unreleased(i)
    BY DEF Unreleased, InEdges, Satisfied, SubmitInv, Submitting, Unstarted,
           Ownership, HeldByBody, HeldByParties, HeldByOutcome, HeldByCont, Started
  <2> QED
    BY <2>1, CountKept
<1>8. OwesInv'
  BY DEF OwesInv, BeforeFinish, SubmitInv, Submitting, PartyInv
<1>9. InFlightExact'
  <2> DEFINE t == JobThread(j)
  <2>1. t \notin Owing /\ OwingTwo' = OwingTwo
    BY DEF Owing, OwingTwo, OwesInv, BeforeFinish
  <2>2. CASE parties[j] = 1
    <3>1. UndeliveredJobs' = UndeliveredJobs \ {j} /\ j \in UndeliveredJobs
      BY <2>2 DEF UndeliveredJobs, Undelivered, PartyInv, Ownership, HeldByBody, HeldByParties,
           HeldByOutcome, HeldByCont
    <3>2. Owing' = Owing \cup {t}
      BY <2>2 DEF Owing
    <3>3. Cardinality(UndeliveredJobs') = Cardinality(UndeliveredJobs) - 1
      BY <3>1, InFlightSets, RemoveOne
    <3>4. Cardinality(Owing') = Cardinality(Owing) + 1
      BY <2>1, <3>2, InFlightSets, AddOne
    <3> QED
      BY <2>1, <3>3, <3>4, InFlightSets DEF InFlightExact
  <2>3. CASE parties[j] # 1
    <3>1. \A i \in Jobs : Undelivered(i)' <=> Undelivered(i)
      BY <2>3 DEF Undelivered, PartyInv
    <3> QED
      BY <2>3, <3>1, InFlightKept
  <2> QED
    BY <2>2, <2>3
<1> QED
  BY <1>1, <1>2, <1>3, <1>4, <1>5, <1>6, <1>7, <1>8, <1>9

\* Deciding the outcome leaves the parties as they are.
LEMMA DecideOutcomeIInv ==
  ASSUME IInv, NEW j \in Jobs, DecideOutcome(j)
  PROVE  IInv'
<1> USE GraphAssumption, ThreadFacts, LabelFacts DEF IInv, DecideOutcome, Goto, TypeOK,
      ControlOK, DataOK, LabelsOf
<1>1. ControlOK'
  OBVIOUS
<1>2. DataOK'
  <2>1. (result \in [Jobs -> {"ok"} \cup Errors])'
    <3>1. \E r \in {"ok"} \cup Errors : result' = [result EXCEPT ![j] = r]
      BY DEF Errors
    <3> QED
      BY <3>1
  <2>2. (stop \in [Jobs -> BOOLEAN])'
    OBVIOUS
  <2>3. (won \in [Jobs -> BOOLEAN])'
    OBVIOUS
  <2> QED
    BY <2>1, <2>2, <2>3
<1>3. Ownership' /\ PartyInv'
  BY DEF PartyInv, SubmitInv, PendingInv, Submitting, Unstarted, StatusOf, Ownership,
         HeldByBody, HeldByParties, HeldByOutcome, HeldByCont, Started
<1>4. SubmitInv' /\ SubmitOnce' /\ PendingInv' /\ RootInv'
  BY DEF SubmitInv, SubmitOnce, PendingInv, RootInv, Submitting, Unstarted, StatusOf,
         Roots, InEdges, TodoInv, Ownership, HeldByBody, HeldByParties, HeldByOutcome,
         HeldByCont, Started
<1>5. SkipInv' /\ SkippedOnlyAfterFailure' /\ RecordInv' /\ RejectInv' /\ FailureAttributed'
  BY DEF SkipInv, SkippedOnlyAfterFailure, RecordInv, RejectInv, FailureAttributed,
         hasFatalFailure, SubmitInv, Submitting, Unstarted, StatusOf, Errors, Ownership,
         HeldByBody, HeldByParties, HeldByOutcome, HeldByCont, Started
<1>6. TodoInv' /\ TodoOnce' /\ DependencyOrder'
  BY DEF TodoInv, TodoOnce, DependencyOrder, Satisfied, SubmitInv, Submitting, Unstarted,
         Ownership, HeldByBody, HeldByParties, HeldByOutcome, HeldByCont, Started
<1>7. CountInv'
  <2>1. \A i \in Jobs : Unreleased(i)' \subseteq Unreleased(i)
    BY DEF Unreleased, InEdges, Satisfied, SubmitInv, Submitting, Unstarted,
           Ownership, HeldByBody, HeldByParties, HeldByOutcome, HeldByCont, Started
  <2> QED
    BY <2>1, CountKept
<1>8. OwesInv'
  BY DEF OwesInv, BeforeFinish, SubmitInv, Submitting, PartyInv
<1>9. InFlightExact'
  <2>1. \A i \in Jobs : Undelivered(i)' <=> Undelivered(i)
    BY DEF Undelivered, SubmitInv, Submitting, PartyInv,
           Ownership, HeldByBody, HeldByParties, HeldByOutcome, HeldByCont, Started
  <2> QED
    BY <2>1, InFlightKept
<1> QED
  BY <1>1, <1>2, <1>3, <1>4, <1>5, <1>6, <1>7, <1>8, <1>9

\* The outcome's arrival passes the job on only when it is the second.
LEMMA OutcomeArrivesIInv ==
  ASSUME IInv, NEW j \in Jobs, OutcomeArrives(j)
  PROVE  IInv'
<1> USE GraphAssumption, ThreadFacts, LabelFacts DEF IInv, OutcomeArrives, Goto, TypeOK,
      ControlOK, DataOK, LabelsOf
<1>1. ControlOK'
  <2>1. Goto(OutcomeThread(j), "deliver") \/ Goto(OutcomeThread(j), "done")
    OBVIOUS
  <2> QED
    BY <2>1, GotoOK
<1>2. DataOK'
  <2>1. (parties \in [Jobs -> 0..2])'
    BY DEF PartyInv
  <2>2. (owes \in [Threads -> 0..2])'
    OBVIOUS
  <2>3. (inFlight \in Nat)'
    OBVIOUS
  <2> QED
    BY <2>1, <2>2, <2>3
<1>3. Ownership' /\ PartyInv'
  BY DEF PartyInv, SubmitInv, PendingInv, Submitting, Unstarted, StatusOf, Ownership,
         HeldByBody, HeldByParties, HeldByOutcome, HeldByCont, Started
<1>4. SubmitInv'
  BY DEF SubmitInv, SubmitOnce, Submitting, PendingInv, RootInv, Unstarted, StatusOf,
         Ownership, HeldByBody, HeldByParties, HeldByOutcome, HeldByCont, Started
<1>5. SubmitOnce'
  BY DEF SubmitInv, SubmitOnce, Submitting, RootInv, Resume
<1>6. PendingInv'
  BY DEF PendingInv, SubmitInv, Submitting, Unstarted, StatusOf
<1>7. RootInv'
  BY DEF RootInv, Submitting, SubmitInv, Unstarted, Roots, InEdges, TodoInv,Ownership,
         HeldByBody, HeldByParties, HeldByOutcome, HeldByCont, Started
<1>8. SkipInv' /\ SkippedOnlyAfterFailure' /\ RecordInv' /\ RejectInv' /\ FailureAttributed'
  BY DEF SkipInv, SkippedOnlyAfterFailure, RecordInv, RejectInv, FailureAttributed,
         hasFatalFailure, SubmitInv, Submitting, Unstarted, StatusOf, Errors, Ownership,
         HeldByBody, HeldByParties, HeldByOutcome, HeldByCont, Started
<1>9. TodoInv' /\ TodoOnce' /\ DependencyOrder'
  BY DEF TodoInv, TodoOnce, DependencyOrder, Satisfied, SubmitInv, Submitting, Unstarted,
         Ownership, HeldByBody, HeldByParties, HeldByOutcome, HeldByCont, Started
<1>10. CountInv'
  <2>1. \A i \in Jobs : Unreleased(i)' \subseteq Unreleased(i)
    BY DEF Unreleased, InEdges, Satisfied, SubmitInv, Submitting, Unstarted,
           Ownership, HeldByBody, HeldByParties, HeldByOutcome, HeldByCont, Started
  <2> QED
    BY <2>1, CountKept
<1>11. OwesInv'
  BY DEF OwesInv, BeforeFinish, SubmitInv, Submitting, PartyInv
<1>12. InFlightExact'
  <2> DEFINE t == OutcomeThread(j)
  <2>1. t \notin Owing /\ OwingTwo' = OwingTwo
    BY DEF Owing, OwingTwo, OwesInv, BeforeFinish
  <2>2. \A i \in Jobs : Undelivered(i)' <=> Undelivered(i)
    BY DEF Undelivered, PartyInv
  <2>3. CASE parties[j] = 1
    <3>1. UndeliveredJobs' = UndeliveredJobs /\ Owing' = Owing \cup {t}
      BY <2>2, <2>3 DEF UndeliveredJobs, Owing
    <3>2. Cardinality(Owing') = Cardinality(Owing) + 1
      BY <2>1, <3>1, InFlightSets, AddOne
    <3> QED
      BY <2>1, <2>3, <3>1, <3>2, InFlightSets DEF InFlightExact
  <2>4. CASE parties[j] # 1
    BY <2>2, <2>4, InFlightKept
  <2> QED
    BY <2>3, <2>4
<1> QED
  BY <1>1, <1>2, <1>3, <1>4, <1>5, <1>6, <1>7, <1>8, <1>9, <1>10, <1>11, <1>12

\* Delivery passes the job to its continuation, or keeps it on rejection.
LEMMA DeliverDeferredIInv ==
  ASSUME IInv, NEW j \in Jobs, DeliverDeferred(j)
  PROVE  IInv'
<1> USE GraphAssumption, ThreadFacts, LabelFacts DEF IInv, DeliverDeferred, Goto, shared,
      TypeOK, ControlOK, DataOK, LabelsOf
<1>1. ControlOK'
  OBVIOUS
<1>2. DataOK'
  BY DEF Status, Unstarted, Final, Errors, StatusOf, Roots
<1>3. Ownership' /\ PartyInv'
  BY DEF PartyInv, SubmitInv, PendingInv, Submitting, Unstarted, StatusOf, Ownership,
         HeldByBody, HeldByParties, HeldByOutcome, HeldByCont, Started
<1>4. SubmitInv'
  BY DEF SubmitInv, SubmitOnce, Submitting, PendingInv, RootInv, Unstarted, StatusOf,
         Ownership, HeldByBody, HeldByParties, HeldByOutcome, HeldByCont, Started
<1>5. SubmitOnce'
  BY DEF SubmitInv, SubmitOnce, Submitting, RootInv, Resume
<1>6. PendingInv'
  BY DEF PendingInv, SubmitInv, Submitting, Unstarted, StatusOf
<1>7. RootInv'
  BY DEF RootInv, Submitting, SubmitInv, Unstarted, Roots, InEdges, TodoInv,Ownership,
         HeldByBody, HeldByParties, HeldByOutcome, HeldByCont, Started
<1>8. SkipInv'
  BY DEF SkipInv, RejectInv, hasFatalFailure, RecordInv
<1>9. SkippedOnlyAfterFailure'
  BY DEF SkipInv, SkippedOnlyAfterFailure, hasFatalFailure, StatusOf, Unstarted
<1>10. RecordInv'
  BY DEF RecordInv, SubmitInv, Submitting, Unstarted, StatusOf, Errors, PartyInv,
         Ownership, HeldByBody, HeldByParties, HeldByOutcome, HeldByCont, Started
<1>11. RejectInv'
  BY DEF RejectInv, hasFatalFailure, SkippedOnlyAfterFailure, SubmitInv, Submitting,
         Unstarted, StatusOf, Ownership, HeldByBody, HeldByParties, HeldByOutcome,
         HeldByCont, Started
<1>12. FailureAttributed'
  BY DEF RecordInv, RejectInv, FailureAttributed, hasFatalFailure, SubmitInv, Submitting,
         Unstarted, StatusOf, Errors, Ownership, HeldByBody, HeldByParties, HeldByOutcome,
         HeldByCont, Started
<1>13. TodoInv' /\ TodoOnce' /\ DependencyOrder'
  BY DEF TodoInv, TodoOnce, DependencyOrder, Satisfied, SubmitInv, Submitting, Unstarted,
         Ownership, HeldByBody, HeldByParties, HeldByOutcome, HeldByCont, Started
<1>14. CountInv'
  <2>1. \A i \in Jobs : Unreleased(i)' \subseteq Unreleased(i)
    BY DEF Unreleased, InEdges, Satisfied, SubmitInv, Submitting, Unstarted,
           Ownership, HeldByBody, HeldByParties, HeldByOutcome, HeldByCont, Started
  <2> QED
    BY <2>1, CountKept
<1>15. OwesInv'
  BY DEF OwesInv, BeforeFinish, SubmitInv, Submitting, PartyInv
<1>16. InFlightExact'
  <2> DEFINE t == OutcomeThread(j)
  <2>1. owes[t] = 1 /\ parties[j] = 0 /\ pc[ContThread(j)] = "idle"
    BY DEF OwesInv, PartyInv, Ownership, HeldByBody, HeldByParties, HeldByOutcome, HeldByCont
  <2>2. CASE owes' = owes
    <3>1. \A i \in Jobs : Undelivered(i)' <=> Undelivered(i)
      BY <2>1, <2>2 DEF Undelivered
    <3> QED
      BY <2>2, <3>1, InFlightKept
  <2>3. CASE owes' # owes
    <3>1. UndeliveredJobs' = UndeliveredJobs \ {j} /\ j \in UndeliveredJobs
      BY <2>1, <2>3 DEF UndeliveredJobs, Undelivered
    <3>2. Owing' = Owing /\ OwingTwo' = OwingTwo \cup {t} /\ t \notin OwingTwo
      BY <2>1, <2>3 DEF Owing, OwingTwo
    <3>3. Cardinality(UndeliveredJobs') = Cardinality(UndeliveredJobs) - 1
      BY <3>1, InFlightSets, RemoveOne
    <3>4. Cardinality(OwingTwo') = Cardinality(OwingTwo) + 1
      BY <3>2, InFlightSets, AddOne
    <3> QED
      BY <3>2, <3>3, <3>4, InFlightSets DEF InFlightExact
  <2> QED
    BY <2>2, <2>3
<1> QED
  BY <1>1, <1>2, <1>3, <1>4, <1>5, <1>6, <1>7, <1>8, <1>9, <1>10, <1>11, <1>12, <1>13,
     <1>14, <1>15, <1>16

\* The continuation takes over the count of the job it finishes.
LEMMA FinishDeferredIInv ==
  ASSUME IInv, NEW j \in Jobs, FinishDeferred(j)
  PROVE  IInv'
<1> USE GraphAssumption, ThreadFacts, LabelFacts DEF IInv, FinishDeferred, Goto, shared,
      TypeOK, ControlOK, DataOK, LabelsOf
<1>1. ControlOK'
  OBVIOUS
<1>2. DataOK'
  BY DEF Status, Unstarted, Final, Errors, StatusOf, Roots
<1>3. Ownership' /\ PartyInv'
  BY DEF PartyInv, SubmitInv, PendingInv, Submitting, Unstarted, StatusOf, Ownership,
         HeldByBody, HeldByParties, HeldByOutcome, HeldByCont, Started
<1>4. SubmitInv' /\ SubmitOnce' /\ PendingInv' /\ RootInv'
  BY DEF SubmitInv, SubmitOnce, PendingInv, RootInv, Submitting, Unstarted, StatusOf,
         Roots, InEdges, TodoInv, Ownership, HeldByBody, HeldByParties, HeldByOutcome,
         HeldByCont, Started
<1>5. SkipInv' /\ SkippedOnlyAfterFailure' /\ RecordInv' /\ RejectInv' /\ FailureAttributed'
  BY DEF SkipInv, SkippedOnlyAfterFailure, RecordInv, RejectInv, FailureAttributed,
         hasFatalFailure, SubmitInv, Submitting, Unstarted, StatusOf, Errors, Ownership,
         HeldByBody, HeldByParties, HeldByOutcome, HeldByCont, Started
<1>6. TodoInv' /\ TodoOnce' /\ DependencyOrder'
  BY DEF TodoInv, TodoOnce, DependencyOrder, Satisfied, SubmitInv, Submitting, Unstarted,
         Ownership, HeldByBody, HeldByParties, HeldByOutcome, HeldByCont, Started
<1>7. CountInv'
  <2>1. \A i \in Jobs : Unreleased(i)' \subseteq Unreleased(i)
    BY DEF Unreleased, InEdges, Satisfied, SubmitInv, Submitting, Unstarted,
           Ownership, HeldByBody, HeldByParties, HeldByOutcome, HeldByCont, Started
  <2> QED
    BY <2>1, CountKept
<1>8. OwesInv'
  BY DEF OwesInv, BeforeFinish, SubmitInv, Submitting, PartyInv
<1>9. InFlightExact'
  <2> DEFINE t == ContThread(j)
  <2>1. UndeliveredJobs' = UndeliveredJobs \ {j} /\ j \in UndeliveredJobs
    BY DEF UndeliveredJobs, Undelivered, PartyInv, Ownership, HeldByBody, HeldByParties,
         HeldByOutcome, HeldByCont
  <2>2. Owing' = Owing \cup {t} /\ t \notin Owing /\ OwingTwo' = OwingTwo
    BY DEF Owing, OwingTwo, OwesInv, BeforeFinish
  <2>3. Cardinality(UndeliveredJobs') = Cardinality(UndeliveredJobs) - 1
    BY <2>1, InFlightSets, RemoveOne
  <2>4. Cardinality(Owing') = Cardinality(Owing) + 1
    BY <2>2, InFlightSets, AddOne
  <2> QED
    BY <2>2, <2>3, <2>4, InFlightSets DEF InFlightExact
<1> QED
  BY <1>1, <1>2, <1>3, <1>4, <1>5, <1>6, <1>7, <1>8, <1>9

\* A root is submitted once, by the run thread.
LEMMA NextRootIInv ==
  ASSUME IInv, NextRoot
  PROVE  IInv'
<1> USE GraphAssumption, ThreadFacts, LabelFacts DEF IInv, NextRoot, Goto, shared, TypeOK,
      ControlOK, DataOK, LabelsOf
<1>1. ControlOK'
  OBVIOUS
<1>2. DataOK'
  BY DEF Status, Unstarted, Final, Errors, StatusOf, Roots
<1>3. Ownership' /\ PartyInv'
  BY DEF PartyInv, SubmitInv, PendingInv, Submitting, Unstarted, StatusOf, Ownership,
         HeldByBody, HeldByParties, HeldByOutcome, HeldByCont, Started
<1>4. SubmitInv'
  <2>1. \A u \in Threads : Submitting(u)' =>
          (Submitting(u) /\ cur'[u] = cur[u]) \/ cur'[u] \in roots
    BY DEF Submitting
  <2>2. \A u \in Threads : Submitting(u)' => pc'[JobThread(cur'[u])] = "idle"
    BY <2>1 DEF SubmitInv, RootInv, Roots
  <2> QED
    BY <2>1, <2>2 DEF SubmitInv, RootInv, Roots
<1>5. SubmitOnce'
  <2>1. \A u \in Threads \ {RunThread} :
          Submitting(u)' => Submitting(u) /\ cur'[u] = cur[u]
    BY DEF Submitting
  <2>2. Submitting(RunThread)' => cur'[RunThread] \in roots
    BY DEF Submitting
  <2> QED
    BY <2>1, <2>2 DEF SubmitOnce, RootInv
<1>6. PendingInv'
  BY DEF PendingInv, SubmitInv, Submitting, Unstarted, StatusOf
<1>7. RootInv'
  BY DEF RootInv, Submitting, SubmitInv, Unstarted, Roots, InEdges, TodoInv,Ownership,
         HeldByBody, HeldByParties, HeldByOutcome, HeldByCont, Started
<1>8. SkipInv' /\ SkippedOnlyAfterFailure' /\ RecordInv' /\ RejectInv' /\ FailureAttributed'
  BY DEF SkipInv, SkippedOnlyAfterFailure, RecordInv, RejectInv, FailureAttributed,
         hasFatalFailure, SubmitInv, Submitting, Unstarted, StatusOf, Errors, Ownership,
         HeldByBody, HeldByParties, HeldByOutcome, HeldByCont, Started
<1>9. TodoInv' /\ TodoOnce' /\ DependencyOrder'
  BY DEF TodoInv, TodoOnce, DependencyOrder, Satisfied, SubmitInv, Submitting, Unstarted,
         Ownership, HeldByBody, HeldByParties, HeldByOutcome, HeldByCont, Started
<1>10. CountInv'
  <2>1. \A i \in Jobs : Unreleased(i)' \subseteq Unreleased(i)
    BY DEF Unreleased, InEdges, Satisfied, SubmitInv, Submitting, Unstarted,
           Ownership, HeldByBody, HeldByParties, HeldByOutcome, HeldByCont, Started
  <2> QED
    BY <2>1, CountKept
<1>11. OwesInv'
  BY DEF OwesInv, BeforeFinish, SubmitInv, Submitting, PartyInv
<1>12. InFlightExact'
  <2>1. \A i \in Jobs : Undelivered(i)' <=> Undelivered(i)
    BY DEF Undelivered, SubmitInv, Submitting, PartyInv,
           Ownership, HeldByBody, HeldByParties, HeldByOutcome, HeldByCont, Started
  <2> QED
    BY <2>1, InFlightKept
<1> QED
  BY <1>1, <1>2, <1>3, <1>4, <1>5, <1>6, <1>7, <1>8, <1>9, <1>10, <1>11, <1>12

\* The end of the root loop moves the run thread only.
LEMMA RootsDoneIInv ==
  ASSUME IInv, RootsDone
  PROVE  IInv'
<1> USE GraphAssumption, ThreadFacts, LabelFacts DEF IInv, RootsDone, Goto, shared, TypeOK,
      ControlOK, DataOK, LabelsOf
<1>1. ControlOK'
  OBVIOUS
<1>2. DataOK'
  BY DEF Status, Unstarted, Final, Errors, StatusOf, Roots
<1>3. Ownership' /\ PartyInv'
  BY DEF PartyInv, SubmitInv, PendingInv, Submitting, Unstarted, StatusOf, Ownership,
         HeldByBody, HeldByParties, HeldByOutcome, HeldByCont, Started
<1>4. SubmitInv' /\ SubmitOnce' /\ PendingInv' /\ RootInv'
  BY DEF SubmitInv, SubmitOnce, PendingInv, RootInv, Submitting, Unstarted, StatusOf,
         Roots, InEdges, TodoInv, Ownership, HeldByBody, HeldByParties, HeldByOutcome,
         HeldByCont, Started
<1>5. SkipInv' /\ SkippedOnlyAfterFailure' /\ RecordInv' /\ RejectInv' /\ FailureAttributed'
  BY DEF SkipInv, SkippedOnlyAfterFailure, RecordInv, RejectInv, FailureAttributed,
         hasFatalFailure, SubmitInv, Submitting, Unstarted, StatusOf, Errors, Ownership,
         HeldByBody, HeldByParties, HeldByOutcome, HeldByCont, Started
<1>6. TodoInv' /\ TodoOnce' /\ DependencyOrder'
  BY DEF TodoInv, TodoOnce, DependencyOrder, Satisfied, SubmitInv, Submitting, Unstarted,
         Ownership, HeldByBody, HeldByParties, HeldByOutcome, HeldByCont, Started
<1>7. CountInv'
  <2>1. \A i \in Jobs : Unreleased(i)' \subseteq Unreleased(i)
    BY DEF Unreleased, InEdges, Satisfied, SubmitInv, Submitting, Unstarted,
           Ownership, HeldByBody, HeldByParties, HeldByOutcome, HeldByCont, Started
  <2> QED
    BY <2>1, CountKept
<1>8. OwesInv'
  BY DEF OwesInv, BeforeFinish, SubmitInv, Submitting, PartyInv
<1>9. InFlightExact'
  <2>1. \A i \in Jobs : Undelivered(i)' <=> Undelivered(i)
    BY DEF Undelivered, SubmitInv, Submitting, PartyInv,
           Ownership, HeldByBody, HeldByParties, HeldByOutcome, HeldByCont, Started
  <2> QED
    BY <2>1, InFlightKept
<1> QED
  BY <1>1, <1>2, <1>3, <1>4, <1>5, <1>6, <1>7, <1>8, <1>9

\* waitAll() moves the run thread only.
LEMMA WaitAllIInv ==
  ASSUME IInv, WaitAll
  PROVE  IInv'
<1> USE GraphAssumption, ThreadFacts, LabelFacts DEF IInv, WaitAll, Goto, shared, TypeOK,
      ControlOK, DataOK, LabelsOf
<1>1. ControlOK'
  OBVIOUS
<1>2. DataOK'
  BY DEF Status, Unstarted, Final, Errors, StatusOf, Roots
<1>3. Ownership' /\ PartyInv'
  BY DEF PartyInv, SubmitInv, PendingInv, Submitting, Unstarted, StatusOf, Ownership,
         HeldByBody, HeldByParties, HeldByOutcome, HeldByCont, Started
<1>4. SubmitInv' /\ SubmitOnce' /\ PendingInv' /\ RootInv'
  BY DEF SubmitInv, SubmitOnce, PendingInv, RootInv, Submitting, Unstarted, StatusOf,
         Roots, InEdges, TodoInv, Ownership, HeldByBody, HeldByParties, HeldByOutcome,
         HeldByCont, Started
<1>5. SkipInv' /\ SkippedOnlyAfterFailure' /\ RecordInv' /\ RejectInv' /\ FailureAttributed'
  BY DEF SkipInv, SkippedOnlyAfterFailure, RecordInv, RejectInv, FailureAttributed,
         hasFatalFailure, SubmitInv, Submitting, Unstarted, StatusOf, Errors, Ownership,
         HeldByBody, HeldByParties, HeldByOutcome, HeldByCont, Started
<1>6. TodoInv' /\ TodoOnce' /\ DependencyOrder'
  BY DEF TodoInv, TodoOnce, DependencyOrder, Satisfied, SubmitInv, Submitting, Unstarted,
         Ownership, HeldByBody, HeldByParties, HeldByOutcome, HeldByCont, Started
<1>7. CountInv'
  <2>1. \A i \in Jobs : Unreleased(i)' \subseteq Unreleased(i)
    BY DEF Unreleased, InEdges, Satisfied, SubmitInv, Submitting, Unstarted,
           Ownership, HeldByBody, HeldByParties, HeldByOutcome, HeldByCont, Started
  <2> QED
    BY <2>1, CountKept
<1>8. OwesInv'
  BY DEF OwesInv, BeforeFinish, SubmitInv, Submitting, PartyInv
<1>9. InFlightExact'
  <2>1. \A i \in Jobs : Undelivered(i)' <=> Undelivered(i)
    BY DEF Undelivered, SubmitInv, Submitting, PartyInv,
           Ownership, HeldByBody, HeldByParties, HeldByOutcome, HeldByCont, Started
  <2> QED
    BY <2>1, InFlightKept
<1> QED
  BY <1>1, <1>2, <1>3, <1>4, <1>5, <1>6, <1>7, <1>8, <1>9

\* awaitDeferredThreaded() moves the run thread only.
LEMMA AwaitDeferredIInv ==
  ASSUME IInv, AwaitDeferred
  PROVE  IInv'
<1> USE GraphAssumption, ThreadFacts, LabelFacts DEF IInv, AwaitDeferred, Goto, shared,
      TypeOK, ControlOK, DataOK, LabelsOf
<1>1. ControlOK'
  OBVIOUS
<1>2. DataOK'
  BY DEF Status, Unstarted, Final, Errors, StatusOf, Roots
<1>3. Ownership' /\ PartyInv'
  BY DEF PartyInv, SubmitInv, PendingInv, Submitting, Unstarted, StatusOf, Ownership,
         HeldByBody, HeldByParties, HeldByOutcome, HeldByCont, Started
<1>4. SubmitInv'
  BY DEF SubmitInv, SubmitOnce, Submitting, PendingInv, RootInv, Unstarted, StatusOf,
         Ownership, HeldByBody, HeldByParties, HeldByOutcome, HeldByCont, Started
<1>5. SubmitOnce'
  BY DEF SubmitInv, SubmitOnce, Submitting, RootInv, Resume
<1>6. PendingInv'
  BY DEF PendingInv, SubmitInv, Submitting, Unstarted, StatusOf
<1>7. RootInv'
  BY DEF RootInv, Submitting, SubmitInv, Unstarted, Roots, InEdges, TodoInv,Ownership,
         HeldByBody, HeldByParties, HeldByOutcome, HeldByCont, Started
<1>8. SkipInv' /\ SkippedOnlyAfterFailure' /\ RecordInv' /\ RejectInv' /\ FailureAttributed'
  BY DEF SkipInv, SkippedOnlyAfterFailure, RecordInv, RejectInv, FailureAttributed,
         hasFatalFailure, SubmitInv, Submitting, Unstarted, StatusOf, Errors, Ownership,
         HeldByBody, HeldByParties, HeldByOutcome, HeldByCont, Started
<1>9. TodoInv' /\ TodoOnce' /\ DependencyOrder'
  BY DEF TodoInv, TodoOnce, DependencyOrder, Satisfied, SubmitInv, Submitting, Unstarted,
         Ownership, HeldByBody, HeldByParties, HeldByOutcome, HeldByCont, Started
<1>10. CountInv'
  <2>1. \A i \in Jobs : Unreleased(i)' \subseteq Unreleased(i)
    BY DEF Unreleased, InEdges, Satisfied, SubmitInv, Submitting, Unstarted,
           Ownership, HeldByBody, HeldByParties, HeldByOutcome, HeldByCont, Started
  <2> QED
    BY <2>1, CountKept
<1>11. OwesInv'
  BY DEF OwesInv, BeforeFinish, SubmitInv, Submitting, PartyInv
<1>12. InFlightExact'
  <2>1. \A i \in Jobs : Undelivered(i)' <=> Undelivered(i)
    BY DEF Undelivered, SubmitInv, Submitting, PartyInv,
           Ownership, HeldByBody, HeldByParties, HeldByOutcome, HeldByCont, Started
  <2> QED
    BY <2>1, InFlightKept
<1> QED
  BY <1>1, <1>2, <1>3, <1>4, <1>5, <1>6, <1>7, <1>8, <1>9, <1>10, <1>11, <1>12

\* A stop request changes no status.
LEMMA RequestStopIInv ==
  ASSUME IInv, NEW j \in Jobs, RequestStop(j)
  PROVE  IInv'
<1> USE GraphAssumption, ThreadFacts, LabelFacts DEF IInv, RequestStop, local, TypeOK,
      ControlOK, DataOK, LabelsOf
<1>1. ControlOK'
  OBVIOUS
<1>2. DataOK'
  BY DEF Status, Unstarted, Final, Errors, StatusOf, Roots
<1>3. Ownership' /\ PartyInv'
  BY DEF PartyInv, SubmitInv, PendingInv, Submitting, Unstarted, StatusOf, Ownership,
         HeldByBody, HeldByParties, HeldByOutcome, HeldByCont, Started
<1>4. SubmitInv' /\ SubmitOnce' /\ PendingInv' /\ RootInv'
  BY DEF SubmitInv, SubmitOnce, PendingInv, RootInv, Submitting, Unstarted, StatusOf,
         Roots, InEdges, TodoInv, Ownership, HeldByBody, HeldByParties, HeldByOutcome,
         HeldByCont, Started
<1>5. SkipInv' /\ SkippedOnlyAfterFailure' /\ RecordInv' /\ RejectInv' /\ FailureAttributed'
  BY DEF SkipInv, SkippedOnlyAfterFailure, RecordInv, RejectInv, FailureAttributed,
         hasFatalFailure, SubmitInv, Submitting, Unstarted, StatusOf, Errors, Ownership,
         HeldByBody, HeldByParties, HeldByOutcome, HeldByCont, Started
<1>6. TodoInv' /\ TodoOnce' /\ DependencyOrder'
  BY DEF TodoInv, TodoOnce, DependencyOrder, Satisfied, SubmitInv, Submitting, Unstarted,
         Ownership, HeldByBody, HeldByParties, HeldByOutcome, HeldByCont, Started
<1>7. CountInv'
  <2>1. \A i \in Jobs : Unreleased(i)' \subseteq Unreleased(i)
    BY DEF Unreleased, InEdges, Satisfied, SubmitInv, Submitting, Unstarted,
           Ownership, HeldByBody, HeldByParties, HeldByOutcome, HeldByCont, Started
  <2> QED
    BY <2>1, CountKept
<1>8. OwesInv'
  BY DEF OwesInv, BeforeFinish, SubmitInv, Submitting, PartyInv
<1>9. InFlightExact'
  <2>1. \A i \in Jobs : Undelivered(i)' <=> Undelivered(i)
    BY DEF Undelivered, SubmitInv, Submitting, PartyInv,
           Ownership, HeldByBody, HeldByParties, HeldByOutcome, HeldByCont, Started
  <2> QED
    BY <2>1, InFlightKept
<1> QED
  BY <1>1, <1>2, <1>3, <1>4, <1>5, <1>6, <1>7, <1>8, <1>9

\* run() starts again from the initial state.
LEMMA RerunIInv ==
  ASSUME Rerun
  PROVE  IInv'
<1>1. Init'
  BY DEF Rerun, Init
<1> QED
  BY <1>1, InitIInv, PTL

\* Every step keeps the inductive invariant.
LEMMA NextIInv ==
  ASSUME IInv, [Next]_vars
  PROVE  IInv'
<1>1. CASE UNCHANGED vars
  <2>1. UNCHANGED <<status, unmet, stop, result, failedJob, fatalError, completed,
                    undrained, draining, inFlight, won, parties, pc, todo, roots,
                    skips, cur, owes>>
    BY <1>1 DEF vars, shared, local
  <2>2. TypeOK' /\ Ownership' /\ PartyInv'
    BY <2>1 DEF IInv, TypeOK, ControlOK, DataOK, PartyInv, Ownership, HeldByBody,
           HeldByParties, HeldByOutcome, HeldByCont
  <2>3. SubmitInv' /\ SubmitOnce' /\ PendingInv' /\ RootInv'
    BY <2>1 DEF IInv, SubmitInv, SubmitOnce, PendingInv, RootInv, Submitting
  <2>4. SkipInv' /\ SkippedOnlyAfterFailure' /\ RecordInv' /\ RejectInv' /\ FailureAttributed'
    BY <2>1 DEF IInv, SkipInv, SkippedOnlyAfterFailure, RecordInv, RejectInv,
           FailureAttributed, hasFatalFailure
  <2>5. TodoInv' /\ TodoOnce' /\ CountInv' /\ DependencyOrder'
    BY <2>1 DEF IInv, TodoInv, TodoOnce, CountInv, Unreleased, DependencyOrder, Satisfied
  <2>6. OwesInv' /\ InFlightExact'
    BY <2>1 DEF IInv, OwesInv, InFlightExact, UndeliveredJobs, Undelivered, Owing, OwingTwo
  <2> QED
    BY <2>2, <2>3, <2>4, <2>5, <2>6 DEF IInv
<1>2. CASE \E t \in Threads : ThreadStep(t)
  BY <1>2, SkipNodeIInv, DrainIInv, SkipsDoneIInv, SubmitIInv, SubmissionFailedIInv,
     RecordRejectedIInv, FinishJobIInv, RecordJobFailureIInv, NextEdgeIInv,
     ReleaseIInv, LeaveIInv
     DEF ThreadStep
<1>3. CASE \E j \in Jobs : JobStep(j) \/ DecideOutcome(j) \/ RequestStop(j)
  BY <1>3, DispatchJobIInv, ClaimIInv, InvokeIInv, BodyReturnsIInv, StartDeferredIInv,
     BodyStartedIInv, BodyArrivesIInv, DecideOutcomeIInv, OutcomeArrivesIInv,
     DeliverDeferredIInv, FinishDeferredIInv, RequestStopIInv
     DEF JobStep
<1>4. CASE RunStep
  BY <1>4, NextRootIInv, RootsDoneIInv, WaitAllIInv, AwaitDeferredIInv DEF RunStep
<1>5. CASE Rerun
  BY <1>5, RerunIInv
<1> QED
  BY <1>1, <1>2, <1>3, <1>4, <1>5 DEF Next

\* The inductive invariant holds in every reachable state, for every graph.
THEOREM Invariance == Spec => []IInv
<1>1. Init => IInv
  BY InitIInv
<1>2. IInv /\ [Next]_vars => IInv'
  BY NextIInv
<1> QED
  BY <1>1, <1>2, PTL DEF Spec

\* Every variable keeps its type: no counter of the run wraps around.
THEOREM TypeCorrect == Spec => []TypeOK
<1>1. IInv => TypeOK
  BY DEF IInv
<1> QED
  BY <1>1, Invariance, PTL

\* finishJob() respects the graph: a job that has become ready, runs or has run
\* has only satisfied predecessors, for every graph and every interleaving.
THEOREM RespectsDependencies == Spec => []DependencyOrder
<1>1. IInv => DependencyOrder
  BY DEF IInv
<1> QED
  BY <1>1, Invariance, PTL

\* recordFailure() precedes every skip, so a successful run skips nothing.
THEOREM SkipsFollowFailure == Spec => []SkippedOnlyAfterFailure
<1>1. IInv => SkippedOnlyAfterFailure
  BY DEF IInv
<1> QED
  BY <1>1, Invariance, PTL

\* The error and the name that run() reports belong together.
THEOREM ReportsItsFailure == Spec => []FailureAttributed
<1>1. IInv => FailureAttributed
  BY DEF IInv
<1> QED
  BY <1>1, Invariance, PTL

\* deferredInFlight is exact, so it cannot wrap and cannot reach zero early.
THEOREM CountsInFlight == Spec => []InFlightExact
<1>1. IInv => InFlightExact
  BY DEF IInv
<1> QED
  BY <1>1, Invariance, PTL

\* No step of a run replaces a final status.
LEMMA FinalKept ==
  ASSUME IInv, [Next]_vars, pc[RunThread] # "returned"
  PROVE  \A j \in Jobs : status[j] \in Final => status'[j] = status[j]
<1> USE ThreadFacts DEF IInv, TypeOK, DataOK, Final
<1>1. CASE status' = status
  BY <1>1
<1>2. ASSUME NEW t \in Threads, ThreadStep(t), status' # status
      PROVE  \A j \in Jobs : status[j] \in Final => status'[j] = status[j]
  <2>1. CASE SkipNode(t)
    <3>1. PICK i \in skips[t] : EnqueueSkip({i}) \/ EnqueueSkip(Successors(i) \cup {i})
      BY <1>2, <2>1 DEF SkipNode, DrainOne
    <3>2. CASE EnqueueSkip({i})
      BY <3>2, SkipEffect DEF Unstarted
    <3>3. CASE EnqueueSkip(Successors(i) \cup {i})
      BY <3>3, SkipEffect DEF Unstarted
    <3> QED
      BY <3>1, <3>2, <3>3
  <2>2. CASE Drain(t)
    <3>1. PICK i \in undrained : EnqueueSkip(Successors(i) \cup {})
      BY <1>2, <2>2 DEF Drain, DrainOne
    <3> QED
      BY <3>1, SkipEffect DEF Unstarted
  <2>3. CASE SubmissionFailed(t)
    BY <2>3 DEF SubmissionFailed
  <2>4. CASE FinishJob(t)
    <3>1. JobOf(t) \in Jobs /\ status[JobOf(t)] \in Started
      BY <2>4, LabelFacts DEF FinishJob, ControlOK, LabelsOf, Ownership, HeldByBody,
             HeldByParties, HeldByOutcome, HeldByCont, PartyInv
    <3> QED
      BY <2>4, <3>1 DEF FinishJob, Started
  <2>5. CASE Release(t)
    BY <2>5 DEF Release
  <2> QED
    BY <1>2, <2>1, <2>2, <2>3, <2>4, <2>5
       DEF ThreadStep, SkipsDone, Submit, RecordRejected, RecordJobFailure, NextEdge, Leave,
           shared
<1>3. ASSUME NEW i \in Jobs, JobStep(i), status' # status
      PROVE  \A j \in Jobs : status[j] \in Final => status'[j] = status[j]
  <2>1. CASE Claim(i)
    BY <2>1 DEF Claim
  <2>2. CASE BodyStarted(i)
    <3>1. status[i] \in Started
      BY <2>2 DEF BodyStarted, PartyInv, Ownership, HeldByParties
    <3> QED
      BY <2>2, <3>1 DEF BodyStarted, Started
  <2> QED
    BY <1>3, <2>1, <2>2
       DEF JobStep, DispatchJob, Invoke, BodyReturns, StartDeferred, BodyArrives,
           OutcomeArrives, DeliverDeferred, FinishDeferred, shared
<1>4. ASSUME NEW i \in Jobs, DecideOutcome(i) \/ RequestStop(i)
      PROVE  status' = status
  BY <1>4 DEF DecideOutcome, RequestStop
<1>5. CASE RunStep
  BY <1>5 DEF RunStep, NextRoot, RootsDone, WaitAll, AwaitDeferred, shared
<1>6. ~Rerun
  BY DEF Rerun
<1>7. CASE UNCHANGED vars
  BY <1>7 DEF vars, shared
<1> QED
  BY <1>1, <1>2, <1>3, <1>4, <1>5, <1>6, <1>7 DEF Next

\* A job that has ended keeps its status until the next run, for every graph.
THEOREM FinalStatusIsStable == Spec => FinalStatusStable
<1>1. IInv /\ [Next]_vars =>
        [pc[RunThread] # "returned" =>
           \A j \in Jobs : status[j] \in Final => status'[j] = status[j]]_vars
  BY FinalKept
<1> QED
  BY <1>1, Invariance, PTL DEF Spec, FinalStatusStable

----------------------------------------------------------------------------
(* What a run has done when run() returns *)

FinalJobs == {j \in Jobs : status[j] \in Final}

----------------------------------------------------------------------------
(* Counting what has ended *)

\* The sets that completedCount_ is compared with are finite.
LEMMA ProgressSets ==
  ASSUME DataOK
  PROVE  /\ IsFiniteSet(undrained) /\ IsFiniteSet(Uncounted) /\ IsFiniteSet(FinalJobs)
         /\ Cardinality(undrained) \in Nat
         /\ Cardinality(Uncounted) \in Nat
         /\ Cardinality(FinalJobs) \in Nat
<1>1. IsFiniteSet(undrained) /\ IsFiniteSet(Uncounted) /\ IsFiniteSet(FinalJobs)
  BY GraphAssumption, FiniteThreads, FS_Subset DEF DataOK, Uncounted, FinalJobs
<1> QED
  BY <1>1, FS_CardinalityType

\* Disjoint finite sets.
LEMMA DisjointUnion ==
  ASSUME NEW S, NEW T, IsFiniteSet(S), IsFiniteSet(T), S \cap T = {}
  PROVE  /\ IsFiniteSet(S \cup T)
         /\ Cardinality(S \cup T) = Cardinality(S) + Cardinality(T)
<1>1. /\ IsFiniteSet(S \cup T)
      /\ Cardinality(S \cup T) = Cardinality(S) + Cardinality(T) - Cardinality(S \cap T)
  BY FS_Union
<1>2. Cardinality(S \cap T) = 0
  BY FS_EmptySet
<1>3. Cardinality(S) \in Nat /\ Cardinality(T) \in Nat
  BY FS_CardinalityType
<1> QED
  BY <1>1, <1>2, <1>3

\* A step that ends no job and moves none between the lists.
LEMMA ProgressKept ==
  ASSUME ProgressInv, status' = status, completed' = completed, undrained' = undrained,
         \A t \in Threads : (pc[t] = "recordRejected") <=> (pc'[t] = "recordRejected"),
         \A t \in Threads : pc[t] = "recordRejected" => cur'[t] = cur[t]
  PROVE  ProgressInv'
<1>1. Uncounted' = Uncounted
  BY DEF Uncounted
<1> QED
  BY <1>1 DEF ProgressInv, ProgressExact

\* enqueueSkip(): what it claims is what ends.
LEMMA ClaimCount ==
  ASSUME DataOK, ProgressInv, NEW S, S \subseteq Jobs, EnqueueSkip(S),
         \A t \in Threads : (pc[t] = "recordRejected") <=> (pc'[t] = "recordRejected"),
         cur' = cur, RejectInv
  PROVE  /\ Claimable(S) \cap undrained = {}
         /\ IsFiniteSet(Claimable(S))
         /\ Cardinality(FinalJobs') = Cardinality(FinalJobs) + Cardinality(Claimable(S))
         /\ Uncounted' = Uncounted
         /\ \A t \in Threads : pc'[t] = "recordRejected"
               => status'[cur'[t]] \in {"kFailed", "kSkipped"}
         /\ \A j \in undrained \cup Claimable(S) : status'[j] = "kSkipped"
<1> USE DEF Claimable, Unstarted
<1>1. Claimable(S) \cap undrained = {}
  BY DEF ProgressInv
<1>2. IsFiniteSet(Claimable(S)) /\ IsFiniteSet(FinalJobs)
  BY GraphAssumption, FS_Subset, ProgressSets
<1>3. FinalJobs' = FinalJobs \cup Claimable(S) /\ FinalJobs \cap Claimable(S) = {}
  BY DEF FinalJobs, EnqueueSkip, Final, DataOK
<1>4. Cardinality(FinalJobs') = Cardinality(FinalJobs) + Cardinality(Claimable(S))
  BY <1>2, <1>3, DisjointUnion
<1>5. \A t \in Threads : pc[t] = "recordRejected" => status'[cur[t]] = status[cur[t]]
  BY DEF ProgressInv, RejectInv, EnqueueSkip
<1>6. Uncounted' = Uncounted
  BY <1>5 DEF Uncounted
<1>7. \A j \in undrained \cup Claimable(S) : status'[j] = "kSkipped"
  BY DEF EnqueueSkip, ProgressInv, DataOK
<1> QED
  BY <1>1, <1>2, <1>4, <1>5, <1>6, <1>7 DEF ProgressInv

\* One iteration of the drain loop moves one job from the list to the count.
LEMMA DrainCount ==
  ASSUME DataOK, ProgressInv, RejectInv, NEW j \in Jobs, NEW also \in SUBSET Jobs,
         DrainOne(j, also),
         \A t \in Threads : (pc[t] = "recordRejected") <=> (pc'[t] = "recordRejected"),
         cur' = cur,
         \/ also = {} /\ j \in undrained
         \/ also = {j} /\ status[j] \in Unstarted
  PROVE  ProgressInv'
<1> DEFINE S == Successors(j) \cup also
           U == undrained \cup Claimable(S)
<1>1. S \subseteq Jobs /\ EnqueueSkip(S)
  BY GraphAssumption DEF Successors, OutEdges, DrainOne
<1>2. j \in U /\ undrained' = U \ {j}
  BY DEF DrainOne, Claimable
<1> HIDE DEF S
<1>3. /\ Claimable(S) \cap undrained = {}
      /\ IsFiniteSet(Claimable(S))
      /\ Cardinality(FinalJobs') = Cardinality(FinalJobs) + Cardinality(Claimable(S))
      /\ Uncounted' = Uncounted
      /\ \A t \in Threads : pc'[t] = "recordRejected"
            => status'[cur'[t]] \in {"kFailed", "kSkipped"}
      /\ \A i \in U : status'[i] = "kSkipped"
  BY <1>1, ClaimCount
<1>4. IsFiniteSet(U) /\ Cardinality(U) = Cardinality(undrained) + Cardinality(Claimable(S))
  BY <1>3, DisjointUnion, ProgressSets
<1>5. Cardinality(undrained') = Cardinality(U) - 1
  BY <1>2, <1>4, RemoveOne
<1>6. completed' = completed + 1
  BY DEF DrainOne
<1>7. ProgressExact'
  BY <1>3, <1>4, <1>5, <1>6, ProgressSets, FS_CardinalityType
     DEF ProgressInv, ProgressExact, FinalJobs, DataOK
<1> QED
  BY <1>2, <1>3, <1>7 DEF ProgressInv

\* A job that ends by itself is counted by the step that ends it.
LEMMA EndOne ==
  ASSUME DataOK, NEW j \in Jobs, status[j] \notin Final, NEW v \in Final,
         status' = [status EXCEPT ![j] = v]
  PROVE  Cardinality(FinalJobs') = Cardinality(FinalJobs) + 1
<1>1. FinalJobs' = FinalJobs \cup {j} /\ j \notin FinalJobs
  BY DEF FinalJobs, DataOK
<1> QED
  BY <1>1, ProgressSets, AddOne

\* A run starts with nothing counted and nothing ended.
LEMMA InitProgress == Init => ProgressInv
<1> SUFFICES ASSUME Init PROVE ProgressInv
  OBVIOUS
<1>1. undrained = {} /\ Uncounted = {} /\ FinalJobs = {}
  BY ThreadFacts DEF Init, Uncounted, FinalJobs, Final
<1>2. Cardinality({}) = 0
  BY FS_EmptySet
<1>3. \A t \in Threads : pc[t] # "recordRejected"
  BY DEF Init
<1>4. completed = 0
  BY DEF Init
<1>5. completed + Cardinality(undrained) + Cardinality(Uncounted) = Cardinality(FinalJobs)
  BY <1>1, <1>2, <1>4
<1> QED
  BY <1>1, <1>3, <1>5 DEF ProgressInv, ProgressExact, FinalJobs

\* run() called again starts from an initial state.
LEMMA RerunProgress ==
  ASSUME Rerun
  PROVE  ProgressInv'
<1>1. Init'
  BY DEF Rerun, Init
<1> QED
  BY <1>1, InitProgress, PTL

\* The count stays exact in every step.
LEMMA ProgressStep ==
  ASSUME IInv, ProgressInv, [Next]_vars
  PROVE  ProgressInv'
<1> USE ThreadFacts DEF IInv, TypeOK
<1> DEFINE Frame ==
      /\ status' = status /\ completed' = completed /\ undrained' = undrained
      /\ \A t \in Threads : (pc[t] = "recordRejected") <=> (pc'[t] = "recordRejected")
      /\ \A t \in Threads : pc[t] = "recordRejected" => cur'[t] = cur[t]
<1>1. CASE Frame
  BY <1>1, ProgressKept
<1>2. ASSUME NEW t \in Threads, SkipNode(t)
      PROVE  ProgressInv'
  <2>1. PICK i \in skips[t] : SkipNode(t)!2!(i)
    BY <1>2 DEF SkipNode
  <2>2. /\ i \in Jobs
        /\ \A u \in Threads : (pc[u] = "recordRejected") <=> (pc'[u] = "recordRejected")
        /\ cur' = cur
    BY <1>2, <2>1 DEF DataOK, ControlOK, SkipNode, Goto
  <2>3. CASE draining
    <3>1. EnqueueSkip({i}) /\ undrained' = undrained \cup Claimable({i}) /\ completed' = completed
      BY <2>1, <2>3
    <3>2. /\ Claimable({i}) \cap undrained = {}
          /\ IsFiniteSet(Claimable({i}))
          /\ Cardinality(FinalJobs') = Cardinality(FinalJobs) + Cardinality(Claimable({i}))
          /\ Uncounted' = Uncounted
          /\ \A u \in Threads : pc'[u] = "recordRejected"
                => status'[cur'[u]] \in {"kFailed", "kSkipped"}
          /\ \A j \in undrained \cup Claimable({i}) : status'[j] = "kSkipped"
      BY <2>2, <3>1, ClaimCount
    <3>3. Cardinality(undrained') = Cardinality(undrained) + Cardinality(Claimable({i}))
      BY <3>1, <3>2, DisjointUnion, ProgressSets
    <3>4. ProgressExact'
      BY <3>1, <3>2, <3>3, ProgressSets, FS_CardinalityType
         DEF ProgressInv, ProgressExact, FinalJobs, DataOK
    <3> QED
      BY <3>1, <3>2, <3>4 DEF ProgressInv
  <2>4. CASE ~draining /\ status[i] \in Unstarted
    <3>1. DrainOne(i, {i})
      BY <2>1, <2>4
    <3> QED
      BY <2>2, <2>4, <3>1, DrainCount
  <2>5. CASE ~draining /\ status[i] \notin Unstarted
    BY <1>1, <2>1, <2>2, <2>5
  <2> QED
    BY <2>3, <2>4, <2>5
<1>3. ASSUME NEW t \in Threads, Drain(t)
      PROVE  ProgressInv'
  <2>1. /\ \A u \in Threads : (pc[u] = "recordRejected") <=> (pc'[u] = "recordRejected")
        /\ cur' = cur
    BY <1>3 DEF Drain, ControlOK, Goto
  <2>2. CASE \E i \in undrained : DrainOne(i, {})
    BY <2>1, <2>2, DrainCount DEF DataOK
  <2>3. CASE UNCHANGED <<status, undrained, completed>>
    BY <1>1, <2>1, <2>3
  <2> QED
    BY <1>3, <2>2, <2>3 DEF Drain
<1>4. ASSUME NEW t \in Threads, SubmissionFailed(t)
      PROVE  ProgressInv'
  <2>1. /\ cur[t] \in Jobs /\ status[cur[t]] \in {"kReady", "kSkipped"}
        /\ pc[t] = "rejected" /\ pc' = [pc EXCEPT ![t] = "recordRejected"]
        /\ completed' = completed /\ undrained' = undrained /\ cur' = cur
    BY <1>4 DEF SubmissionFailed, SubmitInv, Submitting, Goto
  <2>2. CASE status[cur[t]] = "kReady"
    <3>1. status' = [status EXCEPT ![cur[t]] = "kFailed"]
      BY <1>4, <2>2 DEF SubmissionFailed
    <3>2. Uncounted' = Uncounted \cup {t} /\ t \notin Uncounted
      BY <2>1, <2>2, <3>1 DEF Uncounted, ControlOK, DataOK, ProgressInv, RejectInv
    <3>3. Cardinality(Uncounted') = Cardinality(Uncounted) + 1
      BY <3>2, ProgressSets, AddOne
    <3>4. Cardinality(FinalJobs') = Cardinality(FinalJobs) + 1
      BY <2>1, <2>2, <3>1, EndOne DEF Final
    <3>5. ProgressExact'
      BY <2>1, <3>3, <3>4, ProgressSets DEF ProgressInv, ProgressExact, FinalJobs, DataOK
    <3> QED
      BY <2>1, <2>2, <3>1, <3>5 DEF ProgressInv, DataOK, ControlOK, RejectInv
  <2>3. CASE status[cur[t]] # "kReady"
    <3>1. status' = status
      BY <1>4, <2>3 DEF SubmissionFailed
    <3>2. Uncounted' = Uncounted
      BY <2>1, <2>3, <3>1 DEF Uncounted, ControlOK
    <3> QED
      BY <2>1, <2>3, <3>1, <3>2 DEF ProgressInv, ProgressExact, ControlOK
  <2> QED
    BY <2>2, <2>3
<1>5. ASSUME NEW t \in Threads, RecordRejected(t)
      PROVE  ProgressInv'
  <2>1. /\ pc[t] = "recordRejected" /\ pc' = [pc EXCEPT ![t] = "skip"]
        /\ status' = status /\ undrained' = undrained /\ cur' = cur
    BY <1>5 DEF RecordRejected, Goto
  <2>2. CASE status[cur[t]] = "kFailed"
    <3>1. Uncounted' = Uncounted \ {t} /\ t \in Uncounted
      BY <2>1, <2>2 DEF Uncounted, ControlOK
    <3>2. Cardinality(Uncounted') = Cardinality(Uncounted) - 1
      BY <3>1, ProgressSets, RemoveOne
    <3>3. completed' = completed + 1
      BY <1>5, <2>2 DEF RecordRejected
    <3>4. FinalJobs' = FinalJobs
      BY <2>1 DEF FinalJobs
    <3>5. completed + Cardinality(undrained) + Cardinality(Uncounted) = Cardinality(FinalJobs)
      BY DEF ProgressInv, ProgressExact, FinalJobs
    <3>6. completed \in Nat /\ Cardinality(undrained) \in Nat /\ Cardinality(Uncounted) \in Nat
      BY ProgressSets DEF DataOK
    <3>7. completed' + Cardinality(undrained') + Cardinality(Uncounted')
            = Cardinality(FinalJobs')
      BY <2>1, <3>2, <3>3, <3>4, <3>5, <3>6
    <3>8. ProgressExact'
      BY <3>7 DEF ProgressExact, FinalJobs
    <3> QED
      BY <2>1, <3>8 DEF ProgressInv, ControlOK
  <2>3. CASE status[cur[t]] # "kFailed"
    <3>1. Uncounted' = Uncounted
      BY <2>1, <2>3 DEF Uncounted, ControlOK
    <3>2. completed' = completed
      BY <1>5, <2>3 DEF RecordRejected
    <3> QED
      BY <2>1, <3>1, <3>2 DEF ProgressInv, ProgressExact, ControlOK
  <2> QED
    BY <2>2, <2>3
<1>6. ASSUME NEW t \in Threads, FinishJob(t)
      PROVE  ProgressInv'
  <2> DEFINE j == JobOf(t)
  <2>1. j \in Jobs /\ status[j] \in Started
    BY <1>6, LabelFacts DEF FinishJob, ControlOK, LabelsOf, Ownership, HeldByBody,
           HeldByParties, HeldByOutcome, HeldByCont, PartyInv
  <2>2. /\ status' = [status EXCEPT ![j] = StatusOf(result[j])]
        /\ completed' = completed + 1 /\ undrained' = undrained /\ cur' = cur
        /\ \A u \in Threads : (pc[u] = "recordRejected") <=> (pc'[u] = "recordRejected")
    BY <1>6 DEF FinishJob, Goto, ControlOK
  <2>3. StatusOf(result[j]) \in Final /\ status[j] \notin Final
    BY <2>1 DEF StatusOf, Final, Started
  <2> HIDE DEF j
  <2>4. Cardinality(FinalJobs') = Cardinality(FinalJobs) + 1
    BY <2>1, <2>2, <2>3, EndOne
  <2>5. \A u \in Threads : pc[u] = "recordRejected" => cur[u] \in Jobs /\ cur[u] # j
    BY <2>1 DEF ProgressInv, RejectInv, Started
  <2>6. Uncounted' = Uncounted
    BY <2>2, <2>5 DEF Uncounted, DataOK
  <2>7. ProgressExact'
    BY <2>2, <2>4, <2>6, ProgressSets DEF ProgressInv, ProgressExact, FinalJobs, DataOK
  <2>8. j \notin undrained
    BY <2>1 DEF ProgressInv, Started
  <2> QED
    BY <2>2, <2>5, <2>7, <2>8 DEF ProgressInv, DataOK
<1>7. ASSUME NEW t \in Threads, Release(t)
      PROVE  ProgressInv'
  <2>1. /\ completed' = completed /\ undrained' = undrained /\ cur' = cur
        /\ \A u \in Threads : (pc[u] = "recordRejected") <=> (pc'[u] = "recordRejected")
    BY <1>7 DEF Release, Goto, ControlOK
  <2>2. /\ \A i \in Jobs : status'[i] # status[i] => status[i] = "kPending" /\ status'[i] = "kReady"
    BY <1>7 DEF Release, DataOK
  <2>3. FinalJobs' = FinalJobs
    BY <2>2 DEF FinalJobs, Final
  <2>4. Uncounted' = Uncounted
    BY <2>1, <2>2 DEF Uncounted, ProgressInv, RejectInv
  <2> QED
    BY <2>1, <2>2, <2>3, <2>4 DEF ProgressInv, ProgressExact, FinalJobs, RejectInv, DataOK
<1>8. ASSUME NEW i \in Jobs, Claim(i) \/ BodyStarted(i)
      PROVE  ProgressInv'
  <2>1. /\ completed' = completed /\ undrained' = undrained /\ cur' = cur
        /\ \A u \in Threads : (pc[u] = "recordRejected") <=> (pc'[u] = "recordRejected")
    BY <1>8 DEF Claim, BodyStarted, Goto, ControlOK
  <2>2. /\ \A k \in Jobs : status'[k] # status[k] =>
             /\ status[k] \in {"kReady", "kRunning", "kAwaiting"}
             /\ status'[k] \in {"kRunning", "kAwaiting"}
    <3>1. CASE Claim(i)
      BY <3>1 DEF Claim, DataOK
    <3>2. CASE BodyStarted(i)
      BY <3>2 DEF BodyStarted, DataOK, PartyInv, Ownership, HeldByParties, Started
    <3> QED
      BY <1>8, <3>1, <3>2
  <2>3. FinalJobs' = FinalJobs
    BY <2>2 DEF FinalJobs, Final
  <2>4. Uncounted' = Uncounted
    BY <2>1, <2>2 DEF Uncounted, ProgressInv, RejectInv
  <2> QED
    BY <2>1, <2>2, <2>3, <2>4 DEF ProgressInv, ProgressExact, FinalJobs, RejectInv, DataOK
<1>9. ASSUME NEW t \in Threads, ThreadStep(t)
      PROVE  ProgressInv'
  <2>1. CASE SkipsDone(t) \/ Submit(t) \/ RecordJobFailure(t) \/ NextEdge(t) \/ Leave(t)
    <3>1. Frame
      BY <2>1 DEF SkipsDone, Submit, RecordJobFailure, NextEdge, Leave, Goto, Resume, shared,
             ControlOK, DataOK, SubmitInv, Submitting
    <3> QED
      BY <1>1, <3>1
  <2> QED
    BY <1>2, <1>3, <1>4, <1>5, <1>6, <1>7, <1>9, <2>1 DEF ThreadStep
<1>10. ASSUME NEW i \in Jobs, JobStep(i) \/ DecideOutcome(i) \/ RequestStop(i)
       PROVE  ProgressInv'
  <2>1. CASE DispatchJob(i) \/ Invoke(i) \/ BodyReturns(i) \/ StartDeferred(i) \/ BodyArrives(i)
    <3>1. Frame
      BY <2>1 DEF DispatchJob, Invoke, BodyReturns, StartDeferred, BodyArrives, Goto, shared,
             ControlOK
    <3> QED
      BY <1>1, <3>1
  <2>2. CASE \/ OutcomeArrives(i) \/ DeliverDeferred(i) \/ FinishDeferred(i)
             \/ DecideOutcome(i) \/ RequestStop(i)
    <3>1. Frame
      BY <2>2 DEF OutcomeArrives, DeliverDeferred, FinishDeferred, DecideOutcome, RequestStop,
             Goto, shared, local, ControlOK, PartyInv
    <3> QED
      BY <1>1, <3>1
  <2> QED
    BY <1>8, <1>10, <2>1, <2>2 DEF JobStep
<1>11. CASE RunStep
  <2>1. CASE NextRoot
    <3>1. Frame
      BY <2>1 DEF NextRoot, Goto, shared, ControlOK, DataOK
    <3> QED
      BY <1>1, <3>1
  <2>2. CASE RootsDone \/ WaitAll \/ AwaitDeferred
    <3>1. Frame
      BY <2>2 DEF RootsDone, WaitAll, AwaitDeferred, Goto, shared, ControlOK
    <3> QED
      BY <1>1, <3>1
  <2> QED
    BY <1>11, <2>1, <2>2 DEF RunStep
<1>12. CASE UNCHANGED vars
  <2>1. Frame
    BY <1>12 DEF vars, shared, local
  <2> QED
    BY <1>1, <2>1
<1>13. CASE Rerun
  BY <1>13, RerunProgress
<1> QED
  BY <1>9, <1>10, <1>11, <1>12, <1>13 DEF Next

\* completedCount_ is exact in every reachable state of every run.
THEOREM CountsProgress == Spec => []ProgressExact
<1>1. Init => ProgressInv
  BY InitProgress
<1>2. IInv /\ ProgressInv /\ [Next]_vars => ProgressInv'
  BY ProgressStep
<1>3. ProgressInv => ProgressExact
  BY DEF ProgressInv
<1> QED
  BY <1>1, <1>2, <1>3, Invariance, PTL DEF Spec

----------------------------------------------------------------------------
(* Nothing is left behind *)

\* What follows a deferred job, or something that does, follows a deferred job.
LEMMA AfterClosed ==
  /\ AfterDeferred \subseteq Jobs
  /\ \A i \in AfterDeferred \cup Deferred : Successors(i) \subseteq AfterDeferred
<1>1. Deferred \subseteq Jobs /\ \A i : Successors(i) \subseteq Jobs
  BY GraphAssumption DEF Successors, OutEdges
<1> QED
  BY <1>1 DEF AfterDeferred

\* What waitAll() waits for.
LEMMA CallbackFacts == \A j \in Jobs : JobThread(j) \in Callbacks /\ ContThread(j) \in Callbacks
BY DEF JobThread, ContThread, Callbacks

\* When deferredInFlight is zero no deferred job is undelivered and nobody owes.
LEMMA NoneInFlight ==
  ASSUME InFlightExact, DataOK, inFlight = 0
  PROVE  /\ \A j \in Jobs : ~Undelivered(j) /\ parties[j] = 0
         /\ \A t \in Threads : owes[t] = 0
<1>1. Cardinality(UndeliveredJobs) = 0 /\ Cardinality(Owing) = 0
  BY InFlightSets DEF InFlightExact
<1>2. UndeliveredJobs = {} /\ Owing = {}
  BY <1>1, InFlightSets, FS_EmptySet
<1> QED
  BY <1>2 DEF UndeliveredJobs, Owing, Undelivered

\* A run starts with every other thread at rest.
LEMMA InitQuiet == Init => QuietInv
<1> SUFFICES ASSUME Init PROVE QuietInv
  OBVIOUS
<1> USE ThreadFacts DEF Init
<1>1. DrainInv /\ LoopInv
  BY DEF DrainInv, LoopInv
<1>2. DebtInv /\ DeferredInv /\ ReleaseInv
  BY DEF DebtInv, DeferredInv, ReleaseInv
<1>3. PhaseInv
  BY DEF PhaseInv, AtRest
<1> QED
  BY <1>1, <1>2, <1>3 DEF QuietInv

\* run() called again starts from an initial state.
LEMMA RerunQuiet ==
  ASSUME Rerun
  PROVE  QuietInv'
<1>1. Init'
  BY DEF Rerun, Init
<1> QED
  BY <1>1, InitQuiet, PTL

\* skipNode() starts a drain or adds to the one in progress.
LEMMA SkipNodeQuiet ==
  ASSUME IInv, QuietInv, NEW t \in Threads, SkipNode(t)
  PROVE  QuietInv'
<1> USE ThreadFacts, LabelFacts DEF IInv, QuietInv, SkipNode, Goto, TypeOK, ControlOK, DataOK,
      LabelsOf
<1>1. DrainInv'
  BY DEF DrainInv, DrainOne
<1>2. LoopInv'
  BY DEF LoopInv, OwesInv, BeforeFinish
<1>3. DebtInv'
  BY DEF DebtInv, OwesInv, BeforeFinish
<1>4. DeferredInv'
  BY DEF DeferredInv, PartyInv
<1>5. ReleaseInv'
  BY DEF ReleaseInv
<1>6. NoDeferredChain => PhaseInv'
  BY DEF NoDeferredChain, PhaseInv, AtRest, DeferredInv, PartyInv
<1> QED
  BY <1>1, <1>2, <1>3, <1>4, <1>5, <1>6

\* The drain loop ends when the list is empty.
LEMMA DrainQuiet ==
  ASSUME IInv, QuietInv, NEW t \in Threads, Drain(t)
  PROVE  QuietInv'
<1> USE ThreadFacts, LabelFacts DEF IInv, QuietInv, Drain, Goto, TypeOK, ControlOK, DataOK,
      LabelsOf
<1>1. DrainInv'
  BY DEF DrainInv, DrainOne
<1>2. LoopInv'
  BY DEF LoopInv, OwesInv, BeforeFinish
<1>3. DebtInv'
  BY DEF DebtInv, OwesInv, BeforeFinish
<1>4. DeferredInv'
  BY DEF DeferredInv, PartyInv
<1>5. ReleaseInv'
  BY DEF ReleaseInv
<1>6. NoDeferredChain => PhaseInv'
  BY DEF NoDeferredChain, PhaseInv, AtRest, DeferredInv, PartyInv
<1> QED
  BY <1>1, <1>2, <1>3, <1>4, <1>5, <1>6

\* Leaving skipNode() changes the thread's position only.
LEMMA SkipsDoneQuiet ==
  ASSUME IInv, QuietInv, NEW t \in Threads, SkipsDone(t)
  PROVE  QuietInv'
<1> USE ThreadFacts, LabelFacts DEF IInv, QuietInv, SkipsDone, Goto, Resume, shared, TypeOK,
      ControlOK, DataOK, LabelsOf
<1>1. DrainInv'
  BY DEF DrainInv
<1>2. LoopInv'
  BY DEF LoopInv, OwesInv, BeforeFinish, TodoInv
<1>3. DebtInv'
  BY DEF DebtInv, OwesInv, BeforeFinish
<1>4. DeferredInv'
  BY DEF DeferredInv, PartyInv
<1>5. ReleaseInv'
  BY DEF ReleaseInv
<1>6. NoDeferredChain => PhaseInv'
  BY DEF NoDeferredChain, PhaseInv, AtRest, DeferredInv, PartyInv
<1> QED
  BY <1>1, <1>2, <1>3, <1>4, <1>5, <1>6

\* A worker submits a job that follows its own.
LEMMA SubmitQuiet ==
  ASSUME IInv, QuietInv, NEW t \in Threads, Submit(t)
  PROVE  QuietInv'
<1> USE ThreadFacts, LabelFacts DEF IInv, QuietInv, Submit, Goto, Resume, shared, TypeOK,
      ControlOK, DataOK, LabelsOf
<1>1. DrainInv'
  BY DEF DrainInv, SubmitInv, Submitting
<1>2. LoopInv'
  <2>1. cur[t] \in Jobs /\ pc[JobThread(cur[t])] = "idle" /\ JobThread(cur[t]) # t
    BY DEF SubmitInv, Submitting
  <2>2. todo[RunThread] = {}
    BY DEF TodoInv
  <2>3. (roots # {} => pc[RunThread] \in {"roots"} \cup LoopLabels)'
    BY <2>1 DEF LoopInv
  <2>4. ASSUME NEW u \in Threads
        PROVE  /\ todo[u] # {} => pc'[u] \in {"edges", "release"} \cup LoopLabels
               /\ skips[u] # {} => pc'[u] \in {"skip", "drain"}
               /\ pc'[u] = "done" \/ u = RunThread => owes[u] = 0
    <3>1. CASE u = t
      BY <2>1, <2>2, <3>1 DEF LoopInv
    <3>2. CASE u = JobThread(cur[t])
      BY <2>1, <3>2 DEF LoopInv
    <3>3. CASE u # t /\ u # JobThread(cur[t])
      BY <2>1, <3>3 DEF LoopInv
    <3> QED
      BY <3>1, <3>2, <3>3
  <2> QED
    BY <2>3, <2>4 DEF LoopInv
<1>3. DebtInv'
  BY DEF DebtInv, OwesInv, BeforeFinish, SubmitInv, Submitting
<1>4. DeferredInv'
  BY DEF DeferredInv, PartyInv, SubmitInv, Submitting
<1>5. ReleaseInv'
  BY DEF ReleaseInv, SubmitInv, Submitting
<1>6. NoDeferredChain => PhaseInv'
  BY AfterClosed
     DEF NoDeferredChain, PhaseInv, AtRest, DeferredInv, PartyInv, SubmitInv, Submitting,
         ReleaseInv
<1> QED
  BY <1>1, <1>2, <1>3, <1>4, <1>5, <1>6

\* A rejected submission starts nothing.
LEMMA SubmissionFailedQuiet ==
  ASSUME IInv, QuietInv, NEW t \in Threads, SubmissionFailed(t)
  PROVE  QuietInv'
<1> USE ThreadFacts, LabelFacts DEF IInv, QuietInv, SubmissionFailed, Goto, TypeOK, ControlOK,
      DataOK, LabelsOf
<1>1. DrainInv'
  BY DEF DrainInv
<1>2. LoopInv'
  BY DEF LoopInv, OwesInv, BeforeFinish
<1>3. DebtInv'
  BY DEF DebtInv, OwesInv, BeforeFinish
<1>4. DeferredInv'
  BY DEF DeferredInv, PartyInv
<1>5. ReleaseInv'
  BY DEF ReleaseInv
<1>6. NoDeferredChain => PhaseInv'
  BY DEF NoDeferredChain, PhaseInv, AtRest, DeferredInv, PartyInv
<1> QED
  BY <1>1, <1>2, <1>3, <1>4, <1>5, <1>6

\* Recording a rejection starts nothing.
LEMMA RecordRejectedQuiet ==
  ASSUME IInv, QuietInv, NEW t \in Threads, RecordRejected(t)
  PROVE  QuietInv'
<1> USE ThreadFacts, LabelFacts DEF IInv, QuietInv, RecordRejected, Goto, TypeOK, ControlOK,
      DataOK, LabelsOf
<1>1. DrainInv'
  BY DEF DrainInv
<1>2. LoopInv'
  BY DEF LoopInv, OwesInv, BeforeFinish
<1>3. DebtInv'
  BY DEF DebtInv, OwesInv, BeforeFinish
<1>4. DeferredInv'
  BY DEF DeferredInv, PartyInv
<1>5. ReleaseInv'
  BY DEF ReleaseInv
<1>6. NoDeferredChain => PhaseInv'
  BY DEF NoDeferredChain, PhaseInv, AtRest, DeferredInv, PartyInv
<1> QED
  BY <1>1, <1>2, <1>3, <1>4, <1>5, <1>6

\* finishJob() takes over the edges of its own job.
LEMMA FinishJobQuiet ==
  ASSUME IInv, QuietInv, NEW t \in Threads, FinishJob(t)
  PROVE  QuietInv'
<1> USE ThreadFacts, LabelFacts DEF IInv, QuietInv, FinishJob, Goto, TypeOK, ControlOK, DataOK,
      LabelsOf
<1>1. DrainInv'
  BY DEF DrainInv
<1>2. LoopInv'
  BY DEF LoopInv, OwesInv, BeforeFinish
<1>3. DebtInv'
  BY DEF DebtInv, OwesInv, BeforeFinish
<1>4. DeferredInv'
  BY DEF DeferredInv, PartyInv
<1>5. ReleaseInv'
  BY DEF ReleaseInv
<1>6. NoDeferredChain => PhaseInv'
  BY DEF NoDeferredChain, PhaseInv, AtRest, DeferredInv, PartyInv
<1> QED
  BY <1>1, <1>2, <1>3, <1>4, <1>5, <1>6

\* Recording a failure starts nothing.
LEMMA RecordJobFailureQuiet ==
  ASSUME IInv, QuietInv, NEW t \in Threads, RecordJobFailure(t)
  PROVE  QuietInv'
<1> USE ThreadFacts, LabelFacts DEF IInv, QuietInv, RecordJobFailure, Goto, TypeOK, ControlOK,
      DataOK, LabelsOf
<1>1. DrainInv'
  BY DEF DrainInv
<1>2. LoopInv'
  BY DEF LoopInv, OwesInv, BeforeFinish
<1>3. DebtInv'
  BY DEF DebtInv, OwesInv, BeforeFinish
<1>4. DeferredInv'
  BY DEF DeferredInv, PartyInv
<1>5. ReleaseInv'
  BY DEF ReleaseInv
<1>6. NoDeferredChain => PhaseInv'
  BY DEF NoDeferredChain, PhaseInv, AtRest, DeferredInv, PartyInv
<1> QED
  BY <1>1, <1>2, <1>3, <1>4, <1>5, <1>6

\* The successor loop takes an edge of its own job.
LEMMA NextEdgeQuiet ==
  ASSUME IInv, QuietInv, NEW t \in Threads, NextEdge(t)
  PROVE  QuietInv'
<1> USE ThreadFacts, LabelFacts DEF IInv, QuietInv, NextEdge, Goto, shared, TypeOK, ControlOK,
      DataOK, LabelsOf
<1>1. DrainInv'
  BY DEF DrainInv
<1>2. LoopInv'
  BY DEF LoopInv, OwesInv, BeforeFinish
<1>3. DebtInv'
  BY DEF DebtInv, OwesInv, BeforeFinish
<1>4. DeferredInv'
  BY DEF DeferredInv, PartyInv
<1>5. ReleaseInv'
  BY DEF ReleaseInv, TodoInv, Successors, OutEdges
<1>6. NoDeferredChain => PhaseInv'
  BY DEF NoDeferredChain, PhaseInv, AtRest, DeferredInv, PartyInv
<1> QED
  BY <1>1, <1>2, <1>3, <1>4, <1>5, <1>6

\* Releasing an edge starts nothing yet.
LEMMA ReleaseQuiet ==
  ASSUME IInv, QuietInv, NEW t \in Threads, Release(t)
  PROVE  QuietInv'
<1> USE ThreadFacts, LabelFacts DEF IInv, QuietInv, Release, Goto, TypeOK, ControlOK, DataOK,
      LabelsOf
<1>1. DrainInv'
  BY DEF DrainInv
<1>2. LoopInv'
  BY DEF LoopInv, OwesInv, BeforeFinish
<1>3. DebtInv'
  BY DEF DebtInv, OwesInv, BeforeFinish
<1>4. DeferredInv'
  BY DEF DeferredInv, PartyInv
<1>5. ReleaseInv'
  BY DEF ReleaseInv, TodoInv, Successors, OutEdges
<1>6. NoDeferredChain => PhaseInv'
  BY DEF NoDeferredChain, PhaseInv, AtRest, DeferredInv, PartyInv
<1> QED
  BY <1>1, <1>2, <1>3, <1>4, <1>5, <1>6

\* The thread that leaves pays what it owes.
LEMMA LeaveQuiet ==
  ASSUME IInv, QuietInv, NEW t \in Threads, Leave(t)
  PROVE  QuietInv'
<1> USE ThreadFacts, LabelFacts DEF IInv, QuietInv, Leave, Goto, TypeOK, ControlOK, DataOK,
      LabelsOf
<1>1. DrainInv'
  BY DEF DrainInv
<1>2. LoopInv'
  BY DEF LoopInv, OwesInv, BeforeFinish
<1>3. DebtInv'
  BY DEF DebtInv, OwesInv, BeforeFinish
<1>4. DeferredInv'
  BY DEF DeferredInv, PartyInv
<1>5. ReleaseInv'
  BY DEF ReleaseInv
<1>6. NoDeferredChain => PhaseInv'
  BY DEF NoDeferredChain, PhaseInv, AtRest, DeferredInv, PartyInv
<1> QED
  BY <1>1, <1>2, <1>3, <1>4, <1>5, <1>6

\* A callback starts.
LEMMA DispatchJobQuiet ==
  ASSUME IInv, QuietInv, NEW j \in Jobs, DispatchJob(j)
  PROVE  QuietInv'
<1> USE ThreadFacts, LabelFacts DEF IInv, QuietInv, DispatchJob, Goto, shared, TypeOK,
      ControlOK, DataOK, LabelsOf
<1>1. DrainInv'
  BY DEF DrainInv
<1>2. LoopInv'
  BY DEF LoopInv, OwesInv, BeforeFinish
<1>3. DebtInv'
  BY DEF DebtInv, OwesInv, BeforeFinish
<1>4. DeferredInv'
  BY DEF DeferredInv, PartyInv
<1>5. ReleaseInv'
  BY DEF ReleaseInv
<1>6. NoDeferredChain => PhaseInv'
  BY DEF NoDeferredChain, PhaseInv, AtRest, DeferredInv, PartyInv
<1> QED
  BY <1>1, <1>2, <1>3, <1>4, <1>5, <1>6

\* Only a deferred job goes on to startDeferred().
LEMMA ClaimQuiet ==
  ASSUME IInv, QuietInv, NEW j \in Jobs, Claim(j)
  PROVE  QuietInv'
<1> USE ThreadFacts, LabelFacts DEF IInv, QuietInv, Claim, Goto, TypeOK, ControlOK, DataOK,
      LabelsOf
<1>1. DrainInv'
  BY DEF DrainInv
<1>2. LoopInv'
  BY DEF LoopInv, OwesInv, BeforeFinish
<1>3. DebtInv'
  BY DEF DebtInv, OwesInv, BeforeFinish
<1>4. DeferredInv'
  BY DEF DeferredInv, PartyInv
<1>5. ReleaseInv'
  BY DEF ReleaseInv
<1>6. NoDeferredChain => PhaseInv'
  BY DEF NoDeferredChain, PhaseInv, AtRest, DeferredInv, PartyInv
<1> QED
  BY <1>1, <1>2, <1>3, <1>4, <1>5, <1>6

\* A refused body starts nothing.
LEMMA InvokeQuiet ==
  ASSUME IInv, QuietInv, NEW j \in Jobs, Invoke(j)
  PROVE  QuietInv'
<1> USE ThreadFacts, LabelFacts DEF IInv, QuietInv, Invoke, Goto, TypeOK, ControlOK, DataOK,
      LabelsOf
<1>1. DrainInv'
  BY DEF DrainInv
<1>2. LoopInv'
  BY DEF LoopInv, OwesInv, BeforeFinish
<1>3. DebtInv'
  BY DEF DebtInv, OwesInv, BeforeFinish
<1>4. DeferredInv'
  BY DEF DeferredInv, PartyInv
<1>5. ReleaseInv'
  BY DEF ReleaseInv
<1>6. NoDeferredChain => PhaseInv'
  BY DEF NoDeferredChain, PhaseInv, AtRest, DeferredInv, PartyInv
<1> QED
  BY <1>1, <1>2, <1>3, <1>4, <1>5, <1>6

\* A body returns.
LEMMA BodyReturnsQuiet ==
  ASSUME IInv, QuietInv, NEW j \in Jobs, BodyReturns(j)
  PROVE  QuietInv'
<1> USE ThreadFacts, LabelFacts DEF IInv, QuietInv, BodyReturns, Goto, TypeOK, ControlOK,
      DataOK, LabelsOf
<1>1. DrainInv'
  BY DEF DrainInv
<1>2. LoopInv'
  BY DEF LoopInv, OwesInv, BeforeFinish
<1>3. DebtInv'
  BY DEF DebtInv, OwesInv, BeforeFinish
<1>4. DeferredInv'
  BY DEF DeferredInv, PartyInv
<1>5. ReleaseInv'
  BY DEF ReleaseInv
<1>6. NoDeferredChain => PhaseInv'
  BY DEF NoDeferredChain, PhaseInv, AtRest, DeferredInv, PartyInv
<1> QED
  BY <1>1, <1>2, <1>3, <1>4, <1>5, <1>6

\* Only a deferred job gets parties.
LEMMA StartDeferredQuiet ==
  ASSUME IInv, QuietInv, NEW j \in Jobs, StartDeferred(j)
  PROVE  QuietInv'
<1> USE ThreadFacts, LabelFacts DEF IInv, QuietInv, StartDeferred, Goto, TypeOK, ControlOK,
      DataOK, LabelsOf
<1>1. DrainInv'
  BY DEF DrainInv
<1>2. LoopInv'
  BY DEF LoopInv, OwesInv, BeforeFinish
<1>3. DebtInv'
  BY DEF DebtInv, OwesInv, BeforeFinish
<1>4. DeferredInv'
  BY DEF DeferredInv, PartyInv
<1>5. ReleaseInv'
  BY DEF ReleaseInv
<1>6. NoDeferredChain => PhaseInv'
  BY AfterClosed DEF NoDeferredChain, PhaseInv, AtRest, DeferredInv, PartyInv
<1> QED
  BY <1>1, <1>2, <1>3, <1>4, <1>5, <1>6

\* The body of a deferred job returns.
LEMMA BodyStartedQuiet ==
  ASSUME IInv, QuietInv, NEW j \in Jobs, BodyStarted(j)
  PROVE  QuietInv'
<1> USE ThreadFacts, LabelFacts DEF IInv, QuietInv, BodyStarted, Goto, TypeOK, ControlOK,
      DataOK, LabelsOf
<1>1. DrainInv'
  BY DEF DrainInv
<1>2. LoopInv'
  BY DEF LoopInv, OwesInv, BeforeFinish
<1>3. DebtInv'
  BY DEF DebtInv, OwesInv, BeforeFinish
<1>4. DeferredInv'
  BY DEF DeferredInv, PartyInv
<1>5. ReleaseInv'
  BY DEF ReleaseInv
<1>6. NoDeferredChain => PhaseInv'
  BY DEF NoDeferredChain, PhaseInv, AtRest, DeferredInv, PartyInv
<1> QED
  BY <1>1, <1>2, <1>3, <1>4, <1>5, <1>6

\* The body party arrives.
LEMMA BodyArrivesQuiet ==
  ASSUME IInv, QuietInv, NEW j \in Jobs, BodyArrives(j)
  PROVE  QuietInv'
<1> USE ThreadFacts, LabelFacts DEF IInv, QuietInv, BodyArrives, Goto, TypeOK, ControlOK,
      DataOK, LabelsOf
<1>1. DrainInv'
  BY DEF DrainInv
<1>2. LoopInv'
  BY DEF LoopInv, OwesInv, BeforeFinish
<1>3. DebtInv'
  BY DEF DebtInv, OwesInv, BeforeFinish
<1>4. DeferredInv'
  BY DEF DeferredInv, PartyInv
<1>5. ReleaseInv'
  BY DEF ReleaseInv
<1>6. NoDeferredChain => PhaseInv'
  BY DEF NoDeferredChain, PhaseInv, AtRest, DeferredInv, PartyInv
<1> QED
  BY <1>1, <1>2, <1>3, <1>4, <1>5, <1>6

\* Only a live slot has an outcome to decide.
LEMMA DecideOutcomeQuiet ==
  ASSUME IInv, QuietInv, NEW j \in Jobs, DecideOutcome(j)
  PROVE  QuietInv'
<1> USE ThreadFacts, LabelFacts DEF IInv, QuietInv, DecideOutcome, Goto, TypeOK, ControlOK,
      DataOK, LabelsOf
<1>1. DrainInv'
  BY DEF DrainInv
<1>2. LoopInv'
  BY DEF LoopInv, OwesInv, BeforeFinish
<1>3. DebtInv'
  BY DEF DebtInv, OwesInv, BeforeFinish
<1>4. DeferredInv'
  BY DEF DeferredInv, PartyInv
<1>5. ReleaseInv'
  BY DEF ReleaseInv
<1>6. NoDeferredChain => PhaseInv'
  BY DEF NoDeferredChain, PhaseInv, AtRest, DeferredInv, PartyInv
<1> QED
  BY <1>1, <1>2, <1>3, <1>4, <1>5, <1>6

\* The thread that delivers owes a count.
LEMMA OutcomeArrivesQuiet ==
  ASSUME IInv, QuietInv, NEW j \in Jobs, OutcomeArrives(j)
  PROVE  QuietInv'
<1> USE ThreadFacts, LabelFacts DEF IInv, QuietInv, OutcomeArrives, Goto, TypeOK, ControlOK,
      DataOK, LabelsOf
<1>1. DrainInv'
  BY DEF DrainInv
<1>2. LoopInv'
  BY DEF LoopInv, OwesInv, BeforeFinish
<1>3. DebtInv'
  BY DEF DebtInv, OwesInv, BeforeFinish
<1>4. DeferredInv'
  BY DEF DeferredInv, PartyInv
<1>5. ReleaseInv'
  BY DEF ReleaseInv
<1>6. NoDeferredChain => PhaseInv'
  BY DEF NoDeferredChain, PhaseInv, AtRest, DeferredInv, PartyInv
<1> QED
  BY <1>1, <1>2, <1>3, <1>4, <1>5, <1>6

\* The continuation belongs to a deferred job.
LEMMA DeliverDeferredQuiet ==
  ASSUME IInv, QuietInv, NEW j \in Jobs, DeliverDeferred(j)
  PROVE  QuietInv'
<1> USE ThreadFacts, LabelFacts DEF IInv, QuietInv, DeliverDeferred, Goto, shared, PartyInv,
      TypeOK, ControlOK, DataOK,
      LabelsOf
<1>1. DrainInv'
  BY DEF DrainInv
<1>2. LoopInv'
  <2>1. pc[OutcomeThread(j)] = "deliver" /\ pc[ContThread(j)] = "idle"
    OBVIOUS
  <2>2. /\ \A u \in Threads : u # OutcomeThread(j) /\ u # ContThread(j)
           => pc'[u] = pc[u] /\ owes'[u] = owes[u]
        /\ pc'[OutcomeThread(j)] \in {"edges", "finish"}
        /\ pc'[ContThread(j)] \in {"idle", "queued"}
    BY <2>1
  <2>3. /\ todo[OutcomeThread(j)] = {} /\ skips[OutcomeThread(j)] = {}
        /\ todo[ContThread(j)] = {} /\ skips[ContThread(j)] = {}
    BY <2>1 DEF LoopInv, LoopLabels
  <2> QED
    BY <2>2, <2>3 DEF LoopInv
<1>3. DebtInv'
  BY DEF DebtInv, OwesInv, BeforeFinish
<1>4. DeferredInv'
  BY DEF DeferredInv, PartyInv
<1>5. ReleaseInv'
  BY DEF ReleaseInv
<1>6. NoDeferredChain => PhaseInv'
  BY DEF NoDeferredChain, PhaseInv, AtRest, DeferredInv, PartyInv
<1> QED
  BY <1>1, <1>2, <1>3, <1>4, <1>5, <1>6

\* The continuation owes a count.
LEMMA FinishDeferredQuiet ==
  ASSUME IInv, QuietInv, NEW j \in Jobs, FinishDeferred(j)
  PROVE  QuietInv'
<1> USE ThreadFacts, LabelFacts DEF IInv, QuietInv, FinishDeferred, Goto, shared, TypeOK,
      ControlOK, DataOK, LabelsOf
<1>1. DrainInv'
  BY DEF DrainInv
<1>2. LoopInv'
  BY DEF LoopInv, OwesInv, BeforeFinish
<1>3. DebtInv'
  BY DEF DebtInv, OwesInv, BeforeFinish
<1>4. DeferredInv'
  BY DEF DeferredInv, PartyInv
<1>5. ReleaseInv'
  BY DEF ReleaseInv
<1>6. NoDeferredChain => PhaseInv'
  BY DEF NoDeferredChain, PhaseInv, AtRest, DeferredInv, PartyInv
<1> QED
  BY <1>1, <1>2, <1>3, <1>4, <1>5, <1>6

\* A stop request starts nothing.
LEMMA RequestStopQuiet ==
  ASSUME IInv, QuietInv, NEW j \in Jobs, RequestStop(j)
  PROVE  QuietInv'
<1> USE ThreadFacts, LabelFacts DEF IInv, QuietInv, RequestStop, Goto, local, TypeOK, ControlOK,
      DataOK, LabelsOf
<1>1. DrainInv'
  BY DEF DrainInv
<1>2. LoopInv'
  BY DEF LoopInv, OwesInv, BeforeFinish
<1>3. DebtInv'
  BY DEF DebtInv, OwesInv, BeforeFinish
<1>4. DeferredInv'
  BY DEF DeferredInv, PartyInv
<1>5. ReleaseInv'
  BY DEF ReleaseInv
<1>6. NoDeferredChain => PhaseInv'
  BY DEF NoDeferredChain, PhaseInv, AtRest, DeferredInv, PartyInv
<1> QED
  BY <1>1, <1>2, <1>3, <1>4, <1>5, <1>6

\* The run thread takes a root before it waits.
LEMMA NextRootQuiet ==
  ASSUME IInv, QuietInv, NextRoot
  PROVE  QuietInv'
<1> USE ThreadFacts, LabelFacts DEF IInv, QuietInv, NextRoot, Goto, shared, TypeOK, ControlOK,
      DataOK, LabelsOf
<1>1. DrainInv'
  BY DEF DrainInv
<1>2. LoopInv'
  BY DEF LoopInv, OwesInv, BeforeFinish
<1>3. DebtInv'
  BY DEF DebtInv, OwesInv, BeforeFinish
<1>4. DeferredInv'
  BY DEF DeferredInv, PartyInv
<1>5. ReleaseInv'
  BY DEF ReleaseInv
<1>6. NoDeferredChain => PhaseInv'
  BY DEF NoDeferredChain, PhaseInv, AtRest, DeferredInv, PartyInv
<1> QED
  BY <1>1, <1>2, <1>3, <1>4, <1>5, <1>6

\* The run thread stops submitting.
LEMMA RootsDoneQuiet ==
  ASSUME IInv, QuietInv, RootsDone
  PROVE  QuietInv'
<1> USE ThreadFacts, LabelFacts DEF IInv, QuietInv, RootsDone, Goto, shared, TypeOK, ControlOK,
      DataOK, LabelsOf
<1>1. DrainInv'
  BY DEF DrainInv
<1>2. LoopInv'
  BY DEF LoopInv, OwesInv, BeforeFinish
<1>3. DebtInv'
  BY DEF DebtInv, OwesInv, BeforeFinish
<1>4. DeferredInv'
  BY DEF DeferredInv, PartyInv
<1>5. ReleaseInv'
  BY DEF ReleaseInv
<1>6. NoDeferredChain => PhaseInv'
  BY DEF NoDeferredChain, PhaseInv, AtRest, DeferredInv, PartyInv
<1> QED
  BY <1>1, <1>2, <1>3, <1>4, <1>5, <1>6

\* The first waitAll() leaves only deferred work.
LEMMA WaitAllQuiet ==
  ASSUME IInv, QuietInv, WaitAll
  PROVE  QuietInv'
<1> USE ThreadFacts, LabelFacts DEF IInv, QuietInv, WaitAll, Goto, shared, ExecutorIdle, TypeOK,
      ControlOK, DataOK, LabelsOf
<1>1. DrainInv'
  BY DEF DrainInv
<1>2. LoopInv'
  BY DEF LoopInv, OwesInv, BeforeFinish
<1>3. DebtInv'
  BY DEF DebtInv, OwesInv, BeforeFinish
<1>4. DeferredInv'
  BY DEF DeferredInv, PartyInv
<1>5. ReleaseInv'
  BY DEF ReleaseInv
<1>6. ASSUME NoDeferredChain PROVE PhaseInv'
  <2>1. \A j \in Jobs : pc[JobThread(j)] \in AtRest /\ pc[ContThread(j)] \in AtRest
    BY CallbackFacts DEF AtRest
  <2>2. pc' = [pc EXCEPT ![RunThread] = IF Deferred = {} THEN "returned" ELSE "awaitDeferred"]
    OBVIOUS
  <2> QED
    BY <2>1, <2>2 DEF PhaseInv, AtRest, DeferredInv
<1> QED
  BY <1>1, <1>2, <1>3, <1>4, <1>5, <1>6

\* The two looks of awaitDeferredThreaded().
LEMMA AwaitDeferredQuiet ==
  ASSUME IInv, QuietInv, AwaitDeferred
  PROVE  QuietInv'
<1> USE ThreadFacts, LabelFacts DEF IInv, QuietInv, AwaitDeferred, Goto, shared, ExecutorIdle,
      TypeOK, ControlOK, DataOK,
      LabelsOf
<1>1. DrainInv'
  BY DEF DrainInv
<1>2. LoopInv'
  BY DEF LoopInv, OwesInv, BeforeFinish
<1>3. DebtInv'
  BY DEF DebtInv, OwesInv, BeforeFinish
<1>4. DeferredInv'
  BY DEF DeferredInv, PartyInv
<1>5. ReleaseInv'
  BY DEF ReleaseInv
<1>6. ASSUME NoDeferredChain PROVE PhaseInv'
  <2>1. CASE pc[RunThread] = "awaitDeferred" /\ inFlight = 0 /\ Goto(RunThread, "waitAgain")
    BY <1>6, <2>1, NoneInFlight DEF PhaseInv, AtRest, PartyInv, DebtInv, Undelivered
  <2>2. CASE pc[RunThread] = "waitAgain" /\ ExecutorIdle /\ Goto(RunThread, "recheck")
    BY <1>6, <2>2, CallbackFacts DEF PhaseInv, AtRest
  <2>3. CASE /\ pc[RunThread] = "recheck"
             /\ Goto(RunThread, IF inFlight = 0 THEN "returned" ELSE "awaitDeferred")
    BY <1>6, <2>3 DEF PhaseInv, AtRest
  <2> QED
    BY <2>1, <2>2, <2>3
<1> QED
  BY <1>1, <1>2, <1>3, <1>4, <1>5, <1>6

\* Every step keeps the invariant.
LEMMA QuietStep ==
  ASSUME IInv, QuietInv, [Next]_vars
  PROVE  QuietInv'
<1>1. CASE UNCHANGED vars
  BY <1>1 DEF vars, shared, local, QuietInv, DrainInv, LoopInv, DebtInv, DeferredInv,
         ReleaseInv, PhaseInv
<1>2. CASE \E t \in Threads : ThreadStep(t)
  BY <1>2, SkipNodeQuiet, DrainQuiet, SkipsDoneQuiet, SubmitQuiet, SubmissionFailedQuiet,
     RecordRejectedQuiet, FinishJobQuiet, RecordJobFailureQuiet, NextEdgeQuiet, ReleaseQuiet,
     LeaveQuiet
     DEF ThreadStep
<1>3. CASE \E j \in Jobs : JobStep(j) \/ DecideOutcome(j) \/ RequestStop(j)
  BY <1>3, DispatchJobQuiet, ClaimQuiet, InvokeQuiet, BodyReturnsQuiet, StartDeferredQuiet,
     BodyStartedQuiet, BodyArrivesQuiet, DecideOutcomeQuiet, OutcomeArrivesQuiet,
     DeliverDeferredQuiet, FinishDeferredQuiet, RequestStopQuiet
     DEF JobStep
<1>4. CASE RunStep
  BY <1>4, NextRootQuiet, RootsDoneQuiet, WaitAllQuiet, AwaitDeferredQuiet DEF RunStep
<1>5. CASE Rerun
  BY <1>5, RerunQuiet
<1> QED
  BY <1>1, <1>2, <1>3, <1>4, <1>5 DEF Next

\* What QuietInv says of a run that has returned.
LEMMA AtReturn ==
  ASSUME IInv, QuietInv, NoDeferredChain, pc[RunThread] = "returned"
  PROVE  /\ Quiescent /\ ~draining /\ undrained = {} /\ inFlight = 0
         /\ \A t \in Threads : todo[t] = {} /\ skips[t] = {}
         /\ \A j \in Jobs : parties[j] = 0
<1> USE ThreadFacts DEF IInv, QuietInv, TypeOK
<1>1. /\ \A t \in Threads \ {RunThread} : pc[t] \in AtRest
      /\ \A j \in Jobs : parties[j] = 0
  BY DEF PhaseInv
<1>2. Quiescent
  BY <1>1 DEF Quiescent, AtRest
<1>3. ~draining /\ undrained = {}
  BY <1>1 DEF DrainInv, AtRest
<1>4. \A t \in Threads : owes[t] = 0 /\ todo[t] = {} /\ skips[t] = {}
  BY <1>1, LabelFacts DEF LoopInv, OwesInv, BeforeFinish, AtRest, LoopLabels
<1>5. UndeliveredJobs = {} /\ Owing = {} /\ OwingTwo = {}
  BY <1>1, <1>4 DEF UndeliveredJobs, Undelivered, Owing, OwingTwo, AtRest
<1>6. inFlight = 0
  BY <1>5, FS_EmptySet DEF InFlightExact
<1> QED
  BY <1>1, <1>2, <1>3, <1>4, <1>6

\* run() joins everything it started: unless a deferred job follows another one, no
\* thread is inside the run and no skip is left when it returns, for every graph.
THEOREM ReturnJoinsAll ==
  ASSUME NoDeferredChain
  PROVE  Spec => []ReturnsQuiescent
<1>1. Init => QuietInv
  BY InitQuiet
<1>2. IInv /\ QuietInv /\ [Next]_vars => QuietInv'
  BY QuietStep
<1>3. IInv /\ QuietInv => ReturnsQuiescent
  BY AtReturn DEF ReturnsQuiescent
<1> QED
  BY <1>1, <1>2, <1>3, Invariance, PTL DEF Spec

----------------------------------------------------------------------------
(* Everything the run can reach has ended *)

\* A job that has not started satisfies nobody, and neither does a skipped one.
LEMMA SatisfiedKept ==
  ASSUME \A i \in Jobs : status'[i] # status[i] =>
           /\ status[i] \notin Final
           /\ status'[i] \notin Final \/ status'[i] = "kSkipped"
  PROVE  \A i \in Jobs : (Satisfied(i)' <=> Satisfied(i)) /\ (Broken(i)' <=> Broken(i))
BY DEF Satisfied, Broken, Final

\* What keeps the counters of the pending jobs.
LEMMA PendingKept ==
  ASSUME PendingCount, unmet' = unmet,
         \A j \in Jobs : status'[j] = "kPending" =>
           /\ status[j] = "kPending"
           /\ \/ Doomed(j)' \/ Rejecting'
              \/ ~Doomed(j) /\ ~Rejecting /\ Unreleased(j)' = Unreleased(j)
  PROVE  PendingCount'
BY DEF PendingCount

\* The unreleased edges depend on who is satisfied and on the edges threads have left.
LEMMA UnreleasedKept ==
  ASSUME todo' = todo, \A i \in Jobs : Satisfied(i)' <=> Satisfied(i)
  PROVE  \A j \in Jobs : Unreleased(j)' = Unreleased(j)
BY GraphAssumption DEF Unreleased, InEdges

\* A step that ends nothing, releases nothing and skips nothing.
LEMMA SettleFrame ==
  ASSUME SettleInv, status' = status, unmet' = unmet, undrained' = undrained, todo' = todo,
         skips' = skips, failedJob' = failedJob, roots' = roots, cur' = cur,
         \A t \in Threads : pc[t] \in {"submit", "rejected", "recordRejected", "record"}
           => pc'[t] = pc[t],
         \A j \in Jobs : pc[JobThread(j)] \in {"queued", "claim"}
           => pc'[JobThread(j)] \in {"queued", "claim"} \/ status[j] # "kReady"
  PROVE  SettleInv'
<1> USE DEF SettleInv
<1>1. (Rejecting => Rejecting') /\ \A j : Doomed(j)' <=> Doomed(j)
  BY DEF Rejecting, Doomed
<1>2. ReadyInv'
  BY <1>1 DEF ReadyInv, Submitting
<1>3. \A i \in Jobs : (Satisfied(i)' <=> Satisfied(i)) /\ (Broken(i)' <=> Broken(i))
  BY DEF Satisfied, Broken
<1>4. PendingCount'
  BY <1>1, <1>3, UnreleasedKept, PendingKept
<1>5. SkipTravels'
  BY <1>1, <1>3 DEF SkipTravels, hasFatalFailure
<1> QED
  BY <1>2, <1>4, <1>5

\* At the start every edge is unreleased and counted.
LEMMA InitSettle == Init => SettleInv
<1> SUFFICES ASSUME Init PROVE SettleInv
  OBVIOUS
<1>1. ReadyInv
  BY DEF Init, ReadyInv
<1>2. PendingCount
  <2> SUFFICES ASSUME NEW j \in Jobs, status[j] = "kPending"
               PROVE  /\ unmet[j] = Cardinality(Unreleased(j))
                      /\ unmet[j] = 0 => InEdges(j) = {} /\ j \in OnDemand
    BY DEF PendingCount
  <2>1. Unreleased(j) = InEdges(j)
    BY GraphAssumption DEF Init, Unreleased, InEdges, Satisfied
  <2>2. unmet[j] = Cardinality(InEdges(j)) /\ j \notin Roots
    BY DEF Init
  <2>3. IsFiniteSet(InEdges(j))
    BY GraphAssumption, FS_Subset DEF InEdges
  <2> QED
    BY <2>1, <2>2, <2>3, FS_EmptySet DEF Roots
<1>3. SkipTravels
  BY DEF Init, SkipTravels, Broken, Final
<1> QED
  BY <1>1, <1>2, <1>3 DEF SettleInv

\* run() called again starts from an initial state.
LEMMA RerunSettle ==
  ASSUME Rerun
  PROVE  SettleInv'
<1>1. Init'
  BY DEF Rerun, Init
<1> QED
  BY <1>1, InitSettle, PTL

\* skipNode() skips its job, and what follows it at the latest when it is drained.
LEMMA SkipNodeSettle ==
  ASSUME IInv, QuietInv, ProgressInv, SettleInv, NEW t \in Threads, SkipNode(t)
  PROVE  SettleInv'
<1> USE GraphAssumption, ThreadFacts, LabelFacts DEF IInv, QuietInv, SettleInv, SkipNode, Goto,
      TypeOK, ControlOK, DataOK, LabelsOf
<1>1. PICK i \in skips[t] : SkipNode(t)!2!(i)
  OBVIOUS
<1>2. /\ i \in Jobs /\ Successors(i) \subseteq Jobs
      /\ \A k \in Jobs : Doomed(k) => Doomed(k)' \/ k = i
      /\ Rejecting <=> Rejecting'
      /\ \A u \in Threads : pc[u] = "record" <=> pc'[u] = "record"
  BY <1>1 DEF Doomed, Rejecting, Successors, OutEdges
<1>3. /\ \A k \in Jobs : status'[k] # status[k] =>
             status[k] \in Unstarted /\ status'[k] = "kSkipped"
      /\ status'[i] \notin Unstarted
  BY <1>1, <1>2, SkipEffect DEF DrainOne, EnqueueSkip, Claimable, Unstarted
<1>4. \A k \in Jobs : (Satisfied(k)' <=> Satisfied(k)) /\ (Broken(k)' <=> Broken(k))
  BY <1>3, SatisfiedKept DEF Unstarted, Final
<1>5. ReadyInv'
  BY <1>2, <1>3 DEF ReadyInv, Submitting, Unstarted
<1>6. PendingCount'
  BY <1>2, <1>3, <1>4, UnreleasedKept, PendingKept DEF Unstarted
<1>7. \A k \in Jobs : status'[k] = "kSkipped" /\ k \notin undrained'
        => \A m \in Successors(k) : status'[m] \notin Unstarted
  <2> SUFFICES ASSUME NEW k \in Jobs, status'[k] = "kSkipped", k \notin undrained',
                      NEW m \in Successors(k)
               PROVE  status'[m] \notin Unstarted
    OBVIOUS
  <2>1. m \in Jobs
    BY DEF Successors, OutEdges
  <2>2. CASE status[k] = "kSkipped" /\ k \notin undrained
    BY <1>3, <2>1, <2>2 DEF SkipTravels, Unstarted
  <2>3. CASE status[k] # "kSkipped" \/ k \in undrained
    <3>1. k = i /\ DrainOne(i, {i})
      BY <1>1, <1>2, <2>3 DEF DrainOne, EnqueueSkip, Claimable
    <3> QED
      BY <2>1, <3>1 DEF DrainOne, EnqueueSkip, Claimable, Unstarted
  <2> QED
    BY <2>2, <2>3
<1>8. SkipTravels'
  BY <1>2, <1>3, <1>4, <1>7 DEF SkipTravels, hasFatalFailure, Unstarted, Successors, OutEdges
<1> QED
  BY <1>5, <1>6, <1>8

\* The drain loop skips what follows the job it takes.
LEMMA DrainSettle ==
  ASSUME IInv, QuietInv, ProgressInv, SettleInv, NEW t \in Threads, Drain(t)
  PROVE  SettleInv'
<1> USE GraphAssumption, ThreadFacts, LabelFacts DEF IInv, QuietInv, SettleInv, Drain, Goto,
      TypeOK, ControlOK, DataOK, LabelsOf
<1>1. CASE undrained = {}
  BY <1>1, SettleFrame
<1>2. ASSUME NEW i \in undrained, DrainOne(i, {}), UNCHANGED <<draining, pc>>
      PROVE  SettleInv'
  <2>1. /\ i \in Jobs /\ \A k : Successors(k) \subseteq Jobs
        /\ \A k \in Jobs : Doomed(k)' <=> Doomed(k)
        /\ Rejecting' <=> Rejecting
    BY <1>2 DEF Doomed, Rejecting, Successors, OutEdges
  <2>2. /\ \A k \in Jobs : status'[k] # status[k] =>
             status[k] \in Unstarted /\ status'[k] = "kSkipped"
        /\ \A k \in Successors(i) : status'[k] \notin Unstarted
    BY <1>2, <2>1 DEF DrainOne, EnqueueSkip, Claimable, Unstarted
  <2>3. \A k \in Jobs : (Satisfied(k)' <=> Satisfied(k)) /\ (Broken(k)' <=> Broken(k))
    BY <2>2, SatisfiedKept DEF Unstarted, Final
  <2>4. ReadyInv'
    BY <1>2, <2>1, <2>2 DEF ReadyInv, Submitting, Unstarted
  <2>5. PendingCount'
    BY <2>1, <2>2, <2>3, UnreleasedKept, PendingKept DEF Unstarted
  <2>6. \A k \in Jobs : status'[k] = "kSkipped" /\ k \notin undrained'
          => \A m \in Successors(k) : status'[m] \notin Unstarted
    <3> SUFFICES ASSUME NEW k \in Jobs, status'[k] = "kSkipped", k \notin undrained',
                        NEW m \in Successors(k)
                 PROVE  status'[m] \notin Unstarted
      OBVIOUS
    <3>1. CASE status[k] = "kSkipped" /\ k \notin undrained
      BY <2>1, <2>2, <3>1 DEF SkipTravels, Unstarted
    <3>2. CASE status[k] # "kSkipped" \/ k \in undrained
      <4>1. k = i
        BY <1>2, <2>1, <3>2 DEF DrainOne, EnqueueSkip, Claimable
      <4> QED
        BY <2>2, <4>1
    <3> QED
      BY <3>1, <3>2
  <2>7. SkipTravels'
    BY <1>2, <2>1, <2>2, <2>3, <2>6 DEF SkipTravels, hasFatalFailure, Unstarted
  <2> QED
    BY <2>4, <2>5, <2>7
<1> QED
  BY <1>1, <1>2

\* A submitted job is on its way to its callback.
LEMMA SubmitSettle ==
  ASSUME IInv, QuietInv, ProgressInv, SettleInv, NEW t \in Threads, Submit(t)
  PROVE  SettleInv'
<1> USE GraphAssumption, ThreadFacts, LabelFacts DEF IInv, QuietInv, SettleInv, Submit, Goto,
      Resume, shared,
      TypeOK, ControlOK, DataOK, LabelsOf
<1>1. /\ cur[t] \in Jobs /\ pc[JobThread(cur[t])] = "idle" /\ JobThread(cur[t]) # t
      /\ \A k : Doomed(k)' <=> Doomed(k)
      /\ Rejecting' <=> Rejecting
      /\ \A u \in Threads : pc[u] = "record" <=> pc'[u] = "record"
  <2>1. cur[t] \in Jobs /\ pc[JobThread(cur[t])] = "idle" /\ JobThread(cur[t]) # t
    BY DEF SubmitInv, Submitting
  <2>2. \A u \in Threads : pc[u] \in {"record", "recordRejected"}
                             \/ pc'[u] \in {"record", "recordRejected"} => pc'[u] = pc[u]
    BY <2>1
  <2> QED
    BY <2>1, <2>2 DEF Doomed, Rejecting
<1>2. ReadyInv'
  BY <1>1 DEF ReadyInv, Submitting
<1>3. \A k \in Jobs : (Satisfied(k)' <=> Satisfied(k)) /\ (Broken(k)' <=> Broken(k))
  BY DEF Satisfied, Broken
<1>4. PendingCount'
  BY <1>1, <1>3, UnreleasedKept, PendingKept
<1>5. SkipTravels'
  BY <1>1, <1>3 DEF SkipTravels, hasFatalFailure
<1> QED
  BY <1>2, <1>4, <1>5

\* A rejected job ends, and everything that has not started is about to be skipped.
LEMMA SubmissionFailedSettle ==
  ASSUME IInv, QuietInv, ProgressInv, SettleInv, NEW t \in Threads, SubmissionFailed(t)
  PROVE  SettleInv'
<1> USE GraphAssumption, ThreadFacts, LabelFacts DEF IInv, QuietInv, SettleInv,
      SubmissionFailed, Goto,
      TypeOK, ControlOK, DataOK, LabelsOf
<1>1. cur[t] \in Jobs /\ Rejecting'
  BY DEF SubmitInv, Submitting, Rejecting
<1>2. ReadyInv'
  BY <1>1 DEF ReadyInv
<1>3. PendingCount'
  BY <1>1, PendingKept
<1>4. SkipTravels'
  BY <1>1 DEF SkipTravels, Unstarted, Successors, OutEdges
<1> QED
  BY <1>2, <1>3, <1>4

\* A recorded rejection is about to skip everything that has not started.
LEMMA RecordRejectedSettle ==
  ASSUME IInv, QuietInv, ProgressInv, SettleInv, NEW t \in Threads, RecordRejected(t)
  PROVE  SettleInv'
<1> USE GraphAssumption, ThreadFacts, LabelFacts DEF IInv, QuietInv, SettleInv, RecordRejected,
      Goto, RecordFailure,
      TypeOK, ControlOK, DataOK, LabelsOf
<1>1. /\ \A k \in Jobs : Doomed(k)'
      /\ hasFatalFailure'
  BY DEF Doomed, RejectInv, hasFatalFailure
<1>2. ReadyInv'
  BY <1>1 DEF ReadyInv
<1>3. PendingCount'
  BY <1>1, PendingKept
<1>4. SkipTravels'
  BY <1>1 DEF SkipTravels, Broken, Satisfied, Successors, OutEdges
<1> QED
  BY <1>2, <1>3, <1>4

\* finishJob() takes over the edges of its job, or is about to record its failure.
LEMMA FinishJobSettle ==
  ASSUME IInv, QuietInv, ProgressInv, SettleInv, NEW t \in Threads, FinishJob(t)
  PROVE  SettleInv'
<1> USE GraphAssumption, ThreadFacts, LabelFacts DEF IInv, QuietInv, SettleInv, FinishJob, Goto,
      TypeOK, ControlOK, DataOK, LabelsOf
<1>1. /\ JobOf(t) \in Jobs /\ t # RunThread /\ status[JobOf(t)] \in Started
      /\ \A k \in Jobs : Doomed(k)' <=> Doomed(k)
      /\ Rejecting' <=> Rejecting
  BY DEF Ownership, HeldByBody, HeldByParties, HeldByOutcome, HeldByCont, Started, PartyInv,
         Doomed, Rejecting
<1>2. /\ status' = [status EXCEPT ![JobOf(t)] = StatusOf(result[JobOf(t)])]
      /\ StatusOf(result[JobOf(t)]) \in Final \ {"kSkipped"}
  BY DEF StatusOf, Final
<1>3. Satisfied(JobOf(t))' <=> ~IsFatal(JobOf(t))
  BY <1>1, <1>2 DEF Satisfied, IsFatal, StatusOf, Errors
<1>4. \A k \in Jobs : k # JobOf(t) => (Satisfied(k)' <=> Satisfied(k)) /\ (Broken(k)' <=> Broken(k))
  BY <1>2 DEF Satisfied, Broken
<1>5. ReadyInv'
  BY <1>1, <1>2 DEF ReadyInv, Submitting, Final
<1>6. PendingCount'
  <2>1. ~Satisfied(JobOf(t)) /\ todo[t] = {}
    BY <1>1 DEF Satisfied, Started, LoopInv, LoopLabels
  <2>2. /\ IsFatal(JobOf(t)) => todo' = todo
        /\ ~IsFatal(JobOf(t)) => todo' = [todo EXCEPT ![t] = OutEdges(JobOf(t))]
    OBVIOUS
  <2>3. \A e \in Edges : (~Satisfied(e.from) \/ \E u \in Threads : e \in todo[u])'
                           <=> ~Satisfied(e.from) \/ \E u \in Threads : e \in todo[u]
    <3> SUFFICES ASSUME NEW e \in Edges
                 PROVE  (~Satisfied(e.from) \/ \E u \in Threads : e \in todo[u])'
                          <=> ~Satisfied(e.from) \/ \E u \in Threads : e \in todo[u]
      OBVIOUS
    <3>1. CASE e.from = JobOf(t)
      BY <1>3, <2>1, <2>2, <3>1 DEF OutEdges
    <3>2. CASE e.from # JobOf(t)
      <4>1. e.from \in Jobs /\ e \notin OutEdges(JobOf(t))
        BY <3>2 DEF OutEdges
      <4>2. \A u \in Threads : e \in todo'[u] <=> e \in todo[u]
        BY <2>1, <2>2, <4>1
      <4> QED
        BY <1>4, <3>2, <4>1, <4>2
    <3> QED
      BY <3>1, <3>2
  <2>4. \A k \in Jobs : Unreleased(k)' = Unreleased(k)
    BY <2>3 DEF Unreleased, InEdges
  <2> QED
    BY <1>1, <1>2, <2>4, PendingKept DEF Final
<1>7. SkipTravels'
  <2>1. \A k \in Jobs : status'[k] \in Unstarted => status[k] \in Unstarted
    BY <1>1, <1>2 DEF Final, Unstarted
  <2>2. \A k \in Jobs : status'[k] = "kSkipped" => status[k] = "kSkipped"
    BY <1>1, <1>2
  <2>3. Broken(JobOf(t))' => pc'[t] = "record"
    BY <1>1, <1>3 DEF Broken
  <2>4. \A k : Successors(k) \subseteq Jobs
    BY DEF Successors, OutEdges
  <2>5. \A u \in Threads : pc[u] = "record" => pc'[u] = "record"
    OBVIOUS
  <2> QED
    BY <1>1, <1>4, <2>1, <2>2, <2>3, <2>4, <2>5 DEF SkipTravels, hasFatalFailure
<1> QED
  BY <1>5, <1>6, <1>7

\* A recorded failure is about to skip what follows it.
LEMMA RecordJobFailureSettle ==
  ASSUME IInv, QuietInv, ProgressInv, SettleInv, NEW t \in Threads, RecordJobFailure(t)
  PROVE  SettleInv'
<1> USE GraphAssumption, ThreadFacts, LabelFacts DEF IInv, QuietInv, SettleInv,
      RecordJobFailure, Goto, RecordFailure,
      TypeOK, ControlOK, DataOK, LabelsOf
<1>1. /\ JobOf(t) \in Jobs /\ \A k : Successors(k) \subseteq Jobs
      /\ skips[t] = {}
      /\ \A k \in Jobs : Doomed(k) => Doomed(k)'
      /\ \A k \in Successors(JobOf(t)) : Doomed(k)'
      /\ Rejecting' <=> Rejecting
      /\ hasFatalFailure'
  BY DEF RecordInv, LoopInv, Doomed, Rejecting, hasFatalFailure, Successors, OutEdges
<1>2. ReadyInv'
  BY <1>1 DEF ReadyInv, Submitting
<1>3. \A k \in Jobs : (Satisfied(k)' <=> Satisfied(k)) /\ (Broken(k)' <=> Broken(k))
  BY DEF Satisfied, Broken
<1>4. PendingCount'
  BY <1>1, <1>3, UnreleasedKept, PendingKept
<1>5. SkipTravels'
  BY <1>1, <1>3 DEF SkipTravels
<1> QED
  BY <1>2, <1>4, <1>5

\* An edge is released or its target is about to be skipped.
LEMMA NextEdgeSettle ==
  ASSUME IInv, QuietInv, ProgressInv, SettleInv, NEW t \in Threads, NextEdge(t)
  PROVE  SettleInv'
<1> USE GraphAssumption, ThreadFacts, LabelFacts DEF IInv, QuietInv, SettleInv, NextEdge, Goto,
      shared,
      TypeOK, ControlOK, DataOK, LabelsOf
<1>1. /\ skips[t] = {} /\ \A k : Successors(k) \subseteq Jobs
      /\ \A k : Doomed(k) => Doomed(k)'
      /\ Rejecting' <=> Rejecting
      /\ \A u \in Threads : pc[u] = "record" <=> pc'[u] = "record"
      /\ \A u \in Threads : Submitting(u) => Submitting(u)' /\ cur'[u] = cur[u]
      /\ \A k \in Jobs : pc[JobThread(k)] \in {"queued", "claim"} =>
           pc'[JobThread(k)] = pc[JobThread(k)]
  <2>1. skips[t] = {} /\ \A k : Successors(k) \subseteq Jobs
    BY DEF LoopInv, Successors, OutEdges
  <2>2. \A u \in Threads : u # t => pc'[u] = pc[u] /\ cur'[u] = cur[u] /\ skips'[u] = skips[u]
    OBVIOUS
  <2>3. pc'[t] \in {"skip", "release"}
    OBVIOUS
  <2> QED
    BY <2>1, <2>2, <2>3 DEF Doomed, Rejecting, Submitting
<1>2. ReadyInv'
  BY <1>1 DEF ReadyInv
<1>3. \A k \in Jobs : (Satisfied(k)' <=> Satisfied(k)) /\ (Broken(k)' <=> Broken(k))
  BY DEF Satisfied, Broken
<1>4. PendingCount'
  <2>1. CASE todo' = todo
    BY <1>1, <1>3, <2>1, UnreleasedKept, PendingKept
  <2>2. ASSUME NEW e \in todo[t], todo' = [todo EXCEPT ![t] = @ \ {e}],
               skips' = [skips EXCEPT ![t] = {e.to}]
        PROVE  PendingCount'
    <3>1. e \in Edges /\ Doomed(e.to)'
      BY <2>2 DEF Doomed
    <3>2. \A k \in Jobs : k # e.to => Unreleased(k)' = Unreleased(k)
      BY <1>3, <2>2, <3>1 DEF Unreleased, InEdges
    <3> QED
      BY <1>1, <3>1, <3>2, PendingKept
  <2> QED
    BY <2>1, <2>2
<1>5. SkipTravels'
  BY <1>1, <1>3 DEF SkipTravels, hasFatalFailure
<1> QED
  BY <1>2, <1>4, <1>5

\* The last released edge makes the job ready, any other one is counted off.
LEMMA ReleaseSettle ==
  ASSUME IInv, QuietInv, ProgressInv, SettleInv, NEW t \in Threads, Release(t)
  PROVE  SettleInv'
<1> USE GraphAssumption, ThreadFacts, LabelFacts DEF IInv, QuietInv, SettleInv, Release, Goto,
      TypeOK, ControlOK, DataOK, LabelsOf
<1>1. PICK e \in todo[t] : e.to = cur[t] /\ todo' = [todo EXCEPT ![t] = @ \ {e}]
  OBVIOUS
<1>2. /\ e \in Edges /\ cur[t] \in Jobs /\ Satisfied(e.from)
      /\ e \in Unreleased(cur[t])
      /\ IsFiniteSet(Unreleased(cur[t]))
      /\ \A k : Successors(k) \subseteq Jobs
  BY <1>1, FS_Subset DEF TodoInv, Unreleased, InEdges, Successors, OutEdges
<1>3. /\ \A k \in Jobs : Doomed(k)' <=> Doomed(k)
      /\ Rejecting' <=> Rejecting
      /\ \A u \in Threads : pc[u] = "record" <=> pc'[u] = "record"
  BY DEF Doomed, Rejecting
<1>4. \A k \in Jobs : status'[k] # status[k] =>
        /\ k = cur[t] /\ status[k] = "kPending" /\ status'[k] = "kReady"
        /\ pc'[t] = "submit"
  OBVIOUS
<1>5. \A k \in Jobs : (Satisfied(k)' <=> Satisfied(k)) /\ (Broken(k)' <=> Broken(k))
  BY <1>4, SatisfiedKept DEF Final
<1>6. ReadyInv'
  BY <1>3, <1>4 DEF ReadyInv, Submitting
<1>7. PendingCount'
  <2> SUFFICES ASSUME NEW k \in Jobs, status'[k] = "kPending"
               PROVE  /\ Doomed(k)' \/ Rejecting' \/ unmet'[k] = Cardinality(Unreleased(k)')
                      /\ unmet'[k] = 0 => InEdges(k) = {} /\ k \in OnDemand
    BY DEF PendingCount
  <2>1. status[k] = "kPending"
    BY <1>4
  <2>2. CASE k # cur[t]
    <3>1. Unreleased(k)' = Unreleased(k)
      BY <1>1, <1>2, <1>5, <2>2 DEF Unreleased, InEdges
    <3> QED
      BY <1>3, <2>1, <2>2, <3>1 DEF PendingCount
  <2>3. CASE k = cur[t]
    <3>1. Unreleased(k)' = Unreleased(k) \ {e}
      BY <1>1, <1>2, <1>5, <2>3 DEF Unreleased, InEdges, TodoOnce
    <3>2. /\ Cardinality(Unreleased(k) \ {e}) = Cardinality(Unreleased(k)) - 1
      BY <1>2, <2>3, RemoveOne
    <3>3. unmet[k] # 1 /\ unmet'[k] = unmet[k] - 1
      BY <2>1, <2>3
    <3>4. unmet[k] # 0
      BY <1>1, <1>2, <2>1, <2>3 DEF PendingCount, InEdges
    <3> QED
      BY <1>3, <2>1, <3>1, <3>2, <3>3, <3>4 DEF PendingCount
  <2> QED
    BY <2>2, <2>3
<1>8. SkipTravels'
  BY <1>2, <1>3, <1>4, <1>5 DEF SkipTravels, hasFatalFailure, Unstarted
<1> QED
  BY <1>6, <1>7, <1>8

\* A callback runs its job or is about to skip it.
LEMMA DispatchJobSettle ==
  ASSUME IInv, QuietInv, ProgressInv, SettleInv, NEW j \in Jobs, DispatchJob(j)
  PROVE  SettleInv'
<1> USE GraphAssumption, ThreadFacts, LabelFacts DEF IInv, QuietInv, SettleInv, DispatchJob,
      Goto, shared,
      TypeOK, ControlOK, DataOK, LabelsOf
<1>1. /\ skips[JobThread(j)] = {} /\ \A k : Successors(k) \subseteq Jobs
      /\ \A k \in Jobs : Doomed(k) => Doomed(k)'
      /\ Rejecting' <=> Rejecting
      /\ \A u \in Threads : pc[u] = "record" <=> pc'[u] = "record"
      /\ Doomed(j)' \/ pc'[JobThread(j)] = "claim"
  BY DEF LoopInv, Doomed, Rejecting, Successors, OutEdges
<1>2. ReadyInv'
  BY <1>1 DEF ReadyInv, Submitting
<1>3. \A k \in Jobs : (Satisfied(k)' <=> Satisfied(k)) /\ (Broken(k)' <=> Broken(k))
  BY DEF Satisfied, Broken
<1>4. PendingCount'
  BY <1>1, <1>3, UnreleasedKept, PendingKept
<1>5. SkipTravels'
  BY <1>1, <1>3 DEF SkipTravels, hasFatalFailure
<1> QED
  BY <1>2, <1>4, <1>5

\* A claimed job is started.
LEMMA ClaimSettle ==
  ASSUME IInv, QuietInv, ProgressInv, SettleInv, NEW j \in Jobs, Claim(j)
  PROVE  SettleInv'
<1> USE GraphAssumption, ThreadFacts, LabelFacts DEF IInv, QuietInv, SettleInv, Claim, Goto,
      TypeOK, ControlOK, DataOK, LabelsOf
<1>1. /\ \A k \in Jobs : Doomed(k)' <=> Doomed(k)
      /\ Rejecting' <=> Rejecting
      /\ \A u \in Threads : pc[u] = "record" <=> pc'[u] = "record"
      /\ \A k : Successors(k) \subseteq Jobs
  BY DEF Doomed, Rejecting, Successors, OutEdges
<1>2. \A k \in Jobs : status'[k] # status[k] =>
        k = j /\ status[k] \in {"kReady"} /\ status'[k] \in Started
  BY DEF Started
<1>3. \A k \in Jobs : (Satisfied(k)' <=> Satisfied(k)) /\ (Broken(k)' <=> Broken(k))
  BY <1>2, SatisfiedKept DEF Final, Started
<1>4. ReadyInv'
  BY <1>1, <1>2 DEF ReadyInv, Submitting, Started
<1>5. PendingCount'
  BY <1>1, <1>2, <1>3, UnreleasedKept, PendingKept DEF Started
<1>6. SkipTravels'
  BY <1>1, <1>2, <1>3 DEF SkipTravels, hasFatalFailure, Unstarted, Started
<1> QED
  BY <1>4, <1>5, <1>6

\* An awaiting job is a started one.
LEMMA BodyStartedSettle ==
  ASSUME IInv, QuietInv, ProgressInv, SettleInv, NEW j \in Jobs, BodyStarted(j)
  PROVE  SettleInv'
<1> USE GraphAssumption, ThreadFacts, LabelFacts DEF IInv, QuietInv, SettleInv, BodyStarted,
      Goto,
      TypeOK, ControlOK, DataOK, LabelsOf
<1>1. /\ \A k \in Jobs : Doomed(k)' <=> Doomed(k)
      /\ Rejecting' <=> Rejecting
      /\ \A u \in Threads : pc[u] = "record" <=> pc'[u] = "record"
      /\ \A k : Successors(k) \subseteq Jobs
  BY DEF Doomed, Rejecting, Successors, OutEdges
<1>2. \A k \in Jobs : status'[k] # status[k] =>
        k = j /\ status[k] \in Started /\ status'[k] \in Started
  BY DEF Started, PartyInv, Ownership, HeldByParties
<1>3. \A k \in Jobs : (Satisfied(k)' <=> Satisfied(k)) /\ (Broken(k)' <=> Broken(k))
  BY <1>2, SatisfiedKept DEF Final, Started
<1>4. ReadyInv'
  BY <1>1, <1>2 DEF ReadyInv, Submitting, Started
<1>5. PendingCount'
  BY <1>1, <1>2, <1>3, UnreleasedKept, PendingKept DEF Started
<1>6. SkipTravels'
  BY <1>1, <1>2, <1>3 DEF SkipTravels, hasFatalFailure, Unstarted, Started
<1> QED
  BY <1>4, <1>5, <1>6

\* A root is submitted or about to be skipped.
LEMMA NextRootSettle ==
  ASSUME IInv, QuietInv, ProgressInv, SettleInv, NextRoot
  PROVE  SettleInv'
<1> USE GraphAssumption, ThreadFacts, LabelFacts DEF IInv, QuietInv, SettleInv, NextRoot, Goto,
      shared,
      TypeOK, ControlOK, DataOK, LabelsOf
<1>1. PICK r \in roots : NextRoot!2!(r)
  OBVIOUS
<1>2. /\ skips[RunThread] = {} /\ \A k : Successors(k) \subseteq Jobs
      /\ \A k \in Jobs : Doomed(k) => Doomed(k)'
      /\ Rejecting' <=> Rejecting
      /\ \A u \in Threads : pc[u] = "record" <=> pc'[u] = "record"
      /\ Doomed(r)' \/ (Submitting(RunThread)' /\ cur'[RunThread] = r)
      /\ \A u \in Threads : Submitting(u) => Submitting(u)' /\ cur'[u] = cur[u]
  BY <1>1 DEF LoopInv, Doomed, Rejecting, Successors, OutEdges, Submitting, Roots
<1>3. ReadyInv'
  BY <1>1, <1>2 DEF ReadyInv
<1>4. \A k \in Jobs : (Satisfied(k)' <=> Satisfied(k)) /\ (Broken(k)' <=> Broken(k))
  BY DEF Satisfied, Broken
<1>5. PendingCount'
  BY <1>2, <1>4, UnreleasedKept, PendingKept
<1>6. SkipTravels'
  BY <1>2, <1>4 DEF SkipTravels, hasFatalFailure
<1> QED
  BY <1>3, <1>5, <1>6

\* Every step keeps the invariant; the actions that have no lemma of their own end,
\* release and skip nothing.
LEMMA SettleStep ==
  ASSUME IInv, QuietInv, ProgressInv, SettleInv, [Next]_vars
  PROVE  SettleInv'
<1>1. CASE UNCHANGED vars
  BY <1>1, SettleFrame DEF vars, shared, local
<1>2. ASSUME NEW t \in Threads, ThreadStep(t)
      PROVE  SettleInv'
  <2>1. CASE SkipsDone(t) \/ Leave(t)
    BY <2>1, SettleFrame, ThreadFacts
       DEF SkipsDone, Leave, Goto, shared, IInv, TypeOK, ControlOK
  <2> QED
    BY <1>2, <2>1, SkipNodeSettle, DrainSettle, SubmitSettle, SubmissionFailedSettle,
       RecordRejectedSettle, FinishJobSettle, RecordJobFailureSettle, NextEdgeSettle,
       ReleaseSettle
       DEF ThreadStep
<1>3. ASSUME NEW j \in Jobs, JobStep(j) \/ DecideOutcome(j) \/ RequestStop(j)
      PROVE  SettleInv'
  <2>1. CASE Invoke(j) \/ BodyReturns(j) \/ StartDeferred(j) \/ BodyArrives(j)
    BY <2>1, SettleFrame, ThreadFacts
       DEF Invoke, BodyReturns, StartDeferred, BodyArrives, Goto, IInv, TypeOK, ControlOK
  <2>2. CASE OutcomeArrives(j) \/ DeliverDeferred(j) \/ FinishDeferred(j)
    BY <2>2, SettleFrame, ThreadFacts
       DEF OutcomeArrives, DeliverDeferred, FinishDeferred, Goto, shared, IInv, TypeOK,
           ControlOK, PartyInv
  <2>3. CASE DecideOutcome(j) \/ RequestStop(j)
    BY <2>3, SettleFrame, ThreadFacts
       DEF DecideOutcome, RequestStop, Goto, local, IInv, TypeOK, ControlOK
  <2> QED
    BY <1>3, <2>1, <2>2, <2>3, DispatchJobSettle, ClaimSettle, BodyStartedSettle DEF JobStep
<1>4. CASE RunStep
  <2>1. CASE RootsDone \/ WaitAll \/ AwaitDeferred
    BY <2>1, SettleFrame, ThreadFacts
       DEF RootsDone, WaitAll, AwaitDeferred, Goto, shared, IInv, TypeOK, ControlOK
  <2> QED
    BY <1>4, <2>1, NextRootSettle DEF RunStep
<1>5. CASE Rerun
  BY <1>5, RerunSettle
<1> QED
  BY <1>1, <1>2, <1>3, <1>4, <1>5 DEF Next

\* The whole invariant is inductive.
THEOREM FullInvariance == Spec => []FullInv
<1>1. Init => FullInv
  BY InitIInv, InitProgress, InitQuiet, InitSettle DEF FullInv
<1>2. FullInv /\ [Next]_vars => FullInv'
  BY NextIInv, ProgressStep, QuietStep, SettleStep DEF FullInv
<1> QED
  BY <1>1, <1>2, PTL DEF Spec

\* At return a job that has not ended is pending and follows another pending job, or
\* is an on-demand job.
LEMMA Stranded ==
  ASSUME FullInv, NoDeferredChain, pc[RunThread] = "returned", NEW j \in Jobs,
         status[j] \notin Final
  PROVE  /\ status[j] = "kPending"
         /\ \/ j \in OnDemand
            \/ \E i \in Jobs : j \in Successors(i) /\ status[i] \notin Final
<1> USE GraphAssumption, ThreadFacts DEF FullInv
<1>1. /\ \A t \in Threads : t # RunThread => pc[t] \in AtRest
      /\ undrained = {}
      /\ \A t \in Threads : todo[t] = {} /\ skips[t] = {}
      /\ \A i \in Jobs : parties[i] = 0
  BY AtReturn DEF Quiescent, AtRest
<1>2. ~Rejecting /\ \A i : ~Doomed(i)
  BY <1>1 DEF Rejecting, Doomed, AtRest
<1>3. status[j] \notin Started
  BY <1>1 DEF IInv, Ownership, HeldByBody, HeldByParties, HeldByOutcome, HeldByCont, AtRest
<1>4. status[j] # "kReady"
  <2>1. roots = {}
    BY LabelFacts DEF QuietInv, LoopInv, LoopLabels
  <2> QED
    BY <1>1, <1>2, <2>1 DEF SettleInv, ReadyInv, Submitting, AtRest
<1>5. status[j] = "kPending"
  BY <1>3, <1>4 DEF IInv, TypeOK, DataOK, Status, Unstarted, Started
<1>6. CASE unmet[j] = 0
  BY <1>5, <1>6 DEF SettleInv, PendingCount
<1>7. CASE unmet[j] # 0
  <2>1. Cardinality(Unreleased(j)) # 0
    BY <1>2, <1>5, <1>7 DEF SettleInv, PendingCount
  <2>2. PICK e \in Unreleased(j) : TRUE
    BY <2>1, FS_EmptySet
  <2>3. e \in Edges /\ e.to = j /\ ~Satisfied(e.from)
    BY <1>1, <2>2 DEF Unreleased, InEdges
  <2>4. j \in Successors(e.from) /\ e.from \in Jobs
    BY <2>3 DEF Successors, OutEdges
  <2>5. status[e.from] # "kSkipped" /\ ~Broken(e.from)
    BY <1>1, <1>2, <1>5, <2>4 DEF SettleInv, SkipTravels, Unstarted, AtRest
  <2>6. status[e.from] \notin Final
    BY <2>3, <2>5 DEF Broken
  <2> QED
    BY <1>5, <2>4, <2>6
<1> QED
  BY <1>6, <1>7

\* Every job the run can reach has ended when run() returns, and after a success all
\* of them are done or tolerated: for every acyclic graph without a deferred job that
\* follows another one.
THEOREM ReturnSettlesAll ==
  ASSUME NoDeferredChain, Acyclic
  PROVE  Spec => []ReturnsSettled
<1>1. ASSUME FullInv, pc[RunThread] = "returned", NEW j \in Jobs, status[j] \notin Final
      PROVE  j \in Unreachable
  <2> SUFFICES ASSUME NEW S \in SUBSET Jobs, OnDemand \subseteq S,
                      \A i \in S : Successors(i) \subseteq S
               PROVE  j \in S
    BY DEF Unreachable
  <2> DEFINE Left == {i \in Jobs \ S : status[i] \notin Final}
  <2>1. \A i \in Left : \E k \in Left : i \in Successors(k)
    BY <1>1, Stranded
  <2>2. Left = {}
    BY <2>1 DEF Acyclic
  <2> QED
    BY <1>1, <2>2
<1>2. ASSUME FullInv, pc[RunThread] = "returned", ~hasFatalFailure, NEW j \in Jobs,
             status[j] \in Final
      PROVE  Satisfied(j)
  <2>1. status[j] # "kSkipped"
    BY <1>2 DEF FullInv, IInv, SkippedOnlyAfterFailure
  <2>2. ~Rejecting /\ \A t \in Threads : pc[t] # "record"
    BY <1>2, AtReturn DEF FullInv, Quiescent, Rejecting
  <2>3. ~Broken(j)
    BY <1>2, <2>2 DEF FullInv, SettleInv, SkipTravels
  <2> QED
    BY <1>2, <2>1, <2>3 DEF Broken
<1>3. FullInv => ReturnsSettled
  BY <1>1, <1>2 DEF ReturnsSettled
<1> QED
  BY <1>3, FullInvariance, PTL
=============================================================================
