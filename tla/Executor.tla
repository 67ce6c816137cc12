------------------------------ MODULE Executor ------------------------------
(***************************************************************************)
(* What IExecutor promises (executor.hpp): a dispatch is accepted and then *)
(* runs to its end exactly once, or is rejected and never runs; waitAll()  *)
(* returns only when nothing accepted is left.  The executors are shown to *)
(* implement this specification.                                           *)
(***************************************************************************)

CONSTANTS
  Tasks,    \* the submissions: body and completion callback
  Callers   \* threads that call waitAll()

VARIABLES
  task,     \* new, queued (accepted, not started), running, done or rejected
  waiting   \* the callers inside waitAll()

vars == <<task, waiting>>

TaskStates == {"new", "queued", "running", "done", "rejected"}

Init ==
  /\ task = [k \in Tasks |-> "new"]
  /\ waiting = {}

Moves(k, from, to) ==
  /\ task[k] = from
  /\ task' = [task EXCEPT ![k] = to]
  /\ UNCHANGED waiting

Accept(k) == Moves(k, "new", "queued")
Reject(k) == Moves(k, "new", "rejected")
Start(k)  == Moves(k, "queued", "running")
Finish(k) == Moves(k, "running", "done")

Idle == \A k \in Tasks : task[k] \notin {"queued", "running"}

EnterWait(c) ==
  /\ c \notin waiting
  /\ waiting' = waiting \cup {c}
  /\ UNCHANGED task

LeaveWait(c) ==
  /\ c \in waiting /\ Idle
  /\ waiting' = waiting \ {c}
  /\ UNCHANGED task

Next ==
  \/ \E k \in Tasks : Accept(k) \/ Reject(k) \/ Start(k) \/ Finish(k)
  \/ \E c \in Callers : EnterWait(c) \/ LeaveWait(c)

\* What was accepted starts and, as bodies return, ends; a caller of waitAll()
\* comes back once the executor stays idle.
Fairness ==
  /\ \A k \in Tasks : WF_vars(Start(k) \/ Finish(k))
  /\ \A c \in Callers : WF_vars(LeaveWait(c))

Spec == Init /\ [][Next]_vars /\ Fairness
=============================================================================
