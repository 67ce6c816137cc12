----------------------------- MODULE MCPipeline -----------------------------
(***************************************************************************)
(* Pipelines with two clients of the deadline service, a timed deferred    *)
(* job in two runs, and one job that two threads run or trigger and a      *)
(* third cancels; and, as a fourth program, an inline run of a graph with  *)
(* deferred jobs.                                                          *)
(***************************************************************************)
EXTENDS Pipelines, TLC

CONSTANTS d1, d2, t, a, b, k

VARIABLES
  iStatus, unmet, iStop, failedJob, completed, ready, next, finished, drain, iInFlight, iParties,
  iOutcome, party, iRun

iVars == <<iStatus, unmet, iStop, failedJob, completed, ready, next, finished, drain, iInFlight,
           iParties, iOutcome, party, iRun>>

\* Two deferred roots, one of them timed and optional, before two plain jobs; one edge
\* is repeated.
Inline == INSTANCE InlineRun WITH
  Jobs <- 1 .. 4, NoJob <- 0, Deferred <- {1, 2}, Timed <- {2}, Optional <- {2, 4},
  Succ <- (1 :> <<3>> @@ 2 :> <<3, 3, 4>> @@ 3 :> <<>> @@ 4 :> <<3>>),
  BodyResults <- {"ok", "kJobFailed"}, Cancellable <- {1, 4}, status <- iStatus, stop <- iStop,
  inFlight <- iInFlight, parties <- iParties, outcome <- iOutcome, run <- iRun

ASSUME InlineInstance == Inline!InlineAssumption

MCInit == (ProgramInit /\ Inline!Unused) \/ (Idle /\ Inline!Init)

MCNext ==
  \/ ProgramNext /\ UNCHANGED iVars
  \/ Inline!Next /\ UNCHANGED <<tVars, sVars, vars>>

MCSpec ==
  /\ MCInit /\ [][MCNext]_<<tVars, sVars, vars, iVars>>
  /\ Service!Fairness /\ Slot!Fairness /\ Fairness /\ Inline!Fairness

\* An inline run ends with every job ended once, in order, and nobody in its context.
QuietAfterRun == Inline!QuietAtEnd

\* A registration of a client, a run with deferred jobs or a call of a thread is pending.
Pending(d, c) == Service!Armed(d) \/ Slot!Running \/ Calling(c) \/ Inline!Running

\* What is armed fires; a run returns whichever of signal, expiry and cancellation wins;
\* run(), trigger(), joinOrphans() and the destructor return once the bodies they wait for
\* do.
WaitsEnd == (Pending(d1, a) ~> ~Pending(d1, a)) /\ (Pending(d2, b) ~> ~Pending(d2, b))
=============================================================================
