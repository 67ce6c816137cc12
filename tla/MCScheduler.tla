---------------------------- MODULE MCScheduler ----------------------------
(***************************************************************************)
(* Small graphs for Scheduler.                                             *)
(***************************************************************************)
EXTENDS SchedulerInvariant

CONSTANTS a, b, c, d, e

Edge(i, j) == [from |-> i, to |-> j, id |-> 1]

\* Two roots and a join, a => c <- b, the edge from a declared twice; c has a
\* tail d, so a skip travels two levels; e is submitted while c is.
Web == {Edge(a, c), [Edge(a, c) EXCEPT !.id = 2], Edge(b, c), Edge(c, d), Edge(b, e)}

\* Two roots joined, a -> c <- b, and d -> e: where d is on-demand, e is never
\* reached.
Join == {Edge(a, c), Edge(b, c), Edge(d, e)}

\* A chain a -> b -> c.
Chain == {Edge(a, b), Edge(b, c)}
=============================================================================
