---------------------------- MODULE MCExecutors ----------------------------
(***************************************************************************)
(* A pool of two workers, or an executor of three tasks.  The body of a    *)
(* dispatches c, and d where there is a d.                                 *)
(***************************************************************************)
EXTENDS Executors

CONSTANTS a, b, c, d

Three == {a, b, c}
Four == {a, b, c, d}
ParentOf(S) == [k \in S |-> IF k \in {c, d} THEN a ELSE NoTask]
ThreeParent == ParentOf(Three)
PoolParent == ParentOf(Four)
PoolPriority == [k \in Four |-> IF k = b THEN 10 ELSE 5]
=============================================================================
