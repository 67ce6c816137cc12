-------------------------------- MODULE Graph --------------------------------
(***************************************************************************)
(* The graph a Pipeline holds: nodes, successor lists in a shared arena of *)
(* narrow integers, dependency counts, Kahn's validation and the root list *)
(* that run() caches.  The widths are parameters: the code has Width = 16  *)
(* and InlineCap = 4.  Every call is made by the one thread that builds    *)
(* the pipeline, so an action is a whole call.                             *)
(***************************************************************************)
EXTENDS Integers, Sequences, SequencesExt, FiniteSets, FiniteSetsExt

CONSTANTS
  Width,       \* bits of an arena entry and of each half of a block's start
  InlineCap,   \* entries a node holds before its list moves to the arena
  Links,       \* <<froms, tos>>: the groups of jobs the program orders
  OnDemand,    \* the jobs the program adds with addOnDemand()
  MaxNodes,    \* bound: jobs added
  MaxEdges     \* bound: edges recorded

\* kInlineCap counts the fields that hold a block's capacity and high half too.
GraphAssumption ==
  /\ Width \in Nat /\ InlineCap \in Nat \ {0, 1} /\ 2 * InlineCap < 2 ^ (Width - 1)
  /\ MaxNodes \in 0 .. 2 ^ Width /\ MaxEdges \in Nat
  /\ \A l \in Links : \A side \in {1, 2} :
       IsInjective(l[side]) /\ ToSet(l[side]) \subseteq 0 .. MaxNodes - 1

CountMask == 2 ^ (Width - 1) - 1
Half == 2 ^ Width

VARIABLES
  onDemand,     \* for each job, whether it was added by addOnDemand()
  successors,   \* Node::successors_: the PoolSuccessors of each job
  pool,         \* Impl::succPool_
  predecessors, \* Node::predecessorCount_
  roots,        \* Impl::roots_
  rootsCached,  \* Impl::rootsCached_
  edges         \* history: the successors each job was given, in order

vars == <<onDemand, successors, pool, predecessors, roots, rootsCached, edges>>

Nodes == DOMAIN edges
Count == Cardinality(Nodes)

\* size_, poolIdx_ and inline_ of an empty list; size_ is split into its flag bit
\* and its count.
Empty == [isPool |-> FALSE, count |-> 0, low |-> 0, inline |-> [i \in 0 .. InlineCap - 1 |-> 0]]

BlockStart(list) == list.low + list.inline[1] * Half

\* Mutant: the offset keeps its low half only.
MutSetBlock(list, start, capacity) ==
  [list EXCEPT !.isPool = TRUE, !.low = start % Half,
               !.inline = [@ EXCEPT ![0] = capacity, ![1] = 0]]

SetBlock(list, start, capacity) ==
  [list EXCEPT !.isPool = TRUE, !.low = start % Half,
               !.inline = [@ EXCEPT ![0] = capacity, ![1] = (start \div Half) % Half]]

\* The entries a reader of the list sees: begin() to end().
Entries(list, arena) ==
  [i \in 1 .. list.count |->
     IF list.isPool THEN arena[BlockStart(list) + i] ELSE list.inline[i - 1]]

Zeros(n) == [i \in 1 .. n |-> 0]

\* push_back() of an arena list that has room for one more entry.
Store(list, arena, v) ==
  [list |-> [list EXCEPT !.count = @ + 1],
   pool |-> [arena EXCEPT ![BlockStart(list) + list.count + 1] = v]]

\* The next capacity of a full block.
Grown(capacity) == IF capacity > CountMask \div 2 THEN CountMask ELSE 2 * capacity

\* push_back() of a full arena list: the last block grows in place, any other
\* moves to the end of the arena.
Grow(list, arena) ==
  LET start == BlockStart(list)
      capacity == list.inline[0]
  IN IF start + capacity = Len(arena)
     THEN [list |-> SetBlock(list, start, Grown(capacity)),
           pool |-> arena \o Zeros(Grown(capacity) - capacity)]
     ELSE [list |-> SetBlock(list, Len(arena), Grown(capacity)),
           pool |-> arena \o Entries(list, arena) \o Zeros(Grown(capacity) - capacity)]

\* push_back() of a full inline list: its entries become the head of a block.
Spill(list, arena) ==
  [list |-> SetBlock(list, Len(arena), 2 * InlineCap),
   pool |-> arena \o Entries(list, arena) \o Zeros(InlineCap)]

\* push_back(): the list and the arena it leaves, unless it throws.
Throws(list) == list.count = CountMask
PushBack(list, arena, v) ==
  IF ~list.isPool /\ list.count < InlineCap
  THEN [list |-> [list EXCEPT !.inline[list.count] = v, !.count = @ + 1], pool |-> arena]
  ELSE LET room == IF ~list.isPool THEN Spill(list, arena)
                   ELSE IF list.count = list.inline[0] THEN Grow(list, arena)
                   ELSE [list |-> list, pool |-> arena]
       IN Store(room.list, room.pool, v)

Init ==
  /\ onDemand = <<>> /\ successors = <<>> /\ predecessors = <<>> /\ edges = <<>>
  /\ pool = <<>> /\ roots = <<>> /\ rootsCached = FALSE

\* addNode(): any new node may be a root.
AddNode(flag) ==
  /\ Count < MaxNodes
  /\ LET Append0(f, v) == [i \in 0 .. Count |-> IF i = Count THEN v ELSE f[i]]
     IN /\ onDemand' = Append0(onDemand, flag)
        /\ successors' = Append0(successors, Empty)
        /\ predecessors' = Append0(predecessors, 0)
        /\ edges' = Append0(edges, <<>>)
  /\ rootsCached' = FALSE
  /\ UNCHANGED <<pool, roots>>

Emplace == Count \notin OnDemand /\ AddNode(FALSE)
AddOnDemand == Count \in OnDemand /\ AddNode(TRUE)

\* One edge: the list first, so that a refused edge leaves no dependency count.
Edge(g, from, to) ==
  IF g.thrown \/ Throws(g.successors[from]) THEN [g EXCEPT !.thrown = TRUE]
  ELSE LET pushed == PushBack(g.successors[from], g.pool, to)
       IN [g EXCEPT !.successors[from] = pushed.list, !.pool = pushed.pool,
                    !.predecessors[to] = @ + 1, !.edges[from] = Append(@, to)]

Current == [successors |-> successors, pool |-> pool, predecessors |-> predecessors,
            edges |-> edges, thrown |-> FALSE]

\* Mutant: the cached roots survive a new edge.
MutApply(g) ==
  /\ successors' = g.successors /\ pool' = g.pool /\ predecessors' = g.predecessors
  /\ edges' = g.edges
  /\ UNCHANGED <<onDemand, roots, rootsCached>>

Apply(g) ==
  /\ successors' = g.successors /\ pool' = g.pool /\ predecessors' = g.predecessors
  /\ edges' = g.edges /\ rootsCached' = FALSE
  /\ UNCHANGED <<onDemand, roots>>

MayLink(froms, tos) ==
  /\ ToSet(froms) \cup ToSet(tos) \subseteq Nodes
  /\ MapThenSumSet(LAMBDA i : Len(edges[i]), Nodes) + Len(froms) * Len(tos) <= MaxEdges

\* Job::precede(), JobGroup::precede(): every job of the group before every other;
\* an edge that throws ends the call with the earlier ones recorded.
Precede(froms, tos) ==
  /\ MayLink(froms, tos)
  /\ Apply(FoldLeft(LAMBDA g, from : FoldLeft(LAMBDA h, to : Edge(h, from, to), g, tos),
                    Current, froms))

\* Job::succeed(), JobGroup::succeed(): the same edges, the later jobs outermost.
Succeed(tos, froms) ==
  /\ MayLink(froms, tos)
  /\ Apply(FoldLeft(LAMBDA g, to : FoldLeft(LAMBDA h, from : Edge(h, from, to), g, froms),
                    Current, tos))

\* Mutant: a predecessor is counted once however often it is repeated.
MutInDegree ==
  [i \in Nodes |-> Cardinality({n \in Nodes : Contains(Entries(successors[n], pool), i)})]

\* validate(): Kahn's algorithm.  Visit[k] is its state after k jobs were visited.
InDegree ==
  [i \in Nodes |-> Cardinality({<<n, k>> \in Nodes \X (1 .. MaxEdges) :
      k <= successors[n].count /\ Entries(successors[n], pool)[k] = i})]

Ascending(S) == SetToSortSeq(S, <)

Visited ==
  LET Drop(s, succ) ==
        [degree |-> [s.degree EXCEPT ![succ] = @ - 1],
         ready |-> IF s.degree[succ] = 1 THEN Append(s.ready, succ) ELSE s.ready]
      Visit[k \in 0 .. Count] ==
        IF k = 0 THEN [degree |-> InDegree, ready |-> Ascending({i \in Nodes : InDegree[i] = 0})]
        ELSE LET s == Visit[k - 1]
             IN IF Len(s.ready) < k THEN s
                ELSE FoldLeft(Drop, s, Entries(successors[s.ready[k]], pool))
  IN Len(Visit[Count].ready)

Validates == Visited = Count

\* runImpl()'s preparation: a graph that changed is validated and its roots listed;
\* a cyclic one ends the run with kCyclicDependency and nothing is cached.
Run ==
  /\ Count # 0 /\ ~rootsCached /\ Validates
  /\ roots' = Ascending({i \in Nodes : predecessors[i] = 0 /\ ~onDemand[i]})
  /\ rootsCached' = TRUE
  /\ UNCHANGED <<onDemand, successors, pool, predecessors, edges>>

Next ==
  \/ Emplace \/ AddOnDemand
  \/ \E l \in Links : Precede(l[1], l[2]) \/ Succeed(l[2], l[1])
  \/ Run

Spec == Init /\ [][Next]_vars

(***************************************************************************)
(* What makes it correct.                                                  *)
(***************************************************************************)

\* However lists spill, grow in place and move, each job's list holds exactly the
\* successors it was given, in order, and the dependency counts are their number: a
\* block is never overwritten by another list's, an offset never loses its high
\* half, and an edge that push_back() refused is counted on neither side.
SuccessorsExact ==
  \A i \in Nodes :
    /\ Entries(successors[i], pool) = edges[i]
    /\ predecessors[i] = Cardinality({<<n, k>> \in Nodes \X (1 .. MaxEdges) :
                                        k <= Len(edges[n]) /\ edges[n][k] = i})

\* The comment on PoolSuccessors: abandoned blocks included, the arena holds under
\* four entries per edge stored in it, at every size up to the last doubling.
ArenaBound ==
  LET Stored(i) == IF successors[i].isPool THEN Len(edges[i]) ELSE 0
  IN pool # <<>> => Len(pool) < 4 * MapThenSumSet(Stored, Nodes)

\* An order of the jobs that every edge respects.
Acyclic == \E rank \in [Nodes -> Nodes] :
             \A i \in Nodes : \A k \in DOMAIN edges[i] : rank[i] < rank[edges[i][k]]

\* validate() accepts exactly the acyclic graphs: an edge recorded twice, a job made
\* its own successor and a disconnected job included.
ValidateExact == Validates <=> Acyclic

\* A run that skips validation because the roots are cached starts exactly the jobs
\* that no edge leads to and that are not on demand, of an acyclic graph: every call
\* that changes the graph drops the cache.
CachedRootsFresh ==
  rootsCached =>
    /\ Acyclic
    /\ roots = Ascending({i \in Nodes : ~onDemand[i] /\ \A n \in Nodes : ~Contains(edges[n], i)})
=============================================================================
