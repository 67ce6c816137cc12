--------------------------------- MODULE Dsl ---------------------------------
(***************************************************************************)
(* The operators of dsl.hpp: an expression  pipe >> term >> term ...  is   *)
(* evaluated from the left, each >> emplacing the specs of its right       *)
(* operand, wiring the front of its left operand to them and returning a   *)
(* value that is the next left operand.  What that value is depends on     *)
(* both operands: a JobTuple or JobTupleChain stays the value so that it   *)
(* can be captured, a Job or JobGroup gives way to the right operand.      *)
(***************************************************************************)
EXTENDS Integers, Sequences, SequencesExt

CONSTANTS
  MaxJobs,    \* bound: jobs emplaced
  MaxTerms,   \* bound: terms of an expression
  MaxGroup    \* bound: members of a group

DslAssumption == {MaxJobs, MaxTerms} \subseteq Nat /\ MaxGroup \in Nat \ {0, 1}

VARIABLES
  jobs,    \* number of jobs emplaced
  value,   \* the value of the expression so far
  edges,   \* the calls of Job::precede() this expression made, in order
  terms    \* history: the operands of this expression, as jobs

vars == <<jobs, value, edges, terms>>

\* A value: the Pipeline itself, a Job, a JobGroup, a JobTuple (one layer) or a
\* JobTupleChain (several).  JobTuple and JobTupleChain wire from their last layer.
Pipe == [kind |-> "pipe", layers |-> <<<<>>>>]
JobValue(t) == [kind |-> "job", layers |-> <<t>>]
GroupValue(t) == [kind |-> "group", layers |-> <<t>>]
TupleValue(t) == [kind |-> "tuple", layers |-> <<t>>]
AppendLayer(v, t) == [kind |-> "chain", layers |-> Append(v.layers, t)]
Active(v) == Last(v.layers)

\* JobSpec::build() of n specs: one new job each, in spec order.
Build(n) == [i \in 1 .. n |-> jobs + i - 1]

\* JobSpecGroup::buildAll(): the same, collected in a JobGroup.
BuildAll(n) == Build(n)

\* The calls of precede() an operator makes: every job of the front before every
\* job of the right operand, the front outermost.
Cross(froms, tos) ==
  FlattenSeq([i \in DOMAIN froms |-> [k \in DOMAIN tos |-> <<froms[i], tos[k]>>]])

Init == jobs = 0 /\ value = Pipe /\ edges = <<>> /\ terms = <<>>

Wire(operand, isFresh, result) ==
  /\ Len(terms) < MaxTerms
  /\ edges' = edges \o Cross(Active(value), operand)
  /\ terms' = Append(terms, [jobs |-> operand, fresh |-> isFresh])
  /\ value' = result
  /\ jobs' = IF isFresh THEN jobs + Len(operand) ELSE jobs

\* A right operand of specs, if there is room for n more jobs.
Room(n) == jobs + n <= MaxJobs

\* Pipeline >> JobSpec, Job >> JobSpec: the new job.
SpecAfterJob ==
  /\ value.kind \in {"pipe", "job"} /\ Room(1)
  /\ Wire(Build(1), TRUE, JobValue(Build(1)))

\* JobGroup >> JobSpec: the new job, after every job of the group.
SpecAfterGroup ==
  /\ value.kind = "group" /\ Room(1)
  /\ Wire(Build(1), TRUE, JobValue(Build(1)))

\* Mutant: the new job becomes the front.
MutSpecAfterTuple ==
  /\ value.kind = "tuple" /\ Room(1)
  /\ Wire(Build(1), TRUE, JobValue(Build(1)))

\* JobTuple >> JobSpec: the tuple again.
SpecAfterTuple ==
  /\ value.kind = "tuple" /\ Room(1)
  /\ Wire(Build(1), TRUE, value)

\* JobTupleChain >> JobSpec: wired from the last layer; the chain again.
SpecAfterChain ==
  /\ value.kind = "chain" /\ Room(1)
  /\ Wire(Build(1), TRUE, value)

\* Job, JobGroup >> JobSpecGroup: the new jobs as a JobGroup.
SpecsAfterJob(n) ==
  /\ value.kind \in {"job", "group"} /\ Room(n)
  /\ Wire(BuildAll(n), TRUE, GroupValue(BuildAll(n)))

\* Pipeline >> JobSpecGroup: the new jobs as a JobTuple.
SpecsAfterPipe(n) ==
  /\ value.kind = "pipe" /\ Room(n)
  /\ Wire(Build(n), TRUE, TupleValue(Build(n)))

\* JobTuple >> JobSpecGroup: a chain of the tuple and a second layer.
SpecsAfterTuple(n) ==
  /\ value.kind = "tuple" /\ Room(n)
  /\ Wire(Build(n), TRUE, AppendLayer(value, Build(n)))

\* JobTupleChain >> JobSpecGroup: a further layer.
SpecsAfterChain(n) ==
  /\ value.kind = "chain" /\ Room(n)
  /\ Wire(Build(n), TRUE, AppendLayer(value, Build(n)))

\* Job >> Job: the right operand.  A Job may also begin an expression.
JobAfterJob(j) ==
  /\ value.kind \in {"pipe", "job"}
  /\ Wire(<<j>>, FALSE, JobValue(<<j>>))

\* JobGroup >> Job: the right operand, after every job of the group.
JobAfterGroup(j) ==
  /\ value.kind = "group"
  /\ Wire(<<j>>, FALSE, JobValue(<<j>>))

\* JobTuple >> Job: the tuple again.
JobAfterTuple(j) ==
  /\ value.kind = "tuple"
  /\ Wire(<<j>>, FALSE, value)

\* JobTupleChain >> Job: wired from the last layer; the chain again.
JobAfterChain(j) ==
  /\ value.kind = "chain"
  /\ Wire(<<j>>, FALSE, value)

\* Job, JobGroup >> JobGroup, the group built by +.  A JobTuple converts to a JobGroup
\* here, a JobTupleChain does not.
GroupAfterJob(group) ==
  /\ value.kind # "chain"
  /\ Wire(group, FALSE, GroupValue(group))

\* The value was captured or dropped; the next expression begins.
NewExpression ==
  /\ terms # <<>>
  /\ value' = Pipe /\ edges' = <<>> /\ terms' = <<>>
  /\ UNCHANGED jobs

Handles == 0 .. jobs - 1
Next ==
  \/ SpecAfterJob \/ SpecAfterGroup \/ SpecAfterTuple \/ SpecAfterChain \/ NewExpression
  \/ \E n \in 2 .. MaxGroup :
       SpecsAfterJob(n) \/ SpecsAfterPipe(n) \/ SpecsAfterTuple(n) \/ SpecsAfterChain(n)
  \/ \E j \in Handles :
       JobAfterJob(j) \/ JobAfterGroup(j) \/ JobAfterTuple(j) \/ JobAfterChain(j)
  \/ \E j, k \in Handles : j < k /\ GroupAfterJob(<<j, k>>)

Spec == Init /\ [][Next]_vars

(***************************************************************************)
(* What an expression means, read off its terms alone.                     *)
(***************************************************************************)

IsLayer(t) == t.fresh /\ Len(t.jobs) > 1
IsGroup(t) == ~t.fresh /\ Len(t.jobs) > 1

\* The layers term i can still see: an expression that begins with a group of specs
\* collects the spec groups, until an emplaced group ends the capture.
Capturing(i) == IsLayer(terms[1]) /\ \A k \in 2 .. i - 1 : ~IsGroup(terms[k])
Predecessor(i) ==
  IF Capturing(i) THEN SelectLastInSubSeq(terms, 1, i - 1, IsLayer) ELSE i - 1

\* Each term runs after the whole of the layer it follows and after nothing else: after
\* the term to its left, or, in an expression that captures, after the last spec group
\* to its left; and the captured layers are all the spec groups of the expression.
\* So two sinks hung off one capture stay parallel, and a layer added after a sink
\* does not wait for it.
WiringExact ==
  LET n == Len(terms)
  IN n > 0 =>
       /\ edges = FlattenSeq([i \in 1 .. n - 1 |->
                    Cross(terms[Predecessor(i + 1)].jobs, terms[i + 1].jobs)])
       /\ value.kind \in {"tuple", "chain"} <=> Capturing(n + 1)
       /\ Capturing(n + 1) =>
            value.layers = [k \in 1 .. Len(SelectSeq(terms, IsLayer)) |->
                              SelectSeq(terms, IsLayer)[k].jobs]
=============================================================================
