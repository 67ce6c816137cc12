------------------------------- MODULE MCData -------------------------------
(***************************************************************************)
(* The data structures of the library, each exercised by itself in one     *)
(* part of the runs: the graph's successor storage and its validation, the *)
(* chaining operators, the shared-memory heap, streamed payloads, a pipe,  *)
(* the frame encoding and the handshake.                                   *)
(***************************************************************************)
EXTENDS Handshake, TLC

CONSTANTS C, W, r1, r2, pay1, pay2, A, B, s1, s2

Parts == {"storage", "shape", "dsl", "memory", "stream", "pipe", "wire", "handshake"}

VARIABLES
  part,
  onDemand, successors, pool, predecessors, roots, rootsCached, edges,
  jobs, value, wired, terms,
  heap, inPlace, mPhase, ref, input, views, mWire, mOpen, closed,
  offset, phase, stream, sWire, buffer, partial, complete, result, open, owned,
  pipe, mutex, todo, stage, writeClosed, pFrame, answered, sent, received,
  type, msg, frame

gVars == <<onDemand, successors, pool, predecessors, roots, rootsCached, edges>>
dVars == <<jobs, value, wired, terms>>
mVars == <<heap, inPlace, mPhase, ref, input, views, mWire, mOpen, closed>>
sVars == <<offset, phase, stream, sWire, buffer, partial, complete, result, open, owned>>
pVars == <<pipe, mutex, todo, stage, writeClosed, pFrame, answered, sent, received>>
wVars == <<type, msg, frame>>

\* Long lists over few nodes, and every small graph.
Storage == INSTANCE Graph WITH
  Width <- 4, InlineCap <- 2, MaxNodes <- 3, MaxEdges <- 16, OnDemand <- {},
  Links <- {<<<<0>>, <<1>>>>, <<<<1>>, <<0, 2>>>>, <<<<0, 2>>, <<1>>>>}

Shape == INSTANCE Graph WITH
  Width <- 4, InlineCap <- 2, MaxNodes <- 3, MaxEdges <- 5, OnDemand <- {2},
  Links <- {<<<<i>>, <<j>>>> : i, j \in 0 .. 2}

Chains == INSTANCE Dsl WITH MaxJobs <- 5, MaxTerms <- 4, MaxGroup <- 2, edges <- wired

Memory == INSTANCE SharedMemory WITH
  Requests <- {r1, r2}, Region <- 3, Sizes <- {1, 2}, MaxBlocks <- (C :> 1 @@ W :> 3),
  phase <- mPhase, wire <- mWire, open <- mOpen

Streamed == INSTANCE PayloadStream WITH
  Payloads <- {pay1, pay2}, Size <- (pay1 :> 4 @@ pay2 :> 3), Offered <- 3, Accepting <- 2,
  wire <- sWire

Link == INSTANCE PipeLink WITH
  Senders <- {s1, s2}, Long <- {s2}, Capacity <- 1, FrameBytes <- 2, Answers <- 0, frame <- pFrame

\* With bytes of eight values a string's length field counts to 63.
LongText == [i \in 1 .. 64 |-> 1]

Frames == INSTANCE Wire WITH
  Byte <- 8, kProtocolMagic <- 1234, kMaxHandleBytes <- 1, kMaxJobs <- 2, Ids <- {4097},
  Versions <- {9}, Texts <- {<<3>>, LongText}, Blobs <- {<<5>>, <<0, 4>>},
  Strategies <- {[name |-> <<3>>, setup |-> <<>>], [name |-> LongText, setup |-> <<5, 0>>]},
  MaxStrategies <- 8, MaxEdges <- 1

\* What either side of the handshake may have, duplicates included, and two versions of a
\* job kind.
Strategies == {<<>>, <<"store", "shm">>, <<"shm">>, <<"shm", "store", "shm">>}
TwoVersions == {<<1, 1>>, <<1, 2>>}

ASSUME InstanceAssumption ==
  /\ Storage!GraphAssumption /\ Shape!GraphAssumption /\ Chains!DslAssumption
  /\ Memory!SharedMemoryAssumption /\ Streamed!PayloadStreamAssumption
  /\ Link!PipeAssumption /\ Frames!WireAssumption /\ HandshakeAssumption

MCInit ==
  /\ part \in Parts
  /\ Storage!Init /\ Chains!Init /\ Memory!Init /\ Streamed!Init /\ Link!Init /\ Frames!Init
  /\ part # "stream" => owned
  /\ IF part = "handshake" THEN Init ELSE Unused

MCNext ==
  /\ UNCHANGED part
  /\ \/ /\ part = "storage" /\ Storage!Next
        /\ UNCHANGED <<dVars, mVars, sVars, pVars, wVars, vars>>
     \/ /\ part = "shape" /\ Shape!Next
        /\ UNCHANGED <<dVars, mVars, sVars, pVars, wVars, vars>>
     \/ /\ part = "dsl" /\ Chains!Next
        /\ UNCHANGED <<gVars, mVars, sVars, pVars, wVars, vars>>
     \/ /\ part = "memory" /\ Memory!Next
        /\ UNCHANGED <<gVars, dVars, sVars, pVars, wVars, vars>>
     \/ /\ part = "stream" /\ Streamed!Next
        /\ UNCHANGED <<gVars, dVars, mVars, pVars, wVars, vars>>
     \/ /\ part = "pipe" /\ Link!Next
        /\ UNCHANGED <<gVars, dVars, mVars, sVars, wVars, vars>>
     \/ /\ part = "wire" /\ Frames!Next
        /\ UNCHANGED <<gVars, dVars, mVars, sVars, pVars, vars>>
     \/ /\ part = "handshake" /\ Next
        /\ UNCHANGED <<gVars, dVars, mVars, sVars, pVars, wVars>>

MCSpec == MCInit /\ [][MCNext]_<<part, gVars, dVars, mVars, sVars, pVars, wVars, vars>>

\* Only one part steps, so the interchangeable requests may be permuted.
Symmetry == Permutations({r1, r2})

\* The successor lists the arena stores are the edges that were added, in order,
\* however lists grow, spill and move, and the arena stays within its bound.
StorageExact == Storage!SuccessorsExact /\ Storage!ArenaBound

\* validate() accepts exactly the acyclic graphs, repeated edges and self-edges
\* included, and the cached roots a run starts from are those of the present graph.
ShapeExact == Shape!ValidateExact /\ Shape!CachedRootsFresh

\* A chain of >> and + operators wires exactly the edges it reads as.
WiringExact == Chains!WiringExact

\* The free list and the blocks of a shared region tile it: nothing is handed out
\* twice, overlaps or stays split.
HeapSound == Memory!HeapSound

\* A reference one side may still read points at an allocated block of its payload.
PayloadKept == Memory!PayloadKept

\* When nobody refers to a payload any more its block is free again.
NothingLeaked == Memory!NothingLeaked

\* Streamed payloads and the frames of a pipe arrive whole, unmixed and in order.
PayloadIntact == Streamed!StreamedExact /\ Link!FramesIntact

\* What the decoder makes of a frame is what the sender meant, a reply with a handle that is
\* too long and a frame that was cut are refused, and a fingerprint lets only peers with the
\* same job kinds connect.
WireExact == Frames!WireExact /\ KindsAgree
=============================================================================
