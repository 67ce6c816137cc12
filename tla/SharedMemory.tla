---------------------------- MODULE SharedMemory ----------------------------
(***************************************************************************)
(* The "shm" payload strategy on both sides of a connection.  Each side    *)
(* allocates blocks in its own region, by bookkeeping in its own memory,   *)
(* and the other side reads them in place: a coordinator's input lives     *)
(* until the reply, a worker's output until the coordinator drops its view *)
(* and the release frame arrives.  A request carries one payload each way. *)
(* Sizes are in units of kAlignment.                                       *)
(***************************************************************************)
EXTENDS Integers, Sequences, SequencesExt, FiniteSets, FiniteSetsExt

CONSTANTS
  C, W,        \* the coordinator's and the worker's strategy
  Requests,
  Region,      \* size of each side's region
  Sizes,       \* payload sizes
  MaxBlocks    \* bound: blocks each side allocates

SharedMemoryAssumption ==
  /\ C # W /\ Region \in Nat \ {0} /\ Sizes \subseteq Nat \ {0} /\ MaxBlocks \in [{C, W} -> Nat]

Sides == {C, W}
None == [id |-> 0]   \* id 0: nothing fits, the fallback stream carries the payload

VARIABLES
  heap,     \* each side's free list and blocks
  inPlace,  \* blocks allocate() returned whose Payload lives: LocalLease, byAddress
  phase,    \* where each request is
  ref,      \* the reference send() returned for the request, then for its reply
  input,    \* the input the worker views while it works on the request
  views,    \* reply payloads the coordinator holds: PeerLease
  wire,     \* frames on their way to each side
  open,     \* the transport
  closed    \* onClosed() ran on this side

vars == <<heap, inPlace, phase, ref, input, views, wire, open, closed>>

(***************************************************************************)
(* The allocator.                                                          *)
(***************************************************************************)

FreshHeap == [free |-> (0 :> Region), blocks |-> <<>>, next |-> 1, scopes |-> [r \in Requests |-> {}]]

\* Restriction of a map to fewer keys, and a map with one more.
Only(f, S) == [k \in S |-> f[k]]
Less(f, k) == Only(f, DOMAIN f \ {k})

\* allocateBlock(): the first free interval that is large enough, the rest of it
\* left free.
FirstFit(h, size) == {o \in DOMAIN h.free : h.free[o] >= size}
Fits(s, size) == FirstFit(heap[s], size) # {} /\ heap[s].next <= MaxBlocks[s]
AllocateBlock(h, size, local, peer) ==
  LET o == Min(FirstFit(h, size))
      rest == h.free[o] - size
  IN [h EXCEPT
        !.free = IF rest = 0 THEN Less(@, o) ELSE (o + size :> rest) @@ Less(@, o),
        !.blocks = (h.next :> [offset |-> o, size |-> size, localRefs |-> local,
                               peerHolds |-> peer]) @@ @,
        !.next = @ + 1]

\* Mutant: an interval is merged with the next one only.
MutCoalesce(free, o, size) ==
  IF o + size \in DOMAIN free
  THEN (o :> size + free[o + size]) @@ Less(free, o + size)
  ELSE (o :> size) @@ free

\* The free list with an interval returned: merged with the next one, then with
\* the previous one.
Coalesce(free, o, size) ==
  LET joined == IF o + size \in DOMAIN free
                THEN (o :> size + free[o + size]) @@ Less(free, o + size)
                ELSE (o :> size) @@ free
      before == {p \in DOMAIN free : p + free[p] = o}
  IN IF before = {} THEN joined
     ELSE LET p == CHOOSE p \in before : TRUE
          IN [Less(joined, o) EXCEPT ![p] = @ + joined[o]]

ReleaseIfUnused(h, id) ==
  IF id \notin DOMAIN h.blocks \/ h.blocks[id].localRefs # 0 \/ h.blocks[id].peerHolds # 0
  THEN h
  ELSE [h EXCEPT !.blocks = Less(@, id),
                 !.free = Coalesce(@, h.blocks[id].offset, h.blocks[id].size)]

DropLocal(h, id) ==
  IF id \notin DOMAIN h.blocks \/ h.blocks[id].localRefs = 0 THEN h
  ELSE ReleaseIfUnused([h EXCEPT !.blocks[id].localRefs = @ - 1], id)

DropPeerHold(h, id) ==
  IF id \notin DOMAIN h.blocks \/ h.blocks[id].peerHolds = 0 THEN h
  ELSE ReleaseIfUnused([h EXCEPT !.blocks[id].peerHolds = @ - 1], id)

\* endScope() of a request: the coordinator's holds on its inputs.
EndScope(h, r) ==
  [FoldSet(LAMBDA id, g : DropPeerHold(g, id), h, h.scopes[r]) EXCEPT !.scopes[r] = {}]

\* onClosed(): no hold of the peer is left.
Retire(h) ==
  LET dropped == [h EXCEPT !.blocks = [id \in DOMAIN @ |-> [@[id] EXCEPT !.peerHolds = 0]],
                           !.scopes = [r \in Requests |-> {}]]
  IN FoldSet(LAMBDA id, g : ReleaseIfUnused(g, id), dropped, DOMAIN h.blocks)

(***************************************************************************)
(* The two sides.                                                          *)
(***************************************************************************)

Init ==
  /\ heap = [s \in Sides |-> FreshHeap] /\ inPlace = [s \in Sides |-> {}]
  /\ phase = [r \in Requests |-> "idle"] /\ ref = [r \in Requests |-> None]
  /\ input = [r \in Requests |-> None] /\ views = {}
  /\ wire = [s \in Sides |-> <<>>] /\ open = TRUE /\ closed = [s \in Sides |-> FALSE]

\* allocate(): RemoteChannel::allocatePayload() and JobContext::allocateOutput(),
\* the latter by the job of a request the worker runs.
Allocate(s, size) ==
  /\ s = C \/ \E r \in Requests : phase[r] = "running"
  /\ Fits(s, size)
  /\ heap' = [heap EXCEPT ![s] = AllocateBlock(@, size, 1, 0)]
  /\ inPlace' = [inPlace EXCEPT ![s] = @ \cup {heap[s].next}]
  /\ UNCHANGED <<phase, ref, input, views, wire, open, closed>>

\* The last copy of an in-place Payload is destroyed: ~LocalLease.
Forget(s, id) ==
  /\ id \in inPlace[s]
  /\ heap' = [heap EXCEPT ![s] = DropLocal(@, id)]
  /\ inPlace' = [inPlace EXCEPT ![s] = @ \ {id}]
  /\ UNCHANGED <<phase, ref, input, views, wire, open, closed>>

Reference(s, id, h) == [id |-> id, offset |-> h[s].blocks[id].offset, size |-> h[s].blocks[id].size]

\* Mutant: a payload built in place is sent on its owner's reference.
MutHold(s, r, id) == heap[s]

\* send(): a hold is taken under the lock; the bytes are copied after it, until the
\* frame is sent.  The coordinator files the hold under its request.
Hold(s, r, id) ==
  [heap[s] EXCEPT !.blocks[id].peerHolds = @ + 1,
                  !.scopes[r] = IF s = C THEN @ \cup {id} ELSE @]

SendInPlace(s, r, id) ==
  /\ id \in inPlace[s]
  /\ heap' = [heap EXCEPT ![s] = Hold(s, r, id)]
  /\ ref' = [ref EXCEPT ![r] = Reference(s, id, heap)]

SendCopy(s, r, size) ==
  /\ Fits(s, size)
  /\ LET allocated == [heap EXCEPT ![s] = AllocateBlock(@, size, 0, 1)]
         id == heap[s].next
     IN /\ heap' = [allocated EXCEPT ![s].scopes[r] = IF s = C THEN @ \cup {id} ELSE @]
        /\ ref' = [ref EXCEPT ![r] = Reference(s, id, allocated)]

SendStreamed(s, r, size) ==
  /\ FirstFit(heap[s], size) = {}
  /\ ref' = [ref EXCEPT ![r] = None]
  /\ UNCHANGED heap

SendPayload(s, r) ==
  \/ \E id \in inPlace[s] : SendInPlace(s, r, id)
  \/ \E size \in Sizes : SendCopy(s, r, size) \/ SendStreamed(s, r, size)

\* RemoteChannel::transfer(): the payload, then the request frame, in two steps.
Transfer(r) ==
  /\ phase[r] = "idle" /\ SendPayload(C, r)
  /\ phase' = [phase EXCEPT ![r] = "transfer"]
  /\ UNCHANGED <<inPlace, input, views, wire, open, closed>>

SendRequest(r) ==
  /\ phase[r] = "transfer"
  /\ \/ /\ open
        /\ wire' = [wire EXCEPT ![W] = Append(@, [type |-> "request", request |-> r, ref |-> ref[r]])]
        /\ phase' = [phase EXCEPT ![r] = "sent"]
        /\ UNCHANGED heap
     \/ \* failPending(): the transport is closed or the request does not encode; after
        \* onClosed() there is no entry to fail
        /\ heap' = IF closed[C] THEN heap ELSE [heap EXCEPT ![C] = EndScope(@, r)]
        /\ phase' = [phase EXCEPT ![r] = "failed"]
        /\ UNCHANGED wire
  /\ ref' = [ref EXCEPT ![r] = None]
  /\ UNCHANGED <<inPlace, input, views, open, closed>>

Arrives(s, type) == ~closed[s] /\ wire[s] # <<>> /\ Head(wire[s]).type = type
Taken(s) == [wire EXCEPT ![s] = Tail(@)]

ReceiveRequest ==
  /\ Arrives(W, "request")
  /\ LET m == Head(wire[W])
     IN /\ input' = [input EXCEPT ![m.request] = m.ref]
        /\ phase' = [phase EXCEPT ![m.request] = "running"]
  /\ wire' = Taken(W)
  /\ UNCHANGED <<heap, inPlace, ref, views, open, closed>>

\* WorkerHost::run(): the output is sent, then the reply frame, then the views the
\* request's jobs had are gone.
SendOutput(r) ==
  /\ phase[r] = "running" /\ SendPayload(W, r)
  /\ phase' = [phase EXCEPT ![r] = "replying"]
  /\ UNCHANGED <<inPlace, input, views, wire, open, closed>>

SendReply(r) ==
  /\ phase[r] = "replying"
  /\ wire' = IF open
             THEN [wire EXCEPT ![C] = Append(@, [type |-> "reply", request |-> r, ref |-> ref[r]])]
             ELSE wire
  /\ phase' = [phase EXCEPT ![r] = "replied"]
  /\ input' = [input EXCEPT ![r] = None] /\ ref' = [ref EXCEPT ![r] = None]
  /\ UNCHANGED <<heap, inPlace, views, open, closed>>

\* handleReply(): the output's view, then endScope() of the request.
ReceiveReply ==
  /\ Arrives(C, "reply")
  /\ LET m == Head(wire[C])
     IN /\ views' = IF m.ref = None THEN views
                    ELSE views \cup {[request |-> m.request, ref |-> m.ref]}
        /\ heap' = [heap EXCEPT ![C] = EndScope(@, m.request)]
        /\ phase' = [phase EXCEPT ![m.request] = "done"]
  /\ wire' = Taken(C)
  /\ UNCHANGED <<inPlace, ref, input, open, closed>>

\* Mutant: the view is dropped without a release.
MutDropView(v) ==
  /\ v \in views
  /\ views' = views \ {v}
  /\ UNCHANGED <<heap, inPlace, phase, ref, input, wire, open, closed>>

\* The last copy of a reply's Payload is destroyed: ~PeerLease, sendRelease().
DropView(v) ==
  /\ v \in views
  /\ views' = views \ {v}
  /\ wire' = IF open /\ ~closed[C]
             THEN [wire EXCEPT ![W] = Append(@, [type |-> "release", id |-> v.ref.id])] ELSE wire
  /\ UNCHANGED <<heap, inPlace, phase, ref, input, open, closed>>

ReceiveRelease ==
  /\ Arrives(W, "release")
  /\ heap' = [heap EXCEPT ![W] = DropPeerHold(@, Head(wire[W]).id)]
  /\ wire' = Taken(W)
  /\ UNCHANGED <<inPlace, phase, ref, input, views, open, closed>>

\* Either side's transport closes, or the process behind it dies.
Close == open /\ open' = FALSE /\ UNCHANGED <<heap, inPlace, phase, ref, input, views, wire, closed>>

OnClosed(s) ==
  /\ ~open /\ ~closed[s]
  /\ closed' = [closed EXCEPT ![s] = TRUE]
  /\ heap' = [heap EXCEPT ![s] = Retire(@)]
  /\ wire' = [wire EXCEPT ![s] = <<>>]
  /\ UNCHANGED <<inPlace, phase, ref, input, views, open>>

Next ==
  \/ \E s \in Sides : \/ \E size \in Sizes : Allocate(s, size)
                      \/ \E id \in inPlace[s] : Forget(s, id)
                      \/ OnClosed(s)
  \/ \E r \in Requests : Transfer(r) \/ SendRequest(r) \/ SendOutput(r) \/ SendReply(r)
  \/ ReceiveRequest \/ ReceiveReply \/ ReceiveRelease \/ Close
  \/ \E v \in views : DropView(v)

Spec == Init /\ [][Next]_vars

(***************************************************************************)
(* What makes it correct.                                                  *)
(***************************************************************************)

\* The intervals of a heap, as <<offset, size>> pairs.
FreeIntervals(h) == {<<o, h.free[o]>> : o \in DOMAIN h.free}
Bytes(i) == i[1] .. i[1] + i[2] - 1

\* On each side the free list and the blocks split the region exactly: no byte
\* belongs to two blocks or to a block and the free list, none is lost, and no two
\* free intervals touch, so that space given back can be allocated as a whole.
HeapSound ==
  \A s \in Sides :
    LET h == heap[s]
        used(id) == <<h.blocks[id].offset, h.blocks[id].size>>
        owners == {<<"free", i>> : i \in FreeIntervals(h)} \cup
                  {<<"block", id>> : id \in DOMAIN h.blocks}
        bytes(x) == IF x[1] = "free" THEN Bytes(x[2]) ELSE Bytes(used(x[2]))
    IN /\ \A x, y \in owners : x # y => bytes(x) \cap bytes(y) = {}
       /\ UNION {bytes(x) : x \in owners} = 0 .. Region - 1
       /\ \A i, j \in FreeIntervals(h) : i[1] + i[2] # j[1]

\* The references to blocks of s that someone still reads or writes: a payload being
\* transferred, a frame in flight, an input the worker views, a reply the user holds.
References(s) ==
  IF s = C
  THEN {ref[r] : r \in {q \in Requests : phase[q] = "transfer"}} \cup
       {wire[W][k].ref : k \in {k \in DOMAIN wire[W] : wire[W][k].type = "request"}} \cup
       {input[r] : r \in Requests}
  ELSE {ref[r] : r \in {q \in Requests : phase[q] = "replying"}} \cup
       {m.ref : m \in ToSet(wire[C])} \cup {v.ref : v \in views}

\* The place a reference names still belongs to the block it was taken from.
Backed(s, reference) ==
  reference = None \/ (reference.id \in DOMAIN heap[s].blocks /\
                       Reference(s, reference.id, heap) = reference)

\* While a side is connected, no block is freed under a reader or a writer: not under
\* a copy that runs unlocked, a frame in flight, a job that reads its input or a
\* coordinator that holds the reply, whatever the order of replies and releases.
\* An in-place buffer stays its owner's even after the connection closed.
PayloadKept ==
  \A s \in Sides :
    /\ \A id \in inPlace[s] : id \in DOMAIN heap[s].blocks
    /\ closed[s] \/ \A reference \in References(s) : Backed(s, reference)

\* Ids whose release frame is on the way.
Releasing == {m.id : m \in {n \in ToSet(wire[W]) : n.type = "release"}}

\* A connected side holds no block that nobody will give back: each block is a live
\* in-place buffer, an input whose reply is to come, or an output still viewed or
\* being released.
NothingLeaked ==
  /\ open => \A id \in DOMAIN heap[C].blocks :
       id \in inPlace[C] \/ \E r \in Requests :
         id \in heap[C].scopes[r] /\ phase[r] \notin {"idle", "done", "failed"}
  /\ open => \A id \in DOMAIN heap[W].blocks :
       id \in inPlace[W] \cup Releasing \cup {reference.id : reference \in References(W)}
=============================================================================
