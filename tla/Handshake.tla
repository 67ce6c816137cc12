----------------------------- MODULE Handshake -----------------------------
(***************************************************************************)
(* Connecting: the registry fingerprint, the choice of a payload strategy  *)
(* and the two shared regions "shm" needs (registry.cpp, channel.cpp,      *)
(* worker_host.cpp, the strategies, shared_region.cpp in src/src/remote).  *)
(*                                                                         *)
(* Either process may crash at any step, or end and destroy what it holds. *)
(* A region is called by the side that created it: names are unique.  A    *)
(* fingerprint is the sequence of kinds that is hashed, in sorted order:   *)
(* collisions of the hash, and names that are the same up to the length    *)
(* the hash takes of them, are left out.                                   *)
(***************************************************************************)
EXTENDS Integers, Sequences, SequencesExt

CONSTANTS
  Factories,      \* Options::strategies either side may have: sequences of strategy names
  Kinds,          \* job kinds: a name and a version, as integers
  MaxKinds        \* bound on the kinds registered, and on those the coordinator lists

HandshakeAssumption ==
  /\ Kinds \subseteq Int \X Int /\ MaxKinds \in Nat
  /\ \A f \in Factories : \A i \in DOMAIN f : f[i] \in {"shm", "store", "stream"}

Sides == {"coordinator", "worker"}
Other(s) == IF s = "worker" THEN "coordinator" ELSE "worker"
NoStrategy == "none"

VARIABLES
  factories,      \* Options::strategies of each side
  reachable,      \* the sides see each other's shared-memory names
  sameMajor,      \* both speak the same protocol major version
  kinds,          \* the worker's registry, as a sequence of the kinds added
  listed,         \* the kinds the coordinator expects
  state,          \* of each side
  hello, ack,     \* what is under way: the offers, and the strategy the worker chose
  strategy,       \* strategy_ of each side
  linked,         \* regions whose name exists
  unlinked,       \* sides whose own region has unlinked_ set
  own,            \* sides that hold the region they created
  mapped          \* regions mapped by each side

config == <<factories, reachable, sameMajor>>
registry == <<kinds, listed>>
wire == <<hello, ack>>
regions == <<linked, unlinked, own, mapped>>

vars == <<config, registry, state, wire, strategy, regions>>

Start ==
  /\ kinds = <<>> /\ listed = <<>>
  /\ state = [s \in Sides |-> "kIdle"]
  /\ hello = <<>> /\ ack = NoStrategy
  /\ strategy = [s \in Sides |-> NoStrategy]
  /\ linked = {} /\ unlinked = {} /\ own = {}
  /\ mapped = [s \in Sides |-> {}]

Init ==
  /\ factories \in [Sides -> Factories]
  /\ reachable \in BOOLEAN
  /\ sameMajor \in BOOLEAN
  /\ Start

Unused ==
  /\ factories = [s \in Sides |-> <<>>] /\ reachable = FALSE /\ sameMajor = FALSE
  /\ Start

Set(s, label) == state' = [state EXCEPT ![s] = label]

----------------------------------------------------------------------------
(* JobRegistry and registryFingerprint() *)

\* A kind that is already registered is refused.
AddKind(k) ==
  /\ state["worker"] = "kIdle" /\ state["coordinator"] = "kIdle" /\ Len(kinds) < MaxKinds
  /\ k \notin Range(kinds)
  /\ kinds' = Append(kinds, k)
  /\ UNCHANGED <<config, listed, state, wire, strategy, regions>>

\* The coordinator's expectedFingerprint is made from any list of kinds.
ListKind(k) ==
  /\ state["coordinator"] = "kIdle" /\ Len(listed) < MaxKinds
  /\ listed' = Append(listed, k)
  /\ UNCHANGED <<config, kinds, state, wire, strategy, regions>>

Before(a, b) == a[1] < b[1] \/ (a[1] = b[1] /\ a[2] < b[2])

\* Mutant: the versions are not mixed in.
MutFingerprint(ks) ==
  LET sorted == SortSeq(ks, Before) IN [i \in DOMAIN sorted |-> sorted[i][1]]

registryFingerprint(ks) == SortSeq(ks, Before)

----------------------------------------------------------------------------
(* Shared regions *)

\* SharedRegion::create() succeeded on side s: the region is named, mapped and owned.
Created(s) ==
  /\ linked' = linked \cup {s}
  /\ own' = own \cup {s}

\* What open() of the other side's region needs; it may still fail to map it.
CanOpen(s) == reachable /\ Other(s) \in linked

\* ~SharedRegion of what side s holds: the creator removes the name if it was not unlinked.
Released(s) ==
  /\ linked' = IF s \in own /\ s \notin unlinked THEN linked \ {s} ELSE linked
  /\ own' = own \ {s}
  /\ mapped' = [mapped EXCEPT ![s] = {}]

----------------------------------------------------------------------------
(* connect() *)

\* Every strategy of a list once, in order of preference, and streaming last.
Distinct(list) ==
  LET all == Append(list, "stream")
      once == [i \in DOMAIN all |->
                 IF \E k \in 1 .. i - 1 : all[k] = all[i] THEN NoStrategy ELSE all[i]]
  IN SelectSeq(once, LAMBDA name : name # NoStrategy)

Candidates(s) == Distinct(factories[s])

\* offer() of "shm" creates the coordinator's region; it may fail, and then offers
\* nothing usable.
Connect ==
  /\ state["coordinator"] = "kIdle"
  /\ Set("coordinator", "kHandshaking")
  /\ hello' = Candidates("coordinator")
  /\ \/ /\ "shm" \in Range(Candidates("coordinator"))
        /\ Created("coordinator")
        /\ mapped' = [mapped EXCEPT !["coordinator"] = {"coordinator"}]
     \/ UNCHANGED <<linked, own, mapped>>
  /\ UNCHANGED <<config, registry, ack, strategy, unlinked>>

HandshakeTimeout ==
  /\ state["coordinator"] = "kHandshaking"
  /\ Set("coordinator", "kClosed")
  /\ UNCHANGED <<config, registry, wire, strategy, regions>>

----------------------------------------------------------------------------
(* The worker reads the hello *)

\* Mutant: an offer is accepted by its name, and its setup is not tried.
MutAcceptable(name, canMap) == name \in Range(Candidates("worker"))

\* The worker has a factory for the offer and can accept it, given whether the system maps
\* regions: accept() of "shm" opens the coordinator's region and creates one of its own.
Acceptable(name, canMap) ==
  /\ name \in Range(Candidates("worker"))
  /\ name = "shm" => "coordinator" \in linked /\ CanOpen("worker") /\ canMap

\* The first acceptable offer is taken; there is one, since both sides have streaming.
ReadHello ==
  /\ state["worker"] = "kIdle" /\ hello # <<>>
  /\ sameMajor /\ registryFingerprint(listed) = registryFingerprint(kinds)
  /\ \E canMap \in BOOLEAN, i \in DOMAIN hello :
       /\ Acceptable(hello[i], canMap)
       /\ \A k \in 1 .. i - 1 : ~Acceptable(hello[k], canMap)
       /\ strategy' = [strategy EXCEPT !["worker"] = hello[i]]
       /\ ack' = hello[i]
       /\ IF hello[i] = "shm"
          THEN Created("worker") /\ mapped' = [mapped EXCEPT !["worker"] = Sides]
          ELSE UNCHANGED <<linked, own, mapped>>
  /\ Set("worker", "kConnected")
  /\ UNCHANGED <<config, registry, hello, unlinked>>

Refuse ==
  /\ state["worker"] = "kIdle" /\ hello # <<>>
  /\ ~sameMajor \/ registryFingerprint(listed) # registryFingerprint(kinds)
  /\ ack' = "reject"
  /\ Set("worker", "kClosed")
  /\ UNCHANGED <<config, registry, hello, strategy, regions>>

----------------------------------------------------------------------------
(* The coordinator reads the answer *)

\* Mutant: the coordinator unlinks its own name only.
MutReadAck ==
  /\ state["coordinator"] = "kHandshaking" /\ ack \notin {NoStrategy, "reject"}
  /\ \/ /\ ack # "shm"
        /\ Set("coordinator", "kConnected")
        /\ strategy' = [strategy EXCEPT !["coordinator"] = ack]
        /\ Released("coordinator") /\ UNCHANGED unlinked
     \/ /\ ack = "shm" /\ CanOpen("coordinator")
        /\ Set("coordinator", "kConnected")
        /\ strategy' = [strategy EXCEPT !["coordinator"] = ack]
        /\ mapped' = [mapped EXCEPT !["coordinator"] = @ \cup {"worker"}]
        /\ linked' = linked \ {"coordinator"}
        /\ unlinked' = unlinked \cup {"coordinator"}
        /\ UNCHANGED own
     \/ /\ ack = "shm"
        /\ Set("coordinator", "kClosed")
        /\ Released("coordinator") /\ UNCHANGED <<strategy, unlinked>>
  /\ UNCHANGED <<config, registry, wire>>

\* selectStrategy() and complete(): the candidates not chosen are destroyed on the way out.
\* With "shm" the coordinator opens the worker's region and unlinks both names, or closes
\* when it cannot open or map it.
ReadAck ==
  /\ state["coordinator"] = "kHandshaking" /\ ack \notin {NoStrategy, "reject"}
  /\ \/ /\ ack # "shm"
        /\ Set("coordinator", "kConnected")
        /\ strategy' = [strategy EXCEPT !["coordinator"] = ack]
        /\ Released("coordinator") /\ UNCHANGED unlinked
     \/ /\ ack = "shm" /\ CanOpen("coordinator")
        /\ Set("coordinator", "kConnected")
        /\ strategy' = [strategy EXCEPT !["coordinator"] = ack]
        /\ mapped' = [mapped EXCEPT !["coordinator"] = @ \cup {"worker"}]
        /\ linked' = linked \ Sides
        /\ unlinked' = unlinked \cup {"coordinator"}
        /\ UNCHANGED own
     \/ /\ ack = "shm"
        /\ Set("coordinator", "kClosed")
        /\ Released("coordinator") /\ UNCHANGED <<strategy, unlinked>>
  /\ UNCHANGED <<config, registry, wire>>

ReadReject ==
  /\ state["coordinator"] = "kHandshaking" /\ ack = "reject"
  /\ Set("coordinator", "kClosed")
  /\ UNCHANGED <<config, registry, wire, strategy, regions>>

----------------------------------------------------------------------------
(* The end of a process *)

\* The channel or host is destroyed, and its strategy with it.
Destroy(s) ==
  /\ state[s] \notin {"gone", "crashed", "kHandshaking"}
  /\ Set(s, "gone")
  /\ Released(s)
  /\ UNCHANGED <<config, registry, wire, strategy, unlinked>>

\* The system unmaps what a crashed process had mapped, and keeps the names.
Crash(s) ==
  /\ state[s] \notin {"gone", "crashed"}
  /\ Set(s, "crashed")
  /\ mapped' = [mapped EXCEPT ![s] = {}]
  /\ own' = own \ {s}
  /\ UNCHANGED <<config, registry, wire, strategy, linked, unlinked>>

Next ==
  \/ \E k \in Kinds : AddKind(k) \/ ListKind(k)
  \/ Connect \/ HandshakeTimeout \/ ReadHello \/ Refuse \/ ReadAck \/ ReadReject
  \/ \E s \in Sides : Destroy(s) \/ Crash(s)

Spec == Init /\ [][Next]_vars

----------------------------------------------------------------------------
(* Properties *)

Connected(s) == state[s] = "kConnected"

(* A connected coordinator and its worker use the same strategy: the first of
   the coordinator's that both have, or a later one if that is shared memory
   and could not be set up; and with shared memory each side has mapped both
   regions.  (connect(), onFrameBuffer() of both sides, selectStrategy().) *)
Agreement ==
  Connected("coordinator") =>
    LET chosen == strategy["coordinator"]
        offered == Candidates("coordinator")
        Both(name) == name \in Range(Candidates("worker"))
    IN /\ strategy["worker"] = chosen
       /\ \E i \in DOMAIN offered :
            /\ offered[i] = chosen /\ Both(chosen)
            /\ \A k \in 1 .. i - 1 : Both(offered[k]) => offered[k] = "shm"
       /\ chosen = "shm" => \A s \in Sides : Connected(s) => mapped[s] = Sides

\* A connected coordinator lists the job kinds its worker has, no more and no fewer,
\* in whatever order each was told of them.  (registryFingerprint().)
KindsAgree == Connected("coordinator") => Range(listed) = Range(kinds)

(* Shared memory leaves nothing behind: once a connection stands, no region has
   a name, so a later crash of either process cannot leak one; and once both
   ended none has unless a process crashed.  (SharedMemoryStrategy::complete(),
   ~SharedRegion.) *)
NamesRemoved ==
  /\ Connected("coordinator") => linked = {}
  /\ (\A s \in Sides : state[s] = "gone") => linked = {}
=============================================================================
