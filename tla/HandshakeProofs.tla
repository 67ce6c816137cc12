-------------------------- MODULE HandshakeProofs --------------------------
(***************************************************************************)
(* The handshake, for any strategies and job kinds of the two sides, and   *)
(* whichever of them crashes or goes away when: a connection agrees on its *)
(* payload strategy, and no name of a shared region outlives it.           *)
(***************************************************************************)
EXTENDS Handshake, TLAPS

----------------------------------------------------------------------------
(* The inductive invariant *)

HandshakeType ==
  /\ state \in [Sides -> {"kIdle", "kHandshaking", "kConnected", "kClosed", "gone", "crashed"}]
  /\ DOMAIN strategy = Sides /\ strategy = [s \in Sides |-> strategy[s]]
  /\ mapped \in [Sides -> SUBSET Sides]
  /\ linked \subseteq Sides /\ own \subseteq Sides /\ unlinked \subseteq {"coordinator"}

\* The worker answers only what the coordinator has said, and once.
Order ==
  /\ state["worker"] # "kHandshaking"
  /\ state["coordinator"] = "kIdle" => hello = <<>>
  /\ hello # <<>> => hello = Candidates("coordinator")
  /\ ack # NoStrategy => hello # <<>> /\ state["worker"] # "kIdle"

\* A name that exists is removed by the region's owner, unless the owner crashed; the
\* worker has one only if it chose shared memory.
Names ==
  /\ \A s \in linked : state[s] = "crashed" \/ (s \in own /\ s \notin unlinked)
  /\ \A s \in own : state[s] \notin {"kIdle", "gone", "crashed"}
  /\ state["coordinator"] \in {"kIdle", "kHandshaking"} => unlinked = {}
  /\ "worker" \in linked => ack = "shm"
  /\ Connected("coordinator") => linked = {}

\* What the worker chose is the first offer that it has too, shared memory aside.
FirstShared(name) ==
  \E i \in DOMAIN hello :
    /\ hello[i] = name /\ name \in Range(Candidates("worker"))
    /\ \A k \in 1 .. i - 1 : hello[k] \in Range(Candidates("worker")) => hello[k] = "shm"

Choice ==
  /\ ack \notin {NoStrategy, "reject"} => strategy["worker"] = ack /\ FirstShared(ack)
  /\ ack = "shm" /\ Connected("worker") => mapped["worker"] = Sides
  /\ state["coordinator"] = "kHandshaking" /\ (ack = "shm" \/ "coordinator" \in linked) =>
       mapped["coordinator"] = {"coordinator"}
  /\ Connected("coordinator") =>
       /\ ack \notin {NoStrategy, "reject"} /\ strategy["coordinator"] = ack
       /\ ack = "shm" => mapped["coordinator"] = Sides

HandshakeInv == HandshakeType /\ Order /\ Names /\ Choice

----------------------------------------------------------------------------
(* One lemma per part of the invariant, one step per action *)

\* The candidates of a side are fixed.
LEMMA SameCandidates ==
  ASSUME NEW s \in Sides, UNCHANGED factories
  PROVE  Candidates(s)' = Candidates(s)
BY DEF Candidates

LEMMA ConfigKept ==
  ASSUME [Next]_vars
  PROVE  UNCHANGED factories
BY DEF Next, vars, config, AddKind, ListKind, Connect, HandshakeTimeout, ReadHello, Refuse, ReadAck,
   ReadReject, Destroy, Crash

LEMMA TypeStep ==
  ASSUME HandshakeInv, [Next]_vars
  PROVE  HandshakeType'
<1> USE DEF HandshakeInv, HandshakeType, Sides, Set, Created, Released, regions
<1>1. ASSUME NEW k \in Kinds, AddKind(k) \/ ListKind(k) PROVE HandshakeType'
  BY <1>1 DEF AddKind, ListKind
<1>2. CASE Connect
  BY <1>2 DEF Connect
<1>3. CASE HandshakeTimeout \/ Refuse \/ ReadReject
  BY <1>3 DEF HandshakeTimeout, Refuse, ReadReject
<1>4. CASE ReadHello
  <2>1. PICK i \in DOMAIN hello : strategy' = [strategy EXCEPT !["worker"] = hello[i]]
    BY <1>4 DEF ReadHello
  <2>2. DOMAIN strategy' = Sides /\ strategy' = [s \in Sides |-> strategy'[s]]
    BY <2>1
  <2>3. \/ Created("worker") /\ mapped' = [mapped EXCEPT !["worker"] = Sides]
        \/ UNCHANGED <<linked, own, mapped>>
    BY <1>4 DEF ReadHello
  <2> QED
    BY <1>4, <2>2, <2>3 DEF ReadHello
<1>5. CASE ReadAck
  BY <1>5 DEF ReadAck
<1>6. ASSUME NEW s \in Sides, Destroy(s) PROVE HandshakeType'
  BY <1>6 DEF Destroy
<1>7. ASSUME NEW s \in Sides, Crash(s) PROVE HandshakeType'
  BY <1>7 DEF Crash
<1>8. CASE UNCHANGED vars
  BY <1>8 DEF vars
<1> QED
  BY <1>1, <1>2, <1>3, <1>4, <1>5, <1>6, <1>7, <1>8 DEF Next

LEMMA OrderStep ==
  ASSUME HandshakeInv, [Next]_vars
  PROVE  Order'
<1> USE DEF HandshakeInv, HandshakeType, Order, Sides, Set, wire
<1>0. Candidates("coordinator")' = Candidates("coordinator")
  BY ConfigKept, SameCandidates
<1>1. ASSUME NEW k \in Kinds, AddKind(k) \/ ListKind(k) PROVE Order'
  BY <1>0, <1>1 DEF AddKind, ListKind
<1>2. CASE Connect
  BY <1>0, <1>2 DEF Connect
<1>3. CASE HandshakeTimeout \/ Refuse \/ ReadReject
  BY <1>0, <1>3 DEF HandshakeTimeout, Refuse, ReadReject
<1>4. CASE ReadHello
  BY <1>0, <1>4 DEF ReadHello
<1>5. CASE ReadAck
  BY <1>0, <1>5 DEF ReadAck
<1>6. ASSUME NEW s \in Sides, Destroy(s) PROVE Order'
  BY <1>0, <1>6 DEF Destroy
<1>7. ASSUME NEW s \in Sides, Crash(s) PROVE Order'
  BY <1>0, <1>7 DEF Crash
<1>8. CASE UNCHANGED vars
  BY <1>0, <1>8 DEF vars
<1> QED
  BY <1>1, <1>2, <1>3, <1>4, <1>5, <1>6, <1>7, <1>8 DEF Next

LEMMA NamesStep ==
  ASSUME HandshakeInv, [Next]_vars
  PROVE  Names'
<1> USE DEF HandshakeInv, HandshakeType, Order, Names, Sides, Set, Created, Released, Connected,
    NoStrategy, wire, regions
<1>1. ASSUME NEW k \in Kinds, AddKind(k) \/ ListKind(k) PROVE Names'
  BY <1>1 DEF AddKind, ListKind
<1>2. CASE Connect
  BY <1>2 DEF Connect
<1>3. CASE HandshakeTimeout \/ Refuse \/ ReadReject
  BY <1>3 DEF HandshakeTimeout, Refuse, ReadReject
<1>4. CASE ReadHello
  BY <1>4 DEF ReadHello, Choice
<1>5. CASE ReadAck
  BY <1>5 DEF ReadAck
<1>6. ASSUME NEW s \in Sides, Destroy(s) PROVE Names'
  BY <1>6 DEF Destroy
<1>7. ASSUME NEW s \in Sides, Crash(s) PROVE Names'
  BY <1>7 DEF Crash
<1>8. CASE UNCHANGED vars
  BY <1>8 DEF vars
<1> QED
  BY <1>1, <1>2, <1>3, <1>4, <1>5, <1>6, <1>7, <1>8 DEF Next

\* A step that says nothing on the wire leaves what was chosen.
LEMMA ChoiceStays ==
  ASSUME HandshakeInv, [Next]_vars, NEW name, FirstShared(name), UNCHANGED hello
  PROVE  FirstShared(name)'
BY ConfigKept, SameCandidates DEF FirstShared, Sides

LEMMA ChoiceStep ==
  ASSUME HandshakeInv, [Next]_vars
  PROVE  Choice'
<1> USE DEF HandshakeInv, HandshakeType, Order, Names, Choice, Sides, Set, Created, Released,
    Connected, NoStrategy, wire, regions
<1> HIDE DEF FirstShared
<1>0. \A name : FirstShared(name) /\ UNCHANGED hello => FirstShared(name)'
  BY ChoiceStays
<1>1. ASSUME NEW k \in Kinds, AddKind(k) \/ ListKind(k) PROVE Choice'
  BY <1>0, <1>1 DEF AddKind, ListKind
<1>2. CASE Connect
  BY <1>0, <1>2 DEF Connect
<1>3. CASE HandshakeTimeout \/ Refuse \/ ReadReject
  BY <1>0, <1>3 DEF HandshakeTimeout, Refuse, ReadReject
<1>4. CASE ReadHello
  <2>1. PICK canMap \in BOOLEAN, i \in DOMAIN hello :
          /\ Acceptable(hello[i], canMap)
          /\ \A k \in 1 .. i - 1 : ~Acceptable(hello[k], canMap)
          /\ strategy' = [strategy EXCEPT !["worker"] = hello[i]]
          /\ ack' = hello[i]
          /\ IF hello[i] = "shm"
             THEN Created("worker") /\ mapped' = [mapped EXCEPT !["worker"] = Sides]
             ELSE UNCHANGED <<linked, own, mapped>>
    BY <1>4 DEF ReadHello
  <2>2. FirstShared(hello[i])
    BY <2>1 DEF FirstShared, Acceptable
  <2>3. /\ state' = [state EXCEPT !["worker"] = "kConnected"] /\ hello' = hello
        /\ state["worker"] = "kIdle"
    BY <1>4 DEF ReadHello
  <2>4. FirstShared(ack)'
    BY <2>1, <2>2, <2>3, ConfigKept, SameCandidates DEF FirstShared
  <2>5. ~Connected("coordinator")
    BY <2>3
  <2>6. hello[i] = "shm" => "coordinator" \in linked
    BY <2>1 DEF Acceptable
  <2> QED
    BY <2>1, <2>3, <2>4, <2>5, <2>6
<1>5. CASE ReadAck
  BY <1>0, <1>5 DEF ReadAck
<1>6. ASSUME NEW s \in Sides, Destroy(s) PROVE Choice'
  BY <1>0, <1>6 DEF Destroy
<1>7. ASSUME NEW s \in Sides, Crash(s) PROVE Choice'
  BY <1>0, <1>7 DEF Crash
<1>8. CASE UNCHANGED vars
  BY <1>0, <1>8 DEF vars
<1> QED
  BY <1>1, <1>2, <1>3, <1>4, <1>5, <1>6, <1>7, <1>8 DEF Next

----------------------------------------------------------------------------
(* The theorems *)

LEMMA HandshakeInit ==
  ASSUME Init
  PROVE  HandshakeInv
BY DEF Init, Start, HandshakeInv, HandshakeType, Order, Names, Choice, Sides, Connected, NoStrategy

(* The inductive invariant of connect(), the hello, its answer and the end of either
   process. *)
THEOREM HandshakeInvariance == Spec => []HandshakeInv
<1>1. HandshakeInv /\ [Next]_vars => HandshakeInv'
  BY TypeStep, OrderStep, NamesStep, ChoiceStep DEF HandshakeInv
<1> QED
  BY <1>1, HandshakeInit, PTL DEF Spec

(* selectStrategy() and the worker's choice: a connected coordinator and its worker use
   the same strategy, the first of the coordinator's that both have unless that is shared
   memory and could not be set up, and with shared memory both have both regions mapped. *)
THEOREM SidesAgree == Spec => []Agreement
<1>1. HandshakeInv => Agreement
  <2> SUFFICES ASSUME HandshakeInv, Connected("coordinator")
               PROVE  /\ strategy["worker"] = strategy["coordinator"]
                      /\ FirstShared(strategy["coordinator"])
                      /\ hello = Candidates("coordinator")
                      /\ strategy["coordinator"] = "shm" =>
                           \A s \in Sides : Connected(s) => mapped[s] = Sides
    BY DEF Agreement, FirstShared
  <2> QED
    BY DEF HandshakeInv, Order, Choice, Sides
<1> QED
  BY <1>1, HandshakeInvariance, PTL

(* SharedMemoryStrategy::complete() and ~SharedRegion: once a connection stands no shared
   region has a name, and once both sides have ended none has unless a process crashed. *)
THEOREM NamesAreRemoved == Spec => []NamesRemoved
<1>1. HandshakeInv => NamesRemoved
  BY DEF HandshakeInv, HandshakeType, Names, NamesRemoved, Sides
<1> QED
  BY <1>1, HandshakeInvariance, PTL
=============================================================================
