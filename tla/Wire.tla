-------------------------------- MODULE Wire --------------------------------
(***************************************************************************)
(* The frames of the remote protocol: src/src/remote/wire.cpp, and the     *)
(* request they carry, include/sub0pipeline/remote/subgraph.hpp.           *)
(*                                                                         *)
(* One message is built through the public operations, encoded, and read   *)
(* by the peer's decoder, byte by byte: a number is little-endian digits   *)
(* of base Byte (256 in the code) in a field of 1, 2, 4 or 8 bytes, a      *)
(* string has a 2-byte length and a blob a 4-byte one.                     *)
(***************************************************************************)
EXTENDS Integers, Sequences

LOCAL INSTANCE Functions

CONSTANTS
  Byte,             \* values of a byte
  kProtocolMagic, kMaxHandleBytes, kMaxJobs,
  Ids, Versions,    \* request ids and kind versions
  Texts, Blobs,     \* byte strings used as names and messages, and as payloads
  Strategies,       \* what a peer may offer: a name and setup bytes
  MaxStrategies, MaxEdges

Bytes(b) == b \in Seq(0 .. Byte - 1)

WireAssumption ==
  /\ Byte \in Nat /\ Byte > 7
  /\ kProtocolMagic \in 0 .. Byte ^ 4 - 1
  /\ {kMaxHandleBytes, kMaxJobs, MaxStrategies, MaxEdges} \subseteq Nat
  /\ Ids \subseteq 0 .. Byte ^ 8 - 1 /\ Versions \subseteq 0 .. Byte ^ 4 - 1
  /\ \A b \in Texts \cup Blobs : Bytes(b)
  /\ \A o \in Strategies : Bytes(o.name) /\ o.name # <<>> /\ Bytes(o.setup)

VARIABLES
  type,    \* the frame type of the message being built, or "none"
  msg,     \* the message
  frame    \* the encoded frame, <<>> before it is sent and when the encoder refuses

vars == <<type, msg, frame>>

----------------------------------------------------------------------------
(* Values *)

kHello == 1
kHelloAck == 2
kHelloReject == 3
kRequest == 4
kReply == 5
kCancel == 6
kPayload == 7

kNone == 0
kInline == 1
kHandle == 2
kReference == 3

Payload(kind, bytes) == [kind |-> kind, bytes |-> bytes]
Payloads == {Payload(kNone, <<>>)} \cup [kind : {kInline, kHandle}, bytes : Blobs]

\* The largest values of a uint8_t and a uint16_t.
UINT8_MAX == Byte - 1
UINT16_MAX == Byte ^ 2 - 1

SmallerOf(a, b) == IF a < b THEN a ELSE b
Prefix(s, n) == SubSeq(s, 1, SmallerOf(n, Len(s)))

\* What the message says when no decoder takes it.
Malformed == [id |-> -1]

----------------------------------------------------------------------------
(* Writer *)

little(v, n) == [i \in 1 .. n |-> (v \div Byte ^ (i - 1)) % Byte]

string(s) == little(Len(s), 2) \o s
blob(b) == little(Len(b), 4) \o b
payload(p) == <<p.kind>> \o blob(p.bytes)

finish(t, body) == little(Len(body), 4) \o <<t>> \o body

Joined(parts) == LET J[i \in 0 .. Len(parts)] == IF i = 0 THEN <<>> ELSE J[i - 1] \o parts[i]
                 IN J[Len(parts)]

----------------------------------------------------------------------------
(* Encoders *)

encodeStrategies(t, offers) ==
  IF t = kHello
  THEN LET count == SmallerOf(Len(offers), UINT8_MAX)
       IN little(count, 1)
          \o Joined([i \in 1 .. count |-> string(Prefix(offers[i].name, UINT16_MAX)) \o blob(offers[i].setup)])
  ELSE IF offers = <<>> THEN string(<<>>) \o blob(<<>>)
       ELSE string(Prefix(offers[1].name, UINT16_MAX)) \o blob(offers[1].setup)

\* The fields of minor version 0, in wire order: magic, major, minor, fingerprint and limits.
HelloFields(h) ==
  little(kProtocolMagic, 4) \o little(h.major, 2) \o little(h.minor, 2)
  \o little(h.fingerprint, 8) \o little(h.maxInFlight, 4) \o little(h.maxInlineBytes, 4)

encodeHello(t, h) == finish(t, HelloFields(h) \o encodeStrategies(t, h.strategies))

encodeReject(r) == finish(kHelloReject, <<r.reason>> \o string(Prefix(r.detail, UINT16_MAX)))

fits(p) == p.kind = kHandle => Len(p.bytes) <= kMaxHandleBytes

\* overrides[i] replaces the payload of job i, and is <<>> where there is nothing to replace.
Carried(p, override) == IF override = <<>> THEN p ELSE Payload(kReference, override)

encodeRequest(q, overrides) ==
  LET inputs == [i \in DOMAIN q.jobs |-> Carried(q.jobs[i].input, overrides[i])]
      job(i) == string(q.jobs[i].name) \o little(q.jobs[i].version, 4)
                \o <<IF q.jobs[i].exported THEN 1 ELSE 0>> \o payload(inputs[i])
      refused == \/ Len(q.jobs) > kMaxJobs
                 \/ \E i \in DOMAIN q.jobs : Len(q.jobs[i].name) > UINT16_MAX \/ ~fits(inputs[i])
  IN IF refused THEN <<>>
     ELSE finish(kRequest,
                 little(q.id, 8)
                 \o little(Len(q.jobs), 4) \o Joined([i \in DOMAIN q.jobs |-> job(i)])
                 \o little(Len(q.edges), 4)
                 \o Joined([i \in DOMAIN q.edges |-> little(q.edges[i][1], 4) \o little(q.edges[i][2], 4)]))

\* The worker's outputs are not measured.
encodeReply(r, overrides) ==
  LET result(i) == <<r.results[i].status, r.results[i].error>>
                   \o string(Prefix(r.results[i].message, UINT16_MAX))
                   \o payload(Carried(r.results[i].output, overrides[i]))
  IN finish(kReply, little(r.id, 8) \o little(Len(r.results), 4)
                    \o Joined([i \in DOMAIN r.results |-> result(i)]))

encodeCancel(c) == finish(kCancel, little(c.id, 8))

----------------------------------------------------------------------------
(* Reader: a read past the end latches ok to FALSE *)

Number(width) == [width |-> width, tail |-> FALSE]
String == [width |-> 2, tail |-> TRUE]
Blob == [width |-> 4, tail |-> TRUE]

Value(digits) ==
  LET V[i \in 0 .. Len(digits)] == IF i = 0 THEN 0 ELSE V[i - 1] + digits[i] * Byte ^ (i - 1)
  IN V[Len(digits)]

\* Mutant: the bytes after a length are taken without asking whether they are there.
MutTake(field, r) ==
  LET n == Value(SubSeq(r.rest, 1, field.width))
      end == field.width + (IF field.tail THEN n ELSE 0)
  IN IF ~r.ok \/ Len(r.rest) < field.width
     THEN [r EXCEPT !.ok = FALSE]
     ELSE [ok   |-> TRUE,
           read |-> Append(r.read, IF field.tail THEN SubSeq(r.rest, field.width + 1, SmallerOf(end, Len(r.rest)))
                                   ELSE n),
           rest |-> SubSeq(r.rest, end + 1, Len(r.rest))]

\* Reader::take() and the read it serves, for one field.
Take(field, r) ==
  LET n == Value(SubSeq(r.rest, 1, field.width))
      end == field.width + (IF field.tail THEN n ELSE 0)
  IN IF ~r.ok \/ Len(r.rest) < field.width \/ Len(r.rest) < end
     THEN [r EXCEPT !.ok = FALSE]
     ELSE [ok   |-> TRUE,
           read |-> Append(r.read, IF field.tail THEN SubSeq(r.rest, field.width + 1, end) ELSE n),
           rest |-> SubSeq(r.rest, end + 1, Len(r.rest))]

\* Reads the fields one after another, forgetting what r read before.
Read(fields, r) ==
  LET R[i \in 0 .. Len(fields)] ==
        IF i = 0 THEN [r EXCEPT !.read = <<>>] ELSE Take(fields[i], R[i - 1])
  IN R[Len(fields)]

Times(fields, n) == [i \in 1 .. n * Len(fields) |-> fields[((i - 1) % Len(fields)) + 1]]

Start(body) == [ok |-> TRUE, read |-> <<>>, rest |-> body]

\* Reader::payload() refuses these.
BadPayload(kind, bytes) ==
  \/ kind \notin {kNone, kInline, kHandle, kReference}
  \/ kind = kNone /\ bytes # <<>>
  \/ kind = kHandle /\ Len(bytes) > kMaxHandleBytes

----------------------------------------------------------------------------
(* Decoders *)

HeaderBytes == 5

\* The frame's type, or 0 for a malformed frame.
frameType(f) ==
  IF Len(f) < HeaderBytes THEN 0
  ELSE IF Value(SubSeq(f, 1, 4)) # Len(f) - HeaderBytes \/ f[HeaderBytes] \notin kHello .. kPayload
       THEN 0
       ELSE f[HeaderBytes]

Body(f) == SubSeq(f, HeaderBytes + 1, Len(f))

Offers(read) == [i \in 1 .. Len(read) \div 2 |-> [name |-> read[2 * i - 1], setup |-> read[2 * i]]]

decodeHello(f) ==
  LET head == Read(<<Number(4), Number(2), Number(2), Number(8), Number(4), Number(4)>>, Start(Body(f)))
      hello(offers) == [major |-> head.read[2], minor |-> head.read[3], fingerprint |-> head.read[4],
                        maxInFlight |-> head.read[5], maxInlineBytes |-> head.read[6], strategies |-> offers]
      count == Read(<<Number(1)>>, head)
      list == IF frameType(f) = kHelloAck THEN Read(<<String, Blob>>, head)
              ELSE IF count.ok THEN Read(Times(<<String, Blob>>, count.read[1]), count) ELSE count
  IN IF ~head.ok \/ head.read[1] # kProtocolMagic THEN Malformed
     ELSE IF head.read[3] = 0 \/ head.rest = <<>> THEN hello(<<>>)
     ELSE IF ~list.ok THEN Malformed
     ELSE hello(SelectSeq(Offers(list.read), LAMBDA o : frameType(f) = kHelloAck => o.name # <<>>))

decodeReject(f) ==
  LET r == Read(<<Number(1), String>>, Start(Body(f)))
  IN IF r.ok THEN [reason |-> r.read[1], detail |-> r.read[2]] ELSE Malformed

decodeRequest(f) ==
  LET head == Read(<<Number(8), Number(4)>>, Start(Body(f)))
      jobs == Read(Times(<<String, Number(4), Number(1), Number(1), Blob>>, head.read[2]), head)
      job(i) == [name |-> jobs.read[5 * i - 4], version |-> jobs.read[5 * i - 3],
                 exported |-> jobs.read[5 * i - 2] # 0,
                 input |-> Payload(jobs.read[5 * i - 1], jobs.read[5 * i])]
      count == Read(<<Number(4)>>, jobs)
      edges == Read(Times(<<Number(4), Number(4)>>, count.read[1]), count)
      edge(i) == <<edges.read[2 * i - 1], edges.read[2 * i]>>
      refused == \/ ~head.ok \/ head.read[2] > kMaxJobs
                 \/ ~jobs.ok \/ \E i \in 1 .. head.read[2] : BadPayload(job(i).input.kind, job(i).input.bytes)
                 \/ ~count.ok \/ count.read[1] > Len(count.rest) \div 8
                 \/ \E i \in 1 .. count.read[1] :
                      \/ edge(i)[1] >= head.read[2] \/ edge(i)[2] >= head.read[2]
                      \/ edge(i)[1] = edge(i)[2]
  IN IF refused THEN Malformed
     ELSE [id |-> head.read[1], jobs |-> [i \in 1 .. head.read[2] |-> job(i)],
           edges |-> [i \in 1 .. count.read[1] |-> edge(i)]]

decodeReply(f) ==
  LET head == Read(<<Number(8), Number(4)>>, Start(Body(f)))
      list == Read(Times(<<Number(1), Number(1), String, Number(1), Blob>>, head.read[2]), head)
      result(i) == [status |-> list.read[5 * i - 4], error |-> list.read[5 * i - 3],
                    message |-> list.read[5 * i - 2],
                    output |-> Payload(list.read[5 * i - 1], list.read[5 * i])]
      refused == \/ ~head.ok \/ head.read[2] > kMaxJobs
                 \/ ~list.ok \/ \E i \in 1 .. head.read[2] : BadPayload(result(i).output.kind, result(i).output.bytes)
  IN IF refused THEN Malformed
     ELSE [id |-> head.read[1], results |-> [i \in 1 .. head.read[2] |-> result(i)]]

decodeCancel(f) ==
  LET r == Read(<<Number(8)>>, Start(Body(f))) IN IF r.ok THEN [id |-> r.read[1]] ELSE Malformed

\* The decoder onFrameBuffer() of either peer picks for the frame.
Decoded(f) ==
  CASE frameType(f) \in {kHello, kHelloAck} -> decodeHello(f)
    [] frameType(f) = kHelloReject -> decodeReject(f)
    [] frameType(f) = kRequest -> decodeRequest(f)
    [] frameType(f) = kReply -> decodeReply(f)
    [] frameType(f) = kCancel -> decodeCancel(f)
    [] OTHER -> Malformed

----------------------------------------------------------------------------
(* Building and sending one message *)

Init == type = 0 /\ msg = Malformed /\ frame = <<>>

Begin(t, m) ==
  /\ type = 0
  /\ type' = t /\ msg' = m
  /\ UNCHANGED frame

\* The sender's own values; both peers of this build speak minor version 1.
BeginHello == \E t \in {kHello, kHelloAck}, v \in Versions, id \in Ids :
  Begin(t, [major |-> 1, minor |-> 1, fingerprint |-> id, maxInFlight |-> v, maxInlineBytes |-> v,
            strategies |-> <<>>])
BeginReject == \E reason \in {1, 2}, detail \in Texts :
  Begin(kHelloReject, [reason |-> reason, detail |-> detail])
BeginRequest == \E id \in Ids : Begin(kRequest, [id |-> id, jobs |-> <<>>, edges |-> <<>>])
BeginReply == \E id \in Ids : Begin(kReply, [id |-> id, results |-> <<>>])
BeginCancel == \E id \in Ids : Begin(kCancel, [id |-> id])

Building(t) == type = t /\ frame = <<>> /\ UNCHANGED <<type, frame>>

Offer ==
  \E t \in {kHello, kHelloAck}, offer \in Strategies :
    /\ Building(t)
    /\ Len(msg.strategies) < (IF t = kHello THEN MaxStrategies ELSE 1)
    /\ msg' = [msg EXCEPT !.strategies = Append(@, offer)]

AddJob ==
  \E name \in Texts, version \in Versions, input \in Payloads :
    /\ Building(kRequest)
    /\ Len(msg.jobs) <= kMaxJobs
    /\ msg' = [msg EXCEPT !.jobs = Append(@, [name |-> name, version |-> version,
                                              exported |-> FALSE, input |-> input])]

\* Nothing is added for an index out of range or an edge from a job to itself.
AddEdge ==
  \E from, to \in 0 .. kMaxJobs :
    /\ Building(kRequest)
    /\ Len(msg.edges) < MaxEdges
    /\ from < Len(msg.jobs) /\ to < Len(msg.jobs) /\ from # to
    /\ msg' = [msg EXCEPT !.edges = Append(@, <<from, to>>)]

ExportOutput ==
  /\ Building(kRequest)
  /\ \E i \in DOMAIN msg.jobs : msg' = [msg EXCEPT !.jobs[i].exported = TRUE]

\* The reply has a result for each job of a request the worker decoded.
AddResult ==
  \E status \in {3, 4}, message \in Texts, output \in Payloads :
    /\ Building(kReply)
    /\ Len(msg.results) < kMaxJobs
    /\ msg' = [msg EXCEPT !.results = Append(@, [status |-> status, error |-> 1,
                                                 message |-> message, output |-> output])]

\* A strategy may replace an inline payload by its reference.
Overrides(payloads) ==
  {o \in [DOMAIN payloads -> {<<>>, <<1>>}] :
     \A i \in DOMAIN payloads : o[i] # <<>> => payloads[i].kind = kInline}

Inputs(q) == [i \in DOMAIN q.jobs |-> q.jobs[i].input]
Outputs(r) == [i \in DOMAIN r.results |-> r.results[i].output]

Sends(f, m) == frame' = f /\ msg' = m /\ UNCHANGED type

Encode ==
  /\ frame = <<>>
  /\ \/ type \in {kHello, kHelloAck} /\ Sends(encodeHello(type, msg), msg)
     \/ type = kHelloReject /\ Sends(encodeReject(msg), msg)
     \/ type = kCancel /\ Sends(encodeCancel(msg), msg)
     \/ /\ type = kRequest
        /\ \E o \in Overrides(Inputs(msg)) :
             Sends(encodeRequest(msg, o),
                   [msg EXCEPT !.jobs = [i \in DOMAIN @ |-> [@[i] EXCEPT !.input = Carried(@, o[i])]]])
     \/ /\ type = kReply
        /\ \E o \in Overrides(Outputs(msg)) :
             Sends(encodeReply(msg, o),
                   [msg EXCEPT !.results = [i \in DOMAIN @ |-> [@[i] EXCEPT !.output = Carried(@, o[i])]]])

Next ==
  \/ BeginHello \/ BeginReject \/ BeginRequest \/ BeginReply \/ BeginCancel
  \/ Offer \/ AddJob \/ AddEdge \/ ExportOutput \/ AddResult \/ Encode

Spec == Init /\ [][Next]_vars

----------------------------------------------------------------------------
(* Properties *)

\* What the sender means by the message: lists and texts a length field cannot count are cut.
Meant ==
  CASE type = kHello -> [msg EXCEPT !.strategies = [i \in DOMAIN Prefix(@, UINT8_MAX) |->
                            [@[i] EXCEPT !.name = Prefix(@, UINT16_MAX)]]]
    [] type = kHelloAck -> [msg EXCEPT !.strategies = [i \in DOMAIN @ |->
                            [@[i] EXCEPT !.name = Prefix(@, UINT16_MAX)]]]
    [] type = kHelloReject -> [msg EXCEPT !.detail = Prefix(@, UINT16_MAX)]
    [] type = kReply -> [msg EXCEPT !.results = [i \in DOMAIN @ |->
                            [@[i] EXCEPT !.message = Prefix(@, UINT16_MAX)]]]
    [] OTHER -> msg

\* The payloads the message carries.
Carries ==
  CASE type = kRequest -> Range(Inputs(msg))
    [] type = kReply -> Range(Outputs(msg))
    [] OTHER -> {}

\* The one frame the peer does not take: the worker's reply with a handle that is too long.
\* A request with one is never encoded.
Untakable == type = kReply /\ \E p \in Carries : ~fits(p)

\* The same frame with the body cut or extended, and its length field set accordingly.
Rebuilt(body) == finish(frame[HeaderBytes], body)

\* The one prefix of a hello that is a message: the hello of a peer that speaks minor version 0.
MinorZero(n) == type \in {kHello, kHelloAck} /\ n = Len(HelloFields(msg))

(* The peer reads from a frame exactly the message that was sent, and still does
   when a newer peer appends fields.  The exception is a reply with a handle over
   kMaxHandleBytes, which the encoder sends and the decoder refuses as a whole, the
   other results with it.  A frame whose body is cut at any byte, or whose length
   field disagrees with its size, is refused rather than taken for another message.
   (wire.cpp: the encoders against the decoders and the latched Reader.) *)
WireExact ==
  frame # <<>> =>
    LET taken == IF Untakable THEN Malformed ELSE Meant IN
    /\ Decoded(frame) = taken
    /\ Decoded(Rebuilt(Body(frame) \o <<1, 0>>)) = taken
    /\ frameType(frame \o <<0>>) = 0
    /\ \A n \in 0 .. Len(frame) - HeaderBytes - 1 :
         MinorZero(n) \/ Decoded(Rebuilt(SubSeq(Body(frame), 1, n))) = Malformed
=============================================================================
