---------------------------- MODULE PayloadStream ----------------------------
(***************************************************************************)
(* The "stream" payload strategy over a byte transport: send() cuts a      *)
(* payload into chunk frames, the frames of concurrent sends interleave on *)
(* the wire, FrameReader cuts the received bytes into frames again         *)
(* wherever the reads split them, and onPayloadFrame() assembles them.     *)
(* The control frame that names the payload follows its chunks.            *)
(***************************************************************************)
EXTENDS Integers, Sequences, SequencesExt, FiniteSets, TLC

CONSTANTS
  Payloads,    \* payloads sent, one thread each
  Size,        \* bytes of each payload
  Offered,     \* chunk size of the side that offers
  Accepting    \* chunk size of the side that accepts

PayloadStreamAssumption ==
  /\ Size \in [Payloads -> Nat \ {0}] /\ {Offered, Accepting} \subseteq Nat \ {0}

\* accept() and complete(): both sides take the smaller size.
ChunkBytes == IF Offered < Accepting THEN Offered ELSE Accepting

VARIABLES
  offset,    \* bytes of each payload its send() has sent
  phase,     \* of each sender: "idle", "chunks", "control", "sent", "failed"
  stream,    \* the stream number of each send(), from nextStream_
  wire,      \* bytes on their way
  buffer,    \* FrameReader::buffer_
  partial,   \* partial_: streams being assembled
  complete,  \* complete_: payloads not yet claimed
  result,    \* history: what receive() returned for each payload
  open,
  owned      \* the transport hands frame buffers over (onFrameBuffer)

vars == <<offset, phase, stream, wire, buffer, partial, complete, result, open, owned>>

Content(p) == [i \in 1 .. Size[p] |-> <<p, i>>]
Unset == <<>>        \* a byte of storage that no chunk has filled
Unknown == <<>>      \* the reference has not arrived
Lost == <<Unset>>    \* receive() found no payload under it

\* A frame: its header with the body's length, then the body.
Frame(body) == <<[length |-> Len(body)]>> \o body
ChunkFrame(p, from, to) ==
  Frame(<<[stream |-> stream[p], total |-> Size[p], offset |-> from]>> \o
        SubSeq(Content(p), from + 1, to))
ControlFrame(p) == Frame(<<[payload |-> p, reference |-> stream[p]]>>)

Init ==
  /\ offset = [p \in Payloads |-> 0] /\ phase = [p \in Payloads |-> "idle"]
  /\ stream = [p \in Payloads |-> 0] /\ result = [p \in Payloads |-> Unknown]
  /\ wire = <<>> /\ buffer = <<>> /\ partial = <<>> /\ complete = <<>> /\ open = TRUE
  /\ owned \in BOOLEAN

\* send() takes its stream number before the first chunk.
BeginSend(p) ==
  /\ phase[p] = "idle"
  /\ stream' = [stream EXCEPT ![p] = 1 + Cardinality({q \in Payloads : phase[q] # "idle"})]
  /\ phase' = [phase EXCEPT ![p] = "chunks"]
  /\ UNCHANGED <<offset, wire, buffer, partial, complete, result, open, owned>>

\* One turn of its loop; a transport that closed ends it with kUnavailable.
SendChunk(p) ==
  /\ phase[p] = "chunks"
  /\ \/ /\ open
        /\ LET end == IF Size[p] - offset[p] < ChunkBytes THEN Size[p] ELSE offset[p] + ChunkBytes
           IN /\ wire' = wire \o ChunkFrame(p, offset[p], end)
              /\ offset' = [offset EXCEPT ![p] = end]
              /\ phase' = [phase EXCEPT ![p] = IF end < Size[p] THEN @ ELSE "control"]
     \/ ~open /\ phase' = [phase EXCEPT ![p] = "failed"] /\ UNCHANGED <<wire, offset>>
  /\ UNCHANGED <<stream, buffer, partial, complete, result, open, owned>>

\* The request or reply that carries the reference.
SendControl(p) ==
  /\ phase[p] = "control"
  /\ wire' = IF open THEN wire \o ControlFrame(p) ELSE wire
  /\ phase' = [phase EXCEPT ![p] = IF open THEN "sent" ELSE "failed"]
  /\ UNCHANGED <<offset, stream, buffer, partial, complete, result, open, owned>>

Without(f, k) == [i \in DOMAIN f \ {k} |-> f[i]]

\* Mutant: chunks are appended in the order they arrive, whatever their stream.
MutOnChunk(s, header, bytes) ==
  LET known == IF DOMAIN s.partial # {} THEN s.partial[CHOOSE i \in DOMAIN s.partial : TRUE] ELSE <<>>
  IN IF Len(known \o bytes) >= header.total
     THEN [s EXCEPT !.complete = (header.stream :> known \o bytes) @@ @, !.partial = <<>>]
     ELSE [s EXCEPT !.partial = (header.stream :> known \o bytes)]

\* onPayloadFrame(): a payload that is one frame is kept as it is; the chunks of
\* any other are copied into its storage, which is complete once they add up.
OnChunk(s, header, bytes) ==
  IF header.offset = 0 /\ Len(bytes) = header.total /\ owned
  THEN [s EXCEPT !.complete = (header.stream :> bytes) @@ @]
  ELSE LET known == IF header.stream \in DOMAIN s.partial THEN s.partial[header.stream]
                    ELSE [received |-> 0, storage |-> [i \in 1 .. header.total |-> Unset]]
           part == [received |-> known.received + Len(bytes),
                    storage |-> [i \in 1 .. header.total |->
                       IF i \in header.offset + 1 .. header.offset + Len(bytes)
                       THEN bytes[i - header.offset] ELSE known.storage[i]]]
       IN IF part.received >= header.total
          THEN [s EXCEPT !.complete = (header.stream :> part.storage) @@ @,
                         !.partial = Without(@, header.stream)]
          ELSE [s EXCEPT !.partial = (header.stream :> part) @@ @]

\* receive(): the payload is handed out once.
OnControl(s, m) ==
  [s EXCEPT !.result[m.payload] = IF m.reference \in DOMAIN s.complete
                                  THEN s.complete[m.reference] ELSE Lost,
            !.complete = Without(@, m.reference)]

OnFrame(s, body) ==
  IF "reference" \in DOMAIN body[1] THEN OnControl(s, body[1])
  ELSE OnChunk(s, body[1], Tail(body))

\* FrameReader::feed(): after at most Len(bytes) frames nothing whole is left.
Feed(bytes) ==
  LET Step(s) ==
        IF s.bytes = <<>> \/ Len(s.bytes) < 1 + s.bytes[1].length THEN s
        ELSE [OnFrame(s, SubSeq(s.bytes, 2, 1 + s.bytes[1].length))
                EXCEPT !.bytes = SubSeq(s.bytes, 2 + s.bytes[1].length, Len(s.bytes))]
      Fed[k \in 0 .. Len(bytes)] ==
        IF k = 0 THEN [bytes |-> bytes, partial |-> partial, complete |-> complete, result |-> result]
        ELSE Step(Fed[k - 1])
  IN Fed[Len(bytes)]

\* The transport passes on the next n bytes, wherever that cuts a frame.
Deliver(n) ==
  /\ open /\ n <= Len(wire)
  /\ LET fed == Feed(buffer \o SubSeq(wire, 1, n))
     IN /\ buffer' = fed.bytes /\ partial' = fed.partial
        /\ complete' = fed.complete /\ result' = fed.result
  /\ wire' = SubSeq(wire, n + 1, Len(wire))
  /\ UNCHANGED <<offset, phase, stream, open, owned>>

\* The connection closes: what was not delivered is lost and onClosed() drops the rest.
Close ==
  /\ open /\ open' = FALSE
  /\ wire' = <<>> /\ buffer' = <<>> /\ partial' = <<>> /\ complete' = <<>>
  /\ UNCHANGED <<offset, phase, stream, result, owned>>

Next ==
  \/ \E p \in Payloads : BeginSend(p) \/ SendChunk(p) \/ SendControl(p)
  \/ \E n \in 1 .. Len(wire) : Deliver(n)
  \/ Close

Spec == Init /\ [][Next]_vars

(***************************************************************************)
(* What makes it correct.                                                  *)
(***************************************************************************)

\* Every reference that arrives finds its payload whole and unmixed, however the
\* chunks of concurrent sends interleave and the reads cut the frames; and once
\* everything sent was delivered, nothing is left in the maps.
StreamedExact ==
  /\ \A p \in Payloads : result[p] \in {Unknown, Content(p)}
  /\ (wire = <<>> /\ \A p \in Payloads : phase[p] \in {"idle", "sent"})
       => buffer = <<>> /\ partial = <<>> /\ complete = <<>>
=============================================================================
