------------------------------ MODULE PipeLink ------------------------------
(***************************************************************************)
(* Two PipeTransports joined by two bounded pipes.  sendParts() and        *)
(* close() exclude each other by writeMtx_, which a writer keeps while it  *)
(* waits for room in the pipe; one reader thread per side collects frames  *)
(* and calls the sink, which may answer from inside the callback.          *)
(***************************************************************************)
EXTENDS Integers, Sequences, SequencesExt, FiniteSets

CONSTANTS
  A, B,        \* the two transports
  Senders,     \* threads of each side's owner that send one frame
  Long,        \* those whose frame has a body over kMaxBodyBytes
  Capacity,    \* bytes a pipe holds
  FrameBytes,  \* bytes of a frame, its header byte included
  Answers      \* bound: frames a side's sink answers from the callback

PipeAssumption ==
  /\ A # B /\ {Capacity, Answers} \subseteq Nat /\ Capacity > 0
  /\ FrameBytes \in Nat \ {0, 1} /\ Senders \cap {"reader", "closer"} = {}
  /\ Long \subseteq Senders

Sides == {A, B}
Peer(s) == IF s = A THEN B ELSE A
Threads == Senders \cup {"reader", "closer"}
NoThread == "none"

VARIABLES
  pipe,         \* bytes written to each side and not yet read by it
  mutex,        \* the thread that holds writeMtx_
  todo,         \* what each thread has still to write
  stage,        \* where each thread is
  writeClosed,  \* writeClosed_: the write end is closed
  frame,        \* bytes of the frame the reader collects
  answered,     \* frames the sink answered
  sent,         \* history: frames a thread began to write, in order
  received      \* history: frames handed to the sink, in order

vars == <<pipe, mutex, todo, stage, writeClosed, frame, answered, sent, received>>

\* A byte knows its frame and place; the first one is the header and holds the length.
Frame(name) == [i \in 1 .. FrameBytes |-> <<name, i>>]

Init ==
  /\ pipe = [s \in Sides |-> <<>>] /\ mutex = [s \in Sides |-> NoThread]
  /\ todo = [s \in Sides |-> [t \in Threads |-> <<>>]]
  /\ stage = [s \in Sides |-> [t \in Threads |-> IF t = "reader" THEN "reading" ELSE "idle"]]
  /\ writeClosed = [s \in Sides |-> FALSE] /\ frame = [s \in Sides |-> <<>>]
  /\ answered = [s \in Sides |-> 0]
  /\ sent = [s \in Sides |-> <<>>] /\ received = [s \in Sides |-> <<>>]

Goto(s, t, next) == stage' = [stage EXCEPT ![s][t] = next]

\* A sender's name for its frame; an answer is named by its number.
Name(s, t) == <<s, t, IF t = "reader" THEN answered[s] ELSE 0>>

Destroying(s) == stage[s]["closer"] \in {"joining", "destroyed"}

\* sendParts(): the thread waits for writeMtx_.
Call(s, t) ==
  /\ t \in Senders /\ stage[s][t] = "idle" /\ ~Destroying(s)
  /\ Goto(s, t, "sending")
  /\ UNCHANGED <<pipe, mutex, todo, writeClosed, frame, answered, sent, received>>

\* Mutant: a thread writes without waiting for the mutex.
MutLock(s, t) ==
  /\ stage[s][t] = "sending"
  /\ IF writeClosed[s]
     THEN /\ Goto(s, t, IF t = "reader" THEN "reading" ELSE "done")
          /\ UNCHANGED <<mutex, todo, sent>>
     ELSE /\ Goto(s, t, "writing")
          /\ mutex' = [mutex EXCEPT ![s] = t]
          /\ todo' = [todo EXCEPT ![s][t] = Frame(Name(s, t))]
          /\ sent' = [sent EXCEPT ![s] = Append(@, Name(s, t))]
  /\ UNCHANGED <<pipe, writeClosed, frame, answered, received>>

\* It has it: a closed write end refuses the frame.
Lock(s, t) ==
  /\ stage[s][t] = "sending" /\ mutex[s] = NoThread
  /\ IF writeClosed[s]
     THEN /\ Goto(s, t, IF t = "reader" THEN "reading" ELSE "done")
          /\ UNCHANGED <<mutex, todo, sent>>
     ELSE /\ Goto(s, t, "writing")
          /\ mutex' = [mutex EXCEPT ![s] = t]
          /\ todo' = [todo EXCEPT ![s][t] = Frame(Name(s, t))]
          /\ sent' = [sent EXCEPT ![s] = Append(@, Name(s, t))]
  /\ UNCHANGED <<pipe, writeClosed, frame, answered, received>>

\* writeAll(): it waits, the mutex held, until the pipe has room.
Write(s, t) ==
  /\ stage[s][t] = "writing" /\ todo[s][t] # <<>>
  /\ Len(pipe[Peer(s)]) < Capacity
  /\ pipe' = [pipe EXCEPT ![Peer(s)] = Append(@, Head(todo[s][t]))]
  /\ todo' = [todo EXCEPT ![s][t] = Tail(@)]
  /\ UNCHANGED <<mutex, stage, writeClosed, frame, answered, sent, received>>

\* The peer's read end is gone: the write fails and the frame with it.
WriteFails(s, t) ==
  /\ stage[s][t] = "writing" /\ todo[s][t] # <<>>
  /\ stage[Peer(s)]["closer"] = "destroyed"
  /\ todo' = [todo EXCEPT ![s][t] = <<>>]
  /\ UNCHANGED <<pipe, mutex, stage, writeClosed, frame, answered, sent, received>>

Unlock(s, t) ==
  /\ stage[s][t] = "writing" /\ todo[s][t] = <<>>
  /\ mutex' = [mutex EXCEPT ![s] = IF @ = t THEN NoThread ELSE @]
  /\ Goto(s, t, IF t = "reader" THEN "reading" ELSE "done")
  /\ UNCHANGED <<pipe, todo, writeClosed, frame, answered, sent, received>>

\* The frame's header announces more than kMaxBodyBytes.
TooLong(f) == f # <<>> /\ f[1][1][2] \in Long

\* readAll(): the reader takes what is there, header first, then that many bytes.
Read(s) ==
  /\ stage[s]["reader"] = "reading" /\ pipe[s] # <<>>
  /\ Len(frame[s]) < FrameBytes /\ ~TooLong(frame[s])
  /\ frame' = [frame EXCEPT ![s] = Append(@, Head(pipe[s]))]
  /\ pipe' = [pipe EXCEPT ![s] = Tail(@)]
  /\ UNCHANGED <<mutex, todo, stage, writeClosed, answered, sent, received>>

\* A whole frame goes to the sink, which may answer it before it returns.
Deliver(s) ==
  /\ stage[s]["reader"] = "reading" /\ Len(frame[s]) = FrameBytes
  /\ received' = [received EXCEPT ![s] = Append(@, frame[s])]
  /\ frame' = [frame EXCEPT ![s] = <<>>]
  /\ \/ /\ answered[s] < Answers
        /\ answered' = [answered EXCEPT ![s] = @ + 1]
        /\ Goto(s, "reader", "sending")
     \/ UNCHANGED <<answered, stage>>
  /\ UNCHANGED <<pipe, mutex, todo, writeClosed, sent>>

\* End of stream: the peer's write end is closed and the pipe drained, the
\* destructor woke the reader, or the frame is too long to be read.
EndOfStream(s) ==
  /\ stage[s]["reader"] = "reading" /\ Len(frame[s]) < FrameBytes
  /\ \/ pipe[s] = <<>> /\ writeClosed[Peer(s)]
     \/ Destroying(s)
     \/ TooLong(frame[s])
  /\ Goto(s, "reader", "closing")
  /\ UNCHANGED <<pipe, mutex, todo, writeClosed, frame, answered, sent, received>>

\* close() is called, by the owner or by the reader at the end of the stream.
CallClose(s) ==
  /\ stage[s]["closer"] = "idle"
  /\ Goto(s, "closer", "closing")
  /\ UNCHANGED <<pipe, mutex, todo, writeClosed, frame, answered, sent, received>>

Close(s, t) ==
  /\ stage[s][t] = "closing" /\ mutex[s] = NoThread
  /\ writeClosed' = [writeClosed EXCEPT ![s] = TRUE]
  /\ Goto(s, t, "done")
  /\ UNCHANGED <<pipe, mutex, todo, frame, answered, sent, received>>

\* ~PipeTransport(), once its users are done with it: close(), wake the reader, join it.
Destroy(s) ==
  /\ stage[s]["closer"] = "done" /\ \A t \in Senders : stage[s][t] \in {"idle", "done"}
  /\ Goto(s, "closer", "joining")
  /\ UNCHANGED <<pipe, mutex, todo, writeClosed, frame, answered, sent, received>>

Joined(s) ==
  /\ stage[s]["closer"] = "joining" /\ stage[s]["reader"] = "done"
  /\ Goto(s, "closer", "destroyed")
  /\ UNCHANGED <<pipe, mutex, todo, writeClosed, frame, answered, sent, received>>

ThreadStep(s, t) == Lock(s, t) \/ Write(s, t) \/ WriteFails(s, t) \/ Unlock(s, t) \/ Close(s, t)
ReaderStep(s) == Read(s) \/ Deliver(s) \/ EndOfStream(s)

Next ==
  \E s \in Sides : \/ ReaderStep(s) \/ CallClose(s) \/ Destroy(s) \/ Joined(s)
                   \/ \E t \in Threads : Call(s, t) \/ ThreadStep(s, t)

\* Threads run; nobody is obliged to call send() or close().
Fairness ==
  \A s \in Sides : WF_vars(ReaderStep(s)) /\ \A t \in Threads : WF_vars(ThreadStep(s, t))

Spec == Init /\ [][Next]_vars /\ Fairness

\* What was sent to side s ahead of a frame that is too long.
Readable(s) ==
  LET written == sent[Peer(s)]
      last == CHOOSE n \in 0 .. Len(written) :
                /\ \A k \in 1 .. n : written[k][2] \notin Long
                /\ n < Len(written) => written[n + 1][2] \in Long
  IN [k \in 1 .. last |-> Frame(written[k])]

\* Frames arrive whole, in the order their writers got writeMtx_, whichever threads
\* send at once and wherever the reads stop; one that is too long ends the stream, and
\* all before it have arrived by then.
FramesIntact ==
  \A s \in Sides :
    /\ IsPrefix(received[s], Readable(s))
    /\ (stage[s]["reader"] = "done" /\ ~Destroying(s) /\ ~Destroying(Peer(s))) =>
         received[s] = Readable(s)

\* ITransport's contract: close() does not wait.  It returns whatever the peer and
\* the other threads of this side are doing.
CloseReturns == \A s \in Sides : stage[s]["closer"] = "closing" ~> stage[s]["closer"] # "closing"
=============================================================================
