------------------------------ MODULE Probation ------------------------------
(***************************************************************************)
(* One inbound connection of a command server under framing probation      *)
(* (drs_bridge/transport.py), with the frame detector of the reference     *)
(* parser (parsers/reference/src/reference_parser.cpp).                    *)
(*                                                                         *)
(* A byte is a small number; a frame is Magic, a payload length, and that  *)
(* many payload bytes.  The peer may send anything, in any segmentation,   *)
(* pause for any time, or hang up.                                         *)
(***************************************************************************)
EXTENDS Integers, Sequences

CONSTANTS
  Byte,            \* the bytes peers send; each is a payload length as well
  Magic,           \* kFrameMagic
  ReadMax,         \* the most bytes one read returns
  GarbageCeiling,  \* garbage_ceiling
  IdleTimeout,     \* idle_timeout, in time units
  MaxStream        \* bound: bytes a peer sends in all

ASSUME ProbationAssumption ==
  /\ Byte \subseteq Nat /\ Magic \in Byte
  /\ ReadMax \in Nat \ {0}
  /\ GarbageCeiling \in Nat
  /\ IdleTimeout \in Nat \ {0}
  /\ MaxStream \in Nat

VARIABLES
  buffer,   \* bytes read and not yet deleted
  cleared,  \* a frame has been extracted
  state,    \* "reading", "draining" the buffer, or why the connection closed
  frames,   \* what on_frame was called with, in order
  stream,   \* history: every byte read
  waited,   \* time since the present read began, up to IdleTimeout
  held      \* history: time the connection has been provisional

vars == <<buffer, cleared, state, frames, stream, waited, held>>

Rejected == {"FRAMING_MISMATCH_IDLE", "FRAMING_MISMATCH_CEILING"}
Open == state \in {"reading", "draining"}

HeaderLen == 2

\* Where a frame may begin: at the magic byte, once its length byte is there.
Starts(b) == {i \in 1 .. Len(b) : b[i] = Magic /\ i + HeaderLen - 1 <= Len(b)}

\* The frame that begins at i, b being long enough or not.
FrameEnd(b, i) == i + HeaderLen + b[i + 1] - 1

\* The first start decides, even if a complete frame begins after it.
FirstStart(b) == CHOOSE i \in Starts(b) : \A j \in Starts(b) : i <= j

HasFrame(b) == Starts(b) # {} /\ FrameEnd(b, FirstStart(b)) <= Len(b)

ExtractFrame(b) == SubSeq(b, FirstStart(b), FrameEnd(b, FirstStart(b)))

-----------------------------------------------------------------------------
Init ==
  /\ buffer = <<>> /\ stream = <<>> /\ frames = <<>>
  /\ cleared = FALSE
  /\ state = "reading"
  /\ waited = 0 /\ held = 0

\* Fault: no reassembly, each read replaces the buffer.
ReadWithoutBuffer(n) ==
  /\ state = "reading"
  /\ Len(stream) + n <= MaxStream
  /\ \E data \in [1 .. n -> Byte] :
       /\ buffer' = data
       /\ stream' = stream \o data
  /\ state' = "draining"
  /\ waited' = 0
  /\ UNCHANGED <<cleared, frames, held>>

\* A read returns what has arrived, at least one byte.
Read(n) ==
  /\ state = "reading"
  /\ Len(stream) + n <= MaxStream
  /\ \E data \in [1 .. n -> Byte] :
       /\ buffer' = buffer \o data
       /\ stream' = stream \o data
  /\ state' = "draining"
  /\ waited' = 0
  /\ UNCHANGED <<cleared, frames, held>>

\* Fault: what came in the same read as a frame is thrown away.
ExtractAndFlush ==
  /\ state = "draining"
  /\ HasFrame(buffer)
  /\ frames' = Append(frames, ExtractFrame(buffer))
  /\ buffer' = <<>>
  /\ cleared' = TRUE
  /\ UNCHANGED <<state, stream, waited, held>>

\* One complete frame, wherever it begins, goes to on_frame, and as many bytes
\* leave the front of the buffer.
Extract ==
  /\ state = "draining"
  /\ HasFrame(buffer)
  /\ LET frame == ExtractFrame(buffer) IN
       /\ frames' = Append(frames, frame)
       /\ buffer' = SubSeq(buffer, Len(frame) + 1, Len(buffer))
  /\ cleared' = TRUE
  /\ UNCHANGED <<state, stream, waited, held>>

\* Fault: the ceiling is never applied.
DrainedUnlimited ==
  /\ state = "draining"
  /\ ~HasFrame(buffer)
  /\ state' = "reading"
  /\ UNCHANGED <<buffer, cleared, frames, stream, waited, held>>

\* No frame is left: give up on the peer, or read on.
Drained ==
  /\ state = "draining"
  /\ ~HasFrame(buffer)
  /\ state' = IF ~cleared /\ Len(buffer) > GarbageCeiling
                THEN "FRAMING_MISMATCH_CEILING" ELSE "reading"
  /\ UNCHANGED <<buffer, cleared, frames, stream, waited, held>>

\* Fault: the timeout runs only once something has arrived.
IdleTimesOutLater ==
  /\ state = "reading"
  /\ ~cleared /\ buffer # <<>>
  /\ waited = IdleTimeout
  /\ state' = "FRAMING_MISMATCH_IDLE"
  /\ UNCHANGED <<buffer, cleared, frames, stream, waited, held>>

\* wait_for's timeout, which every read starts afresh.
IdleTimesOut ==
  /\ state = "reading"
  /\ ~cleared
  /\ waited = IdleTimeout
  /\ state' = "FRAMING_MISMATCH_IDLE"
  /\ UNCHANGED <<buffer, cleared, frames, stream, waited, held>>

PeerHangsUp ==
  /\ state = "reading"
  /\ state' = "eof"
  /\ UNCHANGED <<buffer, cleared, frames, stream, waited, held>>

\* Time passes while a provisional connection waits for data.
Tick ==
  /\ state = "reading"
  /\ ~cleared
  /\ waited < IdleTimeout
  /\ waited' = waited + 1
  /\ held' = held + 1
  /\ UNCHANGED <<buffer, cleared, state, frames, stream>>

Next ==
  \/ \E n \in 1 .. ReadMax : Read(n)
  \/ Extract \/ Drained
  \/ IdleTimesOut \/ PeerHangsUp
  \/ Tick

\* The loop drains what it has read, timers run and expire.
Spec == Init /\ [][Next]_vars /\ WF_vars(Extract \/ Drained) /\ WF_vars(Tick)
             /\ WF_vars(IdleTimesOut)

-----------------------------------------------------------------------------
(* Types; a provisional connection has handed nothing over and still holds  *)
(* every byte it read.                                                      *)
ProbationTypeOK ==
  /\ buffer \in Seq(Byte) /\ stream \in Seq(Byte)
  /\ cleared \in BOOLEAN
  /\ state \in {"reading", "draining", "eof"} \cup Rejected
  /\ waited \in 0 .. IdleTimeout
  /\ held \in Nat
  /\ ~cleared => buffer = stream /\ frames = <<>>

(* "Both bound how long a misconfigured peer can hold a provisional         *)
(* connection": neither the ceiling nor the timeout, which a byte now and   *)
(* then keeps resetting, does so alone, but together they bound both the    *)
(* time and the bytes an unframed peer can occupy.                          *)
ProvisionalIsBounded ==
  ~cleared =>
    /\ held <= (GarbageCeiling + 1) * IdleTimeout
    /\ Len(buffer) <= GarbageCeiling + ReadMax

(* Once a frame was handed over the peer is never rejected, neither for     *)
(* what it sends later nor for being quiet, nor for garbage that came with  *)
(* its first frame.                                                         *)
FramedPeerIsKept == frames # <<>> => state \notin Rejected

\* s is a sequence of frames, the last one perhaps incomplete.
Clean(s) ==
  \E cuts \in SUBSET (1 .. Len(s) + 1) :
    /\ 1 \in cuts
    /\ \A p \in cuts :
         /\ p <= Len(s) => s[p] = Magic
         /\ p + 1 <= Len(s) /\ FrameEnd(s, p) <= Len(s) => FrameEnd(s, p) + 1 \in cuts

\* All frames handed over, end to end.
Handed ==
  LET upTo[n \in 0 .. Len(frames)] == IF n = 0 THEN <<>> ELSE upTo[n - 1] \o frames[n]
  IN upTo[Len(frames)]

(* Reassembly is exact for a peer that sends nothing but frames: whatever   *)
(* the segmentation, what was handed over is what was sent, in order, once, *)
(* less the incomplete frame in the buffer.                                 *)
CleanStreamIntact ==
  Clean(stream) =>
    /\ stream = Handed \o buffer
    /\ state = "reading" => ~HasFrame(buffer)

(* Probation ends: a connection does not stay provisional for ever.         *)
ProbationEnds == [](~cleared => <>(cleared \/ ~Open))
=============================================================================
