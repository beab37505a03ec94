--------------------------- MODULE ProbationProofs ---------------------------
(***************************************************************************)
(* Proofs about Probation, for any bytes, ceiling, timeout and read size.  *)
(*                                                                         *)
(* The bound on a provisional connection is inductive once the time is     *)
(* charged to the bytes: every read that ended brought at least one byte   *)
(* and took at most IdleTimeout, and a connection that reads on holds no   *)
(* more bytes than the ceiling (Charged).                                  *)
(*                                                                         *)
(* That a clean stream stays intact is an induction over the steps with    *)
(* the positions where frames begin (Cuts): what was handed over ends at   *)
(* one of them (Reassembled).                                              *)
(***************************************************************************)
EXTENDS Probation, SequenceTheorems, WellFoundedInduction, TLAPS

Total == (GarbageCeiling + 1) * IdleTimeout

\* Time and bytes of a provisional connection, by where it stands.
Charged ==
  ~cleared =>
    /\ Len(buffer) <= GarbageCeiling + ReadMax
    /\ held <= Total
    /\ state = "draining" => held <= Len(buffer) * IdleTimeout
    /\ state = "reading" =>
         /\ Len(buffer) <= GarbageCeiling
         /\ held <= Len(buffer) * IdleTimeout + waited

Kept == cleared => state \notin Rejected

Handover == frames # <<>> => cleared

PInv == ProbationTypeOK /\ Charged /\ Kept /\ Handover

\* More bytes pay for more time.
LEMMA MoreBytes ==
  ASSUME NEW a \in Nat, NEW b \in Nat, a < b, NEW t \in Nat
  PROVE  a * t + t <= b * t
<1>1. PICK c \in Nat : b = a + 1 + c
  <2>1. b - a - 1 \in Nat /\ b = a + 1 + (b - a - 1)
    OBVIOUS
  <2>2. QED
    BY <2>1
<1>2. b * t = a * t + t + c * t /\ c * t \in Nat
  BY <1>1
<1>3. QED
  BY <1>2

\* Reading n bytes lengthens the buffer by n.
LEMMA ReadFacts ==
  ASSUME NEW b \in Seq(Byte), NEW n \in Nat \ {0}, NEW data \in [1 .. n -> Byte]
  PROVE  b \o data \in Seq(Byte) /\ Len(b \o data) = Len(b) + n
<1>1. data \in Seq(Byte) /\ Len(data) = n
  OBVIOUS
<1>2. QED
  BY <1>1

\* A first start exists and lies in the buffer, its length byte included.
LEMMA FirstStartFacts ==
  ASSUME NEW b \in Seq(Byte), Starts(b) # {}
  PROVE  /\ FirstStart(b) \in 1 .. Len(b)
         /\ b[FirstStart(b)] = Magic
         /\ FirstStart(b) + 1 \in 1 .. Len(b)
         /\ \A j \in Starts(b) : FirstStart(b) <= j
<1>1. Starts(b) \subseteq Nat
  BY DEF Starts
<1>2. \E i \in Starts(b) : \A j \in Starts(b) : i <= j
  <2> DEFINE Less == OpToRel(<, Nat)
  <2>1. PICK i \in Starts(b) : \A j \in Starts(b) : ~(<<j, i>> \in Less)
    <3> HIDE DEF Less
    <3>1. IsWellFoundedOn(Less, Nat)
      BY NatLessThanWellFounded DEF Less
    <3>2. QED
      BY <1>1, <3>1, WFMin
  <2>2. \A j \in Starts(b) : ~(j < i)
    BY <1>1, <2>1 DEF OpToRel
  <2> HIDE DEF Less
  <2>3. i \in Nat /\ \A j \in Starts(b) : j \in Nat
    BY <1>1
  <2>4. \A j \in Starts(b) : i <= j
    BY <2>2, <2>3
  <2>5. QED
    BY <2>4
<1>3. FirstStart(b) \in Starts(b) /\ \A j \in Starts(b) : FirstStart(b) <= j
  BY <1>2 DEF FirstStart
<1>4. QED
  BY <1>3 DEF Starts, HeaderLen

\* An extracted frame has at least its header and is no longer than the buffer.
LEMMA ExtractFrameFacts ==
  ASSUME NEW b \in Seq(Byte), HasFrame(b)
  PROVE  Len(ExtractFrame(b)) \in HeaderLen .. Len(b)
<1> DEFINE i == FirstStart(b)
           j == FrameEnd(b, i)
<1>1. /\ i \in 1 .. Len(b) /\ i + 1 \in 1 .. Len(b) /\ j <= Len(b)
  BY FirstStartFacts DEF HasFrame
<1>2. b[i + 1] \in Nat
  BY <1>1, ElementOfSeq, ProbationAssumption
<1>3. j = i + b[i + 1] + 1 /\ j \in Nat
  BY <1>1, <1>2 DEF FrameEnd, HeaderLen
<1>4. \A k \in i .. j : b[k] \in Byte
  BY <1>1, <1>3
<1>5. Len(SubSeq(b, i, j)) = j - i + 1
  <2> HIDE DEF i, j
  <2>1. i \in Int /\ j \in Int /\ i <= j
    BY <1>1, <1>2, <1>3
  <2>2. QED
    BY <1>4, <2>1, SubSeqProperties
<1>6. QED
  BY <1>1, <1>2, <1>3, <1>5 DEF ExtractFrame, HeaderLen

LEMMA InitPInv == Init => PInv
<1> SUFFICES ASSUME Init PROVE PInv
  OBVIOUS
<1>1. Len(buffer) = 0 /\ Len(buffer) * IdleTimeout = 0 /\ Total \in Nat
  BY ProbationAssumption DEF Init, Total
<1>2. Charged
  BY <1>1, ProbationAssumption DEF Init, Charged
<1>3. buffer \in Seq(Byte) /\ stream \in Seq(Byte)
  BY DEF Init
<1>4. ProbationTypeOK
  <2>1. waited \in 0 .. IdleTimeout /\ held \in Nat
    BY ProbationAssumption DEF Init
  <2>2. buffer = stream /\ frames = <<>> /\ cleared \in BOOLEAN
    BY DEF Init
  <2>3. state \in {"reading", "draining", "eof"} \cup Rejected
    BY DEF Init
  <2>4. QED
    BY <1>3, <2>1, <2>2, <2>3 DEF ProbationTypeOK
<1>5. Kept /\ Handover
  BY DEF Init, Kept, Handover
<1>6. QED
  BY <1>2, <1>4, <1>5 DEF PInv

LEMMA NextPInv == PInv /\ [Next]_vars => PInv'
<1> SUFFICES ASSUME PInv, [Next]_vars PROVE PInv'
  OBVIOUS
<1> USE ProbationAssumption
<1>1. ASSUME NEW n \in 1 .. ReadMax, Read(n) PROVE PInv'
  <2>1. PICK data \in [1 .. n -> Byte] :
          buffer' = buffer \o data /\ stream' = stream \o data
    BY <1>1 DEF Read
  <2>2. n \in Nat \ {0} /\ Len(buffer) \in Nat
    BY DEF PInv, ProbationTypeOK
  <2>3. /\ buffer' \in Seq(Byte) /\ stream' \in Seq(Byte)
        /\ Len(buffer') = Len(buffer) + n
    BY <2>1, <2>2, ReadFacts DEF PInv, ProbationTypeOK
  <2>4. ProbationTypeOK'
    BY <1>1, <2>1, <2>3 DEF Read, PInv, ProbationTypeOK
  <2>5. Charged'
    <3>1. SUFFICES ASSUME ~cleared PROVE Charged'
      BY <1>1 DEF Charged, Read
    <3>2. /\ Len(buffer) <= GarbageCeiling
          /\ held <= Len(buffer) * IdleTimeout + waited /\ waited <= IdleTimeout
          /\ held \in Nat /\ waited \in Nat
      BY <1>1, <3>1 DEF PInv, Charged, Read, ProbationTypeOK
    <3>3. Len(buffer) * IdleTimeout + IdleTimeout <= Len(buffer') * IdleTimeout
      <4>1. Len(buffer') \in Nat /\ Len(buffer) < Len(buffer')
        BY <2>2, <2>3
      <4>2. QED
        BY <2>2, <4>1, MoreBytes
    <3>4. Len(buffer) * IdleTimeout + IdleTimeout <= Total
      BY <2>2, <3>2, MoreBytes DEF Total
    <3>5. /\ Len(buffer) * IdleTimeout \in Nat /\ Len(buffer') * IdleTimeout \in Nat
          /\ Total \in Nat
      BY <2>2, <2>3 DEF Total
    <3>6. held <= Total /\ held <= Len(buffer') * IdleTimeout
      BY <3>2, <3>3, <3>4, <3>5
    <3>7. Len(buffer') <= GarbageCeiling + ReadMax
      BY <2>2, <2>3, <3>2
    <3>8. QED
      BY <1>1, <3>6, <3>7 DEF Charged, Read
  <2>6. Kept' /\ Handover'
    BY <1>1 DEF Read, PInv, Kept, Handover, Rejected
  <2>7. QED
    BY <2>4, <2>5, <2>6 DEF PInv
<1>2. CASE Extract
  <2>1. buffer \in Seq(Byte) /\ Len(ExtractFrame(buffer)) \in 1 .. Len(buffer)
    BY <1>2, ExtractFrameFacts DEF Extract, PInv, ProbationTypeOK, HeaderLen
  <2>2. buffer' \in Seq(Byte)
    BY <1>2, <2>1 DEF Extract
  <2>3. QED
    BY <1>2, <2>2 DEF Extract, PInv, ProbationTypeOK, Charged, Kept, Handover, Rejected
<1>3. CASE Drained
  <2>1. ProbationTypeOK' /\ Kept' /\ Handover'
    BY <1>3 DEF Drained, PInv, ProbationTypeOK, Kept, Handover, Rejected
  <2>2. Charged'
    <3>1. Len(buffer) * IdleTimeout \in Nat /\ waited \in Nat /\ held \in Nat
      BY DEF PInv, ProbationTypeOK
    <3>2. QED
      BY <1>3, <3>1 DEF Drained, PInv, Charged
  <2>3. QED
    BY <2>1, <2>2 DEF PInv
<1>4. CASE IdleTimesOut \/ PeerHangsUp
  BY <1>4 DEF IdleTimesOut, PeerHangsUp, PInv, ProbationTypeOK, Charged, Kept, Handover, Rejected
<1>5. CASE Tick
  <2>1. ProbationTypeOK' /\ Kept' /\ Handover'
    BY <1>5 DEF Tick, PInv, ProbationTypeOK, Kept, Handover, Rejected
  <2>2. /\ Len(buffer) \in Nat /\ Len(buffer) * IdleTimeout \in Nat /\ Total \in Nat
        /\ waited \in Nat /\ held \in Nat /\ waited + 1 <= IdleTimeout
    BY <1>5 DEF Tick, PInv, ProbationTypeOK, Total
  <2>3. /\ Len(buffer) <= GarbageCeiling
        /\ held <= Len(buffer) * IdleTimeout + waited
    BY <1>5 DEF Tick, PInv, Charged
  <2>4. Len(buffer) * IdleTimeout + IdleTimeout <= Total
    BY <2>2, <2>3, MoreBytes DEF Total
  <2>5. held + 1 <= Total /\ held + 1 <= Len(buffer) * IdleTimeout + (waited + 1)
    BY <2>2, <2>3, <2>4
  <2>6. Charged'
    BY <1>5, <2>5 DEF Tick, PInv, Charged
  <2>7. QED
    BY <2>1, <2>6 DEF PInv
<1>6. CASE UNCHANGED vars
  BY <1>6 DEF vars, PInv, ProbationTypeOK, Charged, Kept, Handover
<1>7. QED
  BY <1>1, <1>2, <1>3, <1>4, <1>5, <1>6 DEF Next

LEMMA Inductive == Spec => []PInv
  BY InitPInv, NextPInv, PTL DEF Spec

(* The types hold in every state of a connection. *)
THEOREM ProbationTypeCorrect == Spec => []ProbationTypeOK
<1>1. PInv => ProbationTypeOK
  BY DEF PInv
<1>2. QED
  BY <1>1, Inductive, PTL

(* Whatever bytes a peer sends, and however slowly, without a frame it gets  *)
(* at most (GarbageCeiling + 1) * IdleTimeout of a connection and one read   *)
(* more than the ceiling of memory (probation_connection).                   *)
THEOREM ProbationIsBounded == Spec => []ProvisionalIsBounded
<1>1. PInv => ProvisionalIsBounded
  BY DEF PInv, Charged, ProvisionalIsBounded, Total
<1>2. QED
  BY <1>1, Inductive, PTL

(* A peer that framed once is never rejected.                                *)
THEOREM FramedPeersAreKept == Spec => []FramedPeerIsKept
<1>1. PInv => FramedPeerIsKept
  BY DEF PInv, Kept, Handover, FramedPeerIsKept
<1>2. QED
  BY <1>1, Inductive, PTL
-----------------------------------------------------------------------------
(* Reassembly.  What was handed over is a recursive function of frames; its *)
(* defining equation and its uniqueness come from induction over a set of   *)
(* numbers.                                                                 *)

\* A set of numbers with 0 and every successor has them all.
LEMMA SetInduction ==
  ASSUME NEW S, 0 \in S, \A n \in Nat : n \in S => n + 1 \in S
  PROVE  Nat \subseteq S
<1> SUFFICES ASSUME Nat \ S # {} PROVE FALSE
  OBVIOUS
<1> DEFINE Less == OpToRel(<, Nat)
<1>1. PICK x \in Nat \ S : \A y \in Nat \ S : ~(<<y, x>> \in Less)
  <2> HIDE DEF Less
  <2>1. IsWellFoundedOn(Less, Nat)
    BY NatLessThanWellFounded DEF Less
  <2>2. QED
    BY <2>1, WFMin
<1>2. \A y \in Nat \ S : ~(y < x)
  BY <1>1 DEF OpToRel
<1> HIDE DEF Less
<1>3. x # 0 /\ x - 1 \in Nat /\ x - 1 < x /\ (x - 1) + 1 = x
  BY <1>1
<1>4. x - 1 \in S
  BY <1>2, <1>3
<1>5. QED
  BY <1>1, <1>3, <1>4

\* The frames fs end to end, up to n of them.
Joins(u, fs) ==
  u = [n \in 0 .. Len(fs) |-> IF n = 0 THEN <<>> ELSE u[n - 1] \o fs[n]]

LEMMA JoinsExists ==
  ASSUME NEW fs, Len(fs) \in Nat
  PROVE  \E u : Joins(u, fs)
<1> DEFINE Equation(u, m) == u = [n \in 0 .. m |-> IF n = 0 THEN <<>> ELSE u[n - 1] \o fs[n]]
           S == {m \in Nat : \E u : Equation(u, m)}
<1>1. 0 \in S
  <2>1. Equation([n \in 0 .. 0 |-> <<>>], 0)
    OBVIOUS
  <2>2. QED
    BY <2>1
<1>2. ASSUME NEW m \in Nat, m \in S PROVE m + 1 \in S
  <2>1. PICK u : Equation(u, m)
    BY <1>2
  <2> DEFINE v == [n \in 0 .. (m + 1) |-> IF n = m + 1 THEN u[m] \o fs[m + 1] ELSE u[n]]
  <2>2. ASSUME NEW n \in 0 .. (m + 1)
        PROVE  v[n] = IF n = 0 THEN <<>> ELSE v[n - 1] \o fs[n]
    <3>1. CASE n = m + 1
      <4>1. n # 0 /\ n - 1 = m /\ m \in 0 .. (m + 1) /\ m # m + 1
        BY <3>1
      <4>2. QED
        BY <3>1, <4>1
    <3>2. CASE n = 0
      BY <2>1, <3>2
    <3>3. CASE n # m + 1 /\ n # 0
      <4>1. n \in 0 .. m /\ n - 1 \in 0 .. (m + 1) /\ n - 1 # m + 1
        BY <3>3
      <4>2. v[n] = u[n] /\ v[n - 1] = u[n - 1]
        BY <3>3, <4>1
      <4>3. u[n] = u[n - 1] \o fs[n]
        BY <2>1, <3>3, <4>1
      <4>4. QED
        BY <3>3, <4>2, <4>3
    <3>4. QED
      BY <3>1, <3>2, <3>3
  <2>3. v = [n \in 0 .. (m + 1) |-> v[n]]
    OBVIOUS
  <2> HIDE DEF v
  <2>4. Equation(v, m + 1)
    BY <2>2, <2>3
  <2> HIDE DEF Equation
  <2>5. QED
    BY <2>4
<1>3. Len(fs) \in S
  <2> HIDE DEF S
  <2>1. QED
    BY <1>1, <1>2, SetInduction
<1>4. QED
  BY <1>3 DEF Joins

Concat(fs) == (CHOOSE u : Joins(u, fs))[Len(fs)]

LEMMA HandedIsConcat == Handed = Concat(frames)
BY DEF Handed, Concat, Joins

LEMMA ConcatEmpty == Concat(<<>>) = <<>>
<1>1. Joins(CHOOSE u : Joins(u, <<>>), <<>>)
  BY JoinsExists
<1> DEFINE u == CHOOSE u : Joins(u, <<>>)
<1> HIDE DEF u
<1>2. Joins(u, <<>>)
  BY <1>1 DEF u
<1>3. u[0] = <<>>
  BY <1>2 DEF Joins
<1>4. QED
  BY <1>3 DEF Concat, u

\* A further frame goes to the end.
LEMMA ConcatAppend ==
  ASSUME NEW B, NEW fs \in Seq(B), NEW f \in B
  PROVE  Concat(Append(fs, f)) = Concat(fs) \o f
<1> DEFINE gs == Append(fs, f)
           u == CHOOSE u : Joins(u, fs)
           v == CHOOSE v : Joins(v, gs)
           S == {n \in Nat : n <= Len(fs) => v[n] = u[n]}
<1>1. /\ Len(fs) \in Nat /\ Len(gs) = Len(fs) + 1 /\ gs[Len(fs) + 1] = f
      /\ \A n \in 1 .. Len(fs) : gs[n] = fs[n]
  OBVIOUS
<1> HIDE DEF gs
<1>2. Joins(u, fs) /\ Joins(v, gs)
  <2>1. (\E w : Joins(w, fs)) /\ (\E w : Joins(w, gs))
    BY <1>1, JoinsExists
  <2>2. QED
    BY <2>1
<1> HIDE DEF u, v
<1>3. /\ \A n \in 0 .. Len(fs) : u[n] = IF n = 0 THEN <<>> ELSE u[n - 1] \o fs[n]
      /\ \A n \in 0 .. Len(gs) : v[n] = IF n = 0 THEN <<>> ELSE v[n - 1] \o gs[n]
  BY <1>2 DEF Joins
<1>4. 0 \in S
  BY <1>1, <1>3
<1>5. ASSUME NEW n \in Nat, n \in S PROVE n + 1 \in S
  <2>1. SUFFICES ASSUME n + 1 <= Len(fs) PROVE v[n + 1] = u[n + 1]
    OBVIOUS
  <2>2. /\ n + 1 \in 1 .. Len(fs) /\ n + 1 \in 0 .. Len(fs) /\ n + 1 \in 0 .. Len(gs)
        /\ (n + 1) - 1 = n /\ n + 1 # 0 /\ n <= Len(fs)
    BY <1>1, <2>1
  <2>3. /\ u[n + 1] = u[n] \o fs[n + 1]
        /\ v[n + 1] = v[n] \o gs[n + 1]
    BY <1>3, <2>2
  <2>4. v[n] = u[n] /\ gs[n + 1] = fs[n + 1]
    BY <1>1, <1>5, <2>2
  <2>5. QED
    BY <2>3, <2>4
<1>6. Len(fs) \in S
  <2> HIDE DEF S
  <2>1. QED
    BY <1>1, <1>4, <1>5, SetInduction
<1>7. v[Len(fs) + 1] = v[Len(fs)] \o f
  <2>1. Len(fs) + 1 \in 0 .. Len(gs) /\ Len(fs) + 1 # 0 /\ (Len(fs) + 1) - 1 = Len(fs)
    BY <1>1
  <2>2. QED
    BY <1>1, <1>3, <2>1
<1>8. Concat(fs) = u[Len(fs)] /\ Concat(gs) = v[Len(fs) + 1]
  BY <1>1 DEF Concat, u, v
<1>9. v[Len(fs)] = u[Len(fs)]
  BY <1>1, <1>6
<1>10. QED
  BY <1>7, <1>8, <1>9 DEF gs

\* The positions of s where its frames begin, by Clean.
Cuts(s, cuts) ==
  /\ cuts \in SUBSET (1 .. Len(s) + 1)
  /\ 1 \in cuts
  /\ \A p \in cuts :
       /\ p <= Len(s) => s[p] = Magic
       /\ p + 1 <= Len(s) /\ FrameEnd(s, p) <= Len(s) => FrameEnd(s, p) + 1 \in cuts

\* If the stream is clean, it is what was handed over and the buffer, which
\* begins at one of its frames.
Reassembled ==
  /\ frames \in Seq(Seq(Byte))
  /\ Handed \in Seq(Byte)
  /\ \A cuts : Cuts(stream, cuts) => stream = Handed \o buffer /\ Len(Handed) + 1 \in cuts
  /\ state = "reading" => ~HasFrame(buffer)

\* Frames that begin in what was read before begin there still.
LEMMA CutsOfPrefix ==
  ASSUME NEW s \in Seq(Byte), NEW t \in Seq(Byte), NEW cuts, Cuts(s \o t, cuts)
  PROVE  Cuts(s, cuts \cap (1 .. Len(s) + 1))
<1> DEFINE st == s \o t
           old == cuts \cap (1 .. Len(s) + 1)
<1>1. /\ Len(st) = Len(s) + Len(t) /\ Len(s) \in Nat /\ Len(t) \in Nat
      /\ \A i \in 1 .. Len(s) : st[i] = s[i] /\ s[i] \in Nat
  <2>1. \A i \in 1 .. Len(s) : s[i] \in Byte
    BY ElementOfSeq
  <2>2. /\ Len(st) = Len(s) + Len(t) /\ Len(s) \in Nat /\ Len(t) \in Nat
        /\ \A i \in 1 .. Len(s) : st[i] = s[i]
    OBVIOUS
  <2> HIDE DEF st
  <2>3. QED
    BY <2>1, <2>2, ProbationAssumption
<1> HIDE DEF st
<1>2. Cuts(st, cuts)
  BY DEF st
<1>3. ASSUME NEW p \in old, p <= Len(s) PROVE s[p] = Magic
  <2>1. p \in cuts /\ p \in 1 .. Len(s) /\ p <= Len(st)
    BY <1>1, <1>3
  <2>2. QED
    BY <1>1, <1>2, <2>1 DEF Cuts
<1>4. ASSUME NEW p \in old, p + 1 <= Len(s), FrameEnd(s, p) <= Len(s)
      PROVE  FrameEnd(s, p) + 1 \in old
  <2>1. p \in cuts /\ p + 1 \in 1 .. Len(s) /\ p \in Nat
    BY <1>1, <1>4
  <2>2. st[p + 1] = s[p + 1] /\ s[p + 1] \in Nat
    BY <1>1, <2>1
  <2>3. FrameEnd(st, p) = FrameEnd(s, p) /\ FrameEnd(s, p) \in Nat
    BY <2>1, <2>2 DEF FrameEnd, HeaderLen
  <2>4. p + 1 <= Len(st) /\ FrameEnd(st, p) <= Len(st)
    BY <1>1, <1>4, <2>3
  <2>5. FrameEnd(s, p) + 1 \in cuts
    BY <1>2, <2>1, <2>3, <2>4 DEF Cuts
  <2>6. QED
    BY <1>1, <1>4, <2>3, <2>5
<1>5. 1 \in old
  BY <1>1, <1>2 DEF Cuts
<1>6. QED
  BY <1>3, <1>4, <1>5 DEF Cuts

\* In a buffer that begins at a frame, that frame is the one extracted.
LEMMA FrameAtFront ==
  ASSUME NEW b \in Seq(Byte), HasFrame(b), b[1] = Magic
  PROVE  /\ Len(b) >= 2 /\ b[2] \in Nat
         /\ FrameEnd(b, 1) = b[2] + 2 /\ FrameEnd(b, 1) <= Len(b)
         /\ ExtractFrame(b) = SubSeq(b, 1, FrameEnd(b, 1))
<1>1. /\ FirstStart(b) \in 1 .. Len(b) /\ FirstStart(b) + 1 \in 1 .. Len(b)
      /\ \A j \in Starts(b) : FirstStart(b) <= j
  BY FirstStartFacts DEF HasFrame
<1>2. Len(b) >= 2
  BY <1>1
<1>3. 1 \in Starts(b)
  BY <1>2 DEF Starts, HeaderLen
<1>4. FirstStart(b) = 1
  BY <1>1, <1>3
<1>5. b[2] \in Nat
  <2>1. b[2] \in Byte
    BY <1>2, ElementOfSeq
  <2>2. QED
    BY <2>1, ProbationAssumption
<1>6. QED
  BY <1>2, <1>4, <1>5 DEF HasFrame, ExtractFrame, FrameEnd, HeaderLen

LEMMA InitReassembled == Init => Reassembled
<1> SUFFICES ASSUME Init PROVE Reassembled
  OBVIOUS
<1>1. Handed = <<>>
  BY HandedIsConcat, ConcatEmpty DEF Init
<1>2. ~HasFrame(buffer)
  BY DEF Init, HasFrame, Starts
<1>3. <<>> \o <<>> = <<>> /\ <<>> \in Seq(Byte) /\ <<>> \in Seq(Seq(Byte)) /\ Len(<<>>) + 1 = 1
  OBVIOUS
<1>4. QED
  BY <1>1, <1>2, <1>3 DEF Init, Reassembled, Cuts

LEMMA ReadReassembles ==
  ASSUME PInv, Reassembled, NEW n \in 1 .. ReadMax, Read(n)
  PROVE  Reassembled'
<1>1. PICK data \in [1 .. n -> Byte] : buffer' = buffer \o data /\ stream' = stream \o data
  BY DEF Read
<1>2. data \in Seq(Byte) /\ buffer \in Seq(Byte) /\ stream \in Seq(Byte)
  BY ProbationAssumption DEF PInv, ProbationTypeOK
<1>3. frames' = frames /\ Handed' = Handed /\ state' # "reading"
  BY DEF Read, Handed
<1>4. ASSUME NEW cuts, Cuts(stream', cuts)
      PROVE  stream' = Handed \o buffer' /\ Len(Handed) + 1 \in cuts
  <2>1. Cuts(stream, cuts \cap (1 .. Len(stream) + 1))
    BY <1>1, <1>2, <1>4, CutsOfPrefix
  <2>2. stream = Handed \o buffer /\ Len(Handed) + 1 \in cuts
    BY <2>1 DEF Reassembled
  <2>3. (Handed \o buffer) \o data = Handed \o (buffer \o data)
    BY <1>2 DEF Reassembled
  <2>4. QED
    BY <1>1, <2>2, <2>3
<1>5. QED
  BY <1>3, <1>4 DEF Reassembled

LEMMA ExtractReassembles ==
  ASSUME PInv, Reassembled, Extract
  PROVE  Reassembled'
<1> DEFINE frame == ExtractFrame(buffer)
           k == Len(frame)
<1>1. /\ HasFrame(buffer) /\ buffer \in Seq(Byte) /\ stream \in Seq(Byte)
      /\ frames' = Append(frames, frame) /\ stream' = stream /\ state' # "reading"
      /\ buffer' = SubSeq(buffer, k + 1, Len(buffer))
  BY DEF Extract, PInv, ProbationTypeOK
<1>2. k \in 2 .. Len(buffer)
  BY <1>1, ExtractFrameFacts DEF HeaderLen
<1>3. frame \in Seq(Byte)
  <2>1. FirstStart(buffer) \in 1 .. Len(buffer) /\ FirstStart(buffer) + 1 \in 1 .. Len(buffer)
    BY <1>1, FirstStartFacts DEF HasFrame
  <2>2. FrameEnd(buffer, FirstStart(buffer)) <= Len(buffer)
    BY <1>1 DEF HasFrame
  <2>3. FrameEnd(buffer, FirstStart(buffer)) \in Int
    <3>1. buffer[FirstStart(buffer) + 1] \in Byte
      BY <1>1, <2>1, ElementOfSeq
    <3> HIDE DEF frame, k
    <3>2. buffer[FirstStart(buffer) + 1] \in Nat
      BY <3>1, ProbationAssumption
    <3>3. Len(buffer) \in Nat
      BY <1>1
    <3>4. FirstStart(buffer) \in Nat
      BY <2>1, <3>3
    <3>5. QED
      BY <3>2, <3>4 DEF FrameEnd, HeaderLen
  <2>4. QED
    BY <1>1, <2>1, <2>2, <2>3 DEF ExtractFrame
<1>4. frames' \in Seq(Seq(Byte))
  BY <1>1, <1>3 DEF Reassembled
<1>5. Handed' = Handed \o frame
  <2>1. Concat(Append(frames, frame)) = Concat(frames) \o frame
    BY <1>3, ConcatAppend DEF Reassembled
  <2>2. Handed' = Concat(frames')
    BY HandedIsConcat DEF Handed, Concat, Joins
  <2>3. QED
    BY <1>1, <2>1, <2>2, HandedIsConcat
<1>6. Handed' \in Seq(Byte)
  BY <1>3, <1>5 DEF Reassembled
<1>7. ASSUME NEW cuts, Cuts(stream, cuts)
      PROVE  stream = Handed' \o buffer' /\ Len(Handed') + 1 \in cuts
  <2> DEFINE n == Len(Handed)
  <2>1. /\ stream = Handed \o buffer /\ n + 1 \in cuts /\ n \in Nat
        /\ Handed \in Seq(Byte)
    BY <1>7 DEF Reassembled
  <2>2. /\ Len(stream) = n + Len(buffer) /\ Len(buffer) >= 2
        /\ \A i \in 1 .. Len(buffer) : stream[n + i] = buffer[i]
    BY <1>1, <1>2, <2>1
  <2>3. buffer[1] = Magic
    BY <1>7, <2>1, <2>2 DEF Cuts
  <2>4. /\ buffer[2] \in Nat /\ FrameEnd(buffer, 1) = buffer[2] + 2
        /\ FrameEnd(buffer, 1) <= Len(buffer)
        /\ frame = SubSeq(buffer, 1, FrameEnd(buffer, 1))
    BY <1>1, <2>3, FrameAtFront
  <2>5. k = FrameEnd(buffer, 1)
    BY <1>1, <2>4
  <2>6. stream[n + 2] = buffer[2]
    BY <2>2
  <2>7. FrameEnd(stream, n + 1) = n + k
    <3> HIDE DEF n, k
    <3>1. FrameEnd(stream, n + 1) = (n + 1) + 2 + stream[(n + 1) + 1] - 1
      BY DEF FrameEnd, HeaderLen
    <3>2. (n + 1) + 1 = n + 2
      BY <2>1
    <3>3. FrameEnd(stream, n + 1) = (n + 1) + 2 + buffer[2] - 1
      BY <2>6, <3>1, <3>2
    <3>4. n \in Nat /\ buffer[2] \in Nat /\ k = buffer[2] + 2
      BY <2>1, <2>4, <2>5
    <3>5. QED
      BY <3>3, <3>4
  <2>8. n + k + 1 \in cuts
    <3> HIDE DEF n, k
    <3>1. k \in Nat /\ k <= Len(buffer) /\ Len(buffer) \in Nat
      BY <1>1, <2>4, <2>5
    <3>2. (n + 1) + 1 <= Len(stream) /\ n + k <= Len(stream)
      BY <2>1, <2>2, <3>1
    <3>3. FrameEnd(stream, n + 1) + 1 \in cuts
      BY <1>7, <2>1, <2>7, <3>2 DEF Cuts
    <3>4. QED
      BY <2>7, <3>3
  <2>9. Len(Handed') = n + k
    BY <1>3, <1>5, <2>1
  <2>10. frame \o buffer' = buffer
    <3>1. frame = SubSeq(buffer, 1, k) /\ k \in 1 .. Len(buffer)
      BY <1>2, <2>4, <2>5
    <3> HIDE DEF frame, k
    <3>2. SubSeq(buffer, 1, k) \o SubSeq(buffer, k + 1, Len(buffer)) = buffer
      BY <1>1, <3>1
    <3>3. QED
      BY <1>1, <3>1, <3>2
  <2>11. (Handed \o frame) \o buffer' = Handed \o (frame \o buffer')
    <3>1. buffer' \in Seq(Byte)
      BY <1>1, <1>2
    <3> HIDE DEF frame
    <3>2. QED
      BY <1>3, <2>1, <3>1
  <2>12. QED
    BY <1>5, <2>1, <2>8, <2>9, <2>10, <2>11
<1>8. QED
  BY <1>1, <1>4, <1>6, <1>7 DEF Reassembled

LEMMA NextReassembled == PInv /\ Reassembled /\ [Next]_vars => Reassembled'
<1> SUFFICES ASSUME PInv, Reassembled, [Next]_vars PROVE Reassembled'
  OBVIOUS
<1>1. ASSUME NEW n \in 1 .. ReadMax, Read(n) PROVE Reassembled'
  BY <1>1, ReadReassembles
<1>2. CASE Extract
  BY <1>2, ExtractReassembles
<1>3. CASE Drained \/ IdleTimesOut \/ PeerHangsUp \/ Tick \/ UNCHANGED vars
  <2>1. /\ UNCHANGED <<buffer, stream, frames>> /\ Handed' = Handed
        /\ state' = "reading" => state = "reading" \/ ~HasFrame(buffer)
    BY <1>3 DEF Drained, IdleTimesOut, PeerHangsUp, Tick, vars, Handed
  <2>2. HasFrame(buffer') <=> HasFrame(buffer)
    BY <2>1
  <2>3. QED
    BY <2>1, <2>2 DEF Reassembled
<1>4. QED
  BY <1>1, <1>2, <1>3 DEF Next

(* Whatever the bytes, the segmentation and the read size: of a peer that   *)
(* sends only frames, what was handed over is what was sent, in order, once,*)
(* less the incomplete frame in the buffer (FramingProbation's buffer and   *)
(* the reference parser's extract_frame).                                   *)
THEOREM CleanStreamsAreIntact == Spec => []CleanStreamIntact
<1>1. Reassembled => CleanStreamIntact
  BY DEF Reassembled, CleanStreamIntact, Clean, Cuts
<1>2. QED
  BY <1>1, Inductive, InitReassembled, NextReassembled, PTL DEF Spec
=============================================================================
