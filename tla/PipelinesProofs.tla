-------------------------- MODULE PipelinesProofs --------------------------
(***************************************************************************)
(* Proofs about the scenario, document and line-of-sight pipelines, for    *)
(* every plan, every well-formed scenario file, every set of columns and   *)
(* every pattern of occlusion.                                             *)
(*                                                                         *)
(* The model's recursive functions (Filter's upTo, FlattenSeq) are         *)
(* characterised first, each by its positions: what it yields, in which    *)
(* order, from where.  The step from i to i + 1 is lifted to every length  *)
(* by SetInduction, which is proved from the least element of a set.  Then *)
(* follow the plan's invariant PlanInv, the shape of the documents (Bare   *)
(* as STK exports them, Laid as patched, Overlaid with the heatmap; Sound  *)
(* for the other services), DocInv, and the line-of-sight scan.            *)
(***************************************************************************)
EXTENDS CzmlDocument, LosScan, SequenceTheorems, WellFoundedInduction, TLAPS

-----------------------------------------------------------------------------
(* Sequences of anything, and the recursive functions over them.           *)

\* A sequence, whatever it holds.
IsSeq(s) == s \in Seq(ToSet(s))

LEMMA SeqFacts ==
  ASSUME NEW s, IsSeq(s)
  PROVE  /\ Len(s) \in Nat /\ DOMAIN s = 1..Len(s)
         /\ s = [i \in 1..Len(s) |-> s[i]]
         /\ \A x : x \in ToSet(s) <=> \E i \in 1..Len(s) : s[i] = x
BY DEF IsSeq, ToSet

LEMMA SeqIn ==
  ASSUME NEW S, NEW s \in Seq(S)
  PROVE  IsSeq(s)
<1>1. Len(s) \in Nat /\ s = [i \in 1..Len(s) |-> s[i]] /\ DOMAIN s = 1..Len(s)
  OBVIOUS
<1>2. \A i \in 1..Len(s) : s[i] \in ToSet(s)
  BY <1>1 DEF ToSet
<1>3. [i \in 1..Len(s) |-> s[i]] \in Seq(ToSet(s))
  BY <1>1, <1>2
<1>4. QED
  BY <1>1, <1>3 DEF IsSeq

LEMMA FunctionIsSeq ==
  ASSUME NEW n \in Nat, NEW f, f = [i \in 1..n |-> f[i]]
  PROVE  IsSeq(f) /\ Len(f) = n
<1> DEFINE S == {f[i] : i \in 1..n}
<1>1. \A i \in 1..n : f[i] \in S
  OBVIOUS
<1> HIDE DEF S
<1>2. [i \in 1..n |-> f[i]] \in Seq(S) /\ Len([i \in 1..n |-> f[i]]) = n
  BY <1>1
<1>3. f \in Seq(S) /\ Len(f) = n
  BY <1>2, Zenon
<1>4. IsSeq(f)
  BY <1>3, SeqIn
<1>5. QED
  BY <1>3, <1>4

LEMMA NothingIsSeq == IsSeq(<<>>) /\ Len(<<>>) = 0
<1>1. <<>> \in Seq({1}) /\ Len(<<>>) = 0
  OBVIOUS
<1>2. IsSeq(<<>>)
  BY <1>1, SeqIn
<1>3. QED
  BY <1>1, <1>2

LEMMA AppendFacts ==
  ASSUME NEW s, IsSeq(s), NEW e
  PROVE  /\ IsSeq(Append(s, e)) /\ Len(Append(s, e)) = Len(s) + 1
         /\ Append(s, e)[Len(s) + 1] = e
         /\ \A i \in 1..Len(s) : Append(s, e)[i] = s[i]
<1> DEFINE S == ToSet(s) \union {e}
<1>1. s \in Seq(S)
  <2>1. ToSet(s) \subseteq S
    OBVIOUS
  <2> HIDE DEF S
  <2>2. QED
    BY <2>1 DEF IsSeq
<1>2. e \in S
  OBVIOUS
<1> HIDE DEF S
<1>3. Append(s, e) \in Seq(S)
  BY <1>1, <1>2
<1>4. IsSeq(Append(s, e))
  BY <1>3, SeqIn
<1>5. QED
  BY <1>1, <1>2, <1>4

LEMMA ConcatFacts ==
  ASSUME NEW s, IsSeq(s), NEW r, IsSeq(r)
  PROVE  /\ IsSeq(s \o r) /\ Len(s \o r) = Len(s) + Len(r)
         /\ \A i \in 1..Len(s) : (s \o r)[i] = s[i]
         /\ \A i \in 1..Len(r) : (s \o r)[Len(s) + i] = r[i]
<1> DEFINE S == ToSet(s) \union ToSet(r)
<1>1. s \in Seq(S) /\ r \in Seq(S)
  <2>1. ToSet(s) \subseteq S /\ ToSet(r) \subseteq S
    OBVIOUS
  <2> HIDE DEF S
  <2>2. QED
    BY <2>1 DEF IsSeq
<1> HIDE DEF S
<1>2. s \o r \in Seq(S)
  BY <1>1
<1>3. IsSeq(s \o r)
  BY <1>2, SeqIn
<1>4. QED
  BY <1>1, <1>3

\* The least number of a set.
LEMMA LeastExists ==
  ASSUME NEW S, S \subseteq Nat, S # {}
  PROVE  \E x \in S : \A y \in S : x <= y
<1> DEFINE Less == OpToRel(<, Nat)
<1>1. PICK x \in S : \A y \in S : ~(<<y, x>> \in Less)
  <2> HIDE DEF Less
  <2>1. IsWellFoundedOn(Less, Nat)
    BY NatLessThanWellFounded DEF Less
  <2>2. QED
    BY <2>1, WFMin
<1>2. \A y \in S : ~(y < x)
  BY <1>1 DEF OpToRel
<1> HIDE DEF Less
<1>3. x \in Nat /\ \A y \in S : y \in Nat
  OBVIOUS
<1>4. \A y \in S : x <= y
  BY <1>2, <1>3
<1>5. QED
  BY <1>4

LEMMA LeastFacts ==
  ASSUME NEW S, S \subseteq Nat, S # {}
  PROVE  Least(S) \in S /\ \A y \in S : Least(S) <= y
BY LeastExists DEF Least

\* A set of numbers with 0 and every successor has them all.
LEMMA SetInduction ==
  ASSUME NEW S, 0 \in S, \A n \in Nat : n \in S => n + 1 \in S
  PROVE  Nat \subseteq S
<1> SUFFICES ASSUME Nat \ S # {} PROVE FALSE
  OBVIOUS
<1>1. PICK x \in Nat \ S : \A y \in Nat \ S : x <= y
  BY LeastExists
<1>2. x # 0 /\ x - 1 \in Nat /\ x - 1 < x /\ (x - 1) + 1 = x
  BY <1>1
<1>3. x - 1 \in S
  BY <1>1, <1>2
<1>4. QED
  BY <1>1, <1>2, <1>3

\* u holds what Filter has kept of the first i elements, for every i up to m.
Sieves(u, s, T, m) ==
  u = [i \in 0..m |->
         IF i = 0 THEN <<>>
         ELSE IF s[i] \in T THEN Append(u[i - 1], s[i]) ELSE u[i - 1]]

LEMMA SievesFacts ==
  ASSUME NEW m \in Nat, NEW u, NEW s, NEW T, Sieves(u, s, T, m)
  PROVE  /\ u[0] = <<>>
         /\ \A i \in 1..m : u[i] = IF s[i] \in T THEN Append(u[i - 1], s[i]) ELSE u[i - 1]
<1>1. \A i \in 0..m : u[i] = IF i = 0 THEN <<>>
                             ELSE IF s[i] \in T THEN Append(u[i - 1], s[i]) ELSE u[i - 1]
  BY DEF Sieves
<1>2. 0 \in 0..m /\ \A i \in 1..m : i \in 0..m /\ i # 0
  OBVIOUS
<1> HIDE DEF Sieves
<1>3. QED
  BY <1>1, <1>2, Zenon

LEMMA SievesExists ==
  ASSUME NEW s, NEW T, NEW l \in Nat
  PROVE  \E u : Sieves(u, s, T, l)
<1> DEFINE S == {m \in Nat : \E u : Sieves(u, s, T, m)}
<1>1. 0 \in S
  <2>1. Sieves([i \in 0..0 |-> <<>>], s, T, 0)
    BY DEF Sieves
  <2>2. QED
    BY <2>1
<1>2. ASSUME NEW m \in Nat, m \in S PROVE m + 1 \in S
  <2>1. PICK u : Sieves(u, s, T, m)
    BY <1>2
  <2> DEFINE last == IF s[m + 1] \in T THEN Append(u[m], s[m + 1]) ELSE u[m]
             v == [i \in 0..(m + 1) |-> IF i = m + 1 THEN last ELSE u[i]]
  <2>2. /\ v[m + 1] = last /\ v[m] = u[m] /\ v[0] = u[0]
        /\ \A i \in 1..m : v[i] = u[i] /\ v[i - 1] = u[i - 1]
        /\ v = [i \in 0..(m + 1) |-> v[i]]
    OBVIOUS
  <2>3. /\ u[0] = <<>>
        /\ \A i \in 1..m : u[i] = IF s[i] \in T THEN Append(u[i - 1], s[i]) ELSE u[i - 1]
    BY <2>1, SievesFacts
  <2> HIDE DEF v
  <2>4. \A i \in 0..(m + 1) :
          v[i] = IF i = 0 THEN <<>>
                 ELSE IF s[i] \in T THEN Append(v[i - 1], s[i]) ELSE v[i - 1]
    <3> TAKE i \in 0..(m + 1)
    <3>1. CASE i = 0
      BY <2>2, <2>3, <3>1
    <3>2. CASE i = m + 1
      <4>1. i - 1 = m /\ i # 0
        BY <3>2
      <4>2. QED
        BY <2>2, <3>2, <4>1
    <3>3. CASE i # 0 /\ i # m + 1
      <4>1. i \in 1..m
        BY <3>3
      <4>2. QED
        BY <2>2, <2>3, <3>3, <4>1
    <3>4. QED
      BY <3>1, <3>2, <3>3
  <2>5. Sieves(v, s, T, m + 1)
    BY <2>2, <2>4 DEF Sieves
  <2>6. QED
    BY <2>5
<1>3. l \in S
  <2> HIDE DEF S
  <2>1. QED
    BY <1>1, <1>2, SetInduction
<1>4. QED
  BY <1>3

\* f is what s has in T, in order: element i of f is element at[i] of s.
Embeds(at, f, s, T, m) ==
  /\ at \in [1..Len(f) -> 1..m]
  /\ \A i, j \in 1..Len(f) : i < j => at[i] < at[j]
  /\ \A i \in 1..Len(f) : f[i] = s[at[i]] /\ f[i] \in T
  /\ \A j \in 1..m : s[j] \in T => \E i \in 1..Len(f) : at[i] = j

LEMMA EmbedsKept ==
  ASSUME NEW at, NEW f, IsSeq(f), NEW s, NEW T, NEW m \in Nat, Embeds(at, f, s, T, m),
         s[m + 1] \in T
  PROVE  \E up : Embeds(up, Append(f, s[m + 1]), s, T, m + 1)
<1> DEFINE n == Len(f)
           g == Append(f, s[m + 1])
           up == [i \in 1..(n + 1) |-> IF i = n + 1 THEN m + 1 ELSE at[i]]
<1>1. /\ n \in Nat /\ Len(g) = n + 1 /\ g[n + 1] = s[m + 1]
      /\ \A i \in 1..n : g[i] = f[i]
  BY AppendFacts, SeqFacts
<1>2. /\ up \in [1..(n + 1) -> 1..(m + 1)]
      /\ up[n + 1] = m + 1 /\ \A i \in 1..n : up[i] = at[i] /\ at[i] \in 1..m
  BY <1>1 DEF Embeds
<1> HIDE DEF up, g
<1>3. \A i, j \in 1..(n + 1) : i < j => up[i] < up[j]
  <2> TAKE i, j \in 1..(n + 1)
  <2>1. CASE j = n + 1
    BY <1>1, <1>2, <2>1
  <2>2. CASE j # n + 1
    <3> SUFFICES ASSUME i < j PROVE up[i] < up[j]
      OBVIOUS
    <3>1. i \in 1..n /\ j \in 1..n
      BY <1>1, <2>2
    <3>2. at[i] < at[j]
      BY <3>1 DEF Embeds
    <3>3. QED
      BY <1>2, <3>1, <3>2
  <2>3. QED
    BY <2>1, <2>2
<1>4. \A i \in 1..(n + 1) : g[i] = s[up[i]] /\ g[i] \in T
  <2> TAKE i \in 1..(n + 1)
  <2>1. CASE i = n + 1
    BY <1>1, <1>2, <2>1
  <2>2. CASE i # n + 1
    <3>1. i \in 1..n
      BY <1>1, <2>2
    <3>2. QED
      BY <1>1, <1>2, <3>1 DEF Embeds
  <2>3. QED
    BY <2>1, <2>2
<1>5. ASSUME NEW j \in 1..(m + 1), s[j] \in T PROVE \E i \in 1..(n + 1) : up[i] = j
  <2>1. CASE j = m + 1
    <3>1. n + 1 \in 1..(n + 1)
      BY <1>1
    <3>2. QED
      BY <1>2, <2>1, <3>1
  <2>2. CASE j # m + 1
    <3>1. j \in 1..m
      BY <2>2
    <3>2. PICK i \in 1..n : at[i] = j
      BY <1>5, <3>1 DEF Embeds
    <3>3. i \in 1..(n + 1) /\ up[i] = j
      BY <1>1, <1>2, <3>2
    <3>4. QED
      BY <3>3
  <2>3. QED
    BY <2>1, <2>2
<1>6. Embeds(up, g, s, T, m + 1)
  BY <1>1, <1>2, <1>3, <1>4, <1>5 DEF Embeds
<1>7. QED
  BY <1>6 DEF g

LEMMA EmbedsDropped ==
  ASSUME NEW at, NEW f, IsSeq(f), NEW s, NEW T, NEW m \in Nat, Embeds(at, f, s, T, m),
         s[m + 1] \notin T
  PROVE  Embeds(at, f, s, T, m + 1)
<1>1. at \in [1..Len(f) -> 1..(m + 1)]
  BY DEF Embeds
<1>2. \A j \in 1..(m + 1) : s[j] \in T => j \in 1..m
  OBVIOUS
<1>3. QED
  BY <1>1, <1>2 DEF Embeds

\* What Filter does.
LEMMA FilterFacts ==
  ASSUME NEW s, IsSeq(s), NEW T
  PROVE  /\ IsSeq(Filter(s, T))
         /\ \E at : Embeds(at, Filter(s, T), s, T, Len(s))
<1> DEFINE l == Len(s)
           u == CHOOSE u : Sieves(u, s, T, l)
           S == {m \in Nat : m <= l => IsSeq(u[m]) /\ \E at : Embeds(at, u[m], s, T, m)}
<1>1. l \in Nat
  BY SeqFacts
<1>2. Sieves(u, s, T, l)
  BY <1>1, SievesExists
<1>3. Filter(s, T) = u[l]
  BY DEF Filter, Sieves
<1> HIDE DEF u, l
<1>4. /\ u[0] = <<>>
      /\ \A i \in 1..l : u[i] = IF s[i] \in T THEN Append(u[i - 1], s[i]) ELSE u[i - 1]
  BY <1>1, <1>2, SievesFacts
<1>5. 0 \in S
  <2> DEFINE none == [i \in 1..0 |-> 0]
  <2>1. u[0] = <<>> /\ IsSeq(u[0]) /\ Len(u[0]) = 0
    BY <1>4, NothingIsSeq
  <2>2. none \in [1..0 -> 1..0]
    OBVIOUS
  <2> HIDE DEF none
  <2>3. Embeds(none, u[0], s, T, 0)
    BY <2>1, <2>2 DEF Embeds
  <2>4. QED
    BY <2>1, <2>3
<1>6. ASSUME NEW m \in Nat, m \in S PROVE m + 1 \in S
  <2> SUFFICES ASSUME m + 1 <= l
               PROVE  IsSeq(u[m + 1]) /\ \E at : Embeds(at, u[m + 1], s, T, m + 1)
    OBVIOUS
  <2>1. m <= l /\ m + 1 \in 1..l /\ (m + 1) - 1 = m
    BY <1>1
  <2>2. PICK at : Embeds(at, u[m], s, T, m)
    BY <1>6, <2>1
  <2>3. IsSeq(u[m])
    BY <1>6, <2>1
  <2>4. CASE s[m + 1] \in T
    <3>1. u[m + 1] = Append(u[m], s[m + 1])
      BY <1>4, <2>1, <2>4
    <3>2. QED
      BY <2>2, <2>3, <2>4, <3>1, AppendFacts, EmbedsKept
  <2>5. CASE s[m + 1] \notin T
    <3>1. u[m + 1] = u[m]
      BY <1>4, <2>1, <2>5
    <3>2. QED
      BY <2>2, <2>3, <2>5, <3>1, EmbedsDropped
  <2>6. QED
    BY <2>4, <2>5
<1>7. l \in S
  <2> HIDE DEF S
  <2>1. QED
    BY <1>1, <1>5, <1>6, SetInduction
<1>8. QED
  BY <1>3, <1>7 DEF l

\* An element that Filter keeps is one of s in T, and every such element is kept.
LEMMA FilterRange ==
  ASSUME NEW s, IsSeq(s), NEW T
  PROVE  ToSet(Filter(s, T)) = {x \in ToSet(s) : x \in T}
<1> DEFINE f == Filter(s, T)
<1>1. PICK at : Embeds(at, f, s, T, Len(s))
  BY FilterFacts
<1>2. IsSeq(f)
  BY FilterFacts
<1>3. /\ \A x : x \in ToSet(f) <=> \E i \in 1..Len(f) : f[i] = x
      /\ \A x : x \in ToSet(s) <=> \E i \in 1..Len(s) : s[i] = x
  BY <1>2, SeqFacts
<1> HIDE DEF f
<1>4. ASSUME NEW x \in ToSet(f) PROVE x \in ToSet(s) /\ x \in T
  <2>1. PICK i \in 1..Len(f) : f[i] = x
    BY <1>3
  <2>2. at[i] \in 1..Len(s) /\ f[i] = s[at[i]] /\ f[i] \in T
    BY <1>1 DEF Embeds
  <2>3. QED
    BY <1>3, <2>1, <2>2
<1>5. ASSUME NEW x \in ToSet(s), x \in T PROVE x \in ToSet(f)
  <2>1. PICK j \in 1..Len(s) : s[j] = x
    BY <1>3
  <2>2. PICK i \in 1..Len(f) : at[i] = j
    BY <1>1, <1>5, <2>1 DEF Embeds
  <2>3. f[i] = x
    BY <1>1, <2>1, <2>2 DEF Embeds
  <2>4. QED
    BY <1>3, <2>3
<1>6. QED
  BY <1>4, <1>5 DEF f

\* The first element that Filter keeps is the first of s in T.
LEMMA FilterFirst ==
  ASSUME NEW s, IsSeq(s), NEW T
  PROVE  /\ Filter(s, T) = <<>> => \A i \in 1..Len(s) : s[i] \notin T
         /\ Filter(s, T) # <<>> =>
              \E i \in 1..Len(s) :
                /\ Filter(s, T)[1] = s[i] /\ s[i] \in T
                /\ \A j \in 1..Len(s) : j < i => s[j] \notin T
<1> DEFINE f == Filter(s, T)
<1>1. PICK at : Embeds(at, f, s, T, Len(s))
  BY FilterFacts
<1>2. IsSeq(f) /\ Len(f) \in Nat /\ f = [i \in 1..Len(f) |-> f[i]]
  BY FilterFacts, SeqFacts
<1> HIDE DEF f
<1>3. ASSUME f = <<>>, NEW i \in 1..Len(s), s[i] \in T PROVE FALSE
  <2>1. Len(f) = 0
    BY <1>3
  <2>2. \E j \in 1..Len(f) : at[j] = i
    BY <1>1, <1>3 DEF Embeds
  <2>3. QED
    BY <2>1, <2>2
<1>4. ASSUME f # <<>>
      PROVE  \E i \in 1..Len(s) :
               /\ f[1] = s[i] /\ s[i] \in T
               /\ \A j \in 1..Len(s) : j < i => s[j] \notin T
  <2>1. Len(f) # 0
    <3>1. f \in Seq(ToSet(f))
      BY <1>2 DEF IsSeq
    <3>2. QED
      BY <1>4, <3>1, EmptySeq
  <2>2. 1 \in 1..Len(f)
    BY <1>2, <2>1
  <2>3. at[1] \in 1..Len(s) /\ f[1] = s[at[1]] /\ f[1] \in T
    BY <1>1, <2>2 DEF Embeds
  <2>4. ASSUME NEW j \in 1..Len(s), j < at[1], s[j] \in T PROVE FALSE
    <3>1. PICK i \in 1..Len(f) : at[i] = j
      BY <1>1, <2>4 DEF Embeds
    <3>2. i = 1 \/ 1 < i
      BY <1>2
    <3>3. i # 1
      BY <2>3, <2>4, <3>1
    <3>4. at[1] < at[i]
      BY <1>1, <2>2, <3>2, <3>3 DEF Embeds
    <3>5. QED
      BY <2>3, <2>4, <3>1, <3>4
  <2>5. QED
    BY <2>3, <2>4
<1>5. QED
  BY <1>3, <1>4 DEF f

\* Filter keeps a whole prefix if everything after it is dropped.
LEMMA FilterPrefix ==
  ASSUME NEW s, IsSeq(s), NEW T, NEW n \in Nat, n <= Len(s),
         \A i \in 1..n : s[i] \in T,
         \A i \in 1..Len(s) : i > n => s[i] \notin T
  PROVE  Filter(s, T) = [i \in 1..n |-> s[i]]
<1> DEFINE l == Len(s)
           u == CHOOSE u : Sieves(u, s, T, l)
           upTo(m) == [i \in 1..m |-> s[i]]
           S == {m \in Nat : m <= n => u[m] = upTo(m)}
           R == {m \in Nat : n + m <= l => u[n + m] = upTo(n)}
<1>1. l \in Nat
  BY SeqFacts
<1>2. Sieves(u, s, T, l)
  BY <1>1, SievesExists
<1>3. Filter(s, T) = u[l]
  BY DEF Filter, Sieves
<1> HIDE DEF u
<1>4. /\ u[0] = <<>>
      /\ \A i \in 1..l : u[i] = IF s[i] \in T THEN Append(u[i - 1], s[i]) ELSE u[i - 1]
  BY <1>1, <1>2, SievesFacts
<1>5. \A m \in Nat : IsSeq(upTo(m)) /\ Len(upTo(m)) = m
  BY FunctionIsSeq
<1>6. 0 \in S
  <2>1. upTo(0) = <<>>
    OBVIOUS
  <2>2. QED
    BY <1>4, <2>1
<1>7. ASSUME NEW m \in Nat, m \in S PROVE m + 1 \in S
  <2> SUFFICES ASSUME m + 1 <= n PROVE u[m + 1] = upTo(m + 1)
    OBVIOUS
  <2>1. m + 1 \in 1..l /\ m + 1 \in 1..n /\ m <= n /\ (m + 1) - 1 = m
    BY <1>1
  <2>2. u[m] = upTo(m)
    BY <1>7, <2>1
  <2>3. u[m + 1] = Append(upTo(m), s[m + 1])
    BY <1>4, <2>1, <2>2
  <2> DEFINE q == upTo(m)
             p == Append(q, s[m + 1])
  <2>4. \A i \in 1..m : q[i] = s[i]
    OBVIOUS
  <2>5. IsSeq(q) /\ Len(q) = m
    BY <1>5
  <2> HIDE DEF q
  <2>6. /\ IsSeq(p) /\ Len(p) = m + 1 /\ p[m + 1] = s[m + 1]
        /\ \A i \in 1..m : p[i] = s[i]
    BY <2>4, <2>5, AppendFacts
  <2> HIDE DEF p
  <2>7. p = [i \in 1..(m + 1) |-> p[i]]
    BY <2>6, SeqFacts
  <2>8. \A i \in 1..(m + 1) : p[i] = s[i]
    BY <2>6
  <2>9. p = upTo(m + 1)
    BY <2>7, <2>8
  <2>10. QED
    BY <2>3, <2>9 DEF p, q
<1>8. n \in S
  <2> HIDE DEF S
  <2>1. QED
    BY <1>6, <1>7, SetInduction
<1>9. 0 \in R
  BY <1>8
<1>10. ASSUME NEW m \in Nat, m \in R PROVE m + 1 \in R
  <2> SUFFICES ASSUME n + (m + 1) <= l PROVE u[n + (m + 1)] = upTo(n)
    OBVIOUS
  <2>1. /\ n + (m + 1) \in 1..l /\ n + (m + 1) > n /\ n + m <= l
        /\ (n + (m + 1)) - 1 = n + m
    BY <1>1
  <2>2. s[n + (m + 1)] \notin T
    BY <2>1
  <2>3. u[n + m] = upTo(n)
    BY <1>10, <2>1
  <2> HIDE DEF upTo
  <2>4. QED
    BY <1>4, <2>1, <2>2, <2>3
<1>11. l - n \in R
  <2> HIDE DEF R
  <2>1. l - n \in Nat
    BY <1>1
  <2>2. QED
    BY <1>9, <1>10, <2>1, SetInduction
<1>12. n + (l - n) = l /\ l <= l
  BY <1>1
<1>13. QED
  BY <1>3, <1>11, <1>12

\* u holds the concatenation of the first i sequences, for every i up to m.
Glues(u, s, m) == u = [i \in 1..m |-> IF i = 1 THEN s[i] ELSE u[i - 1] \o s[i]]

LEMMA GluesFacts ==
  ASSUME NEW m \in Nat, NEW u, NEW s, Glues(u, s, m)
  PROVE  \A i \in 1..m : u[i] = IF i = 1 THEN s[i] ELSE u[i - 1] \o s[i]
BY DEF Glues

LEMMA GluesExists ==
  ASSUME NEW s, NEW l \in Nat
  PROVE  \E u : Glues(u, s, l)
<1> DEFINE S == {m \in Nat : \E u : Glues(u, s, m)}
<1>1. 0 \in S
  <2>1. Glues([i \in 1..0 |-> <<>>], s, 0)
    BY DEF Glues
  <2>2. QED
    BY <2>1
<1>2. ASSUME NEW m \in Nat, m \in S PROVE m + 1 \in S
  <2>1. PICK u : Glues(u, s, m)
    BY <1>2
  <2> DEFINE last == IF m + 1 = 1 THEN s[m + 1] ELSE u[m] \o s[m + 1]
             v == [i \in 1..(m + 1) |-> IF i = m + 1 THEN last ELSE u[i]]
  <2>2. /\ v[m + 1] = last /\ v = [i \in 1..(m + 1) |-> v[i]]
        /\ \A i \in 1..m : v[i] = u[i]
    <3> HIDE DEF last
    <3>1. m + 1 \in 1..(m + 1) /\ \A i \in 1..m : i \in 1..(m + 1) /\ i # m + 1
      OBVIOUS
    <3>2. QED
      BY <3>1
  <2>3. \A i \in 1..m : u[i] = IF i = 1 THEN s[i] ELSE u[i - 1] \o s[i]
    BY <2>1, GluesFacts
  <2> HIDE DEF v
  <2>4. \A i \in 1..(m + 1) : v[i] = IF i = 1 THEN s[i] ELSE v[i - 1] \o s[i]
    <3> TAKE i \in 1..(m + 1)
    <3>1. CASE i = m + 1 /\ i = 1
      BY <2>2, <3>1
    <3>2. CASE i = m + 1 /\ i # 1
      <4>1. i - 1 = m /\ m \in 1..m
        BY <3>2
      <4>2. QED
        BY <2>2, <3>2, <4>1
    <3>3. CASE i # m + 1
      <4>1. i \in 1..m /\ (i # 1 => i - 1 \in 1..m)
        BY <3>3
      <4>2. QED
        BY <2>2, <2>3, <4>1
    <3>4. QED
      BY <3>1, <3>2, <3>3
  <2>5. Glues(v, s, m + 1)
    BY <2>2, <2>4 DEF Glues
  <2>6. QED
    BY <2>5
<1>3. l \in S
  <2> HIDE DEF S
  <2>1. QED
    BY <1>1, <1>2, SetInduction
<1>4. QED
  BY <1>3

\* f is the first m sequences of s, laid end to end: element x of f is element
\* col[x] of sequence row[x], and every element of them is in f once.
Traces(row, col, f, s, m) ==
  /\ \A x \in 1..Len(f) :
       /\ row[x] \in 1..m /\ col[x] \in 1..Len(s[row[x]])
       /\ f[x] = s[row[x]][col[x]]
  /\ \A x, y \in 1..Len(f) : row[x] = row[y] /\ col[x] = col[y] => x = y
  /\ \A i \in 1..m : \A j \in 1..Len(s[i]) : \E x \in 1..Len(f) : row[x] = i /\ col[x] = j

LEMMA TracesGlued ==
  ASSUME NEW row, NEW col, NEW f, IsSeq(f), NEW s, NEW m \in Nat,
         Traces(row, col, f, s, m), IsSeq(s[m + 1])
  PROVE  \E r, c : Traces(r, c, f \o s[m + 1], s, m + 1)
<1> DEFINE g == s[m + 1]
           h == f \o g
           n == Len(f)
           r == [x \in 1..Len(h) |-> IF x <= n THEN row[x] ELSE m + 1]
           c == [x \in 1..Len(h) |-> IF x <= n THEN col[x] ELSE x - n]
<1>1. /\ n \in Nat /\ Len(g) \in Nat /\ Len(h) = n + Len(g)
      /\ \A i \in 1..n : h[i] = f[i]
      /\ \A i \in 1..Len(g) : h[n + i] = g[i]
  <2>1. IsSeq(g)
    OBVIOUS
  <2> HIDE DEF g
  <2>2. n \in Nat /\ Len(g) \in Nat
    BY <2>1, SeqFacts
  <2>3. QED
    BY <2>1, <2>2, ConcatFacts
<1>2. /\ \A x \in 1..n : r[x] = row[x] /\ c[x] = col[x]
      /\ \A x \in 1..Len(h) : x > n => r[x] = m + 1 /\ c[x] = x - n
  BY <1>1
<1> HIDE DEF h, r, c
<1>3. ASSUME NEW x \in 1..Len(h)
      PROVE  r[x] \in 1..(m + 1) /\ c[x] \in 1..Len(s[r[x]]) /\ h[x] = s[r[x]][c[x]]
  <2>1. CASE x <= n
    <3>1. x \in 1..n
      BY <1>1, <2>1
    <3>2. row[x] \in 1..m /\ col[x] \in 1..Len(s[row[x]]) /\ f[x] = s[row[x]][col[x]]
      BY <3>1 DEF Traces
    <3>3. QED
      BY <1>1, <1>2, <3>1, <3>2
  <2>2. CASE x > n
    <3>1. x - n \in 1..Len(g) /\ n + (x - n) = x
      BY <1>1, <2>2
    <3>2. h[x] = g[x - n]
      BY <1>1, <3>1
    <3>3. QED
      BY <1>2, <2>2, <3>1, <3>2
  <2>3. QED
    BY <1>1, <2>1, <2>2
<1>4. ASSUME NEW x \in 1..Len(h), NEW y \in 1..Len(h), r[x] = r[y], c[x] = c[y]
      PROVE  x = y
  <2>1. \A z \in 1..n : r[z] \in 1..m
    BY <1>2 DEF Traces
  <2>2. CASE x <= n /\ y <= n
    <3>1. x \in 1..n /\ y \in 1..n
      BY <1>1, <2>2
    <3>2. row[x] = row[y] /\ col[x] = col[y]
      BY <1>2, <1>4, <3>1
    <3> HIDE DEF n
    <3>3. QED
      BY <3>1, <3>2 DEF Traces, n
  <2>3. CASE x <= n /\ y > n
    <3>1. r[x] \in 1..m /\ r[y] = m + 1
      BY <1>1, <1>2, <2>1, <2>3
    <3>2. QED
      BY <1>4, <3>1
  <2>4. CASE x > n /\ y <= n
    <3>1. r[y] \in 1..m /\ r[x] = m + 1
      BY <1>1, <1>2, <2>1, <2>4
    <3>2. QED
      BY <1>4, <3>1
  <2>5. CASE x > n /\ y > n
    BY <1>1, <1>2, <1>4, <2>5
  <2>6. QED
    BY <1>1, <2>2, <2>3, <2>4, <2>5
<1>5. ASSUME NEW i \in 1..(m + 1), NEW j \in 1..Len(s[i])
      PROVE  \E x \in 1..Len(h) : r[x] = i /\ c[x] = j
  <2>1. CASE i = m + 1
    <3>1. j \in 1..Len(g)
      BY <2>1
    <3>2. n + j \in 1..Len(h) /\ n + j > n /\ (n + j) - n = j
      BY <1>1, <3>1
    <3>3. QED
      BY <1>2, <2>1, <3>2
  <2>2. CASE i # m + 1
    <3>1. i \in 1..m
      BY <2>2
    <3>2. PICK x \in 1..n : row[x] = i /\ col[x] = j
      BY <3>1 DEF Traces
    <3>3. x \in 1..Len(h)
      BY <1>1
    <3>4. QED
      BY <1>2, <3>2, <3>3
  <2>3. QED
    BY <2>1, <2>2
<1>6. Traces(r, c, h, s, m + 1)
  BY <1>3, <1>4, <1>5 DEF Traces
<1>7. QED
  BY <1>6 DEF h

\* What FlattenSeq does.
LEMMA FlattenFacts ==
  ASSUME NEW s, IsSeq(s), \A i \in 1..Len(s) : IsSeq(s[i])
  PROVE  /\ IsSeq(FlattenSeq(s))
         /\ \E row, col : Traces(row, col, FlattenSeq(s), s, Len(s))
<1> DEFINE l == Len(s)
           u == CHOOSE u : Glues(u, s, l)
           S == {m \in Nat : m + 1 <= l =>
                   /\ IsSeq(u[m + 1])
                   /\ \E row, col : Traces(row, col, u[m + 1], s, m + 1)}
<1>1. l \in Nat
  BY SeqFacts
<1>2. CASE l = 0
  <2>1. FlattenSeq(s) = s
    BY <1>2 DEF FlattenSeq
  <2>2. Traces(<<>>, <<>>, s, s, 0)
    BY <1>2 DEF Traces
  <2>3. QED
    BY <1>2, <2>1, <2>2
<1>3. CASE l # 0
  <2>1. Glues(u, s, l)
    BY <1>1, GluesExists
  <2>2. FlattenSeq(s) = u[l]
    BY <1>3 DEF FlattenSeq, Glues
  <2> HIDE DEF u
  <2>3. \A i \in 1..l : u[i] = IF i = 1 THEN s[i] ELSE u[i - 1] \o s[i]
    BY <1>1, <2>1, GluesFacts
  <2>4. 0 \in S
    <3> SUFFICES ASSUME 0 + 1 <= l
                 PROVE  IsSeq(u[0 + 1]) /\ \E row, col : Traces(row, col, u[0 + 1], s, 0 + 1)
      OBVIOUS
    <3>1. 1 \in 1..l /\ u[1] = s[1] /\ IsSeq(s[1])
      BY <1>1, <2>3
    <3> DEFINE row == [x \in 1..Len(s[1]) |-> 1]
               col == [x \in 1..Len(s[1]) |-> x]
    <3>2. \A x \in 1..Len(s[1]) : row[x] = 1 /\ col[x] = x
      OBVIOUS
    <3> HIDE DEF row, col
    <3>3. Traces(row, col, s[1], s, 1)
      BY <3>2 DEF Traces
    <3>4. QED
      BY <3>1, <3>3
  <2>5. ASSUME NEW m \in Nat, m \in S PROVE m + 1 \in S
    <3> SUFFICES ASSUME (m + 1) + 1 <= l
                 PROVE  /\ IsSeq(u[(m + 1) + 1])
                        /\ \E row, col : Traces(row, col, u[(m + 1) + 1], s, (m + 1) + 1)
      OBVIOUS
    <3>1. /\ (m + 1) + 1 \in 1..l /\ m + 1 <= l /\ (m + 1) + 1 # 1
          /\ ((m + 1) + 1) - 1 = m + 1 /\ m + 1 \in Nat
      BY <1>1
    <3>2. u[(m + 1) + 1] = u[m + 1] \o s[(m + 1) + 1] /\ IsSeq(s[(m + 1) + 1])
      BY <2>3, <3>1
    <3>3. IsSeq(u[m + 1]) /\ \E row, col : Traces(row, col, u[m + 1], s, m + 1)
      BY <2>5, <3>1
    <3>4. PICK row, col : Traces(row, col, u[m + 1], s, m + 1)
      BY <3>3
    <3>5. \E r, c : Traces(r, c, u[m + 1] \o s[(m + 1) + 1], s, (m + 1) + 1)
      BY <3>1, <3>2, <3>3, <3>4, TracesGlued
    <3>6. QED
      BY <3>2, <3>3, <3>5, ConcatFacts
  <2>6. l - 1 \in S
    <3> HIDE DEF S
    <3>1. l - 1 \in Nat
      BY <1>1, <1>3
    <3>2. QED
      BY <2>4, <2>5, <3>1, SetInduction
  <2>7. (l - 1) + 1 = l /\ l <= l
    BY <1>1
  <2>8. QED
    BY <2>2, <2>6, <2>7
<1>4. QED
  BY <1>2, <1>3

\* p pairs the elements of s: pair x of p is of positions from[x] and to[x].
Couples(from, to, p, s) ==
  /\ \A x \in 1..Len(p) :
       /\ from[x] \in 1..Len(s) /\ to[x] \in 1..Len(s) /\ from[x] < to[x]
       /\ p[x] = <<s[from[x]], s[to[x]]>>
  /\ \A x, y \in 1..Len(p) : from[x] = from[y] /\ to[x] = to[y] => x = y
  /\ \A i, j \in 1..Len(s) : i < j => \E x \in 1..Len(p) : from[x] = i /\ to[x] = j

\* Every two positions of a list make one pair, and nothing else does.
LEMMA PairsFacts ==
  ASSUME NEW s, IsSeq(s)
  PROVE  /\ IsSeq(Pairs(s))
         /\ \E from, to : Couples(from, to, Pairs(s), s)
<1> DEFINE n == Len(s)
           loops == [i \in 1..n |-> [j \in 1..n - i |-> <<s[i], s[i + j]>>]]
           p == Pairs(s)
<1>1. n \in Nat /\ DOMAIN s = 1..n
  BY SeqFacts
<1>2. p = FlattenSeq(loops)
  BY <1>1 DEF Pairs
<1>3. IsSeq(loops) /\ Len(loops) = n
  BY <1>1, FunctionIsSeq
<1>4. ASSUME NEW i \in 1..n
      PROVE  /\ IsSeq(loops[i]) /\ Len(loops[i]) = n - i
             /\ \A j \in 1..n - i : loops[i][j] = <<s[i], s[i + j]>>
  <2> DEFINE g == [j \in 1..n - i |-> <<s[i], s[i + j]>>]
  <2>1. n - i \in Nat
    BY <1>1
  <2>2. loops[i] = g /\ g = [j \in 1..n - i |-> g[j]]
    OBVIOUS
  <2>3. \A j \in 1..n - i : g[j] = <<s[i], s[i + j]>>
    OBVIOUS
  <2> HIDE DEF g, loops
  <2>4. IsSeq(g) /\ Len(g) = n - i
    BY <2>1, <2>2, FunctionIsSeq
  <2>5. QED
    BY <2>2, <2>3, <2>4
<1> HIDE DEF loops, p
<1>5. IsSeq(p) /\ \E row, col : Traces(row, col, p, loops, n)
  BY <1>2, <1>3, <1>4, FlattenFacts
<1>6. PICK row, col : Traces(row, col, p, loops, n)
  BY <1>5
<1> DEFINE to == [x \in 1..Len(p) |-> row[x] + col[x]]
<1>7. \A x \in 1..Len(p) : to[x] = row[x] + col[x]
  OBVIOUS
<1> HIDE DEF to
<1>8. ASSUME NEW x \in 1..Len(p)
      PROVE  /\ row[x] \in 1..n /\ to[x] \in 1..n /\ row[x] < to[x]
             /\ col[x] = to[x] - row[x] /\ p[x] = <<s[row[x]], s[to[x]]>>
  <2>1. row[x] \in 1..n /\ col[x] \in 1..Len(loops[row[x]]) /\ p[x] = loops[row[x]][col[x]]
    BY <1>6 DEF Traces
  <2>2. col[x] \in 1..n - row[x]
    BY <1>4, <2>1
  <2>3. p[x] = <<s[row[x]], s[to[x]]>>
    BY <1>4, <1>7, <2>1, <2>2
  <2>4. QED
    BY <1>1, <1>7, <2>1, <2>2, <2>3
<1>9. ASSUME NEW x \in 1..Len(p), NEW y \in 1..Len(p), row[x] = row[y], to[x] = to[y]
      PROVE  x = y
  <2>1. col[x] = col[y]
    BY <1>8, <1>9
  <2>2. QED
    BY <1>6, <1>9, <2>1 DEF Traces
<1>10. ASSUME NEW i \in 1..n, NEW j \in 1..n, i < j
       PROVE  \E x \in 1..Len(p) : row[x] = i /\ to[x] = j
  <2>1. j - i \in 1..Len(loops[i])
    <3>1. j - i \in 1..(n - i)
      BY <1>1, <1>10
    <3>2. Len(loops[i]) = n - i
      BY <1>4
    <3>3. QED
      BY <3>1, <3>2
  <2>2. PICK x \in 1..Len(p) : row[x] = i /\ col[x] = j - i
    BY <1>6, <2>1 DEF Traces
  <2>3. to[x] = j
    BY <1>1, <1>7, <2>2
  <2>4. QED
    BY <2>2, <2>3
<1>11. \A x \in 1..Len(p) :
         /\ row[x] \in 1..n /\ to[x] \in 1..n /\ row[x] < to[x]
         /\ p[x] = <<s[row[x]], s[to[x]]>>
  BY <1>8
<1>12. Couples(row, to, p, s)
  BY <1>9, <1>10, <1>11 DEF Couples
<1>13. QED
  BY <1>5, <1>12 DEF p

-----------------------------------------------------------------------------
(* The plan and the scenario built from it.                                *)

EntityRecords == [type : EntityTypes, name : Names, parent : Names \union {None}]

PlanTypes ==
  /\ entities \in Seq(EntityRecords)
  /\ stage \in {"drawing", "adding", "pairing", "built", "failed", "loaded"}
  /\ k \in 1..Len(entities) + 1
  /\ stkObjects \in [Names -> ToSet(objects) \union {None}]

\* Only sensors may share a name.
PlacedDiffer ==
  \A i, j \in 1..Len(entities) :
    /\ entities[i].name = entities[j].name
    /\ entities[i].type # "Sensor" /\ entities[j].type # "Sensor"
    => i = j

Drawn ==
  stage = "drawing" => k = 1 /\ objects = <<>> /\ coverage = None /\ accesses = <<>>

\* The objects are those of the first k - 1 entities; under an entity's name the
\* builder finds its object or that of a later entity of the name.
Created ==
  stage # "loaded" =>
    /\ Len(objects) = k - 1
    /\ \A i \in 1..k - 1 :
         objects[i].class = entities[i].type /\ objects[i].name = entities[i].name
    /\ \A i \in 1..k - 1 : \E j \in i..k - 1 :
         entities[j].name = entities[i].name /\ stkObjects[entities[i].name] = objects[j]

Targeted ==
  stage # "loaded" /\ coverage # None =>
    /\ OfType(entities, "AreaTarget") # <<>>
    /\ coverage.target = OfType(entities, "AreaTarget")[1].name

Paired ==
  /\ stage \in {"pairing", "built"} => k = Len(entities) + 1
  /\ stage = "built" => accesses = Pairs(AircraftObjects)

PlanInv ==
  /\ PlanTypes /\ PlacedDiffer /\ Drawn /\ Created /\ WellFormed(objects)
  /\ Targeted /\ Paired

LEMMA InitPlanInv == PlanInit => PlanInv
<1> SUFFICES ASSUME PlanInit PROVE PlanInv
  OBVIOUS
<1>1. /\ entities = <<>> /\ stage = "drawing" /\ k = 1 /\ objects = <<>>
      /\ stkObjects = [n \in Names |-> None] /\ coverage = None /\ accesses = <<>>
  BY DEF PlanInit
<1>2. entities \in Seq(EntityRecords) /\ Len(entities) = 0
  BY <1>1
<1>3. IsSeq(objects) /\ Len(objects) = 0 /\ DOMAIN objects = {}
  BY <1>1, NothingIsSeq
<1>4. PlanTypes
  BY <1>1, <1>2 DEF PlanTypes
<1>5. PlacedDiffer /\ Created
  BY <1>1, <1>2, <1>3 DEF PlacedDiffer, Created
<1>6. WellFormed(objects)
  BY <1>3 DEF WellFormed, IsSeq
<1>7. Drawn /\ Targeted /\ Paired
  BY <1>1 DEF Drawn, Targeted, Paired
<1>8. QED
  BY <1>4, <1>5, <1>6, <1>7 DEF PlanInv

\* While the plan is drawn it is enough to look at the entities.
LEMMA DrawnKeeps ==
  ASSUME PlanInv, stage = "drawing", entities' \in Seq(EntityRecords), PlacedDiffer',
         UNCHANGED <<stage, k, objects, stkObjects, coverage, accesses>>
  PROVE  PlanInv'
<1>1. /\ k = 1 /\ objects = <<>> /\ Len(objects) = 0 /\ coverage = None
      /\ stkObjects \in [Names -> ToSet(objects) \union {None}]
      /\ WellFormed(objects)
  BY NothingIsSeq DEF PlanInv, PlanTypes, Drawn
<1>2. PlanTypes'
  <2>1. Len(entities') \in Nat
    OBVIOUS
  <2>2. QED
    BY <1>1, <2>1 DEF PlanTypes
<1>3. Created'
  BY <1>1 DEF Created
<1>4. WellFormed(objects)'
  BY <1>1 DEF WellFormed
<1>5. Drawn' /\ Targeted' /\ Paired'
  BY <1>1 DEF Drawn, Targeted, Paired, PlanInv
<1>6. QED
  BY <1>2, <1>3, <1>4, <1>5 DEF PlanInv

LEMMA EntityFacts ==
  ASSUME entities \in Seq(EntityRecords)
  PROVE  /\ IsSeq(entities) /\ Len(entities) \in Nat /\ DOMAIN entities = 1..Len(entities)
         /\ \A i \in 1..Len(entities) :
              /\ entities[i] \in EntityRecords /\ entities[i] \in ToSet(entities)
              /\ entities[i].type \in EntityTypes /\ entities[i].name \in Names
              /\ entities[i].name \in NamesIn(entities)
<1>1. /\ IsSeq(entities) /\ Len(entities) \in Nat /\ DOMAIN entities = 1..Len(entities)
      /\ \A i \in 1..Len(entities) : entities[i] \in EntityRecords
  BY SeqIn
<1>2. \A i \in 1..Len(entities) : entities[i] \in ToSet(entities)
  BY <1>1, SeqFacts
<1>3. QED
  BY <1>1, <1>2 DEF EntityRecords, NamesIn

LEMMA CommitKeeps ==
  ASSUME PlanInv, NEW e \in EntityRecords, CommitEntity(e),
         e.type = "Sensor" \/ e.name \notin NamesIn(entities)
  PROVE  PlanInv'
<1>1. /\ stage = "drawing" /\ entities' = Append(entities, e)
      /\ UNCHANGED <<stage, k, objects, stkObjects, coverage, accesses>>
  BY DEF CommitEntity
<1>2. entities \in Seq(EntityRecords)
  BY DEF PlanInv, PlanTypes
<1>3. entities' \in Seq(EntityRecords)
  BY <1>1, <1>2
<1>4. /\ Len(entities') = Len(entities) + 1 /\ entities'[Len(entities) + 1] = e
      /\ \A i \in 1..Len(entities) : entities'[i] = entities[i]
      /\ Len(entities) \in Nat
  BY <1>1, <1>2
<1>5. PlacedDiffer'
  <2> SUFFICES ASSUME NEW i \in 1..Len(entities'), NEW j \in 1..Len(entities'),
                      entities'[i].name = entities'[j].name,
                      entities'[i].type # "Sensor", entities'[j].type # "Sensor"
               PROVE  i = j
    BY DEF PlacedDiffer
  <2>1. \A m \in 1..Len(entities) : entities[m].name \in NamesIn(entities)
    BY <1>2, EntityFacts
  <2>2. CASE i \in 1..Len(entities) /\ j \in 1..Len(entities)
    BY <1>4, <2>2 DEF PlanInv, PlacedDiffer
  <2>3. CASE i = Len(entities) + 1 /\ j = Len(entities) + 1
    BY <2>3
  <2>4. CASE i \in 1..Len(entities) /\ j = Len(entities) + 1
    BY <1>4, <2>1, <2>4
  <2>5. CASE i = Len(entities) + 1 /\ j \in 1..Len(entities)
    BY <1>4, <2>1, <2>5
  <2>6. QED
    BY <1>4, <2>2, <2>3, <2>4, <2>5
<1>6. QED
  BY <1>1, <1>3, <1>5, DrawnKeeps

LEMMA SetNameKeeps ==
  ASSUME PlanInv, NEW old \in Names, NEW new \in Names, SetName(old, new)
  PROVE  PlanInv'
<1>1. /\ stage = "drawing" /\ new \notin NamesIn(entities)
      /\ entities' = [i \in DOMAIN entities |->
           IF entities[i].name = old THEN [entities[i] EXCEPT !.name = new] ELSE entities[i]]
      /\ UNCHANGED <<stage, k, objects, stkObjects, coverage, accesses>>
  BY DEF SetName
<1>2. entities \in Seq(EntityRecords)
  BY DEF PlanInv, PlanTypes
<1>3. /\ Len(entities) \in Nat /\ DOMAIN entities = 1..Len(entities)
      /\ \A i \in 1..Len(entities) :
           entities[i] \in EntityRecords /\ entities[i].name \in NamesIn(entities)
  BY <1>2, EntityFacts
<1>4. \A i \in 1..Len(entities) :
        entities'[i] = IF entities[i].name = old THEN [entities[i] EXCEPT !.name = new]
                       ELSE entities[i]
  BY <1>1, <1>3
<1>5. \A i \in 1..Len(entities) :
        /\ entities'[i] \in EntityRecords
        /\ entities'[i].type = entities[i].type
        /\ entities'[i].name = IF entities[i].name = old THEN new ELSE entities[i].name
  BY <1>3, <1>4 DEF EntityRecords
<1>6. entities' = [i \in 1..Len(entities) |-> entities'[i]]
  BY <1>1, <1>3
<1>7. entities' \in Seq(EntityRecords) /\ Len(entities') = Len(entities)
  BY <1>3, <1>5, <1>6
<1>8. PlacedDiffer'
  <2> SUFFICES ASSUME NEW i \in 1..Len(entities), NEW j \in 1..Len(entities),
                      entities'[i].name = entities'[j].name,
                      entities'[i].type # "Sensor", entities'[j].type # "Sensor"
               PROVE  i = j
    BY <1>7 DEF PlacedDiffer
  <2>1. entities[i].name = entities[j].name
    BY <1>1, <1>3, <1>5
  <2>2. entities[i].type # "Sensor" /\ entities[j].type # "Sensor"
    BY <1>5
  <2>3. QED
    BY <2>1, <2>2 DEF PlanInv, PlacedDiffer
<1>9. QED
  BY <1>1, <1>7, <1>8, DrawnKeeps

LEMMA SetSensorParentKeeps ==
  ASSUME PlanInv, NEW name \in Names, NEW parent \in Names \union {None},
         SetSensorParent(name, parent)
  PROVE  PlanInv'
<1>1. /\ stage = "drawing"
      /\ entities' = [i \in DOMAIN entities |->
           IF entities[i].name = name THEN [entities[i] EXCEPT !.parent = parent]
           ELSE entities[i]]
      /\ UNCHANGED <<stage, k, objects, stkObjects, coverage, accesses>>
  BY DEF SetSensorParent
<1>2. entities \in Seq(EntityRecords)
  BY DEF PlanInv, PlanTypes
<1>3. /\ Len(entities) \in Nat /\ DOMAIN entities = 1..Len(entities)
      /\ \A i \in 1..Len(entities) : entities[i] \in EntityRecords
  BY <1>2, EntityFacts
<1>4. \A i \in 1..Len(entities) :
        /\ entities'[i] \in EntityRecords
        /\ entities'[i].type = entities[i].type /\ entities'[i].name = entities[i].name
  BY <1>1, <1>3 DEF EntityRecords
<1>5. entities' = [i \in 1..Len(entities) |-> entities'[i]]
  BY <1>1, <1>3
<1>6. entities' \in Seq(EntityRecords) /\ Len(entities') = Len(entities)
  BY <1>3, <1>4, <1>5
<1>7. PlacedDiffer'
  BY <1>4, <1>6 DEF PlanInv, PlacedDiffer
<1>8. QED
  BY <1>1, <1>6, <1>7, DrawnKeeps

LEMMA DeleteEntityKeeps ==
  ASSUME PlanInv, NEW name \in Names, DeleteEntity(name)
  PROVE  PlanInv'
<1> DEFINE T == {e \in ToSet(entities) : e.name # name}
<1>1. /\ stage = "drawing" /\ entities' = Filter(entities, T)
      /\ UNCHANGED <<stage, k, objects, stkObjects, coverage, accesses>>
  BY DEF DeleteEntity
<1> HIDE DEF T
<1>2. entities \in Seq(EntityRecords) /\ IsSeq(entities)
  BY SeqIn DEF PlanInv, PlanTypes
<1>3. PICK at : Embeds(at, entities', entities, T, Len(entities))
  BY <1>1, <1>2, FilterFacts
<1>4. IsSeq(entities') /\ entities' = [i \in 1..Len(entities') |-> entities'[i]]
      /\ Len(entities') \in Nat
  BY <1>1, <1>2, FilterFacts, SeqFacts
<1>5. \A i \in 1..Len(entities') :
        at[i] \in 1..Len(entities) /\ entities'[i] = entities[at[i]]
  BY <1>3 DEF Embeds
<1>6. \A i \in 1..Len(entities') : entities'[i] \in EntityRecords
  BY <1>2, <1>5
<1>7. entities' \in Seq(EntityRecords)
  <2> DEFINE f == entities'
  <2>1. [i \in 1..Len(f) |-> f[i]] \in Seq(EntityRecords)
    <3>1. Len(f) \in Nat /\ \A i \in 1..Len(f) : f[i] \in EntityRecords
      BY <1>4, <1>6
    <3> HIDE DEF f
    <3>2. QED
      BY <3>1
  <2>2. QED
    BY <1>4, <2>1
<1>8. PlacedDiffer'
  <2> SUFFICES ASSUME NEW i \in 1..Len(entities'), NEW j \in 1..Len(entities'),
                      entities'[i].name = entities'[j].name,
                      entities'[i].type # "Sensor", entities'[j].type # "Sensor"
               PROVE  i = j
    BY DEF PlacedDiffer
  <2>1. at[i] = at[j]
    <3>1. /\ at[i] \in 1..Len(entities) /\ entities'[i] = entities[at[i]]
          /\ at[j] \in 1..Len(entities) /\ entities'[j] = entities[at[j]]
      BY <1>5
    <3>2. /\ entities[at[i]].name = entities[at[j]].name
          /\ entities[at[i]].type # "Sensor" /\ entities[at[j]].type # "Sensor"
      BY <3>1
    <3>3. PlacedDiffer
      BY DEF PlanInv
    <3>4. QED
      BY <3>1, <3>2, <3>3 DEF PlacedDiffer
  <2>2. at[i] \in Int /\ (i < j => at[i] < at[j]) /\ (j < i => at[j] < at[i])
    BY <1>3, <1>5 DEF Embeds
  <2>3. QED
    BY <2>1, <2>2
<1>9. QED
  BY <1>1, <1>7, <1>8, DrawnKeeps

\* What STK accepts, the builder finds under its name from then on.
LEMMA CreateKeeps ==
  ASSUME PlanInv, stage = "adding", k <= Len(entities), NEW o,
         o.class = entities[k].type, o.name = entities[k].name,
         Accepts(o) => Standing(o) \/ (Mounted(o) /\ o.under \in ToSet(objects)),
         Create(o), UNCHANGED <<entities, coverage, accesses>>
  PROVE  PlanInv'
<1>1. /\ entities \in Seq(EntityRecords) /\ Len(entities) \in Nat
      /\ k \in 1..Len(entities)
      /\ stkObjects \in [Names -> ToSet(objects) \union {None}]
      /\ \A i \in 1..Len(entities) : entities[i].name \in Names
  BY EntityFacts DEF PlanInv, PlanTypes
<1>2. /\ Len(objects) = k - 1
      /\ \A i \in 1..k - 1 :
           objects[i].class = entities[i].type /\ objects[i].name = entities[i].name
      /\ \A i \in 1..k - 1 : \E j \in i..k - 1 :
           entities[j].name = entities[i].name /\ stkObjects[entities[i].name] = objects[j]
  BY DEF PlanInv, Created
<1>3. IsSeq(objects) /\ DOMAIN objects = 1..k - 1 /\ WellFormed(objects)
  <2>1. WellFormed(objects)
    BY DEF PlanInv
  <2>2. IsSeq(objects)
    BY <2>1 DEF WellFormed, IsSeq
  <2>3. QED
    BY <1>2, <2>1, <2>2, SeqFacts
<1>4. CASE ~Accepts(o)
  <2>1. stage' = "failed" /\ UNCHANGED <<entities, coverage, accesses, objects, stkObjects, k>>
    BY <1>4 DEF Create
  <2>2. PlanTypes' /\ PlacedDiffer' /\ Drawn' /\ Paired'
    BY <2>1 DEF PlanInv, PlanTypes, PlacedDiffer, Drawn, Paired
  <2>3. Created' /\ WellFormed(objects)' /\ Targeted'
    BY <2>1 DEF PlanInv, Created, WellFormed, Targeted
  <2>4. QED
    BY <2>2, <2>3 DEF PlanInv
<1>5. CASE Accepts(o)
  <2>1. /\ objects' = Append(objects, o) /\ k' = k + 1 /\ stage' = stage
        /\ stkObjects' = [stkObjects EXCEPT ![o.name] = o]
        /\ UNCHANGED <<entities, coverage, accesses>>
    BY <1>5 DEF Create
  <2>2. /\ IsSeq(objects') /\ Len(objects') = k /\ objects'[k] = o
        /\ \A i \in 1..k - 1 : objects'[i] = objects[i]
    BY <1>1, <1>2, <1>3, <2>1, AppendFacts
  <2>3. DOMAIN objects' = 1..k
    BY <2>2, SeqFacts
  <2>4. /\ \A x : x \in ToSet(objects') <=> \E i \in 1..k : objects'[i] = x
        /\ \A x : x \in ToSet(objects) <=> \E i \in 1..k - 1 : objects[i] = x
    BY <1>2, <1>3, <2>2, SeqFacts
  <2>5. \A i \in 1..k : i \in 1..k - 1 \/ i = k
    BY <1>1
  <2>6. o \in ToSet(objects') /\ ToSet(objects) \subseteq ToSet(objects')
    <3>1. k \in 1..k /\ \A i \in 1..k - 1 : i \in 1..k
      BY <1>1
    <3>2. QED
      BY <2>2, <2>4, <3>1
  <2>7. stkObjects' \in [Names -> ToSet(objects') \union {None}]
    BY <1>1, <2>1, <2>6
  <2>8. PlanTypes'
    <3>1. k' \in 1..Len(entities) + 1
      BY <1>1, <2>1
    <3>2. QED
      BY <2>1, <2>7, <3>1 DEF PlanInv, PlanTypes
  <2>9. PlacedDiffer' /\ Drawn' /\ Targeted' /\ Paired'
    BY <2>1 DEF PlanInv, PlacedDiffer, Drawn, Targeted, Paired
  <2>10. Created'
    <3>1. \A i \in 1..k :
            objects'[i].class = entities[i].type /\ objects'[i].name = entities[i].name
      BY <1>2, <2>2, <2>5
    <3>2. ASSUME NEW i \in 1..k
          PROVE  \E j \in i..k :
                   entities[j].name = entities[i].name
                   /\ stkObjects'[entities[i].name] = objects'[j]
      <4>1. entities[i].name \in Names
        BY <1>1
      <4>2. CASE entities[i].name = o.name
        <5>1. k \in i..k /\ stkObjects'[entities[i].name] = objects'[k]
          BY <1>1, <2>1, <2>2, <4>1, <4>2
        <5>2. QED
          BY <4>2, <5>1
      <4>3. CASE entities[i].name # o.name
        <5>1. i \in 1..k - 1
          BY <2>5, <4>3
        <5>2. PICK j \in i..k - 1 :
                entities[j].name = entities[i].name
                /\ stkObjects[entities[i].name] = objects[j]
          BY <1>2, <5>1
        <5>3. j \in i..k /\ j \in 1..k - 1
          BY <1>1, <5>1
        <5>4. stkObjects'[entities[i].name] = objects'[j]
          BY <1>1, <2>1, <2>2, <4>1, <4>3, <5>2, <5>3
        <5>5. QED
          BY <5>2, <5>3, <5>4
      <4>4. QED
        BY <4>2, <4>3
    <3>3. k' - 1 = k
      BY <1>1, <2>1
    <3> DEFINE m == k' - 1
    <3>4. m = k /\ entities' = entities
      BY <2>1, <3>3
    <3> HIDE DEF m
    <3>5. /\ Len(objects') = m
          /\ \A i \in 1..m :
               objects'[i].class = entities'[i].type /\ objects'[i].name = entities'[i].name
      BY <2>2, <3>1, <3>4
    <3>6. \A i \in 1..m : \E j \in i..m :
            entities'[j].name = entities'[i].name
            /\ stkObjects'[entities'[i].name] = objects'[j]
      BY <3>2, <3>4
    <3>7. QED
      BY <3>5, <3>6 DEF Created, m
  <2>11. WellFormed(objects')
    <3>1. \A i \in 1..k - 1 :
            Standing(objects[i]) \/ (Mounted(objects[i]) /\ objects[i].under \in ToSet(objects))
      BY <1>3 DEF WellFormed
    <3>2. \A i \in 1..k :
            Standing(objects'[i])
            \/ (Mounted(objects'[i]) /\ objects'[i].under \in ToSet(objects'))
      BY <1>5, <2>2, <2>5, <2>6, <3>1
    <3>3. o \notin ToSet(objects)
      BY <1>5 DEF Accepts
    <3>4. \A i \in 1..k - 1 : objects'[i] # o
      BY <2>2, <2>4, <3>3
    <3>5. \A i, j \in 1..k - 1 : objects[i] = objects[j] => i = j
      BY <1>3 DEF WellFormed
    <3>6. \A i, j \in 1..k : objects'[i] = objects'[j] => i = j
      BY <2>2, <2>5, <3>4, <3>5
    <3>7. QED
      BY <2>2, <2>3, <3>2, <3>6 DEF WellFormed, IsSeq
  <2>12. WellFormed(objects)'
    BY <2>11 DEF WellFormed
  <2>13. QED
    BY <2>8, <2>9, <2>10, <2>12 DEF PlanInv
<1>6. QED
  BY <1>4, <1>5

LEMMA AddPlacedKeeps ==
  ASSUME PlanInv, AddPlaced
  PROVE  PlanInv'
<1> DEFINE o == Object(entities[k].type, entities[k].name, None)
<1>1. /\ stage = "adding" /\ k <= Len(entities) /\ entities[k].type # "Sensor"
      /\ Create(o) /\ UNCHANGED <<entities, coverage, accesses>>
  BY DEF AddPlaced
<1>2. entities[k].type \in EntityTypes /\ entities[k].name \in Names
  BY <1>1, EntityFacts DEF PlanInv, PlanTypes
<1>3. o.class = entities[k].type /\ o.name = entities[k].name
  BY DEF Object
<1>4. Standing(o)
  BY <1>1, <1>2, <1>3, PlanAssumption DEF Standing, Object, EntityTypes
<1> HIDE DEF o
<1>5. QED
  BY <1>1, <1>3, <1>4, CreateKeeps

LEMMA AddSensorObjectKeeps ==
  ASSUME PlanInv, AddSensorObject
  PROVE  PlanInv'
<1> DEFINE p == IF entities[k].parent \in Names THEN stkObjects[entities[k].parent] ELSE None
           o == Object("Sensor", entities[k].name, p)
<1>1. /\ stage = "adding" /\ k <= Len(entities) /\ entities[k].type = "Sensor"
      /\ Create(o) /\ UNCHANGED <<entities, coverage, accesses>>
  BY DEF AddSensorObject
<1>2. entities[k].name \in Names
  BY <1>1, EntityFacts DEF PlanInv, PlanTypes
<1>3. o.class = "Sensor" /\ o.name = entities[k].name /\ o.under = p
      /\ o = Object("Sensor", o.name, o.under)
  BY DEF Object
<1>4. p \in ToSet(objects) \union {None}
  BY DEF PlanInv, PlanTypes
<1> HIDE DEF o, p
<1>5. ASSUME Accepts(o) PROVE Mounted(o) /\ o.under \in ToSet(objects)
  <2>1. p # None /\ p.class \in {"Aircraft", "Facility"}
    BY <1>3, <1>5 DEF Accepts
  <2>2. p \in ToSet(objects)
    BY <1>4, <2>1
  <2>3. Standing(p) \/ Mounted(p)
    BY <2>2 DEF PlanInv, WellFormed, ToSet
  <2>4. ~Mounted(p)
    BY <2>1 DEF Mounted, Object
  <2>5. QED
    BY <1>2, <1>3, <2>1, <2>2, <2>3, <2>4, PlanAssumption DEF Mounted
<1>6. QED
  BY <1>1, <1>3, <1>5, CreateKeeps

LEMMA AddCoverageKeeps ==
  ASSUME PlanInv, AddCoverage
  PROVE  PlanInv'
<1>1. /\ stage = "adding" /\ k > Len(entities) /\ stage' \in {"pairing", "failed"}
      /\ UNCHANGED <<entities, k, objects, stkObjects, accesses>>
      /\ \/ coverage' = coverage
         \/ /\ OfType(entities, "AreaTarget") # <<>>
            /\ coverage'.target = OfType(entities, "AreaTarget")[1].name
  BY DEF AddCoverage
<1>2. k = Len(entities) + 1
  <2>1. Len(entities) \in Nat /\ k \in 1..Len(entities) + 1
    BY EntityFacts DEF PlanInv, PlanTypes
  <2>2. QED
    BY <1>1, <2>1
<1>3. PlanTypes' /\ PlacedDiffer' /\ Drawn' /\ Paired'
  BY <1>1, <1>2 DEF PlanInv, PlanTypes, PlacedDiffer, Drawn, Paired
<1>4. Created' /\ WellFormed(objects)'
  BY <1>1 DEF PlanInv, Created, WellFormed
<1>5. Targeted'
  BY <1>1 DEF PlanInv, Targeted
<1>6. QED
  BY <1>3, <1>4, <1>5 DEF PlanInv

LEMMA ComputeAccessesKeeps ==
  ASSUME PlanInv, ComputeAccesses
  PROVE  PlanInv'
<1>1. /\ stage = "pairing" /\ stage' = "built" /\ accesses' = Pairs(AircraftObjects)
      /\ UNCHANGED <<entities, k, objects, stkObjects, coverage>>
  BY DEF ComputeAccesses
<1>2. AircraftObjects' = AircraftObjects
  BY <1>1 DEF AircraftObjects
<1>3. PlanTypes' /\ PlacedDiffer' /\ Drawn'
  BY <1>1 DEF PlanInv, PlanTypes, PlacedDiffer, Drawn
<1>4. Created' /\ WellFormed(objects)' /\ Targeted' /\ Paired'
  BY <1>1, <1>2 DEF PlanInv, Created, WellFormed, Targeted, Paired
<1>5. QED
  BY <1>3, <1>4 DEF PlanInv

LEMMA NextPlanInv == PlanInv /\ [PlanNext]_planVars => PlanInv'
<1> SUFFICES ASSUME PlanInv, [PlanNext]_planVars PROVE PlanInv'
  OBVIOUS
<1>1. ASSUME NEW type \in EntityTypes, NEW name \in Names, Draw(type, name) PROVE PlanInv'
  <2>1. Entity(type, name, None) \in EntityRecords /\ Entity(type, name, None).name = name
    BY DEF Entity, EntityRecords
  <2>2. QED
    BY <1>1, <2>1, CommitKeeps DEF Draw
<1>2. ASSUME NEW name \in Names, NEW parent \in Names, AddSensor(name, parent) PROVE PlanInv'
  <2>1. /\ Entity("Sensor", name, parent) \in EntityRecords
        /\ Entity("Sensor", name, parent).type = "Sensor"
    BY DEF Entity, EntityRecords, EntityTypes
  <2>2. QED
    BY <1>2, <2>1, CommitKeeps DEF AddSensor
<1>3. ASSUME NEW old \in Names, NEW new \in Names, SetName(old, new) PROVE PlanInv'
  BY <1>3, SetNameKeeps
<1>4. ASSUME NEW name \in Names, NEW parent \in Names \union {None},
             SetSensorParent(name, parent)
      PROVE  PlanInv'
  BY <1>4, SetSensorParentKeeps
<1>5. ASSUME NEW name \in Names, DeleteEntity(name) PROVE PlanInv'
  BY <1>5, DeleteEntityKeeps
<1>6. CASE Submit
  <2>1. /\ stage = "drawing" /\ stage' = "adding"
        /\ UNCHANGED <<entities, k, objects, stkObjects, coverage, accesses>>
    BY <1>6 DEF Submit
  <2>2. PlanTypes' /\ PlacedDiffer' /\ Drawn' /\ Created'
    BY <2>1 DEF PlanInv, PlanTypes, PlacedDiffer, Drawn, Created
  <2>3. WellFormed(objects)' /\ Targeted' /\ Paired'
    BY <2>1 DEF PlanInv, WellFormed, Targeted, Paired
  <2>4. QED
    BY <2>2, <2>3 DEF PlanInv
<1>7. CASE UNCHANGED planVars
  <2>1. UNCHANGED <<entities, stage, k, objects, stkObjects, coverage, accesses>>
    BY <1>7 DEF planVars
  <2>2. AircraftObjects' = AircraftObjects
    BY <2>1 DEF AircraftObjects
  <2>3. PlanTypes' /\ PlacedDiffer' /\ Drawn' /\ Created'
    BY <2>1 DEF PlanInv, PlanTypes, PlacedDiffer, Drawn, Created
  <2>4. WellFormed(objects)' /\ Targeted' /\ Paired'
    BY <2>1, <2>2 DEF PlanInv, WellFormed, Targeted, Paired
  <2>5. QED
    BY <2>3, <2>4 DEF PlanInv
<1>8. QED
  BY <1>1, <1>2, <1>3, <1>4, <1>5, <1>6, <1>7, AddPlacedKeeps, AddSensorObjectKeeps,
     AddCoverageKeeps, ComputeAccessesKeeps DEF PlanNext

\* Element i of A is what the builder finds for the aircraft at[i] of the plan.
Flies(at, A) ==
  /\ \A i \in 1..Len(A) :
       /\ at[i] \in 1..Len(entities) /\ entities[at[i]].type = "Aircraft"
       /\ A[i] = stkObjects[entities[at[i]].name]
  /\ \A i, j \in 1..Len(A) : i < j => at[i] < at[j]
  /\ \A j \in 1..Len(entities) : entities[j].type = "Aircraft" =>
       \E i \in 1..Len(A) : at[i] = j

\* The aircraft of the plan, in their order, and what the builder finds for them.
LEMMA PlanesFacts ==
  ASSUME PlanInv, stage # "loaded", k = Len(entities) + 1
  PROVE  /\ IsSeq(AircraftObjects)
         /\ \A i \in 1..Len(AircraftObjects) :
              /\ AircraftObjects[i] \in ToSet(objects)
              /\ AircraftObjects[i].class \in {"Aircraft", "Sensor"}
         /\ \E at : Flies(at, AircraftObjects)
<1> DEFINE T == {e \in ToSet(entities) : e.type = "Aircraft"}
           planes == OfType(entities, "Aircraft")
           n == Len(planes)
           A == AircraftObjects
<1>1. /\ entities \in Seq(EntityRecords) /\ IsSeq(entities) /\ Len(entities) \in Nat
      /\ \A i \in 1..Len(entities) : entities[i] \in ToSet(entities)
  BY EntityFacts DEF PlanInv, PlanTypes
<1>2. planes = Filter(entities, T)
  BY DEF OfType
<1>3. \A e \in T : e.type = "Aircraft"
  OBVIOUS
<1>4. \A j \in 1..Len(entities) : entities[j].type = "Aircraft" => entities[j] \in T
  BY <1>1
<1> HIDE DEF T
<1>5. PICK at : Embeds(at, planes, entities, T, Len(entities))
  BY <1>1, <1>2, FilterFacts
<1>6. IsSeq(planes) /\ n \in Nat /\ DOMAIN planes = 1..n
  BY <1>1, <1>2, FilterFacts, SeqFacts
<1>7. A = [i \in 1..n |-> stkObjects[planes[i].name]]
  BY <1>6 DEF AircraftObjects
<1> HIDE DEF planes, A
<1>8. A = [i \in 1..n |-> A[i]] /\ \A i \in 1..n : A[i] = stkObjects[planes[i].name]
  BY <1>7
<1>9. IsSeq(A) /\ Len(A) = n
  BY <1>6, <1>8, FunctionIsSeq
<1>10. \A i \in 1..n : /\ at[i] \in 1..Len(entities) /\ entities[at[i]].type = "Aircraft"
                       /\ A[i] = stkObjects[entities[at[i]].name]
  BY <1>3, <1>5, <1>8 DEF Embeds
<1>11. /\ \A i, j \in 1..n : i < j => at[i] < at[j]
       /\ \A j \in 1..Len(entities) : entities[j].type = "Aircraft" => \E i \in 1..n : at[i] = j
  BY <1>4, <1>5 DEF Embeds
<1>12. ASSUME NEW i \in 1..n
       PROVE  A[i] \in ToSet(objects) /\ A[i].class \in {"Aircraft", "Sensor"}
  <2>1. /\ Len(objects) = Len(entities)
        /\ \A x \in 1..Len(entities) : objects[x].class = entities[x].type
        /\ \A x \in 1..Len(entities) : \E y \in x..Len(entities) :
             entities[y].name = entities[x].name /\ stkObjects[entities[x].name] = objects[y]
    BY <1>1 DEF PlanInv, Created
  <2>2. at[i] \in 1..Len(entities) /\ entities[at[i]].type = "Aircraft"
    BY <1>10
  <2>3. PICK y \in at[i]..Len(entities) :
          entities[y].name = entities[at[i]].name
          /\ stkObjects[entities[at[i]].name] = objects[y]
    BY <2>1, <2>2
  <2>4. A[i] = objects[y] /\ y \in 1..Len(entities)
    BY <1>1, <1>10, <2>2, <2>3
  <2>5. entities[y].type = "Sensor" \/ y = at[i]
    BY <2>2, <2>3, <2>4 DEF PlanInv, PlacedDiffer
  <2>6. IsSeq(objects)
    BY DEF PlanInv, WellFormed, IsSeq
  <2>7. A[i] \in ToSet(objects)
    BY <2>1, <2>4, <2>6, SeqFacts
  <2>8. QED
    BY <2>1, <2>2, <2>4, <2>5, <2>7
<1>13. Flies(at, A)
  BY <1>9, <1>10, <1>11 DEF Flies
<1> HIDE DEF n
<1>14. QED
  BY <1>9, <1>12, <1>13 DEF A

LEMMA PlanInvPairs == PlanInv => AircraftPairsOnce
<1> SUFFICES ASSUME PlanInv, stage = "built", UniqueNames
             PROVE  /\ \A i \in DOMAIN accesses :
                         /\ accesses[i][1] \in Aircraft /\ accesses[i][2] \in Aircraft
                         /\ accesses[i][1] # accesses[i][2]
                    /\ \A a, b \in Aircraft : a # b =>
                         \E i \in DOMAIN accesses :
                           /\ Joins(accesses[i], a, b)
                           /\ \A j \in DOMAIN accesses : Joins(accesses[j], a, b) => j = i
  BY DEF AircraftPairsOnce
<1> DEFINE A == AircraftObjects
           n == Len(A)
           l == Len(entities)
<1>1. /\ k = l + 1 /\ accesses = Pairs(A) /\ l \in Nat
      /\ DOMAIN entities = 1..l
  BY EntityFacts DEF PlanInv, Paired, PlanTypes
<1>2. IsSeq(A) /\ n \in Nat
  BY <1>1, PlanesFacts, SeqFacts
<1>3. PICK at :
        /\ \A i \in 1..n :
             /\ at[i] \in 1..l /\ entities[at[i]].type = "Aircraft"
             /\ A[i] = stkObjects[entities[at[i]].name]
        /\ \A i, j \in 1..n : i < j => at[i] < at[j]
        /\ \A j \in 1..l : entities[j].type = "Aircraft" => \E i \in 1..n : at[i] = j
  <2>1. \E at : Flies(at, A)
    BY <1>1, PlanesFacts
  <2>2. QED
    BY <2>1 DEF Flies
<1> HIDE DEF A
<1>4. /\ Len(objects) = l
      /\ \A i \in 1..l : objects[i].class = entities[i].type
      /\ \A i \in 1..l : stkObjects[entities[i].name] = objects[i]
  <2>1. /\ Len(objects) = l
        /\ \A i \in 1..l : objects[i].class = entities[i].type
        /\ \A i \in 1..l : \E j \in i..l :
             entities[j].name = entities[i].name /\ stkObjects[entities[i].name] = objects[j]
    <3>1. k - 1 = l
      BY <1>1
    <3> HIDE DEF l
    <3>2. QED
      BY <3>1 DEF PlanInv, Created
  <2>2. \A i, j \in 1..l : entities[i].name = entities[j].name => i = j
    BY <1>1 DEF UniqueNames
  <2>3. \A i \in 1..l : \A j \in i..l : j \in 1..l
    BY <1>1
  <2>4. QED
    BY <2>1, <2>2, <2>3
<1>5. /\ IsSeq(objects) /\ DOMAIN objects = 1..l
      /\ \A i, j \in 1..l : objects[i] = objects[j] => i = j
      /\ \A o : o \in ToSet(objects) <=> \E i \in 1..l : objects[i] = o
  <2>1. IsSeq(objects)
    BY DEF PlanInv, WellFormed, IsSeq
  <2>2. QED
    BY <1>4, <2>1, SeqFacts DEF PlanInv, WellFormed
<1>6. \A i \in 1..n : A[i] = objects[at[i]] /\ A[i] \in Aircraft
  BY <1>3, <1>4, <1>5 DEF Aircraft
<1>7. \A i, j \in 1..n : A[i] = A[j] => i = j
  <2> SUFFICES ASSUME NEW i \in 1..n, NEW j \in 1..n, A[i] = A[j] PROVE i = j
    OBVIOUS
  <2>1. at[i] = at[j] /\ at[i] \in 1..l
    BY <1>3, <1>5, <1>6
  <2>2. (i < j => at[i] < at[j]) /\ (j < i => at[j] < at[i])
    BY <1>3
  <2>3. QED
    BY <1>2, <2>1, <2>2
<1>8. \A o \in Aircraft : \E i \in 1..n : A[i] = o
  <2> SUFFICES ASSUME NEW o \in Aircraft PROVE \E i \in 1..n : A[i] = o
    OBVIOUS
  <2>1. PICK j \in 1..l : objects[j] = o
    BY <1>5 DEF Aircraft
  <2>2. entities[j].type = "Aircraft"
    BY <1>4, <2>1 DEF Aircraft
  <2>3. PICK i \in 1..n : at[i] = j
    BY <1>3, <2>2
  <2>4. QED
    BY <1>6, <2>1, <2>3
<1> DEFINE m == Len(accesses)
<1>9. DOMAIN accesses = 1..m
  BY <1>1, <1>2, PairsFacts, SeqFacts
<1>10. PICK from, to : Couples(from, to, accesses, A)
  BY <1>1, <1>2, PairsFacts
<1>11. \A x \in 1..m :
         /\ from[x] \in 1..n /\ to[x] \in 1..n /\ from[x] < to[x]
         /\ accesses[x][1] = A[from[x]] /\ accesses[x][2] = A[to[x]]
  BY <1>10 DEF Couples
<1>12. \A x \in 1..m :
         /\ accesses[x][1] \in Aircraft /\ accesses[x][2] \in Aircraft
         /\ accesses[x][1] # accesses[x][2]
  <2> SUFFICES ASSUME NEW x \in 1..m
               PROVE  /\ accesses[x][1] \in Aircraft /\ accesses[x][2] \in Aircraft
                      /\ accesses[x][1] # accesses[x][2]
    OBVIOUS
  <2>1. /\ from[x] \in 1..n /\ to[x] \in 1..n /\ from[x] # to[x]
        /\ accesses[x][1] = A[from[x]] /\ accesses[x][2] = A[to[x]]
    BY <1>11
  <2>2. QED
    BY <1>6, <1>7, <2>1
<1>13. ASSUME NEW p \in 1..n, NEW q \in 1..n, p < q
       PROVE  \E i \in 1..m :
                /\ Joins(accesses[i], A[p], A[q])
                /\ \A j \in 1..m : Joins(accesses[j], A[p], A[q]) => j = i
  <2>1. PICK i \in 1..m : from[i] = p /\ to[i] = q
    BY <1>10, <1>13 DEF Couples
  <2>2. Joins(accesses[i], A[p], A[q])
    BY <1>11, <2>1 DEF Joins
  <2>3. ASSUME NEW j \in 1..m, Joins(accesses[j], A[p], A[q]) PROVE j = i
    <3>1. {A[from[j]], A[to[j]]} = {A[p], A[q]}
      BY <1>11, <2>3 DEF Joins
    <3>2. \/ A[from[j]] = A[p] /\ A[to[j]] = A[q]
          \/ A[from[j]] = A[q] /\ A[to[j]] = A[p]
      BY <3>1
    <3>3. from[j] \in 1..n /\ to[j] \in 1..n /\ from[j] < to[j]
      BY <1>11
    <3>4. \/ from[j] = p /\ to[j] = q
          \/ from[j] = q /\ to[j] = p
      BY <1>7, <3>2, <3>3
    <3>5. from[j] = p /\ to[j] = q
      BY <1>2, <1>13, <3>3, <3>4
    <3>6. QED
      BY <1>10, <2>1, <3>5 DEF Couples
  <2>4. QED
    BY <2>2, <2>3
<1>14. ASSUME NEW a \in Aircraft, NEW b \in Aircraft, a # b
       PROVE  \E i \in 1..m :
                Joins(accesses[i], a, b) /\ \A j \in 1..m : Joins(accesses[j], a, b) => j = i
  <2>1. PICK p \in 1..n, q \in 1..n : A[p] = a /\ A[q] = b
    BY <1>8
  <2>2. p < q \/ q < p
    BY <1>2, <1>14, <2>1
  <2>3. \A x : Joins(x, a, b) <=> Joins(x, b, a)
    BY DEF Joins
  <2>4. CASE p < q
    BY <1>13, <2>1, <2>4
  <2>5. CASE q < p
    <3>1. \E i \in 1..m :
            Joins(accesses[i], b, a) /\ \A j \in 1..m : Joins(accesses[j], b, a) => j = i
      BY <1>13, <2>1, <2>5
    <3>2. QED
      BY <2>3, <3>1
  <2>6. QED
    BY <2>2, <2>4, <2>5
<1>15. QED
  BY <1>9, <1>12, <1>14

-----------------------------------------------------------------------------
(* Documents of mvp and v13.                                               *)

\* The id of an object says which it is, and no other packet has such an id.
LEMMA PathFacts ==
  ASSUME NEW o, Standing(o) \/ Mounted(o)
  PROVE  /\ PathOf(o) # <<"document">> /\ PathOf(o) # <<"fom-overlay">>
         /\ \A x : PathOf(o) # <<"CoverageDefinition", x, "FigureOfMerit", x>>
         /\ \A x, y : PathOf(o) # <<"Access", x, y>>
         /\ \A p : (Standing(p) \/ Mounted(p)) /\ PathOf(p) = PathOf(o) => p = o
<1>1. ASSUME NEW p, Standing(p)
      PROVE  /\ PathOf(p) = <<p.class, p.name>> /\ p = Object(p.class, p.name, None)
             /\ p.class \in {"AreaTarget", "Aircraft", "Facility"}
  <2>1. p.under = None
    BY <1>1 DEF Standing, Object
  <2>2. QED
    BY <1>1, <2>1 DEF Standing, PathOf
<1>2. ASSUME NEW p, Mounted(p)
      PROVE  /\ PathOf(p) = <<p.under.class, p.under.name, p.class, p.name>>
             /\ p = Object("Sensor", p.name, Object(p.under.class, p.under.name, None))
             /\ p.under.class \in {"AreaTarget", "Aircraft", "Facility"}
             /\ p.class = "Sensor"
  <2>1. p.under # None /\ Standing(p.under) /\ p = Object("Sensor", p.name, p.under)
    BY <1>2 DEF Mounted
  <2>2. p.class = "Sensor"
    BY <2>1 DEF Object
  <2>3. QED
    BY <1>1, <2>1, <2>2 DEF PathOf
<1>3. \A a, b, c, d, e, f : <<a, b>> # <<c, d, e, f>>
  OBVIOUS
<1>4. \A a, b, c, d, e : <<a, b>> # <<c>> /\ <<a, b>> # <<c, d, e>>
  OBVIOUS
<1>5. \A a, b, c, d, e, f, g : <<a, b, c, d>> # <<e>> /\ <<a, b, c, d>> # <<e, f, g>>
  OBVIOUS
<1>6. CASE Standing(o)
  <2>1. PathOf(o) = <<o.class, o.name>> /\ o = Object(o.class, o.name, None)
    BY <1>1, <1>6
  <2>2. ASSUME NEW p, Standing(p), PathOf(p) = PathOf(o) PROVE p = o
    <3>1. p.class = o.class /\ p.name = o.name /\ p = Object(p.class, p.name, None)
      BY <1>1, <2>1, <2>2
    <3>2. QED
      BY <2>1, <3>1
  <2>3. ASSUME NEW p, Mounted(p), PathOf(p) = PathOf(o) PROVE FALSE
    BY <1>2, <1>3, <2>1, <2>3
  <2>4. QED
    BY <1>3, <1>4, <2>1, <2>2, <2>3
<1>7. CASE Mounted(o)
  <2>1. /\ PathOf(o) = <<o.under.class, o.under.name, o.class, o.name>>
        /\ o = Object("Sensor", o.name, Object(o.under.class, o.under.name, None))
        /\ o.under.class \in {"AreaTarget", "Aircraft", "Facility"}
    BY <1>2, <1>7
  <2>2. ASSUME NEW p, Mounted(p), PathOf(p) = PathOf(o) PROVE p = o
    <3>1. /\ PathOf(p) = <<p.under.class, p.under.name, p.class, p.name>>
          /\ p = Object("Sensor", p.name, Object(p.under.class, p.under.name, None))
      BY <1>2, <2>2
    <3>2. p.under.class = o.under.class /\ p.under.name = o.under.name /\ p.name = o.name
      BY <2>1, <2>2, <3>1
    <3>3. QED
      BY <2>1, <3>1, <3>2
  <2>3. ASSUME NEW p, Standing(p), PathOf(p) = PathOf(o) PROVE FALSE
    BY <1>1, <1>3, <2>1, <2>3
  <2>4. \A x : PathOf(o) # <<"CoverageDefinition", x, "FigureOfMerit", x>>
    BY <2>1
  <2>5. QED
    BY <1>5, <2>1, <2>2, <2>3, <2>4
<1>8. QED
  BY <1>6, <1>7

\* What ExportCZML writes for every scenario, and patch_czml_sensors leaves alone.
Shows(p, o, readable) ==
  /\ p.id = PathOf(o)
  /\ o.class # "Sensor" => p.refs = {} /\ p.kind \in {"platform", "area"}
  /\ o.class \in {"Aircraft", "Facility"} => p.kind = "platform"
  /\ p.area = IF o.class = "AreaTarget" /\ o \in readable THEN o.name ELSE None

Follows(p, objs, cov) ==
  /\ p.area = None
  /\ \/ /\ p.kind = "figureofmerit" /\ p.refs = {} /\ cov # None
        /\ p.id = <<"CoverageDefinition", cov.target, "FigureOfMerit", cov.target>>
     \/ /\ p.kind = "line"
        /\ \E a, b \in ToSet(objs) :
             /\ a.class # "AreaTarget" /\ b.class # "AreaTarget"
             /\ p.id = <<"Access", PathOf(a), PathOf(b)>> /\ p.refs = {PathOf(a), PathOf(b)}

Frame(D, objs, cov, readable) ==
  /\ IsSeq(D) /\ 1 + Len(objs) <= Len(D) /\ D[1] = DocumentPacket
  /\ \A j \in 1..Len(objs) : Shows(D[1 + j], objs[j], readable)
  /\ \A i \in 1..Len(D) : i > 1 + Len(objs) => Follows(D[i], objs, cov)

\* As exported, sensors are conic; as patched, cylinders.
Bare(D, objs, cov, readable) ==
  /\ Frame(D, objs, cov, readable)
  /\ \A j \in 1..Len(objs) : objs[j].class = "Sensor" =>
       D[1 + j] = Packet(PathOf(objs[j]), "conic", {PathOf(objs[j].under)}, 0, None)

Laid(D, objs, cov, readable) ==
  /\ Frame(D, objs, cov, readable)
  /\ \A j \in 1..Len(objs) : objs[j].class = "Sensor" =>
       /\ D[1 + j].kind = "cylinder"
       /\ \/ D[1 + j].refs = {PathOf(objs[j].under)}
          \/ /\ D[1 + j].refs = {}
             /\ \E i \in 1..Len(objs) :
                  /\ objs[i] = objs[j].under
                  /\ D[1 + i].samples = D[1 + j].samples /\ D[1 + i].samples > 0

LEMMA ObjectFacts ==
  ASSUME NEW objs, WellFormed(objs)
  PROVE  /\ IsSeq(objs) /\ Len(objs) \in Nat /\ DOMAIN objs = 1..Len(objs)
         /\ \A o : o \in ToSet(objs) <=> \E i \in 1..Len(objs) : objs[i] = o
         /\ \A i, j \in 1..Len(objs) : objs[i] = objs[j] => i = j
         /\ \A o \in ToSet(objs) :
              /\ Standing(o) \/ (Mounted(o) /\ o.under \in ToSet(objs))
              /\ o.class = "Sensor" => Mounted(o) /\ o.under \in ToSet(objs)
              /\ o.class # "Sensor" =>
                   Standing(o) /\ o.class \in {"AreaTarget", "Aircraft", "Facility"}
<1>1. IsSeq(objs)
  BY DEF WellFormed, IsSeq
<1>2. /\ Len(objs) \in Nat /\ DOMAIN objs = 1..Len(objs)
      /\ \A o : o \in ToSet(objs) <=> \E i \in 1..Len(objs) : objs[i] = o
  BY <1>1, SeqFacts
<1>3. \A i, j \in 1..Len(objs) : objs[i] = objs[j] => i = j
  BY <1>2 DEF WellFormed
<1>4. \A i \in 1..Len(objs) :
        Standing(objs[i]) \/ (Mounted(objs[i]) /\ objs[i].under \in ToSet(objs))
  BY <1>2 DEF WellFormed
<1>5. \A o : /\ Standing(o) => o.class \in {"AreaTarget", "Aircraft", "Facility"}
             /\ Mounted(o) => o.class = "Sensor"
  BY DEF Standing, Mounted, Object
<1>6. QED
  BY <1>1, <1>2, <1>3, <1>4, <1>5

\* Only an object's own packet has its id.
LEMMA UniqueId ==
  ASSUME NEW objs, WellFormed(objs), NEW D, NEW cov, NEW readable,
         Frame(D, objs, cov, readable),
         NEW j \in 1..Len(objs), NEW x \in 1..Len(D), D[x].id = PathOf(objs[j])
  PROVE  x = 1 + j
<1>1. /\ Len(objs) \in Nat /\ objs[j] \in ToSet(objs)
      /\ Standing(objs[j]) \/ Mounted(objs[j])
  BY ObjectFacts
<1>2. CASE x = 1
  BY <1>1, <1>2, PathFacts DEF Frame, DocumentPacket, Packet
<1>3. CASE x > 1 + Len(objs)
  <2>1. Follows(D[x], objs, cov)
    BY <1>3 DEF Frame
  <2>2. QED
    BY <1>1, <2>1, PathFacts DEF Follows
<1>4. CASE x # 1 /\ ~(x > 1 + Len(objs))
  <2>1. x - 1 \in 1..Len(objs) /\ 1 + (x - 1) = x
    BY <1>1, <1>4
  <2>2. D[x].id = PathOf(objs[x - 1])
    BY <2>1 DEF Frame, Shows
  <2>3. objs[x - 1] \in ToSet(objs) /\ (Standing(objs[x - 1]) \/ Mounted(objs[x - 1]))
    BY <2>1, ObjectFacts
  <2>4. objs[x - 1] = objs[j]
    BY <1>1, <2>2, <2>3, PathFacts
  <2>5. x - 1 = j
    BY <2>1, <2>4, ObjectFacts
  <2>6. QED
    BY <2>5
<1>5. QED
  BY <1>2, <1>3, <1>4

LEMMA CylinderOf ==
  ASSUME NEW id, NEW kind, NEW refs, NEW samples, NEW area, NEW p, NEW n,
         p = Packet(id, kind, refs, samples, area)
  PROVE  /\ LET q == [p EXCEPT !.kind = "cylinder"]
            IN q.id = id /\ q.kind = "cylinder" /\ q.refs = refs /\ q.area = area
         /\ LET q == [p EXCEPT !.kind = "cylinder", !.refs = {}, !.samples = n]
            IN /\ q.id = id /\ q.kind = "cylinder" /\ q.refs = {} /\ q.samples = n
               /\ q.area = area
BY DEF Packet

\* patch_czml_sensors: every cone finds its parent's packet.
LEMMA PatchIsLaid ==
  ASSUME NEW objs, WellFormed(objs), NEW D, NEW cov, NEW readable,
         Bare(D, objs, cov, readable)
  PROVE  Laid([i \in DOMAIN D |-> Patched(D[i], D)], objs, cov, readable)
<1> DEFINE n == Len(objs)
           P == [i \in DOMAIN D |-> Patched(D[i], D)]
<1>1. /\ n \in Nat /\ \A j \in 1..n : objs[j] \in ToSet(objs)
      /\ IsSeq(D) /\ Len(D) \in Nat /\ 1 + n <= Len(D) /\ DOMAIN D = 1..Len(D)
      /\ \A q : q \in ToSet(D) <=> \E i \in 1..Len(D) : D[i] = q
      /\ Frame(D, objs, cov, readable)
  BY ObjectFacts, SeqFacts DEF Bare, Frame
<1>2. \A i \in 1..Len(D) : P[i] = Patched(D[i], D)
  BY <1>1
<1>3. P = [i \in 1..Len(D) |-> P[i]]
  BY <1>1
<1> HIDE DEF P
<1>4. IsSeq(P) /\ Len(P) = Len(D)
  BY <1>1, <1>3, FunctionIsSeq
<1>5. \A p : p.kind # "conic" => Patched(p, D) = p
  BY DEF Patched
<1>6. P[1] = DocumentPacket
  BY <1>1, <1>2, <1>5 DEF Frame, DocumentPacket, Packet
<1>7. ASSUME NEW i \in 1..Len(D), i > 1 + n PROVE P[i] = D[i]
  <2>1. D[i].kind # "conic"
    BY <1>1, <1>7 DEF Frame, Follows
  <2>2. QED
    BY <1>2, <1>5, <2>1
<1>8. ASSUME NEW j \in 1..n, objs[j].class # "Sensor" PROVE P[1 + j] = D[1 + j]
  <2>1. D[1 + j].kind # "conic"
    BY <1>1, <1>8 DEF Frame, Shows
  <2>2. 1 + j \in 1..Len(D)
    BY <1>1
  <2>3. QED
    BY <1>2, <1>5, <2>1, <2>2
<1>9. ASSUME NEW j \in 1..n, objs[j].class = "Sensor"
      PROVE  /\ P[1 + j].id = PathOf(objs[j]) /\ P[1 + j].area = None
             /\ P[1 + j].kind = "cylinder"
             /\ \/ P[1 + j].refs = {PathOf(objs[j].under)}
                \/ /\ P[1 + j].refs = {}
                   /\ \E i \in 1..n :
                        /\ objs[i] = objs[j].under
                        /\ P[1 + i].samples = P[1 + j].samples /\ P[1 + i].samples > 0
  <2> DEFINE p == D[1 + j]
             up == CHOOSE q \in ToSet(D) : q.id \in p.refs
  <2>1. p = Packet(PathOf(objs[j]), "conic", {PathOf(objs[j].under)}, 0, None)
    BY <1>9 DEF Bare
  <2>2. Mounted(objs[j]) /\ objs[j].under \in ToSet(objs)
    BY <1>1, <1>9, ObjectFacts
  <2>3. PICK i \in 1..n : objs[i] = objs[j].under
    BY <2>2, ObjectFacts
  <2>4. objs[i].class # "Sensor"
    BY <2>2, <2>3 DEF Mounted, Standing
  <2>5. /\ 1 + i \in 1..Len(D) /\ D[1 + i].id = PathOf(objs[i])
        /\ D[1 + i] \in ToSet(D)
    BY <1>1 DEF Frame, Shows
  <2>6. \A q \in ToSet(D) : q.id = PathOf(objs[i]) => q = D[1 + i]
    <3> SUFFICES ASSUME NEW q \in ToSet(D), q.id = PathOf(objs[i]) PROVE q = D[1 + i]
      OBVIOUS
    <3>1. PICK x \in 1..Len(D) : D[x] = q
      BY <1>1
    <3>2. x = 1 + i
      BY <1>1, <3>1, UniqueId
    <3>3. QED
      BY <3>1, <3>2
  <2>7. p.refs = {PathOf(objs[i])}
    BY <2>1, <2>3 DEF Packet
  <2>8. up = D[1 + i]
    <3>1. \A q \in ToSet(D) : q.id \in p.refs <=> q = D[1 + i]
      BY <2>5, <2>6, <2>7
    <3> HIDE DEF p
    <3>2. QED
      BY <2>5, <3>1
  <2>9. P[1 + j] = Patched(p, D)
    BY <1>1, <1>2
  <2>10. P[1 + i] = D[1 + i]
    BY <1>8, <2>4
  <2>11. Patched(p, D) = IF up.samples > 0
                         THEN [p EXCEPT !.kind = "cylinder", !.refs = {}, !.samples = up.samples]
                         ELSE [p EXCEPT !.kind = "cylinder"]
    <3>1. p.kind = "conic"
      BY <2>1 DEF Packet
    <3>2. QED
      BY <3>1, Zenon DEF Patched, ConePositionAndOrientation
  <2> HIDE DEF up, p
  <2>12. CASE up.samples > 0
    <3>1. /\ P[1 + j].id = PathOf(objs[j]) /\ P[1 + j].kind = "cylinder"
          /\ P[1 + j].refs = {} /\ P[1 + j].samples = up.samples /\ P[1 + j].area = None
      <4>1. P[1 + j] = [p EXCEPT !.kind = "cylinder", !.refs = {}, !.samples = up.samples]
        BY <2>9, <2>11, <2>12
      <4>2. QED
        BY <2>1, <4>1, CylinderOf
    <3>2. P[1 + j].samples = P[1 + i].samples /\ P[1 + i].samples > 0
      BY <2>8, <2>10, <2>12, <3>1
    <3>3. QED
      BY <2>3, <3>1, <3>2
  <2>13. CASE ~(up.samples > 0)
    <3>1. P[1 + j] = [p EXCEPT !.kind = "cylinder"]
      BY <2>9, <2>11, <2>13
    <3>2. QED
      BY <2>1, <3>1, CylinderOf
  <2>14. QED
    BY <2>12, <2>13
<1>10. ASSUME NEW j \in 1..n PROVE Shows(P[1 + j], objs[j], readable)
  <2>1. CASE objs[j].class = "Sensor"
    BY <1>9, <2>1 DEF Shows
  <2>2. CASE objs[j].class # "Sensor"
    BY <1>1, <1>8, <2>2 DEF Frame
  <2>3. QED
    BY <2>1, <2>2
<1>11. ASSUME NEW i \in 1..Len(P), i > 1 + n PROVE Follows(P[i], objs, cov)
  BY <1>1, <1>4, <1>7, <1>11 DEF Frame
<1>12. Frame(P, objs, cov, readable)
  BY <1>1, <1>4, <1>6, <1>10, <1>11 DEF Frame
<1>13. Laid(P, objs, cov, readable)
  BY <1>9, <1>12 DEF Laid
<1>14. QED
  BY <1>13 DEF P

Resolves(d) ==
  \A i \in 1..Len(d) : \A r \in d[i].refs :
    \E j \in 1..Len(d) :
      /\ d[j].id = r /\ HasPosition(d[j])
      /\ \A x \in 1..Len(d) : d[x].id = r => x = j

\* Whatever a laid document refers to is the packet of an object.
LEMMA LaidRefs ==
  ASSUME NEW objs, WellFormed(objs), NEW D, NEW cov, NEW readable,
         Laid(D, objs, cov, readable), NEW i \in 1..Len(D), NEW r \in D[i].refs
  PROVE  \E o \in ToSet(objs) :
           o.class # "AreaTarget" /\ r = PathOf(o) /\ (Standing(o) \/ Mounted(o))
<1> DEFINE n == Len(objs)
<1>1. /\ n \in Nat /\ IsSeq(D) /\ Len(D) \in Nat /\ 1 + n <= Len(D)
      /\ Frame(D, objs, cov, readable)
  BY ObjectFacts, SeqFacts DEF Laid, Frame
<1>2. \A o \in ToSet(objs) : Standing(o) \/ Mounted(o)
  BY ObjectFacts
<1>3. CASE i = 1
  BY <1>1, <1>3 DEF Frame, DocumentPacket, Packet
<1>4. CASE i > 1 + n
  <2>1. Follows(D[i], objs, cov)
    BY <1>1, <1>4 DEF Frame
  <2>2. QED
    BY <1>2, <2>1 DEF Follows
<1>5. CASE i # 1 /\ ~(i > 1 + n)
  <2>1. i - 1 \in 1..n /\ 1 + (i - 1) = i
    BY <1>1, <1>5
  <2>2. objs[i - 1] \in ToSet(objs)
    BY <2>1, ObjectFacts
  <2>3. objs[i - 1].class = "Sensor" /\ D[i].refs = {PathOf(objs[i - 1].under)}
    BY <1>1, <2>1 DEF Laid, Frame, Shows
  <2>4. Mounted(objs[i - 1]) /\ objs[i - 1].under \in ToSet(objs)
    BY <2>2, <2>3, ObjectFacts
  <2>5. objs[i - 1].under.class # "AreaTarget"
    BY <2>4 DEF Mounted
  <2>6. QED
    BY <1>2, <2>3, <2>4, <2>5
<1>6. QED
  BY <1>3, <1>4, <1>5

LEMMA LaidResolves ==
  ASSUME NEW objs, WellFormed(objs), NEW D, NEW cov, NEW readable,
         Laid(D, objs, cov, readable)
  PROVE  Resolves(D)
<1> DEFINE n == Len(objs)
<1>1. /\ n \in Nat /\ IsSeq(D) /\ Len(D) \in Nat /\ 1 + n <= Len(D)
      /\ Frame(D, objs, cov, readable)
  BY ObjectFacts, SeqFacts DEF Laid, Frame
<1>2. ASSUME NEW o \in ToSet(objs), o.class # "AreaTarget"
      PROVE  \E j \in 1..Len(D) :
               /\ D[j].id = PathOf(o) /\ HasPosition(D[j])
               /\ \A x \in 1..Len(D) : D[x].id = PathOf(o) => x = j
  <2>1. PICK j \in 1..n : objs[j] = o
    BY ObjectFacts
  <2>2. 1 + j \in 1..Len(D) /\ D[1 + j].id = PathOf(o)
    BY <1>1, <2>1 DEF Frame, Shows
  <2>3. o.class \in {"Aircraft", "Facility", "Sensor"}
    BY <1>2, ObjectFacts
  <2>4. HasPosition(D[1 + j])
    BY <1>1, <2>1, <2>3 DEF Laid, Frame, Shows, HasPosition
  <2>5. \A x \in 1..Len(D) : D[x].id = PathOf(o) => x = 1 + j
    BY <1>1, <2>1, UniqueId
  <2>6. QED
    BY <2>2, <2>4, <2>5
<1>3. \A i \in 1..Len(D) : \A r \in D[i].refs :
        \E o \in ToSet(objs) : o.class # "AreaTarget" /\ r = PathOf(o)
  BY LaidRefs
<1>4. QED
  BY <1>2, <1>3 DEF Resolves

\* Cones of every service, in a document d of the objects objs.
Rides(d, objs) ==
  \A i \in 1..Len(d) :
    /\ d[i].kind # "conic"
    /\ d[i].kind = "cylinder" =>
         \E o \in ToSet(objs) :
           /\ o.class = "Sensor" /\ d[i].id = PathOf(o)
           /\ \/ d[i].refs = {PathOf(o.under)}
              \/ \E q \in ToSet(d) :
                   q.id = PathOf(o.under) /\ q.samples = d[i].samples /\ q.samples > 0
    /\ d[i].kind \in {"lobe", "cone"} =>
         \E q \in ToSet(d) : {q.id} = d[i].refs /\ d[i].samples <= q.samples

LEMMA LaidRides ==
  ASSUME NEW objs, WellFormed(objs), NEW D, NEW cov, NEW readable,
         Laid(D, objs, cov, readable)
  PROVE  /\ Rides(D, objs)
         /\ \A i \in 1..Len(D) : D[i].kind # "overlay"
         /\ \A i \in 1..Len(D) : D[i].kind = "figureofmerit" => cov # None
<1> DEFINE n == Len(objs)
<1>1. /\ n \in Nat /\ IsSeq(D) /\ Len(D) \in Nat /\ 1 + n <= Len(D)
      /\ Frame(D, objs, cov, readable)
      /\ \A q : q \in ToSet(D) <=> \E i \in 1..Len(D) : D[i] = q
  BY ObjectFacts, SeqFacts DEF Laid, Frame
<1>2. ASSUME NEW i \in 1..Len(D)
      PROVE  \/ D[i].kind \in {"document", "platform", "area", "line"}
             \/ D[i].kind = "figureofmerit" /\ cov # None
             \/ i - 1 \in 1..n /\ objs[i - 1].class = "Sensor" /\ D[i].kind = "cylinder"
  <2>1. CASE i = 1
    BY <1>1, <2>1 DEF Frame, DocumentPacket, Packet
  <2>2. CASE i > 1 + n
    BY <1>1, <2>2 DEF Frame, Follows
  <2>3. CASE i # 1 /\ ~(i > 1 + n)
    <3>1. i - 1 \in 1..n /\ 1 + (i - 1) = i
      BY <1>1, <2>3
    <3>2. CASE objs[i - 1].class = "Sensor"
      BY <3>1, <3>2 DEF Laid
    <3>3. CASE objs[i - 1].class # "Sensor"
      BY <1>1, <3>1, <3>3 DEF Frame, Shows
    <3>4. QED
      BY <3>2, <3>3
  <2>4. QED
    BY <2>1, <2>2, <2>3
<1>3. ASSUME NEW i \in 1..Len(D), D[i].kind = "cylinder"
      PROVE  \E o \in ToSet(objs) :
               /\ o.class = "Sensor" /\ D[i].id = PathOf(o)
               /\ \/ D[i].refs = {PathOf(o.under)}
                  \/ \E q \in ToSet(D) :
                       q.id = PathOf(o.under) /\ q.samples = D[i].samples /\ q.samples > 0
  <2> DEFINE j == i - 1
  <2>1. j \in 1..n /\ 1 + j = i /\ objs[j].class = "Sensor"
    BY <1>2, <1>3
  <2> HIDE DEF j
  <2>2. objs[j] \in ToSet(objs) /\ D[i].id = PathOf(objs[j])
    BY <1>1, <2>1, ObjectFacts DEF Frame, Shows
  <2>3. \/ D[i].refs = {PathOf(objs[j].under)}
        \/ \E x \in 1..n :
             /\ objs[x] = objs[j].under
             /\ D[1 + x].samples = D[i].samples /\ D[1 + x].samples > 0
    BY <2>1 DEF Laid
  <2>4. \A x \in 1..n : 1 + x \in 1..Len(D) /\ D[1 + x] \in ToSet(D)
                        /\ D[1 + x].id = PathOf(objs[x])
    BY <1>1 DEF Frame, Shows
  <2>5. QED
    BY <2>1, <2>2, <2>3, <2>4
<1>4. QED
  BY <1>2, <1>3 DEF Rides

-----------------------------------------------------------------------------
(* The polygon and the overlay of a document.                              *)

PolygonOf(d) ==
  LET polygons == Filter(d, {p \in ToSet(d) : p.area # None})
  IN IF polygons = <<>> THEN None ELSE polygons[1].area

OverlaysOf(d) == Filter(d, {p \in ToSet(d) : p.kind = "overlay"})

OverlayPacket(polygon) == Packet(<<"fom-overlay">>, "overlay", {}, 0, polygon)

LEMMA PolygonFacts ==
  ASSUME NEW d, IsSeq(d)
  PROVE  /\ PolygonOf(d) = None => \A i \in 1..Len(d) : d[i].area = None
         /\ PolygonOf(d) # None =>
              \E i \in 1..Len(d) :
                /\ d[i].area = PolygonOf(d)
                /\ \A j \in 1..Len(d) : j < i => d[j].area = None
<1> DEFINE T == {p \in ToSet(d) : p.area # None}
           f == Filter(d, T)
<1>1. PolygonOf(d) = IF f = <<>> THEN None ELSE f[1].area
  BY DEF PolygonOf
<1>2. \A i \in 1..Len(d) : d[i] \in T <=> d[i].area # None
  BY SeqFacts
<1> HIDE DEF T
<1>3. /\ f = <<>> => \A i \in 1..Len(d) : d[i] \notin T
      /\ f # <<>> => \E i \in 1..Len(d) :
                       /\ f[1] = d[i] /\ d[i] \in T
                       /\ \A j \in 1..Len(d) : j < i => d[j] \notin T
  BY FilterFirst
<1> HIDE DEF f
<1>4. QED
  BY <1>1, <1>2, <1>3

LEMMA PolygonKept ==
  ASSUME NEW d, IsSeq(d), PolygonOf(d) # None, NEW p
  PROVE  PolygonOf(Append(d, p)) = PolygonOf(d)
<1> DEFINE g == Append(d, p)
<1>1. /\ IsSeq(g) /\ Len(g) = Len(d) + 1 /\ Len(d) \in Nat
      /\ \A i \in 1..Len(d) : g[i] = d[i]
  BY AppendFacts, SeqFacts
<1> HIDE DEF g
<1>2. PICK i \in 1..Len(d) :
        d[i].area = PolygonOf(d) /\ \A j \in 1..Len(d) : j < i => d[j].area = None
  BY PolygonFacts
<1>3. i \in 1..Len(g) /\ g[i].area = PolygonOf(d)
  BY <1>1, <1>2
<1>4. PolygonOf(g) # None
  BY <1>1, <1>3, PolygonFacts
<1>5. PICK x \in 1..Len(g) :
        g[x].area = PolygonOf(g) /\ \A j \in 1..Len(g) : j < x => g[j].area = None
  BY <1>1, <1>4, PolygonFacts
<1>6. ~(i < x)
  BY <1>3, <1>5
<1>7. ~(x < i)
  <2> SUFFICES ASSUME x < i PROVE FALSE
    OBVIOUS
  <2>1. x \in 1..Len(d) /\ g[x] = d[x]
    BY <1>1
  <2>2. QED
    BY <1>2, <1>4, <1>5, <2>1
<1>8. x = i
  BY <1>1, <1>6, <1>7
<1>9. QED
  BY <1>3, <1>5, <1>8 DEF g

\* A document without an overlay, and that document with one at its end.
LEMMA OverlayFacts ==
  ASSUME NEW d, IsSeq(d), \A i \in 1..Len(d) : d[i].kind # "overlay",
         NEW p, p.kind = "overlay"
  PROVE  /\ OverlaysOf(d) = <<>> /\ Len(OverlaysOf(d)) = 0
         /\ Len(OverlaysOf(Append(d, p))) = 1 /\ OverlaysOf(Append(d, p))[1] = p
         /\ OverlaysOf(Append(d, p)) # <<>>
         /\ Filter(d, {q \in ToSet(d) : q.kind # "overlay"}) = d
         /\ Filter(Append(d, p), {q \in ToSet(Append(d, p)) : q.kind # "overlay"}) = d
<1> DEFINE g == Append(d, p)
           n == Len(d)
<1>1. /\ IsSeq(g) /\ Len(g) = n + 1 /\ n \in Nat /\ g[n + 1] = p
      /\ \A i \in 1..n : g[i] = d[i]
      /\ d = [i \in 1..n |-> d[i]]
  BY AppendFacts, SeqFacts
<1> HIDE DEF g
<1>2. OverlaysOf(d) = <<>>
  <2> DEFINE T == {q \in ToSet(d) : q.kind = "overlay"}
  <2>1. \A i \in 1..n : d[i] \notin T
    OBVIOUS
  <2> HIDE DEF T
  <2>2. Filter(d, T) = [i \in 1..0 |-> d[i]]
    <3>1. /\ 0 \in Nat /\ 0 <= Len(d)
          /\ \A i \in 1..0 : d[i] \in T
          /\ \A i \in 1..Len(d) : i > 0 => d[i] \notin T
      BY <1>1, <2>1
    <3>2. QED
      BY <3>1, FilterPrefix
  <2>3. [i \in 1..0 |-> d[i]] = <<>>
    OBVIOUS
  <2>4. QED
    BY <2>2, <2>3 DEF OverlaysOf, T
<1>3. Filter(d, {q \in ToSet(d) : q.kind # "overlay"}) = d
  <2> DEFINE T == {q \in ToSet(d) : q.kind # "overlay"}
  <2>1. \A i \in 1..n : d[i] \in T
    BY SeqFacts
  <2> HIDE DEF T
  <2>2. n <= Len(d) /\ \A i \in 1..Len(d) : i > n => d[i] \notin T
    BY <1>1
  <2>3. Filter(d, T) = [i \in 1..n |-> d[i]]
    <3>1. n \in Nat
      BY <1>1
    <3>2. QED
      BY <2>1, <2>2, <3>1, FilterPrefix
  <2>4. QED
    BY <1>1, <2>3 DEF T
<1>4. Filter(g, {q \in ToSet(g) : q.kind # "overlay"}) = d
  <2> DEFINE T == {q \in ToSet(g) : q.kind # "overlay"}
  <2>1. \A i \in 1..n : g[i] \in T
    <3>1. \A i \in 1..n : i \in 1..Len(g)
      BY <1>1
    <3>2. QED
      BY <1>1, <3>1, SeqFacts
  <2>2. n <= Len(g) /\ \A i \in 1..Len(g) : i > n => g[i] \notin T
    <3>1. \A i \in 1..Len(g) : i > n => i = n + 1
      BY <1>1
    <3>2. QED
      BY <1>1, <3>1
  <2> HIDE DEF T
  <2>3. Filter(g, T) = [i \in 1..n |-> g[i]]
    <3>1. n \in Nat /\ IsSeq(g)
      BY <1>1
    <3>2. QED
      BY <2>1, <2>2, <3>1, FilterPrefix
  <2>4. [i \in 1..n |-> g[i]] = [i \in 1..n |-> d[i]]
    BY <1>1
  <2>5. QED
    BY <1>1, <2>3, <2>4 DEF T
<1>5. Len(OverlaysOf(g)) = 1 /\ OverlaysOf(g)[1] = p /\ OverlaysOf(g) # <<>>
  <2> DEFINE T == {q \in ToSet(g) : q.kind = "overlay"}
             f == Filter(g, T)
  <2>1. n + 1 \in 1..Len(g) /\ g[n + 1] \in T
    <3>1. n + 1 \in 1..Len(g)
      BY <1>1
    <3>2. QED
      BY <1>1, <3>1, SeqFacts
  <2>2. \A q \in T : q.kind = "overlay"
    OBVIOUS
  <2> HIDE DEF T
  <2>3. PICK at : Embeds(at, f, g, T, Len(g))
    BY <1>1, FilterFacts
  <2>4. Len(f) \in Nat
    BY <1>1, FilterFacts, SeqFacts
  <2> HIDE DEF f
  <2>5. \A i \in 1..Len(f) : at[i] = n + 1
    <3> SUFFICES ASSUME NEW i \in 1..Len(f) PROVE at[i] = n + 1
      OBVIOUS
    <3>1. at[i] \in 1..Len(g) /\ f[i] = g[at[i]] /\ f[i] \in T
      BY <2>3 DEF Embeds
    <3>2. at[i] \notin 1..n
      BY <1>1, <2>2, <3>1
    <3>3. QED
      BY <1>1, <3>1, <3>2
  <2>6. PICK i \in 1..Len(f) : at[i] = n + 1
    BY <2>1, <2>3 DEF Embeds
  <2>7. 1 \in 1..Len(f) /\ f[1] = p
    <3>1. 1 \in 1..Len(f)
      BY <2>4
    <3>2. QED
      BY <1>1, <2>3, <2>5, <3>1 DEF Embeds
  <2>8. ~(2 \in 1..Len(f))
    <3> SUFFICES ASSUME 2 \in 1..Len(f) PROVE FALSE
      OBVIOUS
    <3>1. at[1] < at[2]
      BY <2>3, <2>7 DEF Embeds
    <3>2. QED
      BY <1>1, <2>5, <2>7, <3>1
  <2>9. Len(f) = 1
    <3> DEFINE m == Len(f)
    <3>1. m \in Nat /\ 1 \in 1..m /\ ~(2 \in 1..m)
      BY <2>4, <2>7, <2>8
    <3> HIDE DEF m
    <3>2. m = 1
      BY <3>1
    <3>3. QED
      BY <3>2 DEF m
  <2>10. f # <<>>
    <3>1. Len(<<>>) = 0
      OBVIOUS
    <3>2. QED
      BY <2>9, <3>1
  <2>11. QED
    BY <2>7, <2>9, <2>10 DEF OverlaysOf, f, T
<1>6. Len(<<>>) = 0
  OBVIOUS
<1>7. QED
  BY <1>2, <1>3, <1>4, <1>5, <1>6 DEF g

-----------------------------------------------------------------------------
(* Documents of the other services.                                        *)

Assembled(h, b, c, d) == <<h>> \o b \o c \o d

\* s starts with h and the elements of b; what follows is an element of c or d.
Arranged(s, h, b, c, d) ==
  /\ IsSeq(s) /\ 1 + Len(b) <= Len(s) /\ s[1] = h
  /\ Len(s) = 1 + Len(b) + Len(c) + Len(d)
  /\ \A j \in 1..Len(b) : s[1 + j] = b[j]
  /\ \A i \in 1..Len(s) : i > 1 + Len(b) =>
       (\E j \in 1..Len(c) : s[i] = c[j]) \/ (\E j \in 1..Len(d) : s[i] = d[j])

LEMMA Layout ==
  ASSUME NEW h, NEW b, IsSeq(b), NEW c, IsSeq(c), NEW d, IsSeq(d)
  PROVE  Arranged(Assembled(h, b, c, d), h, b, c, d)
<1> DEFINE e == <<h>>
           f == e \o b
           g == f \o c
           s == g \o d
<1>1. IsSeq(e) /\ Len(e) = 1 /\ e[1] = h
  <2>1. e \in Seq({h}) /\ Len(e) = 1 /\ e[1] = h
    OBVIOUS
  <2> HIDE DEF e
  <2>2. QED
    BY <2>1, SeqIn
<1>2. Len(b) \in Nat /\ Len(c) \in Nat /\ Len(d) \in Nat
  BY SeqFacts
<1> HIDE DEF e
<1>3. /\ IsSeq(f) /\ Len(f) = 1 + Len(b) /\ f[1] = h
      /\ \A j \in 1..Len(b) : f[1 + j] = b[j]
  <2>1. /\ IsSeq(f) /\ Len(f) = Len(e) + Len(b)
        /\ \A i \in 1..Len(e) : f[i] = e[i]
        /\ \A i \in 1..Len(b) : f[Len(e) + i] = b[i]
    <3>1. IsSeq(e)
      BY <1>1
    <3>2. QED
      BY <3>1, ConcatFacts
  <2> HIDE DEF f
  <2>2. QED
    BY <1>1, <2>1
<1> HIDE DEF f
<1>4. /\ IsSeq(g) /\ Len(g) = 1 + Len(b) + Len(c)
      /\ \A j \in 1..1 + Len(b) : g[j] = f[j]
      /\ \A j \in 1..Len(c) : g[1 + Len(b) + j] = c[j]
  <2>1. /\ IsSeq(g) /\ Len(g) = Len(f) + Len(c)
        /\ \A i \in 1..Len(f) : g[i] = f[i]
        /\ \A i \in 1..Len(c) : g[Len(f) + i] = c[i]
    <3>1. IsSeq(f)
      BY <1>3
    <3>2. QED
      BY <3>1, ConcatFacts
  <2> HIDE DEF g
  <2>2. QED
    BY <1>3, <2>1
<1> HIDE DEF g
<1>5. /\ IsSeq(s) /\ Len(s) = 1 + Len(b) + Len(c) + Len(d)
      /\ \A j \in 1..1 + Len(b) + Len(c) : s[j] = g[j]
      /\ \A j \in 1..Len(d) : s[1 + Len(b) + Len(c) + j] = d[j]
  <2>1. /\ IsSeq(s) /\ Len(s) = Len(g) + Len(d)
        /\ \A i \in 1..Len(g) : s[i] = g[i]
        /\ \A i \in 1..Len(d) : s[Len(g) + i] = d[i]
    <3>1. IsSeq(g)
      BY <1>4
    <3>2. QED
      BY <3>1, ConcatFacts
  <2> HIDE DEF s
  <2>2. QED
    BY <1>4, <2>1
<1> HIDE DEF s
<1>6. s[1] = h /\ \A j \in 1..Len(b) : s[1 + j] = b[j]
  <2>1. 1 \in 1..1 + Len(b) /\ 1 \in 1..1 + Len(b) + Len(c)
    BY <1>2
  <2>2. \A j \in 1..Len(b) : 1 + j \in 1..1 + Len(b) /\ 1 + j \in 1..1 + Len(b) + Len(c)
    BY <1>2
  <2>3. QED
    BY <1>3, <1>4, <1>5, <2>1, <2>2
<1>7. ASSUME NEW i \in 1..Len(s), i > 1 + Len(b)
      PROVE  (\E j \in 1..Len(c) : s[i] = c[j]) \/ (\E j \in 1..Len(d) : s[i] = d[j])
  <2>1. CASE i <= 1 + Len(b) + Len(c)
    <3> DEFINE j == i - (1 + Len(b))
    <3>1. j \in 1..Len(c) /\ i = 1 + Len(b) + j /\ i \in 1..1 + Len(b) + Len(c)
      BY <1>2, <1>7, <2>1
    <3> HIDE DEF j
    <3>2. s[i] = c[j]
      BY <1>4, <1>5, <3>1
    <3>3. QED
      BY <3>1, <3>2
  <2>2. CASE i > 1 + Len(b) + Len(c)
    <3> DEFINE j == i - (1 + Len(b) + Len(c))
    <3>1. j \in 1..Len(d) /\ i = 1 + Len(b) + Len(c) + j
      BY <1>2, <1>5, <2>2
    <3> HIDE DEF j
    <3>2. s[i] = d[j]
      BY <1>5, <3>1
    <3>3. QED
      BY <3>1, <3>2
  <2>3. QED
    BY <1>2, <1>5, <2>1, <2>2
<1>8. 1 + Len(b) <= Len(s)
  BY <1>2, <1>5
<1>9. Assembled(h, b, c, d) = s
  BY DEF Assembled, s, g, f, e
<1>10. QED
  <2>1. Arranged(s, h, b, c, d)
    BY <1>5, <1>6, <1>7, <1>8 DEF Arranged
  <2>2. QED
    BY <1>9, <2>1

\* A finished document without an overlay.
Sound(d, objs) ==
  /\ IsSeq(d) /\ 1 <= Len(d) /\ d[1] = DocumentPacket
  /\ \A i \in 1..Len(d) : d[i].kind # "overlay"
  /\ Resolves(d) /\ Rides(d, objs)

\* PacketOK, of a scenario's objects and the names an area may have.
Fits(p, objs, names) ==
  /\ p = Packet(p.id, p.kind, p.refs, p.samples, p.area)
  /\ p.kind \in PacketKinds /\ p.samples \in 0..MaxSamples /\ p.area \in names
  /\ p.refs \subseteq {PathOf(o) : o \in ToSet(objs)} \union {<<o.name>> : o \in ToSet(objs)}

AllFit(d, objs, names) == \A i \in 1..Len(d) : Fits(d[i], objs, names)

\* What mvp3 adds to its two aircraft of a and b samples.
Tracks(p, a, b) ==
  /\ p = Packet(p.id, p.kind, p.refs, p.samples, None) /\ p.samples \in Nat
  /\ \/ /\ p.kind = "lobe" /\ p.refs = {<<"EmitterAC">>} /\ p.samples <= a
        /\ \E x, y, z : p.id = <<x, y, z>>
     \/ /\ p.kind = "cone" /\ p.refs = {<<"RadarAC">>} /\ p.samples <= b
        /\ \E x, y : p.id = <<x, y>>
     \/ /\ p.kind = "line" /\ p.refs = {<<"EmitterAC">>, <<"RadarAC">>} /\ p.samples = 0
        /\ \E x, y, z : p.id = <<x, y, z>>

LEMMA TracksAreSound ==
  ASSUME NEW D, IsSeq(D), 3 <= Len(D), NEW a \in Nat, NEW b \in Nat,
         D[1] = DocumentPacket,
         D[2] = Packet(<<"EmitterAC">>, "platform", {}, a, None),
         D[3] = Packet(<<"RadarAC">>, "platform", {}, b, None),
         \A i \in 1..Len(D) : i > 3 => Tracks(D[i], a, b),
         NEW objs
  PROVE  Sound(D, objs)
<1>1. /\ Len(D) \in Nat /\ 1 \in 1..Len(D) /\ 2 \in 1..Len(D) /\ 3 \in 1..Len(D)
      /\ \A i \in 1..Len(D) : i = 1 \/ i = 2 \/ i = 3 \/ i > 3
      /\ D[2] \in ToSet(D) /\ D[3] \in ToSet(D)
  BY SeqFacts
<1>2. /\ D[1].id = <<"document">> /\ D[1].kind = "document" /\ D[1].refs = {}
      /\ D[2].id = <<"EmitterAC">> /\ D[2].kind = "platform" /\ D[2].refs = {}
      /\ D[2].samples = a
      /\ D[3].id = <<"RadarAC">> /\ D[3].kind = "platform" /\ D[3].refs = {}
      /\ D[3].samples = b
  BY DEF DocumentPacket, Packet
<1>3. \A i \in 1..Len(D) : i > 3 =>
        /\ D[i].id # <<"EmitterAC">> /\ D[i].id # <<"RadarAC">>
        /\ D[i].kind \in {"lobe", "cone", "line"}
        /\ D[i].refs \subseteq {<<"EmitterAC">>, <<"RadarAC">>}
        /\ D[i].kind = "lobe" => D[i].refs = {D[2].id} /\ D[i].samples <= D[2].samples
        /\ D[i].kind = "cone" => D[i].refs = {D[3].id} /\ D[i].samples <= D[3].samples
  <2>1. \A x, y, z, w : <<x, y, z>> # <<w>> /\ <<x, y>> # <<w>>
    OBVIOUS
  <2> SUFFICES ASSUME NEW i \in 1..Len(D), i > 3
               PROVE  /\ D[i].id # <<"EmitterAC">> /\ D[i].id # <<"RadarAC">>
                      /\ D[i].kind \in {"lobe", "cone", "line"}
                      /\ D[i].refs \subseteq {<<"EmitterAC">>, <<"RadarAC">>}
                      /\ D[i].kind = "lobe" =>
                           D[i].refs = {D[2].id} /\ D[i].samples <= D[2].samples
                      /\ D[i].kind = "cone" =>
                           D[i].refs = {D[3].id} /\ D[i].samples <= D[3].samples
    OBVIOUS
  <2>2. Tracks(D[i], a, b)
    OBVIOUS
  <2>3. (\E x, y, z : D[i].id = <<x, y, z>>) \/ (\E x, y : D[i].id = <<x, y>>)
    BY <2>2 DEF Tracks
  <2>4. D[i].id # <<"EmitterAC">> /\ D[i].id # <<"RadarAC">>
    BY <2>1, <2>3
  <2>5. \/ D[i].kind = "lobe" /\ D[i].refs = {<<"EmitterAC">>} /\ D[i].samples <= a
        \/ D[i].kind = "cone" /\ D[i].refs = {<<"RadarAC">>} /\ D[i].samples <= b
        \/ D[i].kind = "line" /\ D[i].refs = {<<"EmitterAC">>, <<"RadarAC">>}
    BY <2>2 DEF Tracks
  <2>6. QED
    BY <1>2, <2>4, <2>5
<1>4. <<"document">> # <<"EmitterAC">> /\ <<"document">> # <<"RadarAC">>
      /\ <<"EmitterAC">> # <<"RadarAC">>
  OBVIOUS
<1>5. \A i \in 1..Len(D) : D[i].kind # "overlay"
  BY <1>1, <1>2, <1>3
<1>6. Resolves(D)
  <2>1. \A i \in 1..Len(D) : D[i].refs \subseteq {<<"EmitterAC">>, <<"RadarAC">>}
    BY <1>1, <1>2, <1>3
  <2>2. HasPosition(D[2]) /\ HasPosition(D[3])
    BY <1>2 DEF HasPosition
  <2>3. \A x \in 1..Len(D) : D[x].id = <<"EmitterAC">> => x = 2
    BY <1>1, <1>2, <1>3, <1>4
  <2>4. \A x \in 1..Len(D) : D[x].id = <<"RadarAC">> => x = 3
    BY <1>1, <1>2, <1>3, <1>4
  <2>5. ASSUME NEW r \in {<<"EmitterAC">>, <<"RadarAC">>}
        PROVE  \E j \in 1..Len(D) :
                 /\ D[j].id = r /\ HasPosition(D[j])
                 /\ \A x \in 1..Len(D) : D[x].id = r => x = j
    <3>1. CASE r = <<"EmitterAC">>
      <4>1. 2 \in 1..Len(D) /\ D[2].id = r
        BY <1>1, <1>2, <3>1
      <4>2. QED
        BY <2>2, <2>3, <3>1, <4>1
    <3>2. CASE r = <<"RadarAC">>
      <4>1. 3 \in 1..Len(D) /\ D[3].id = r
        BY <1>1, <1>2, <3>2
      <4>2. QED
        BY <2>2, <2>4, <3>2, <4>1
    <3>3. QED
      BY <3>1, <3>2
  <2>6. \A i \in 1..Len(D) : \A r \in D[i].refs : r \in {<<"EmitterAC">>, <<"RadarAC">>}
    BY <2>1
  <2>7. QED
    BY <2>5, <2>6 DEF Resolves
<1>7. Rides(D, objs)
  <2> SUFFICES ASSUME NEW i \in 1..Len(D)
               PROVE  /\ D[i].kind # "conic" /\ D[i].kind # "cylinder"
                      /\ D[i].kind \in {"lobe", "cone"} =>
                           \E q \in ToSet(D) : {q.id} = D[i].refs /\ D[i].samples <= q.samples
    BY DEF Rides
  <2>1. CASE i > 3
    BY <1>1, <1>3, <2>1
  <2>2. CASE ~(i > 3)
    BY <1>1, <1>2, <2>2
  <2>3. QED
    BY <2>1, <2>2
<1>8. QED
  BY <1>1, <1>5, <1>6, <1>7 DEF Sound

\* Of four elements, the two in T.
LEMMA FilterOfFour ==
  ASSUME NEW a, NEW b, NEW c, NEW d, NEW T
  PROVE  LET f == Filter(<<a, b, c, d>>, T) IN
         /\ a \in T /\ b \notin T /\ c \in T /\ d \notin T =>
              IsSeq(f) /\ Len(f) = 2 /\ f[1] = a /\ f[2] = c
         /\ a \notin T /\ b \in T /\ c \notin T /\ d \in T =>
              IsSeq(f) /\ Len(f) = 2 /\ f[1] = b /\ f[2] = d
<1> DEFINE s == <<a, b, c, d>>
           u == CHOOSE u : Sieves(u, s, T, 4)
<1>1. Len(s) = 4 /\ s[1] = a /\ s[2] = b /\ s[3] = c /\ s[4] = d
  OBVIOUS
<1> HIDE DEF s
<1>2. Sieves(u, s, T, 4)
  BY SievesExists
<1>3. Filter(s, T) = u[4]
  BY <1>1 DEF Filter, Sieves
<1> HIDE DEF u
<1>4. /\ u[0] = <<>>
      /\ \A i \in 1..4 : u[i] = IF s[i] \in T THEN Append(u[i - 1], s[i]) ELSE u[i - 1]
  BY <1>2, SievesFacts
<1>5. /\ 1 \in 1..4 /\ 2 \in 1..4 /\ 3 \in 1..4 /\ 4 \in 1..4
      /\ 1 - 1 = 0 /\ 2 - 1 = 1 /\ 3 - 1 = 2 /\ 4 - 1 = 3
  OBVIOUS
<1>6. u[1] = IF a \in T THEN Append(u[0], a) ELSE u[0]
  BY <1>1, <1>4, <1>5
<1>7. u[2] = IF b \in T THEN Append(u[1], b) ELSE u[1]
  BY <1>1, <1>4, <1>5
<1>8. u[3] = IF c \in T THEN Append(u[2], c) ELSE u[2]
  BY <1>1, <1>4, <1>5
<1>9. u[4] = IF d \in T THEN Append(u[3], d) ELSE u[3]
  BY <1>1, <1>4, <1>5
<1>10. ASSUME NEW x, NEW y
       PROVE  LET f == Append(Append(<<>>, x), y)
              IN IsSeq(f) /\ Len(f) = 2 /\ f[1] = x /\ f[2] = y
  <2> DEFINE e == <<>>
             g == Append(e, x)
             f == Append(g, y)
  <2>1. IsSeq(e) /\ Len(e) = 0
    BY NothingIsSeq
  <2> HIDE DEF e
  <2>2. IsSeq(g) /\ Len(g) = 1 /\ g[1] = x
    <3>1. IsSeq(g) /\ Len(g) = Len(e) + 1 /\ g[Len(e) + 1] = x
      <4>1. IsSeq(e)
        BY <2>1
      <4>2. QED
        BY <4>1, AppendFacts
    <3> HIDE DEF g
    <3>2. QED
      BY <2>1, <3>1
  <2> HIDE DEF g
  <2>3. IsSeq(f) /\ Len(f) = 2 /\ f[1] = x /\ f[2] = y
    <3>1. /\ IsSeq(f) /\ Len(f) = Len(g) + 1 /\ f[Len(g) + 1] = y
          /\ \A i \in 1..Len(g) : f[i] = g[i]
      <4>1. IsSeq(g)
        BY <2>2
      <4>2. QED
        BY <4>1, AppendFacts
    <3> HIDE DEF f
    <3>2. QED
      BY <2>2, <3>1
  <2>4. QED
    BY <2>3 DEF f, g, e
<1>11. CASE a \in T /\ b \notin T /\ c \in T /\ d \notin T
  <2>1. Filter(s, T) = Append(Append(<<>>, a), c)
    BY <1>3, <1>4, <1>6, <1>7, <1>8, <1>9, <1>11
  <2>2. LET f == Filter(s, T) IN IsSeq(f) /\ Len(f) = 2 /\ f[1] = a /\ f[2] = c
    BY <1>10, <2>1
  <2>3. QED
    BY <1>11, <2>2, Zenon DEF s
<1>12. CASE a \notin T /\ b \in T /\ c \notin T /\ d \in T
  <2>1. Filter(s, T) = Append(Append(<<>>, b), d)
    BY <1>3, <1>4, <1>6, <1>7, <1>8, <1>9, <1>12
  <2>2. LET f == Filter(s, T) IN IsSeq(f) /\ Len(f) = 2 /\ f[1] = b /\ f[2] = d
    BY <1>10, <2>1
  <2>3. QED
    BY <1>12, <2>2, Zenon DEF s
<1>13. QED
  BY <1>11, <1>12, Zenon

\* What a cut of some columns leaves.
LEMMA CutFacts ==
  ASSUME NEW c \in Columns
  PROVE  ReadCartesianPositions(c) \in 0..MaxSamples
<1>1. /\ {c.lat, c.lon, c.val, MaxSamples} \subseteq Nat
      /\ {c.lat, c.lon, c.val, MaxSamples} # {}
  BY DocumentAssumption
<1> DEFINE l == ReadCartesianPositions(c)
<1>2. l \in {c.lat, c.lon, c.val, MaxSamples} /\ l <= MaxSamples
  BY <1>1, LeastFacts DEF ReadCartesianPositions
<1> HIDE DEF l
<1>3. l \in 0..MaxSamples
  BY <1>1, <1>2, DocumentAssumption
<1>4. QED
  BY <1>3 DEF l

LEMMA AimFacts ==
  ASSUME NEW a \in Nat, NEW b \in Nat
  PROVE  AimQuaternionSamples(a, b) \in Nat /\ AimQuaternionSamples(a, b) <= a
<1>1. {a, b} \subseteq Nat /\ {a, b} # {}
  OBVIOUS
<1>2. QED
  BY <1>1, LeastFacts DEF AimQuaternionSamples

\* The packets of the two sensors.
LEMMA SensorsTrack ==
  ASSUME NEW o, NEW samples, NEW a \in Nat, NEW b \in Nat,
         "RadarAC" \in DOMAIN samples,
         samples["EmitterAC"] = a, samples["RadarAC"] = b,
         \/ o = Object("Sensor", "EmissionCone", Object("Aircraft", "EmitterAC", None))
         \/ o = Object("Sensor", "RadarCone", Object("Aircraft", "RadarAC", None))
  PROVE  /\ IsSeq(SensorPackets(o, samples))
         /\ \A i \in 1..Len(SensorPackets(o, samples)) : Tracks(SensorPackets(o, samples)[i], a, b)
<1> DEFINE p == SensorPackets(o, samples)
<1>1. CASE o = Object("Sensor", "EmissionCone", Object("Aircraft", "EmitterAC", None))
  <2> DEFINE n == AimQuaternionSamples(a, b)
             lobe(i) == Packet(<<"EmitterAC", "EmissionCone", Contours[i]>>, "lobe",
                               {<<"EmitterAC">>}, n, None)
             lobes == [i \in 1..4 |-> lobe(i)]
  <2>1. o.name = "EmissionCone" /\ o.under.name = "EmitterAC"
    BY <1>1 DEF Object
  <2>2. DOMAIN Contours = 1..4
    BY DEF Contours
  <2>3. p = lobes
    <3> HIDE DEF lobe
    <3>1. p = SensorGaussianLobePackets(o, n)
      BY <2>1 DEF SensorPackets
    <3>2. SensorGaussianLobePackets(o, n) = [i \in DOMAIN Contours |-> lobe(i)]
      BY <2>1, Zenon DEF SensorGaussianLobePackets, lobe
    <3>3. QED
      BY <2>2, <3>1, <3>2
  <2>4. n \in Nat /\ n <= a
    BY AimFacts
  <2>5. \A i \in 1..4 : lobes[i] = lobe(i)
    OBVIOUS
  <2>6. lobes = [i \in 1..4 |-> lobes[i]]
    OBVIOUS
  <2> HIDE DEF lobes, n
  <2>7. IsSeq(lobes) /\ Len(lobes) = 4
    BY <2>6, FunctionIsSeq
  <2>8. \A i \in 1..4 : Tracks(lobes[i], a, b)
    <3> SUFFICES ASSUME NEW i \in 1..4 PROVE Tracks(lobes[i], a, b)
      OBVIOUS
    <3>1. /\ lobes[i].id = <<"EmitterAC", "EmissionCone", Contours[i]>>
          /\ lobes[i].kind = "lobe" /\ lobes[i].refs = {<<"EmitterAC">>}
          /\ lobes[i].samples = n
          /\ lobes[i] = Packet(lobes[i].id, lobes[i].kind, lobes[i].refs, lobes[i].samples, None)
      BY <2>5 DEF Packet
    <3>2. QED
      BY <2>4, <3>1 DEF Tracks
  <2>9. QED
    BY <2>3, <2>7, <2>8
<1>2. CASE o = Object("Sensor", "RadarCone", Object("Aircraft", "RadarAC", None))
  <2> DEFINE cone == Packet(<<"RadarAC", "RadarCone">>, "cone", {<<"RadarAC">>}, b, None)
  <2>1. o.name = "RadarCone" /\ o.under.name = "RadarAC"
    BY <1>2 DEF Object
  <2>2. p = <<cone>>
    BY <2>1 DEF SensorPackets, SensorConePacket, NadirQuaternionSamples
  <2>3. Tracks(cone, a, b)
    BY DEF Tracks, Packet
  <2> HIDE DEF cone, p
  <2>4. <<cone>> \in Seq({cone}) /\ Len(<<cone>>) = 1 /\ <<cone>>[1] = cone
    OBVIOUS
  <2>5. IsSeq(<<cone>>)
    BY <2>4, SeqIn
  <2>6. \A i \in 1..1 : i = 1
    OBVIOUS
  <2>7. QED
    BY <2>2, <2>3, <2>4, <2>5, <2>6 DEF p
<1>3. QED
  BY <1>1, <1>2

LEMMA FixedFacts ==
  LET em == Object("Aircraft", "EmitterAC", None)
      ra == Object("Aircraft", "RadarAC", None)
      sE == Object("Sensor", "EmissionCone", em)
      sR == Object("Sensor", "RadarCone", ra)
  IN /\ FixedObjects = <<em, sE, ra, sR>> /\ ToSet(FixedObjects) = {em, sE, ra, sR}
     /\ FixedObjects[1] = em /\ FixedObjects[3] = ra
     /\ WellFormed(FixedObjects)
     /\ Linked(<<<<em, ra>>, <<ra, em>>>>, FixedObjects)
<1> DEFINE em == Object("Aircraft", "EmitterAC", None)
           ra == Object("Aircraft", "RadarAC", None)
           sE == Object("Sensor", "EmissionCone", em)
           sR == Object("Sensor", "RadarCone", ra)
           objs == <<em, sE, ra, sR>>
<1>1. FixedObjects = objs
  BY DEF FixedObjects
<1>2. /\ em.class = "Aircraft" /\ em.name = "EmitterAC" /\ em = Object(em.class, em.name, None)
      /\ ra.class = "Aircraft" /\ ra.name = "RadarAC" /\ ra = Object(ra.class, ra.name, None)
      /\ sE = Object("Sensor", sE.name, sE.under) /\ sE.under = em /\ sE.class = "Sensor"
      /\ sR = Object("Sensor", sR.name, sR.under) /\ sR.under = ra /\ sR.class = "Sensor"
      /\ sE.name = "EmissionCone" /\ sR.name = "RadarCone"
  BY DEF Object
<1> HIDE DEF em, ra, sE, sR
<1>3. /\ objs \in Seq({em, sE, ra, sR}) /\ Len(objs) = 4
      /\ objs[1] = em /\ objs[2] = sE /\ objs[3] = ra /\ objs[4] = sR
  OBVIOUS
<1>4. \A i \in 1..4 : i = 1 \/ i = 2 \/ i = 3 \/ i = 4
  OBVIOUS
<1>5. ToSet(objs) = {em, sE, ra, sR} /\ IsSeq(objs) /\ DOMAIN objs = 1..4
  <2>1. IsSeq(objs)
    BY <1>3, SeqIn
  <2>2. /\ DOMAIN objs = 1..4
        /\ \A x : x \in ToSet(objs) <=> \E i \in 1..4 : objs[i] = x
    BY <1>3, <2>1, SeqFacts
  <2>3. 1 \in 1..4 /\ 2 \in 1..4 /\ 3 \in 1..4 /\ 4 \in 1..4
    OBVIOUS
  <2> HIDE DEF objs
  <2>4. QED
    BY <1>3, <1>4, <2>1, <2>2, <2>3
<1>6. \A o \in {em, sE, ra, sR} : o # None /\ o.name # None
  <2>1. None \notin ToSet(FixedObjects) /\ None \notin {o.name : o \in ToSet(FixedObjects)}
    BY DocumentAssumption
  <2> HIDE DEF objs
  <2>2. None \notin {em, sE, ra, sR} /\ None \notin {o.name : o \in {em, sE, ra, sR}}
    BY <1>1, <1>5, <2>1
  <2>3. QED
    BY <2>2
<1>7. Standing(em) /\ Standing(ra)
  <2>1. em.name # None /\ ra.name # None
    BY <1>6
  <2>2. /\ em.class \in {"AreaTarget", "Aircraft", "Facility"}
        /\ ra.class \in {"AreaTarget", "Aircraft", "Facility"}
    BY <1>2
  <2>3. QED
    BY <1>2, <2>1, <2>2, Zenon DEF Standing
<1>8. Mounted(sE) /\ Mounted(sR)
  <2>1. sE.name # None /\ sR.name # None /\ sE.under # None /\ sR.under # None
    BY <1>2, <1>6
  <2>2. sE.under.class # "AreaTarget" /\ sR.under.class # "AreaTarget"
    BY <1>2
  <2>3. Standing(sE.under) /\ Standing(sR.under)
    BY <1>2, <1>7
  <2>4. QED
    BY <1>2, <2>1, <2>2, <2>3, Zenon DEF Mounted
<1>9. em # ra /\ em # sE /\ em # sR /\ ra # sE /\ ra # sR /\ sE # sR
  BY <1>2
<1> HIDE DEF objs
<1>10. \A i \in 1..4 :
         Standing(objs[i]) \/ (Mounted(objs[i]) /\ objs[i].under \in ToSet(objs))
  BY <1>2, <1>3, <1>4, <1>5, <1>7, <1>8
<1>11. \A i, j \in 1..4 : objs[i] = objs[j] => i = j
  BY <1>3, <1>4, <1>9
<1>12. WellFormed(objs)
  BY <1>5, <1>10, <1>11 DEF WellFormed, IsSeq
<1>13. Linked(<<<<em, ra>>, <<ra, em>>>>, objs)
  <2> DEFINE x == <<em, ra>>
             y == <<ra, em>>
             pairs == <<x, y>>
  <2>1. x[1] = em /\ x[2] = ra /\ y[1] = ra /\ y[2] = em
    OBVIOUS
  <2> HIDE DEF x, y
  <2>2. /\ pairs \in Seq({x, y}) /\ Len(pairs) = 2 /\ DOMAIN pairs = 1..2
        /\ pairs[1] = x /\ pairs[2] = y
    OBVIOUS
  <2> HIDE DEF pairs
  <2>3. IsSeq(pairs)
    BY <2>2, SeqIn
  <2>4. \A i \in 1..2 : i = 1 \/ i = 2
    OBVIOUS
  <2>5. \A i \in 1..2 : \A end \in {1, 2} :
          pairs[i][end] \in ToSet(objs) /\ pairs[i][end].class # "AreaTarget"
    BY <1>2, <1>5, <2>1, <2>2, <2>4
  <2>6. Linked(pairs, objs)
    BY <2>2, <2>3, <2>5 DEF Linked, IsSeq
  <2>7. QED
    BY <2>6 DEF pairs, x, y
<1>14. QED
  BY <1>1, <1>3, <1>5, <1>12, <1>13 DEF objs, em, ra, sE, sR

\* mvp3's builder, step by step: aircraft, sensors, lines.
LEMMA BuildCzmlSound ==
  ASSUME objects = FixedObjects, BuildCzml
  PROVE  /\ Sound(packets', objects) /\ step' = "done"
         /\ UNCHANGED <<planVars, service, provider, extent>>
         /\ AllFit(packets', objects, {None})
<1> DEFINE em == Object("Aircraft", "EmitterAC", None)
           ra == Object("Aircraft", "RadarAC", None)
           sE == Object("Sensor", "EmissionCone", em)
           sR == Object("Sensor", "RadarCone", ra)
           planes == Filter(objects, Aircraft)
           T == {o \in ToSet(objects) : o.class = "Sensor"}
           sensors == Filter(objects, T)
<1>1. /\ em.class = "Aircraft" /\ em.name = "EmitterAC"
      /\ ra.class = "Aircraft" /\ ra.name = "RadarAC"
      /\ sE.class = "Sensor" /\ sR.class = "Sensor"
  BY DEF Object
<1>2. objects = <<em, sE, ra, sR>> /\ ToSet(objects) = {em, sE, ra, sR}
  BY FixedFacts
<1>3. PICK columns \in [{o.name : o \in Aircraft} -> Columns], seen \in SUBSET ToSet(Pairs(planes)) :
        LET samples == [n \in DOMAIN columns |-> ReadCartesianPositions(columns[n])]
            shown   == Filter(Pairs(planes), seen)
        IN packets' = <<DocumentPacket>>
             \o [i \in DOMAIN planes |-> AircraftPacket(planes[i], samples[planes[i].name])]
             \o FlattenSeq([i \in DOMAIN sensors |-> SensorPackets(sensors[i], samples)])
             \o [i \in DOMAIN shown |-> AccessPolylinePacket(shown[i][1], shown[i][2])]
  BY Zenon DEF BuildCzml
<1> DEFINE samples == [n \in DOMAIN columns |-> ReadCartesianPositions(columns[n])]
           shown == Filter(Pairs(planes), seen)
           a == samples["EmitterAC"]
           b == samples["RadarAC"]
           platforms == [i \in DOMAIN planes |-> AircraftPacket(planes[i], samples[planes[i].name])]
           mounts == [i \in DOMAIN sensors |-> SensorPackets(sensors[i], samples)]
           links == [i \in DOMAIN shown |-> AccessPolylinePacket(shown[i][1], shown[i][2])]
<1> HIDE DEF em, ra, sE, sR
<1>4. Aircraft = {em, ra} /\ T = {sE, sR}
  BY <1>1, <1>2 DEF Aircraft
<1>5. {o.name : o \in Aircraft} = {"EmitterAC", "RadarAC"}
  BY <1>1, <1>4
<1>6. /\ DOMAIN samples = {"EmitterAC", "RadarAC"}
      /\ a \in 0..MaxSamples /\ b \in 0..MaxSamples /\ a \in Nat /\ b \in Nat
  <2>1. DOMAIN columns = {"EmitterAC", "RadarAC"} /\ \A m \in DOMAIN columns : columns[m] \in Columns
    BY <1>5
  <2>2. /\ DOMAIN samples = {"EmitterAC", "RadarAC"}
        /\ a = ReadCartesianPositions(columns["EmitterAC"])
        /\ b = ReadCartesianPositions(columns["RadarAC"])
    BY <2>1
  <2>3. a \in 0..MaxSamples /\ b \in 0..MaxSamples
    BY <2>1, <2>2, CutFacts
  <2>4. 0..MaxSamples \subseteq Nat
    BY DocumentAssumption
  <2>5. QED
    BY <2>2, <2>3, <2>4
<1>7. em # sE /\ em # sR /\ ra # sE /\ ra # sR
  BY <1>1
<1> HIDE DEF T
<1>8. IsSeq(planes) /\ Len(planes) = 2 /\ planes[1] = em /\ planes[2] = ra
  <2>1. em \in Aircraft /\ ra \in Aircraft /\ sE \notin Aircraft /\ sR \notin Aircraft
    BY <1>4, <1>7
  <2>2. QED
    BY <1>2, <2>1, FilterOfFour
<1>9. IsSeq(sensors) /\ Len(sensors) = 2 /\ sensors[1] = sE /\ sensors[2] = sR
  <2>1. em \notin T /\ ra \notin T /\ sE \in T /\ sR \in T
    BY <1>4, <1>7
  <2>2. QED
    BY <1>2, <2>1, FilterOfFour
<1>10. DOMAIN planes = 1..2 /\ DOMAIN sensors = 1..2 /\ \A i \in 1..2 : i = 1 \/ i = 2
  BY <1>8, <1>9, SeqFacts
<1> HIDE DEF planes, sensors, samples, a, b
<1>11. /\ IsSeq(platforms) /\ Len(platforms) = 2
       /\ platforms[1] = Packet(<<"EmitterAC">>, "platform", {}, a, None)
       /\ platforms[2] = Packet(<<"RadarAC">>, "platform", {}, b, None)
  <2>1. platforms = [i \in 1..2 |-> platforms[i]]
    BY <1>10
  <2>2. \A i \in 1..2 : platforms[i] = AircraftPacket(planes[i], samples[planes[i].name])
    BY <1>10
  <2> HIDE DEF platforms
  <2>3. IsSeq(platforms) /\ Len(platforms) = 2
    BY <2>1, FunctionIsSeq
  <2>4. 1 \in 1..2 /\ 2 \in 1..2
    OBVIOUS
  <2>5. QED
    BY <1>1, <1>8, <2>2, <2>3, <2>4 DEF AircraftPacket, a, b
<1>12. /\ IsSeq(FlattenSeq(mounts))
       /\ \A i \in 1..Len(FlattenSeq(mounts)) : Tracks(FlattenSeq(mounts)[i], a, b)
  <2>1. mounts = [i \in 1..2 |-> mounts[i]]
    BY <1>10
  <2>2. \A i \in 1..2 : mounts[i] = SensorPackets(sensors[i], samples)
    BY <1>10
  <2> HIDE DEF mounts
  <2>3. IsSeq(mounts) /\ Len(mounts) = 2
    BY <2>1, FunctionIsSeq
  <2>4. \A i \in 1..2 : IsSeq(mounts[i]) /\ \A j \in 1..Len(mounts[i]) : Tracks(mounts[i][j], a, b)
    <3> SUFFICES ASSUME NEW i \in 1..2
                 PROVE  IsSeq(mounts[i]) /\ \A j \in 1..Len(mounts[i]) : Tracks(mounts[i][j], a, b)
      OBVIOUS
    <3> DEFINE o == sensors[i]
    <3>1. o = sE \/ o = sR
      BY <1>9, <1>10
    <3>2. \/ o = Object("Sensor", "EmissionCone", Object("Aircraft", "EmitterAC", None))
          \/ o = Object("Sensor", "RadarCone", Object("Aircraft", "RadarAC", None))
      BY <3>1 DEF sE, sR, em, ra
    <3>3. "RadarAC" \in DOMAIN samples /\ samples["EmitterAC"] = a /\ samples["RadarAC"] = b
      BY <1>6 DEF a, b
    <3> HIDE DEF o
    <3>4. /\ IsSeq(SensorPackets(o, samples))
          /\ \A j \in 1..Len(SensorPackets(o, samples)) : Tracks(SensorPackets(o, samples)[j], a, b)
      BY <1>6, <3>2, <3>3, SensorsTrack
    <3>5. mounts[i] = SensorPackets(o, samples)
      BY <2>2 DEF o
    <3>6. QED
      BY <3>4, <3>5
  <2>5. /\ IsSeq(FlattenSeq(mounts))
        /\ \E row, col : Traces(row, col, FlattenSeq(mounts), mounts, 2)
    BY <2>3, <2>4, FlattenFacts
  <2>6. PICK row, col : Traces(row, col, FlattenSeq(mounts), mounts, 2)
    BY <2>5
  <2>7. \A i \in 1..Len(FlattenSeq(mounts)) : Tracks(FlattenSeq(mounts)[i], a, b)
    <3> DEFINE all == FlattenSeq(mounts)
    <3>1. \A i \in 1..Len(all) :
            /\ row[i] \in 1..2 /\ col[i] \in 1..Len(mounts[row[i]])
            /\ all[i] = mounts[row[i]][col[i]]
      BY <2>6 DEF Traces
    <3> HIDE DEF all
    <3>2. \A i \in 1..Len(all) : Tracks(mounts[row[i]][col[i]], a, b)
      BY <2>4, <3>1
    <3>3. \A i \in 1..Len(all) : Tracks(all[i], a, b)
      BY <3>1, <3>2, Zenon
    <3>4. QED
      BY <3>3 DEF all
  <2>8. QED
    BY <2>5, <2>7
<1>13. /\ IsSeq(links)
       /\ \A i \in 1..Len(links) : Tracks(links[i], a, b)
  <2>1. IsSeq(Pairs(planes)) /\ \E from, to : Couples(from, to, Pairs(planes), planes)
    BY <1>8, PairsFacts
  <2>2. \A x \in ToSet(Pairs(planes)) : x[1] = em /\ x[2] = ra
    <3> SUFFICES ASSUME NEW x \in ToSet(Pairs(planes)) PROVE x[1] = em /\ x[2] = ra
      OBVIOUS
    <3>1. PICK from, to : Couples(from, to, Pairs(planes), planes)
      BY <2>1
    <3>2. PICK i \in 1..Len(Pairs(planes)) : Pairs(planes)[i] = x
      BY <2>1, SeqFacts
    <3>3. /\ from[i] \in 1..2 /\ to[i] \in 1..2 /\ from[i] < to[i]
          /\ x = <<planes[from[i]], planes[to[i]]>>
      BY <1>8, <3>1, <3>2 DEF Couples
    <3>4. from[i] = 1 /\ to[i] = 2
      BY <3>3
    <3>5. QED
      BY <1>8, <3>3, <3>4
  <2>3. IsSeq(shown) /\ \A x \in ToSet(shown) : x[1] = em /\ x[2] = ra
    BY <2>1, <2>2, FilterFacts, FilterRange
  <2> HIDE DEF shown
  <2>4. /\ DOMAIN shown = 1..Len(shown) /\ Len(shown) \in Nat
        /\ \A i \in 1..Len(shown) : shown[i][1] = em /\ shown[i][2] = ra
    BY <2>3, SeqFacts
  <2>5. links = [i \in 1..Len(shown) |-> links[i]]
    BY <2>4
  <2>6. \A i \in 1..Len(shown) : links[i] = AccessPolylinePacket(em, ra)
    BY <2>4
  <2> HIDE DEF links
  <2>7. IsSeq(links) /\ Len(links) = Len(shown)
    BY <2>4, <2>5, FunctionIsSeq
  <2>8. Tracks(AccessPolylinePacket(em, ra), a, b)
    BY <1>1 DEF AccessPolylinePacket, Tracks, Packet
  <2>9. QED
    BY <2>6, <2>7, <2>8
<1> DEFINE flat == FlattenSeq(mounts)
           D == Assembled(DocumentPacket, platforms, flat, links)
<1>14. packets' = D
  BY <1>3, Zenon DEF Assembled, samples, shown, planes, sensors, T, em, ra, sE, sR
<1> HIDE DEF mounts, platforms, links
<1>15. IsSeq(flat) /\ \A i \in 1..Len(flat) : Tracks(flat[i], a, b)
  BY <1>12
<1> HIDE DEF flat
<1>16. /\ IsSeq(D) /\ 1 + 2 <= Len(D) /\ D[1] = DocumentPacket
       /\ \A j \in 1..2 : D[1 + j] = platforms[j]
       /\ \A i \in 1..Len(D) : i > 1 + 2 =>
            (\E j \in 1..Len(flat) : D[i] = flat[j]) \/ (\E j \in 1..Len(links) : D[i] = links[j])
  <2>1. IsSeq(platforms) /\ IsSeq(flat) /\ IsSeq(links) /\ Len(platforms) = 2
    BY <1>11, <1>13, <1>15
  <2>2. Arranged(D, DocumentPacket, platforms, flat, links)
    <3>1. IsSeq(platforms) /\ IsSeq(flat) /\ IsSeq(links)
      BY <2>1
    <3>2. QED
      BY <3>1, Layout
  <2> HIDE DEF D
  <2>3. QED
    BY <2>1, <2>2 DEF Arranged
<1> HIDE DEF D
<1>17. 3 <= Len(D) /\ D[2] = platforms[1] /\ D[3] = platforms[2]
  <2>1. 1 \in 1..2 /\ 2 \in 1..2 /\ 1 + 1 = 2 /\ 1 + 2 = 3
    OBVIOUS
  <2>2. QED
    BY <1>16, <2>1
<1>18. \A i \in 1..Len(D) : i > 3 => Tracks(D[i], a, b)
  BY <1>13, <1>15, <1>16
<1>19. Sound(D, objects)
  BY <1>6, <1>11, <1>16, <1>17, <1>18, TracksAreSound
<1>20. step' = "done" /\ UNCHANGED <<planVars, service, provider, extent>>
  BY DEF BuildCzml
<1>21. ASSUME NEW i \in 1..Len(D) PROVE Fits(D[i], objects, {None})
  <2>1. em \in ToSet(objects) /\ ra \in ToSet(objects)
    BY <1>2
  <2>2. CASE i = 1
    BY <1>16, <2>2, DocumentAssumption DEF DocumentPacket, Packet, Fits, PacketKinds
  <2>3. CASE i = 2
    BY <1>6, <1>11, <1>17, <2>3 DEF Packet, Fits, PacketKinds
  <2>4. CASE i = 3
    BY <1>6, <1>11, <1>17, <2>4 DEF Packet, Fits, PacketKinds
  <2>5. CASE i > 3
    <3> DEFINE q == D[i]
    <3>1. Tracks(q, a, b)
      BY <1>18, <2>5
    <3> HIDE DEF q
    <3>2. q.samples \in 0..MaxSamples /\ q.kind \in PacketKinds
      BY <1>6, <3>1, DocumentAssumption DEF Tracks, PacketKinds
    <3>3. <<"EmitterAC">> = <<em.name>> /\ <<"RadarAC">> = <<ra.name>>
      BY <1>1
    <3>4. q.refs \subseteq {<<o.name>> : o \in ToSet(objects)}
      <4>1. q.refs \subseteq {<<em.name>>, <<ra.name>>}
        BY <3>1, <3>3 DEF Tracks
      <4>2. QED
        BY <2>1, <4>1
    <3>5. q = Packet(q.id, q.kind, q.refs, q.samples, None) /\ q.area = None
      BY <3>1 DEF Tracks, Packet
    <3>6. QED
      BY <3>2, <3>4, <3>5 DEF Fits, q
  <2>6. QED
    BY <1>16, <2>2, <2>3, <2>4, <2>5, SeqFacts
<1>22. QED
  BY <1>14, <1>19, <1>20, <1>21 DEF AllFit

\* mvp2 without STK: nothing in its document refers to anything.
LEMMA SyntheticSound ==
  ASSUME PlanInv, BuildSyntheticCzml
  PROVE  Sound(packets', objects) /\ AllFit(packets', objects, {None} \union NamesIn(entities))
<1> DEFINE T == {e \in ToSet(entities) : e.type # "Sensor"}
           placed == Filter(entities, T)
           h == <<DocumentPacket>>
           shown == [i \in DOMAIN placed |-> SyntheticPacket(placed[i])]
           D == h \o shown
<1>1. packets' = D
  BY DEF BuildSyntheticCzml
<1>2. IsSeq(entities)
  BY EntityFacts DEF PlanInv, PlanTypes
<1>3. /\ IsSeq(placed) /\ Len(placed) \in Nat /\ DOMAIN placed = 1..Len(placed)
      /\ \A i \in 1..Len(placed) : placed[i] \in ToSet(entities)
  BY <1>2, FilterFacts, FilterRange, SeqFacts
<1> HIDE DEF placed
<1>4. \A i \in 1..Len(placed) : shown[i] = SyntheticPacket(placed[i])
  BY <1>3
<1>5. shown = [i \in 1..Len(placed) |-> shown[i]]
  BY <1>3
<1>6. IsSeq(h) /\ Len(h) = 1 /\ h[1] = DocumentPacket
  <2>1. h \in Seq({DocumentPacket}) /\ Len(h) = 1 /\ h[1] = DocumentPacket
    OBVIOUS
  <2> HIDE DEF h
  <2>2. QED
    BY <2>1, SeqIn
<1> HIDE DEF shown, h
<1>7. IsSeq(shown) /\ Len(shown) = Len(placed)
  BY <1>3, <1>5, FunctionIsSeq
<1>8. /\ IsSeq(D) /\ Len(D) = Len(h) + Len(shown)
      /\ \A i \in 1..Len(h) : D[i] = h[i]
      /\ \A i \in 1..Len(shown) : D[Len(h) + i] = shown[i]
  <2>1. IsSeq(h) /\ IsSeq(shown)
    BY <1>6, <1>7
  <2>2. QED
    BY <2>1, ConcatFacts
<1> HIDE DEF D
<1>9. Len(D) \in Nat /\ 1 <= Len(D) /\ D[1] = DocumentPacket
  BY <1>3, <1>6, <1>7, <1>8
<1>10. ASSUME NEW i \in 1..Len(D)
       PROVE  /\ D[i].refs = {} /\ D[i].kind \in {"document", "area", "platform"}
              /\ Fits(D[i], objects, {None} \union NamesIn(entities))
  <2>1. CASE i = 1
    BY <1>9, <2>1, DocumentAssumption DEF DocumentPacket, Packet, Fits, PacketKinds
  <2>2. CASE i # 1
    <3>1. i - 1 \in 1..Len(placed) /\ 1 + (i - 1) = i
      BY <1>3, <1>6, <1>7, <1>8, <2>2
    <3>2. D[i] = SyntheticPacket(placed[i - 1])
      BY <1>4, <1>6, <1>7, <1>8, <3>1
    <3>3. placed[i - 1].name \in NamesIn(entities)
      BY <1>3, <3>1 DEF NamesIn
    <3> DEFINE e == placed[i - 1]
               names == {None} \union NamesIn(entities)
    <3>4. None \in names /\ e.name \in names /\ 0 \in 0..MaxSamples /\ MaxSamples \in 0..MaxSamples
      BY <3>3, DocumentAssumption
    <3> HIDE DEF e, names
    <3>5. CASE e.type = "AreaTarget"
      <4>1. D[i] = Packet(<<e.type, e.name>>, "area", {}, 0, e.name)
        BY <3>2, <3>5 DEF SyntheticPacket, e
      <4>2. Fits(D[i], objects, names) /\ D[i].refs = {} /\ D[i].kind = "area"
        BY <3>4, <4>1 DEF Packet, Fits, PacketKinds
      <4>3. QED
        BY <4>2 DEF names
    <3>6. CASE e.type # "AreaTarget"
      <4> DEFINE m == IF e.type = "Aircraft" THEN MaxSamples ELSE 0
      <4>1. D[i] = Packet(<<e.type, e.name>>, "platform", {}, m, None) /\ m \in 0..MaxSamples
        BY <3>2, <3>4, <3>6 DEF SyntheticPacket, e
      <4> HIDE DEF m
      <4>2. Fits(D[i], objects, names) /\ D[i].refs = {} /\ D[i].kind = "platform"
        BY <3>4, <4>1 DEF Packet, Fits, PacketKinds
      <4>3. QED
        BY <4>2 DEF names
    <3>7. QED
      BY <3>5, <3>6
  <2>3. QED
    BY <2>1, <2>2
<1>11. Resolves(D) /\ Rides(D, objects) /\ \A i \in 1..Len(D) : D[i].kind # "overlay"
  BY <1>10 DEF Resolves, Rides
<1>12. QED
  BY <1>1, <1>8, <1>9, <1>10, <1>11 DEF Sound, AllFit

-----------------------------------------------------------------------------
(* STK's export of a scenario.                                             *)

LEMMA ExportIsBare ==
  ASSUME NEW sampled, NEW readable, NEW d,
         WellFormed(objects), Linked(accesses, objects),
         d = <<DocumentPacket>>
               \o [i \in DOMAIN objects |-> ExportedObject(objects[i], sampled, readable)]
               \o FomPackets
               \o [i \in DOMAIN accesses |-> LinePacket(accesses[i])]
  PROVE  /\ Bare(d, objects, coverage, readable)
         /\ AllFit(d, objects, AreaNames) /\ Len(d) = Exported
<1> DEFINE n == Len(objects)
           b == [i \in DOMAIN objects |-> ExportedObject(objects[i], sampled, readable)]
           l == [i \in DOMAIN accesses |-> LinePacket(accesses[i])]
           D == Assembled(DocumentPacket, b, FomPackets, l)
<1>1. /\ IsSeq(objects) /\ n \in Nat /\ DOMAIN objects = 1..n
      /\ \A j \in 1..n : objects[j] \in ToSet(objects)
  BY ObjectFacts
<1>2. b = [i \in 1..n |-> b[i]]
      /\ \A j \in 1..n : b[j] = ExportedObject(objects[j], sampled, readable)
  BY <1>1
<1>3. /\ IsSeq(accesses) /\ Len(accesses) \in Nat /\ DOMAIN accesses = 1..Len(accesses)
      /\ \A i \in 1..Len(accesses) :
           /\ accesses[i][1] \in ToSet(objects) /\ accesses[i][1].class # "AreaTarget"
           /\ accesses[i][2] \in ToSet(objects) /\ accesses[i][2].class # "AreaTarget"
  <2>1. IsSeq(accesses)
    BY DEF Linked, IsSeq
  <2>2. DOMAIN accesses = 1..Len(accesses) /\ Len(accesses) \in Nat
    BY <2>1, SeqFacts
  <2>3. \A i \in DOMAIN accesses : \A end \in {1, 2} :
          accesses[i][end] \in ToSet(objects) /\ accesses[i][end].class # "AreaTarget"
    BY DEF Linked
  <2>4. QED
    BY <2>1, <2>2, <2>3
<1>4. l = [i \in 1..Len(accesses) |-> l[i]]
      /\ \A i \in 1..Len(accesses) : l[i] = LinePacket(accesses[i])
  BY <1>3
<1> HIDE DEF b, l
<1>5. IsSeq(b) /\ Len(b) = n
  BY <1>1, <1>2, FunctionIsSeq
<1>6. IsSeq(l) /\ Len(l) = Len(accesses)
  BY <1>3, <1>4, FunctionIsSeq
<1>7. /\ IsSeq(FomPackets)
      /\ \A i \in 1..Len(FomPackets) :
           /\ coverage # None
           /\ FomPackets[i] =
                Packet(<<"CoverageDefinition", coverage.target, "FigureOfMerit", coverage.target>>,
                       "figureofmerit", {}, 0, None)
  <2>1. CASE coverage = None
    <3>1. FomPackets = <<>>
      BY <2>1 DEF FomPackets
    <3>2. IsSeq(<<>>) /\ Len(<<>>) = 0
      BY NothingIsSeq
    <3>3. QED
      BY <3>1, <3>2
  <2>2. CASE coverage # None
    <3> DEFINE p == Packet(<<"CoverageDefinition", coverage.target,
                             "FigureOfMerit", coverage.target>>, "figureofmerit", {}, 0, None)
    <3>1. FomPackets = <<p>>
      BY <2>2 DEF FomPackets
    <3> HIDE DEF p
    <3>2. <<p>> \in Seq({p}) /\ Len(<<p>>) = 1 /\ <<p>>[1] = p
      OBVIOUS
    <3>3. IsSeq(<<p>>)
      BY <3>2, SeqIn
    <3>4. \A i \in 1..1 : i = 1
      OBVIOUS
    <3>5. IsSeq(FomPackets) /\ \A i \in 1..Len(FomPackets) : coverage # None /\ FomPackets[i] = p
      BY <2>2, <3>1, <3>2, <3>3, <3>4
    <3>6. QED
      BY <3>5 DEF p
  <2>3. QED
    BY <2>1, <2>2
<1>8. Arranged(D, DocumentPacket, b, FomPackets, l)
  BY <1>5, <1>6, <1>7, Layout
<1> HIDE DEF D
<1>9. /\ IsSeq(D) /\ 1 + n <= Len(D) /\ D[1] = DocumentPacket
      /\ Len(D) = 1 + n + Len(FomPackets) + Len(accesses)
      /\ \A j \in 1..n : D[1 + j] = ExportedObject(objects[j], sampled, readable)
      /\ \A i \in 1..Len(D) : i > 1 + n =>
           (\E j \in 1..Len(FomPackets) : D[i] = FomPackets[j])
           \/ (\E j \in 1..Len(accesses) : D[i] = LinePacket(accesses[j]))
  BY <1>2, <1>4, <1>5, <1>6, <1>8 DEF Arranged
<1> DEFINE named == {PathOf(o) : o \in ToSet(objects)} \union {<<o.name>> : o \in ToSet(objects)}
<1>0. /\ None \in AreaNames /\ \A o \in ToSet(objects) : o.name \in AreaNames
      /\ \A o \in ToSet(objects) : PathOf(o) \in named
      /\ 0 \in 0..MaxSamples /\ MaxSamples \in 0..MaxSamples
  BY DocumentAssumption DEF AreaNames
<1>f. \A p : /\ p = Packet(p.id, p.kind, p.refs, p.samples, p.area)
             /\ p.kind \in PacketKinds /\ p.samples \in 0..MaxSamples /\ p.area \in AreaNames
             /\ p.refs \subseteq named
             => Fits(p, objects, AreaNames)
  BY DEF Fits
<1> HIDE DEF named
<1>10. ASSUME NEW j \in 1..n
       PROVE  /\ Shows(D[1 + j], objects[j], readable)
              /\ Fits(D[1 + j], objects, AreaNames)
              /\ objects[j].class = "Sensor" =>
                   D[1 + j] = Packet(PathOf(objects[j]), "conic", {PathOf(objects[j].under)}, 0, None)
  <2>1. objects[j].class \in {"AreaTarget", "Aircraft", "Facility", "Sensor"}
    BY <1>1, ObjectFacts
  <2>2. D[1 + j] = ExportedObject(objects[j], sampled, readable)
    BY <1>9
  <2>3. CASE objects[j].class = "Sensor"
    <3>1. PathOf(objects[j].under) \in named
      BY <1>0, <1>1, <2>3, ObjectFacts
    <3>2. D[1 + j] = Packet(PathOf(objects[j]), "conic", {PathOf(objects[j].under)}, 0, None)
      BY <2>2, <2>3 DEF ExportedObject
    <3>3. Fits(D[1 + j], objects, AreaNames)
      BY <1>0, <1>f, <3>1, <3>2 DEF Packet, PacketKinds
    <3>4. Shows(D[1 + j], objects[j], readable)
      BY <2>3, <3>2 DEF Shows, Packet
    <3>5. QED
      BY <3>2, <3>3, <3>4
  <2>4. CASE objects[j].class = "Aircraft"
    <3>1. D[1 + j] = Packet(PathOf(objects[j]), "platform", {}, IF objects[j] \in sampled THEN MaxSamples ELSE 0, None)
      BY <2>2, <2>4 DEF ExportedObject
    <3>2. objects[j].name \in AreaNames
      BY <1>0, <1>1
    <3>3. Fits(D[1 + j], objects, AreaNames)
      BY <1>0, <1>f, <3>1, <3>2 DEF Packet, PacketKinds
    <3>4. QED
      BY <2>4, <3>1, <3>3 DEF Shows, Packet
  <2>5. CASE objects[j].class = "Facility"
    <3>1. D[1 + j] = Packet(PathOf(objects[j]), "platform", {}, 0, None)
      BY <2>2, <2>5 DEF ExportedObject
    <3>2. objects[j].name \in AreaNames
      BY <1>0, <1>1
    <3>3. Fits(D[1 + j], objects, AreaNames)
      BY <1>0, <1>f, <3>1, <3>2 DEF Packet, PacketKinds
    <3>4. QED
      BY <2>5, <3>1, <3>3 DEF Shows, Packet
  <2>6. CASE objects[j].class = "AreaTarget"
    <3>1. D[1 + j] = Packet(PathOf(objects[j]), "area", {}, 0, IF objects[j] \in readable THEN objects[j].name ELSE None)
      BY <2>2, <2>6 DEF ExportedObject
    <3>2. objects[j].name \in AreaNames
      BY <1>0, <1>1
    <3>3. Fits(D[1 + j], objects, AreaNames)
      BY <1>0, <1>f, <3>1, <3>2 DEF Packet, PacketKinds
    <3>4. QED
      BY <2>6, <3>1, <3>3 DEF Shows, Packet
  <2>7. QED
    BY <2>1, <2>3, <2>4, <2>5, <2>6
<1>11. ASSUME NEW i \in 1..Len(D), i > 1 + n
       PROVE  Follows(D[i], objects, coverage) /\ Fits(D[i], objects, AreaNames)
  <2>1. CASE \E j \in 1..Len(FomPackets) : D[i] = FomPackets[j]
    <3>1. /\ coverage # None
          /\ D[i] =
                Packet(<<"CoverageDefinition", coverage.target, "FigureOfMerit", coverage.target>>,
                       "figureofmerit", {}, 0, None)
      BY <1>7, <2>1
    <3>2. Fits(D[i], objects, AreaNames)
      BY <1>0, <1>f, <3>1 DEF Packet, PacketKinds
    <3>3. QED
      BY <3>1, <3>2 DEF Follows, Packet
  <2>2. ASSUME NEW j \in 1..Len(accesses), D[i] = LinePacket(accesses[j])
        PROVE  Follows(D[i], objects, coverage) /\ Fits(D[i], objects, AreaNames)
    <3> DEFINE u == accesses[j][1]
               v == accesses[j][2]
    <3>1. u \in ToSet(objects) /\ u.class # "AreaTarget" /\ v \in ToSet(objects) /\ v.class # "AreaTarget"
      BY <1>3
    <3>2. D[i] = Packet(<<"Access", PathOf(u), PathOf(v)>>, "line", {PathOf(u), PathOf(v)}, 0, None)
      BY <2>2 DEF LinePacket
    <3> HIDE DEF u, v
    <3>3. PathOf(u) \in named /\ PathOf(v) \in named
      BY <1>0, <3>1
    <3>4. Fits(D[i], objects, AreaNames)
      BY <1>0, <1>f, <3>2, <3>3 DEF Packet, PacketKinds
    <3>5. QED
      BY <3>1, <3>2, <3>4 DEF Follows, Packet
  <2>3. QED
    BY <1>9, <1>11, <2>1, <2>2
<1>12. Bare(D, objects, coverage, readable)
  BY <1>9, <1>10, <1>11 DEF Bare, Frame
<1>13. ASSUME NEW i \in 1..Len(D) PROVE Fits(D[i], objects, AreaNames)
  <2>1. CASE i = 1
    BY <1>0, <1>9, <1>f, <2>1 DEF DocumentPacket, Packet, PacketKinds
  <2>2. CASE i # 1 /\ ~(i > 1 + n)
    <3>1. i - 1 \in 1..n /\ 1 + (i - 1) = i
      BY <1>1, <2>2
    <3>2. QED
      BY <1>10, <3>1
  <2>3. QED
    BY <1>11, <2>1, <2>2
<1>14. AllFit(D, objects, AreaNames) /\ Len(D) = Exported
  BY <1>9, <1>13 DEF AllFit, Exported
<1>15. d = D
  BY DEF D, Assembled, b, l
<1>16. QED
  BY <1>12, <1>14, <1>15

\* The accesses of a plan join objects that are somewhere.
LEMMA PlanIsLinked ==
  ASSUME PlanInv, stage = "built"
  PROVE  Linked(accesses, objects)
<1> DEFINE A == AircraftObjects
<1>1. k = Len(entities) + 1 /\ accesses = Pairs(A)
  BY DEF PlanInv, Paired
<1>2. /\ IsSeq(A)
      /\ \A i \in 1..Len(A) : A[i] \in ToSet(objects) /\ A[i].class \in {"Aircraft", "Sensor"}
  BY <1>1, PlanesFacts
<1> HIDE DEF A
<1>3. IsSeq(accesses) /\ \E from, to : Couples(from, to, accesses, A)
  BY <1>1, <1>2, PairsFacts
<1>4. PICK from, to : Couples(from, to, accesses, A)
  BY <1>3
<1>5. DOMAIN accesses = 1..Len(accesses)
  BY <1>3, SeqFacts
<1>6. ASSUME NEW x \in 1..Len(accesses), NEW end \in {1, 2}
      PROVE  accesses[x][end] \in ToSet(objects) /\ accesses[x][end].class # "AreaTarget"
  <2>1. /\ from[x] \in 1..Len(A) /\ to[x] \in 1..Len(A)
        /\ accesses[x] = <<A[from[x]], A[to[x]]>>
    BY <1>4 DEF Couples
  <2>2. accesses[x][end] = A[from[x]] \/ accesses[x][end] = A[to[x]]
    BY <2>1
  <2>3. QED
    BY <1>2, <2>1, <2>2
<1>7. QED
  BY <1>3, <1>5, <1>6 DEF Linked, IsSeq

\* The first polygon of a plan's document is that of the coverage's target, unless
\* the target's cannot be read.
LEMMA FirstPolygonIsTarget ==
  ASSUME PlanInv, stage = "built", coverage # None, NEW D, NEW readable,
         Laid(D, objects, coverage, readable), PolygonOf(D) # None
  PROVE  \/ PolygonOf(D) = coverage.target
         \/ \E i \in 1..Len(D) : D[i].id = <<"AreaTarget", coverage.target>> /\ D[i].area = None
<1> DEFINE n == Len(objects)
           T == {e \in ToSet(entities) : e.type = "AreaTarget"}
           f == Filter(entities, T)
<1>1. /\ n = Len(entities) /\ n \in Nat
      /\ \A i \in 1..n : objects[i].class = entities[i].type /\ objects[i].name = entities[i].name
      /\ IsSeq(entities)
      /\ \A i \in 1..n : entities[i] \in ToSet(entities)
  <2>1. entities \in Seq(EntityRecords) /\ k = Len(entities) + 1
    BY DEF PlanInv, PlanTypes, Paired
  <2>2. IsSeq(entities) /\ Len(entities) \in Nat
        /\ \A i \in 1..Len(entities) : entities[i] \in ToSet(entities)
    BY <2>1, EntityFacts
  <2>3. n = Len(entities)
    BY <2>1, <2>2 DEF PlanInv, Created
  <2>4. \A i \in 1..n : objects[i].class = entities[i].type /\ objects[i].name = entities[i].name
    BY <2>1, <2>2, <2>3 DEF PlanInv, Created
  <2>5. QED
    BY <2>2, <2>3, <2>4
<1>2. f # <<>> /\ coverage.target = f[1].name
  BY DEF PlanInv, Targeted, OfType
<1>3. \A i \in 1..n : entities[i] \in T <=> objects[i].class = "AreaTarget"
  BY <1>1
<1> HIDE DEF T
<1>4. \E x \in 1..n :
        /\ f[1] = entities[x] /\ entities[x] \in T
        /\ \A y \in 1..n : y < x => entities[y] \notin T
  BY <1>1, <1>2, FilterFirst
<1> HIDE DEF f
<1>5. PICK x \in 1..n :
        /\ f[1] = entities[x] /\ objects[x].class = "AreaTarget"
        /\ \A y \in 1..n : y < x => objects[y].class # "AreaTarget"
  BY <1>3, <1>4
<1>6. Frame(D, objects, coverage, readable) /\ IsSeq(D) /\ 1 + n <= Len(D) /\ Len(D) \in Nat
  BY SeqFacts DEF Laid, Frame
<1>7. PICK i \in 1..Len(D) :
        D[i].area = PolygonOf(D) /\ \A j \in 1..Len(D) : j < i => D[j].area = None
  BY <1>6, PolygonFacts
<1>8. \A j \in 1..n : D[1 + j].area = IF objects[j].class = "AreaTarget" /\ objects[j] \in readable
                                      THEN objects[j].name ELSE None
  BY <1>6 DEF Frame, Shows
<1>9. i - 1 \in 1..n
  <2>1. i # 1
    BY <1>6, <1>7 DEF Frame, DocumentPacket, Packet
  <2>2. ~(i > 1 + n)
    BY <1>6, <1>7 DEF Frame, Follows
  <2>3. QED
    BY <1>1, <1>6, <2>1, <2>2
<1> DEFINE y == i - 1
<1>10. y \in 1..n /\ 1 + y = i
  BY <1>9
<1> HIDE DEF y
<1>11. objects[y].class = "AreaTarget" /\ PolygonOf(D) = objects[y].name
  BY <1>7, <1>8, <1>10
<1>12. ~(y < x)
  BY <1>5, <1>10, <1>11
<1>13. CASE x = y
  BY <1>1, <1>2, <1>5, <1>11, <1>13
<1>14. CASE x < y
  <2>1. 1 + x \in 1..Len(D) /\ 1 + x < i
    BY <1>1, <1>6, <1>10, <1>14
  <2>2. D[1 + x].area = None
    BY <1>7, <2>1
  <2>3. WellFormed(objects)
    BY DEF PlanInv
  <2>4. Standing(objects[x]) /\ objects[x].class = "AreaTarget"
    BY <1>5, <2>3, ObjectFacts
  <2>5. objects[x].under = None
    BY <2>4 DEF Standing, Object
  <2>6. D[1 + x].id = <<"AreaTarget", coverage.target>>
    <3>1. D[1 + x].id = PathOf(objects[x])
      BY <1>6 DEF Frame, Shows
    <3>2. PathOf(objects[x]) = <<"AreaTarget", objects[x].name>>
      BY <2>4, <2>5 DEF PathOf
    <3>3. objects[x].name = coverage.target
      BY <1>1, <1>2, <1>5
    <3>4. QED
      BY <3>1, <3>2, <3>3
  <2>7. QED
    BY <2>1, <2>2, <2>6
<1>15. QED
  BY <1>1, <1>10, <1>12, <1>13, <1>14

-----------------------------------------------------------------------------
(* The services' documents, step by step.                                  *)

DocTypes ==
  /\ service \in Services
  /\ step \in {"scenario", "patch", "grid", "render", "inject", "done", "failed"}
  /\ provider \in 0..Providers

\* How far each service's scenario comes, and which step comes after it.
Routes ==
  /\ service = "v13" => stage # "loaded"
  /\ service \in {"mvp", "mvp3", "mock3"} => stage \in {"drawing", "loaded"}
  /\ service = "mock2" => stage \in {"drawing", "adding"} /\ step \in {"scenario", "done"}
  /\ service \in {"mvp3", "mock3"} =>
       /\ step \in {"scenario", "done", "failed"}
       /\ stage = "loaded" => objects = FixedObjects
  /\ service # "mock2" /\ step # "scenario" => Built
  /\ stage = "loaded" => Linked(accesses, objects)

LaidOut == \E readable : Laid(packets, objects, coverage, readable)

\* A laid document with the overlay at its end.
Overlaid ==
  \E d, readable :
    /\ Laid(d, objects, coverage, readable) /\ PolygonOf(d) # None /\ coverage # None
    /\ packets = Append(d, OverlayPacket(PolygonOf(d)))
    /\ extent \in {PolygonOf(d), "user"}

\* What is left of a computation that failed.
Proper(d) == IsSeq(d) /\ OverlaysOf(d) = <<>> /\ (d # <<>> => d[1] = DocumentPacket)

ExportInv ==
  /\ step = "patch" => \E readable : Bare(packets, objects, coverage, readable)
  /\ step \in {"grid", "render", "inject"} => LaidOut
  /\ step = "inject" =>
       extent = IF PolygonOf(packets) = None THEN "grid" ELSE PolygonOf(packets)
  /\ step = "done" => LaidOut \/ Overlaid

DocInv ==
  /\ PlanInv /\ DocTypes /\ Routes
  /\ step = "scenario" => packets = <<>>
  /\ step = "failed" => Proper(packets)
  /\ service \in {"mvp", "v13"} => ExportInv
  /\ service \in {"mvp3", "mock2", "mock3"} /\ step = "done" => Sound(packets, objects)

LEMMA ServiceRange ==
  ASSUME DocInv
  PROVE  service \in {"mvp", "v13", "mvp3", "mock2", "mock3"}
BY DocumentAssumption DEF DocInv, DocTypes

LEMMA NothingIsProper == Proper(<<>>)
<1>1. IsSeq(<<>>) /\ Len(<<>>) = 0
  BY NothingIsSeq
<1> DEFINE e == <<>>
<1>2. IsSeq(e) /\ Len(e) = 0 /\ e = <<>>
  BY <1>1
<1> HIDE DEF e
<1>3. \A i \in 1..Len(e) : e[i].kind # "overlay"
  BY <1>2
<1>4. OverlayPacket(None).kind = "overlay"
  BY DEF OverlayPacket, Packet
<1>5. OverlaysOf(e) = <<>>
  BY <1>2, <1>3, <1>4, OverlayFacts
<1>6. QED
  BY <1>2, <1>5 DEF Proper

LEMMA BareOrLaidIsProper ==
  ASSUME NEW objs, WellFormed(objs), NEW D, NEW cov, NEW readable,
         Bare(D, objs, cov, readable) \/ Laid(D, objs, cov, readable)
  PROVE  IsSeq(D) /\ Proper(D)
<1>1. Frame(D, objs, cov, readable)
  BY DEF Bare, Laid
<1>2. IsSeq(D) /\ D[1] = DocumentPacket /\ Len(objs) \in Nat /\ Len(D) \in Nat
  BY <1>1, ObjectFacts, SeqFacts DEF Frame
<1>3. ASSUME NEW i \in 1..Len(D) PROVE D[i].kind # "overlay"
  <2>1. CASE Laid(D, objs, cov, readable)
    BY <2>1, LaidRides
  <2>2. CASE Bare(D, objs, cov, readable)
    <3>1. CASE i = 1
      BY <1>2, <3>1 DEF DocumentPacket, Packet
    <3>2. CASE i > 1 + Len(objs)
      BY <1>1, <3>2 DEF Frame, Follows
    <3>3. CASE i # 1 /\ ~(i > 1 + Len(objs))
      <4>1. i - 1 \in 1..Len(objs) /\ 1 + (i - 1) = i
        BY <1>2, <3>3
      <4>2. CASE objs[i - 1].class = "Sensor"
        <5> DEFINE o == objs[i - 1]
        <5>1. D[i] = Packet(PathOf(o), "conic", {PathOf(o.under)}, 0, None)
          BY <2>2, <4>1, <4>2 DEF Bare
        <5>2. QED
          BY <5>1 DEF Packet
      <4>3. CASE objs[i - 1].class # "Sensor"
        BY <1>1, <4>1, <4>3 DEF Frame, Shows
      <4>4. QED
        BY <4>2, <4>3
    <3>4. QED
      BY <3>1, <3>2, <3>3
  <2>3. QED
    BY <2>1, <2>2
<1>4. OverlayPacket(None).kind = "overlay"
  BY DEF OverlayPacket, Packet
<1>5. OverlaysOf(D) = <<>>
  BY <1>2, <1>3, <1>4, OverlayFacts
<1>6. QED
  BY <1>2, <1>5 DEF Proper

LEMMA PlanStays ==
  ASSUME PlanInv, UNCHANGED planVars
  PROVE  /\ PlanInv'
         /\ UNCHANGED <<entities, stage, k, objects, stkObjects, coverage, accesses>>
         /\ UNCHANGED Built
BY NextPlanInv DEF planVars, Built

\* A scenario of fixed objects, or read from a file, is one.
LEMMA LoadedKeeps ==
  ASSUME PlanInv, stage = "drawing", stage' = "loaded", WellFormed(objects'),
         UNCHANGED <<entities, k, stkObjects>>
  PROVE  PlanInv'
<1>1. \A n \in Names : stkObjects[n] = None
  <2>1. objects = <<>> /\ stkObjects \in [Names -> ToSet(objects) \union {None}]
    BY DEF PlanInv, PlanTypes, Drawn
  <2>2. IsSeq(<<>>) /\ Len(<<>>) = 0
    BY NothingIsSeq
  <2>3. \A x : x \notin ToSet(objects)
    BY <2>1, <2>2, SeqFacts
  <2>4. QED
    BY <2>1, <2>3
<1>2. stkObjects \in [Names -> ToSet(objects') \union {None}]
  BY <1>1 DEF PlanInv, PlanTypes
<1>3. PlanTypes'
  BY <1>2 DEF PlanInv, PlanTypes, ToSet
<1>4. PlacedDiffer' /\ Drawn' /\ Created' /\ Targeted' /\ Paired'
  BY DEF PlanInv, PlacedDiffer, Drawn, Created, Targeted, Paired
<1>5. QED
  BY <1>3, <1>4 DEF PlanInv

LEMMA ScenarioLoads ==
  ASSUME DocInv, BuildFixed \/ LoadScenario
  PROVE  DocInv'
<1> DEFINE em == FixedObjects[1]
           ra == FixedObjects[3]
<1>1. /\ stage = "drawing" /\ stage' = "loaded" /\ service \in {"mvp", "mvp3", "mock3"}
      /\ UNCHANGED <<entities, k, stkObjects, service, step, packets, provider, rows, extent>>
  BY DEF BuildFixed, LoadScenario, docVars
<1>2. WellFormed(objects') /\ Linked(accesses', objects')
  <2>1. CASE BuildFixed
    <3>1. objects' = FixedObjects /\ accesses' = <<<<em, ra>>, <<ra, em>>>>
      BY <2>1 DEF BuildFixed
    <3>2. WellFormed(FixedObjects) /\ Linked(<<<<em, ra>>, <<ra, em>>>>, FixedObjects)
      BY FixedFacts, Zenon
    <3>3. QED
      BY <3>1, <3>2
  <2>2. CASE LoadScenario
    BY <2>2, DocumentAssumption DEF LoadScenario
  <2>3. QED
    BY <2>1, <2>2
<1>3. service \in {"mvp3", "mock3"} => objects' = FixedObjects
  BY DEF BuildFixed, LoadScenario
<1>4. PlanInv'
  BY <1>1, <1>2, LoadedKeeps DEF DocInv
<1>5. step = "scenario" /\ packets = <<>>
  BY <1>1 DEF DocInv, Routes, Built
<1>6. DocTypes'
  BY <1>1 DEF DocInv, DocTypes, Providers
<1>7. Routes'
  BY <1>1, <1>2, <1>3, <1>5 DEF DocInv, Routes, Built
<1>8. ExportInv'
  BY <1>1, <1>5 DEF ExportInv
<1>9. QED
  BY <1>1, <1>4, <1>5, <1>6, <1>7, <1>8 DEF DocInv

LEMMA PlanSteps ==
  ASSUME DocInv, BuildPlan
  PROVE  DocInv'
<1>1. /\ service = "v13" \/ (service = "mock2" /\ stage = "drawing")
      /\ step = "scenario" /\ PlanNext
      /\ UNCHANGED <<service, step, packets, provider, rows, extent>>
  BY DEF BuildPlan, docVars
<1>2. PlanInv'
  BY <1>1, NextPlanInv DEF DocInv
<1>3. stage' # "loaded" /\ (stage = "drawing" => stage' \in {"drawing", "adding"})
  <2>1. stage # "loaded"
    BY <1>1 DEF DocInv, Routes
  <2>2. ASSUME NEW e, CommitEntity(e) PROVE stage' = stage
    BY <2>2 DEF CommitEntity
  <2>3. CASE \E type \in EntityTypes, name \in Names : Draw(type, name)
    BY <2>1, <2>2, <2>3 DEF Draw
  <2>4. CASE \E name, parent \in Names : AddSensor(name, parent) \/ SetName(name, parent)
    BY <2>1, <2>2, <2>4 DEF AddSensor, SetName
  <2>5. CASE \E name \in Names, parent \in Names \union {None} : SetSensorParent(name, parent)
    BY <2>1, <2>5 DEF SetSensorParent
  <2>6. CASE \E name \in Names : DeleteEntity(name)
    BY <2>1, <2>6 DEF DeleteEntity
  <2>7. CASE Submit
    BY <2>7 DEF Submit
  <2>8. ASSUME NEW o, Create(o), stage = "adding" PROVE stage' \in {"adding", "failed"}
    BY <2>8 DEF Create
  <2>9. CASE AddPlaced
    BY <2>8, <2>9 DEF AddPlaced
  <2>10. CASE AddSensorObject
    <3>1. stage = "adding" /\ \E o : Create(o)
      BY <2>10 DEF AddSensorObject
    <3>2. QED
      BY <2>8, <3>1
  <2>11. CASE AddCoverage
    BY <2>11 DEF AddCoverage
  <2>12. CASE ComputeAccesses
    BY <2>12 DEF ComputeAccesses
  <2>13. QED
    BY <1>1, <2>3, <2>4, <2>5, <2>6, <2>7, <2>9, <2>10, <2>11, <2>12 DEF PlanNext
<1>4. DocTypes'
  BY <1>1 DEF DocInv, DocTypes, Providers
<1>5. Routes'
  BY <1>1, <1>3 DEF DocInv, Routes, Built
<1>6. ExportInv'
  BY <1>1 DEF ExportInv
<1>7. QED
  BY <1>1, <1>2, <1>4, <1>5, <1>6 DEF DocInv

\* Once the scenario is there, a step of the document leaves it alone.
LEMMA DocumentSteps ==
  ASSUME DocInv, UNCHANGED planVars, service' = service, provider' \in 0..Providers,
         step \in {"scenario", "patch", "grid", "render", "inject", "done"},
         step' \in {"patch", "grid", "render", "inject", "done", "failed"},
         Built \/ service = "mock2",
         service = "mock2" => step' = "done",
         service \in {"mvp3", "mock3"} => step' \in {"done", "failed"},
         step' = "failed" => Proper(packets'),
         service \in {"mvp", "v13"} => ExportInv',
         service \in {"mvp3", "mock2", "mock3"} /\ step' = "done" => Sound(packets', objects)
  PROVE  DocInv'
<1>1. /\ PlanInv'
      /\ UNCHANGED <<entities, stage, k, objects, stkObjects, coverage, accesses>>
      /\ UNCHANGED Built
  BY PlanStays DEF DocInv
<1>2. DocTypes'
  BY DEF DocInv, DocTypes, Providers
<1>3. Routes'
  <2>1. /\ service = "v13" => stage # "loaded"
        /\ service \in {"mvp", "mvp3", "mock3"} => stage \in {"drawing", "loaded"}
        /\ service = "mock2" => stage \in {"drawing", "adding"}
        /\ service \in {"mvp3", "mock3"} /\ stage = "loaded" => objects = FixedObjects
        /\ stage = "loaded" => Linked(accesses, objects)
    BY DEF DocInv, Routes
  <2>2. QED
    BY <1>1, <2>1 DEF Routes
<1>4. QED
  BY <1>1, <1>2, <1>3 DEF DocInv

LEMMA ExportKeeps ==
  ASSUME DocInv, ExportCzml
  PROVE  DocInv'
<1>1. /\ service \in {"mvp", "v13"} /\ step = "scenario" /\ step' = "patch" /\ Built
      /\ UNCHANGED planVars /\ service' = service /\ provider' = provider
  BY DEF ExportCzml
<1>2. Linked(accesses, objects) /\ WellFormed(objects)
  BY <1>1, PlanIsLinked DEF DocInv, PlanInv, Routes, Built
<1>3. PICK sampled \in SUBSET Aircraft, readable \in SUBSET Areas :
        packets' = <<DocumentPacket>>
                   \o [i \in DOMAIN objects |-> ExportedObject(objects[i], sampled, readable)]
                   \o FomPackets
                   \o [i \in DOMAIN accesses |-> LinePacket(accesses[i])]
  BY Zenon DEF ExportCzml
<1>4. Bare(packets', objects, coverage, readable)
  BY <1>2, <1>3, ExportIsBare
<1>5. objects' = objects /\ coverage' = coverage
  BY <1>1 DEF planVars
<1>6. ExportInv'
  BY <1>1, <1>4, <1>5 DEF ExportInv
<1>7. provider' \in 0..Providers
  BY <1>1 DEF DocInv, DocTypes
<1>8. QED
  BY <1>1, <1>6, <1>7, DocumentSteps

LEMMA PatchKeeps ==
  ASSUME DocInv, PatchCzmlSensors
  PROVE  DocInv'
<1>1. /\ step = "patch" /\ step' \in {"done", "grid"} /\ UNCHANGED planVars
      /\ service' = service /\ provider' = provider
      /\ packets' = [i \in DOMAIN packets |-> Patched(packets[i], packets)]
  BY DEF PatchCzmlSensors
<1>2. service \in {"mvp", "v13"} /\ Built
  BY <1>1, ServiceRange DEF DocInv, Routes
<1>3. PICK readable : Bare(packets, objects, coverage, readable)
  BY <1>1, <1>2 DEF DocInv, ExportInv
<1>4. WellFormed(objects)
  BY DEF DocInv, PlanInv
<1>5. Laid(packets', objects, coverage, readable)
  BY <1>1, <1>3, <1>4, PatchIsLaid
<1>6. objects' = objects /\ coverage' = coverage
  BY <1>1 DEF planVars
<1>7. LaidOut'
  BY <1>5, <1>6 DEF LaidOut
<1>8. ExportInv'
  BY <1>1, <1>7 DEF ExportInv
<1>9. provider' \in 0..Providers
  BY <1>1 DEF DocInv, DocTypes
<1>10. QED
  BY <1>1, <1>2, <1>8, <1>9, DocumentSteps

LEMMA GridKeeps ==
  ASSUME DocInv, ReadFomGrid \/ NoGrid
  PROVE  DocInv'
<1>1. /\ step = "grid" /\ step' \in {"done", "grid", "render"} /\ UNCHANGED planVars
      /\ service' = service /\ packets' = packets /\ extent' = extent
      /\ provider' = provider \/ (provider < Providers /\ provider' = provider + 1)
  BY DEF ReadFomGrid, NoGrid
<1>2. service \in {"mvp", "v13"} /\ Built
  BY <1>1, ServiceRange DEF DocInv, Routes
<1>3. objects' = objects /\ coverage' = coverage
  BY <1>1 DEF planVars
<1>4. LaidOut'
  BY <1>1, <1>2, <1>3 DEF DocInv, ExportInv, LaidOut
<1>5. ExportInv'
  BY <1>1, <1>4 DEF ExportInv
<1>6. provider' \in 0..Providers
  BY <1>1 DEF DocInv, DocTypes, Providers
<1>7. QED
  BY <1>1, <1>2, <1>5, <1>6, DocumentSteps

LEMMA RenderKeeps ==
  ASSUME DocInv, RenderFomHeatmap
  PROVE  DocInv'
<1>1. /\ step = "render" /\ step' = "inject" /\ UNCHANGED planVars
      /\ service' = service /\ packets' = packets /\ provider' = provider
      /\ extent' = IF FirstPolygon = None THEN "grid" ELSE FirstPolygon
  BY DEF RenderFomHeatmap
<1>2. service \in {"mvp", "v13"} /\ Built
  BY <1>1, ServiceRange DEF DocInv, Routes
<1>3. objects' = objects /\ coverage' = coverage
  BY <1>1 DEF planVars
<1>4. LaidOut'
  BY <1>1, <1>2, <1>3 DEF DocInv, ExportInv, LaidOut
<1>5. FirstPolygon = PolygonOf(packets)
  BY DEF FirstPolygon, PolygonOf
<1>6. ExportInv'
  BY <1>1, <1>4, <1>5 DEF ExportInv
<1>7. provider' \in 0..Providers
  BY <1>1 DEF DocInv, DocTypes
<1>8. QED
  BY <1>1, <1>2, <1>6, <1>7, DocumentSteps

\* The overlay goes on a laid document; on an overlaid one it takes its own place.
LEMMA InjectedFacts ==
  ASSUME WellFormed(objects), packets' = Injected, UNCHANGED <<objects, coverage>>,
         \/ LaidOut /\ (PolygonOf(packets) # None => extent' \in {PolygonOf(packets), "user"})
         \/ Overlaid /\ extent' = "user"
  PROVE  /\ LaidOut' \/ Overlaid'
         /\ \/ packets' = packets
            \/ /\ LaidOut /\ PolygonOf(packets) # None
               /\ packets' = Append(packets, OverlayPacket(PolygonOf(packets)))
<1>1. FirstPolygon = PolygonOf(packets)
  BY DEF FirstPolygon, PolygonOf
<1>2. \/ packets' = packets
      \/ /\ PolygonOf(packets) # None /\ \E p \in ToSet(packets) : p.kind = "figureofmerit"
         /\ packets' = Append(Filter(packets, {p \in ToSet(packets) : p.kind # "overlay"}),
                              OverlayPacket(PolygonOf(packets)))
  BY <1>1 DEF Injected, OverlayPacket
<1>3. \A p : OverlayPacket(p).kind = "overlay"
  BY DEF OverlayPacket, Packet
<1>4. CASE LaidOut
  <2>1. PICK readable : Laid(packets, objects, coverage, readable)
    BY <1>4 DEF LaidOut
  <2>2. IsSeq(packets) /\ \A i \in 1..Len(packets) : packets[i].kind # "overlay"
    BY <2>1, LaidRides DEF Laid, Frame
  <2>3. Filter(packets, {p \in ToSet(packets) : p.kind # "overlay"}) = packets
    BY <1>3, <2>2, OverlayFacts
  <2>4. CASE packets' = packets
    BY <1>4, <2>4 DEF LaidOut
  <2>5. CASE packets' # packets
    <3>1. /\ PolygonOf(packets) # None /\ \E p \in ToSet(packets) : p.kind = "figureofmerit"
          /\ packets' = Append(packets, OverlayPacket(PolygonOf(packets)))
      BY <1>2, <2>3, <2>5
    <3>2. coverage # None
      <4>1. PICK i \in 1..Len(packets) : packets[i].kind = "figureofmerit"
        BY <2>2, <3>1, SeqFacts
      <4>2. QED
        BY <2>1, <4>1, LaidRides
    <3>3. extent' \in {PolygonOf(packets), "user"} \/ Overlaid
      BY <3>1
    <3>4. ~Overlaid
      <4> SUFFICES ASSUME Overlaid PROVE FALSE
        OBVIOUS
      <4>1. PICK d, r : Laid(d, objects, coverage, r)
                        /\ packets = Append(d, OverlayPacket(PolygonOf(d)))
        BY DEF Overlaid
      <4>2. IsSeq(d)
        BY <4>1 DEF Laid, Frame
      <4>3. Len(packets) \in 1..Len(packets) /\ packets[Len(packets)].kind = "overlay"
        <5>1. /\ Len(d) \in Nat /\ Len(packets) = Len(d) + 1
              /\ packets[Len(d) + 1] = OverlayPacket(PolygonOf(d))
          BY <4>1, <4>2, AppendFacts, SeqFacts
        <5>2. QED
          BY <1>3, <5>1
      <4>4. QED
        BY <2>2, <4>3
    <3>5. Overlaid'
      BY <2>1, <3>1, <3>2, <3>3, <3>4 DEF Overlaid
    <3>6. QED
      BY <1>4, <3>1, <3>5
  <2>6. QED
    BY <2>4, <2>5
<1>5. CASE Overlaid /\ extent' = "user"
  <2>1. PICK d, readable :
          /\ Laid(d, objects, coverage, readable) /\ PolygonOf(d) # None /\ coverage # None
          /\ packets = Append(d, OverlayPacket(PolygonOf(d)))
    BY <1>5 DEF Overlaid
  <2>2. IsSeq(d) /\ \A i \in 1..Len(d) : d[i].kind # "overlay"
    BY <2>1, LaidRides DEF Laid, Frame
  <2>3. PolygonOf(packets) = PolygonOf(d)
    BY <2>1, <2>2, PolygonKept
  <2>4. Filter(packets, {p \in ToSet(packets) : p.kind # "overlay"}) = d
    BY <1>3, <2>1, <2>2, OverlayFacts
  <2>5. packets' = packets
    BY <1>2, <2>1, <2>3, <2>4
  <2>6. QED
    BY <1>5, <2>1, <2>5 DEF Overlaid
<1>6. QED
  BY <1>4, <1>5

LEMMA InjectKeeps ==
  ASSUME DocInv, InjectFomRectangle
  PROVE  DocInv'
<1>1. /\ step = "inject" /\ step' = "done" /\ UNCHANGED planVars
      /\ service' = service /\ packets' = Injected /\ provider' = provider /\ extent' = extent
  BY DEF InjectFomRectangle
<1>2. service \in {"mvp", "v13"} /\ Built
  BY <1>1, ServiceRange DEF DocInv, Routes
<1>3. objects' = objects /\ coverage' = coverage
  BY <1>1 DEF planVars
<1>4. LaidOut /\ (PolygonOf(packets) # None => extent' \in {PolygonOf(packets), "user"})
  BY <1>1, <1>2 DEF DocInv, ExportInv
<1>5. WellFormed(objects)
  BY DEF DocInv, PlanInv
<1>6. LaidOut' \/ Overlaid'
  BY <1>1, <1>3, <1>4, <1>5, InjectedFacts
<1>7. ExportInv'
  BY <1>1, <1>6 DEF ExportInv
<1>8. provider' \in 0..Providers
  BY <1>1 DEF DocInv, DocTypes
<1>9. QED
  BY <1>1, <1>2, <1>7, <1>8, DocumentSteps

LEMMA UploadKeeps ==
  ASSUME DocInv, UploadFomImage
  PROVE  DocInv'
<1>1. /\ step = "done" /\ step' = "done" /\ UNCHANGED planVars /\ service = "mvp"
      /\ service' = service /\ packets' = Injected /\ provider' = provider /\ extent' = "user"
  BY DEF UploadFomImage
<1>2. Built
  BY <1>1 DEF DocInv, Routes
<1>3. objects' = objects /\ coverage' = coverage
  BY <1>1 DEF planVars
<1>4. LaidOut \/ Overlaid
  BY <1>1 DEF DocInv, ExportInv
<1>5. WellFormed(objects)
  BY DEF DocInv, PlanInv
<1>6. LaidOut' \/ Overlaid'
  BY <1>1, <1>3, <1>4, <1>5, InjectedFacts
<1>7. ExportInv'
  BY <1>1, <1>6 DEF ExportInv
<1>8. provider' \in 0..Providers
  BY <1>1 DEF DocInv, DocTypes
<1>9. QED
  BY <1>1, <1>2, <1>7, <1>8, DocumentSteps

LEMMA BuildersKeep ==
  ASSUME DocInv, BuildCzml \/ BuildSyntheticCzml
  PROVE  DocInv'
<1>1. /\ step = "scenario" /\ step' = "done" /\ UNCHANGED planVars
      /\ service' = service /\ provider' = provider
      /\ \/ service \in {"mvp3", "mock3"} /\ Built /\ BuildCzml
         \/ service = "mock2" /\ BuildSyntheticCzml
  BY DEF BuildCzml, BuildSyntheticCzml
<1>2. Sound(packets', objects)
  <2>1. CASE BuildCzml /\ service \in {"mvp3", "mock3"} /\ Built
    <3>1. objects = FixedObjects
      BY <2>1 DEF DocInv, Routes, Built
    <3>2. QED
      BY <2>1, <3>1, BuildCzmlSound
  <2>2. CASE BuildSyntheticCzml
    BY <2>2, SyntheticSound DEF DocInv
  <2>3. QED
    BY <1>1, <2>1, <2>2
<1>3. service \notin {"mvp", "v13"}
  BY <1>1
<1>4. provider' \in 0..Providers
  BY <1>1 DEF DocInv, DocTypes
<1>5. QED
  BY <1>1, <1>2, <1>3, <1>4, DocumentSteps

LEMMA FailKeeps ==
  ASSUME DocInv, Fail
  PROVE  DocInv'
<1>1. /\ step \in {"scenario", "patch", "render", "inject"} /\ step' = "failed" /\ Built
      /\ UNCHANGED planVars /\ service' = service /\ packets' = packets /\ provider' = provider
  BY DEF Fail
<1>2. service # "mock2"
  BY <1>1 DEF DocInv, Routes, Built
<1>3. Proper(packets)
  <2>1. CASE step = "scenario"
    BY <2>1, NothingIsProper DEF DocInv
  <2>2. CASE step # "scenario"
    <3>1. service \in {"mvp", "v13"}
      BY <1>1, <1>2, <2>2, ServiceRange DEF DocInv, Routes
    <3>2. \E readable : \/ Bare(packets, objects, coverage, readable)
                        \/ Laid(packets, objects, coverage, readable)
      BY <1>1, <2>2, <3>1 DEF DocInv, ExportInv, LaidOut
    <3>3. WellFormed(objects)
      BY DEF DocInv, PlanInv
    <3>4. QED
      BY <3>2, <3>3, BareOrLaidIsProper
  <2>3. QED
    BY <2>1, <2>2
<1>4. ExportInv'
  BY <1>1 DEF ExportInv
<1>5. provider' \in 0..Providers
  BY <1>1 DEF DocInv, DocTypes
<1>6. QED
  BY <1>1, <1>2, <1>3, <1>4, <1>5, DocumentSteps

LEMMA DocInvInvariant == DocumentSpec => []DocInv
<1>1. DocumentInit => DocInv
  <2> SUFFICES ASSUME DocumentInit PROVE DocInv
    OBVIOUS
  <2>1. /\ PlanInv /\ stage = "drawing" /\ service \in Services /\ step = "scenario"
        /\ packets = <<>> /\ provider = 0
    BY InitPlanInv DEF DocumentInit, PlanInit
  <2>2. DocTypes
    BY <2>1 DEF DocTypes, Providers
  <2>3. Routes
    BY <2>1 DEF Routes, Built
  <2>4. ExportInv
    BY <2>1 DEF ExportInv
  <2>5. QED
    BY <2>1, <2>2, <2>3, <2>4 DEF DocInv
<1>2. DocInv /\ [DocumentNext]_<<planVars, docVars>> => DocInv'
  <2> SUFFICES ASSUME DocInv, [DocumentNext]_<<planVars, docVars>> PROVE DocInv'
    OBVIOUS
  <2>1. CASE UNCHANGED <<planVars, docVars>>
    <3>1. /\ UNCHANGED <<objects, coverage, accesses, stage>>
          /\ UNCHANGED <<service, step, packets, provider, rows, extent>>
      BY <2>1 DEF planVars, docVars
    <3>2. PlanInv'
      BY <2>1, PlanStays DEF DocInv
    <3>3. DocTypes' /\ Routes'
      BY <3>1 DEF DocInv, DocTypes, Routes, Providers, Built
    <3>4. ExportInv' <=> ExportInv
      BY <3>1 DEF ExportInv, LaidOut, Overlaid
    <3>5. QED
      BY <3>1, <3>2, <3>3, <3>4 DEF DocInv
  <2>2. QED
    BY <2>1, ScenarioLoads, PlanSteps, ExportKeeps, PatchKeeps, GridKeeps, RenderKeeps,
       InjectKeeps, UploadKeeps, BuildersKeep, FailKeeps DEF DocumentNext
<1>3. QED
  BY <1>1, <1>2, PTL DEF DocumentSpec

-----------------------------------------------------------------------------
(* Types of packets, and how far a document grows.                         *)

TypedInv ==
  /\ rows \in Nat
  /\ stage \notin {"built", "loaded"} => accesses = <<>>
  /\ AllFit(packets, objects, AreaNames)
  /\ service \in {"mvp", "v13"} /\ packets # <<>> =>
       Len(packets) = Exported + Len(OverlaysOf(packets))

\* patch_czml_sensors keeps types: a cone's samples are its parent's.
LEMMA PatchFits ==
  ASSUME NEW objs, WellFormed(objs), NEW D, NEW cov, NEW readable, NEW names,
         Bare(D, objs, cov, readable), AllFit(D, objs, names)
  PROVE  LET P == [i \in DOMAIN D |-> Patched(D[i], D)]
         IN AllFit(P, objs, names) /\ Len(P) = Len(D)
<1> DEFINE n == Len(objs)
           P == [i \in DOMAIN D |-> Patched(D[i], D)]
<1>1. /\ n \in Nat /\ \A j \in 1..n : objs[j] \in ToSet(objs)
      /\ IsSeq(D) /\ Len(D) \in Nat /\ 1 + n <= Len(D) /\ DOMAIN D = 1..Len(D)
      /\ \A q : q \in ToSet(D) <=> \E i \in 1..Len(D) : D[i] = q
      /\ Frame(D, objs, cov, readable)
  BY ObjectFacts, SeqFacts DEF Bare, Frame
<1>2. P = [i \in 1..Len(D) |-> P[i]] /\ \A i \in 1..Len(D) : P[i] = Patched(D[i], D)
  BY <1>1
<1> HIDE DEF P
<1>3. IsSeq(P) /\ Len(P) = Len(D)
  BY <1>1, <1>2, FunctionIsSeq
<1>4. ASSUME NEW i \in 1..Len(D) PROVE Fits(P[i], objs, names)
  <2> DEFINE p == D[i]
             up == CHOOSE q \in ToSet(D) : q.id \in p.refs
  <2>1. Fits(p, objs, names)
    BY DEF AllFit
  <2>2. CASE p.kind # "conic"
    BY <1>2, <2>1, <2>2 DEF Patched
  <2>3. CASE p.kind = "conic"
    <3>1. i # 1 /\ ~(i > 1 + n)
      BY <1>1, <2>3 DEF Frame, Follows, DocumentPacket, Packet
    <3>2. i - 1 \in 1..n /\ 1 + (i - 1) = i
      BY <1>1, <3>1
    <3> DEFINE o == objs[i - 1]
    <3>3. o.class = "Sensor"
      BY <1>1, <2>3, <3>2 DEF Frame, Shows
    <3>4. p.refs = {PathOf(o.under)}
      <4>1. p = Packet(PathOf(o), "conic", {PathOf(o.under)}, 0, None)
        BY <3>2, <3>3 DEF Bare
      <4>2. QED
        BY <4>1 DEF Packet
    <3>5. PICK y \in 1..n : objs[y] = o.under
      BY <1>1, <3>2, <3>3, ObjectFacts
    <3>6. 1 + y \in 1..Len(D) /\ D[1 + y].id = PathOf(o.under)
      BY <1>1, <3>5 DEF Frame, Shows
    <3>7. \E q \in ToSet(D) : q.id \in p.refs
      BY <1>1, <3>4, <3>6
    <3>8. up \in ToSet(D)
      BY <3>7
    <3>9. up.samples \in 0..MaxSamples
      BY <1>1, <3>8 DEF AllFit, Fits
    <3>10. P[i] = IF up.samples > 0
                  THEN [p EXCEPT !.kind = "cylinder", !.refs = {}, !.samples = up.samples]
                  ELSE [p EXCEPT !.kind = "cylinder"]
      <4>1. P[i] = Patched(p, D)
        BY <1>2
      <4>2. QED
        BY <2>3, <4>1, Zenon DEF Patched, ConePositionAndOrientation
    <3> HIDE DEF o, up, p
    <3>11. CASE up.samples > 0
      <4>1. P[i] = Packet(p.id, "cylinder", {}, up.samples, p.area)
        BY <2>1, <3>10, <3>11 DEF Fits, Packet
      <4>2. QED
        BY <2>1, <3>9, <4>1 DEF Fits, Packet, PacketKinds
    <3>12. CASE ~(up.samples > 0)
      <4>1. P[i] = Packet(p.id, "cylinder", p.refs, p.samples, p.area)
        BY <2>1, <3>10, <3>12 DEF Fits, Packet
      <4>2. QED
        BY <2>1, <4>1 DEF Fits, Packet, PacketKinds
    <3>13. QED
      BY <3>11, <3>12
  <2>4. QED
    BY <2>2, <2>3
<1>5. QED
  BY <1>3, <1>4 DEF AllFit, P

\* A new overlay lies on an area that a packet shows.
LEMMA InjectedFits ==
  ASSUME NEW d, IsSeq(d), NEW objs, NEW names, AllFit(d, objs, names), PolygonOf(d) # None,
         \A i \in 1..Len(d) : d[i].kind # "overlay"
  PROVE  LET g == Append(d, OverlayPacket(PolygonOf(d)))
         IN AllFit(g, objs, names) /\ Len(g) = Len(d) + Len(OverlaysOf(g))
<1> DEFINE p == OverlayPacket(PolygonOf(d))
           g == Append(d, p)
<1>1. PICK i \in 1..Len(d) : d[i].area = PolygonOf(d)
  BY PolygonFacts
<1>2. PolygonOf(d) \in names
  BY <1>1 DEF AllFit, Fits
<1>3. Fits(p, objs, names) /\ p.kind = "overlay"
  BY <1>2, DocumentAssumption DEF OverlayPacket, Packet, Fits, PacketKinds
<1> HIDE DEF p
<1>4. /\ IsSeq(g) /\ Len(g) = Len(d) + 1 /\ g[Len(d) + 1] = p /\ Len(d) \in Nat
      /\ \A x \in 1..Len(d) : g[x] = d[x]
  BY AppendFacts, SeqFacts
<1>5. Len(OverlaysOf(g)) = 1
  BY <1>3, OverlayFacts
<1> HIDE DEF g
<1>6. \A x \in 1..Len(g) : x \in 1..Len(d) \/ x = Len(d) + 1
  BY <1>4
<1>7. AllFit(g, objs, names)
  BY <1>3, <1>4, <1>6 DEF AllFit
<1>8. QED
  BY <1>4, <1>5, <1>7 DEF g, p

LEMMA NothingFits == \A objs, names : AllFit(<<>>, objs, names)
<1>1. Len(<<>>) = 0
  BY NothingIsSeq
<1>2. QED
  BY <1>1 DEF AllFit

\* What the types and the lengths depend on, besides the packets.
LEMMA SameScenario ==
  ASSUME UNCHANGED planVars
  PROVE  UNCHANGED <<AreaNames, Exported, objects, accesses, stage, coverage>>
BY DEF planVars, AreaNames, NamesIn, Exported, FomPackets

LEMMA ExportedIsNat ==
  ASSUME WellFormed(objects), Linked(accesses, objects)
  PROVE  Exported \in Nat
<1>1. Len(objects) \in Nat
  BY ObjectFacts
<1>2. Len(accesses) \in Nat
  BY SeqFacts DEF Linked, IsSeq
<1>3. Len(FomPackets) \in Nat
  <2>1. CASE coverage = None
    BY <2>1, NothingIsSeq DEF FomPackets
  <2>2. CASE coverage # None
    <3> DEFINE p == Packet(<<"CoverageDefinition", coverage.target,
                             "FigureOfMerit", coverage.target>>, "figureofmerit", {}, 0, None)
    <3>1. FomPackets = <<p>>
      BY <2>2 DEF FomPackets
    <3> HIDE DEF p
    <3>2. QED
      BY <3>1
  <2>3. QED
    BY <2>1, <2>2
<1>4. QED
  BY <1>1, <1>2, <1>3 DEF Exported

LEMMA PlanStepsTyped ==
  ASSUME DocInv, TypedInv, BuildFixed \/ LoadScenario \/ BuildPlan
  PROVE  TypedInv'
<1>1. packets = <<>> /\ packets' = <<>> /\ rows' = rows /\ service' = service
  BY DEF BuildFixed, LoadScenario, BuildPlan, docVars, DocInv, Routes, Built
<1>2. stage' \notin {"built", "loaded"} => accesses' = <<>>
  <2>1. CASE BuildFixed \/ LoadScenario
    BY <2>1 DEF BuildFixed, LoadScenario
  <2>2. CASE PlanNext
    <3>1. ASSUME NEW e, CommitEntity(e) PROVE stage = "drawing" /\ UNCHANGED accesses
      BY <3>1 DEF CommitEntity
    <3>2. CASE \/ \E type \in EntityTypes, name \in Names : Draw(type, name)
               \/ \E name, parent \in Names : AddSensor(name, parent) \/ SetName(name, parent)
      BY <3>1, <3>2 DEF Draw, AddSensor, SetName, TypedInv
    <3>3. CASE \/ \E name \in Names, parent \in Names \union {None} : SetSensorParent(name, parent)
               \/ \E name \in Names : DeleteEntity(name)
               \/ Submit \/ AddPlaced \/ AddSensorObject
      BY <3>3 DEF SetSensorParent, DeleteEntity, Submit, AddPlaced, AddSensorObject, TypedInv
    <3>4. CASE AddCoverage
      BY <3>4 DEF AddCoverage, TypedInv
    <3>5. CASE ComputeAccesses
      BY <3>5 DEF ComputeAccesses
    <3>6. QED
      BY <2>2, <3>2, <3>3, <3>4, <3>5 DEF PlanNext
  <2>3. QED
    BY <2>1, <2>2 DEF BuildPlan
<1>3. QED
  BY <1>1, <1>2, NothingFits DEF TypedInv

LEMMA ExportStepsTyped ==
  ASSUME DocInv, TypedInv, ExportCzml \/ PatchCzmlSensors
  PROVE  TypedInv'
<1>1. UNCHANGED planVars /\ rows' = rows /\ service' = service
  BY DEF ExportCzml, PatchCzmlSensors
<1>2. WellFormed(objects)
  BY DEF DocInv, PlanInv
<1>3. UNCHANGED <<AreaNames, Exported, objects, accesses, stage, coverage>>
  BY <1>1, SameScenario
<1>4. Linked(accesses, objects) /\ service \in {"mvp", "v13"}
  <2>1. Built /\ service \in {"mvp", "v13"}
    BY ServiceRange DEF ExportCzml, PatchCzmlSensors, DocInv, Routes
  <2>2. QED
    BY <2>1, PlanIsLinked DEF DocInv, Routes, Built
<1>5. /\ Len(packets') = Exported /\ AllFit(packets', objects, AreaNames)
      /\ \E readable : \/ Bare(packets', objects, coverage, readable)
                       \/ Laid(packets', objects, coverage, readable)
  <2>1. CASE ExportCzml
    <3>1. PICK sampled \in SUBSET Aircraft, readable \in SUBSET Areas :
            packets' = <<DocumentPacket>>
                       \o [i \in DOMAIN objects |-> ExportedObject(objects[i], sampled, readable)]
                       \o FomPackets
                       \o [i \in DOMAIN accesses |-> LinePacket(accesses[i])]
      BY <2>1, Zenon DEF ExportCzml
    <3>2. QED
      BY <1>2, <1>4, <3>1, ExportIsBare
  <2>2. CASE PatchCzmlSensors
    <3>1. /\ step = "patch"
          /\ packets' = [i \in DOMAIN packets |-> Patched(packets[i], packets)]
      BY <2>2 DEF PatchCzmlSensors
    <3>2. PICK readable : Bare(packets, objects, coverage, readable)
      BY <1>4, <3>1 DEF DocInv, ExportInv
    <3>3. AllFit(packets', objects, AreaNames) /\ Len(packets') = Len(packets)
      BY <1>2, <3>1, <3>2, PatchFits DEF TypedInv
    <3>4. Laid(packets', objects, coverage, readable)
      BY <1>2, <3>1, <3>2, PatchIsLaid
    <3>5. packets # <<>> /\ OverlaysOf(packets) = <<>>
      <4>1. packets # <<>> /\ Proper(packets)
        <5>1. IsSeq(packets) /\ Proper(packets)
          BY <1>2, <3>2, BareOrLaidIsProper
        <5>2. 1 <= Len(packets)
          BY <1>2, <3>2, ObjectFacts, SeqFacts DEF Bare, Frame
        <5>3. QED
          BY <5>1, <5>2, NothingIsSeq
      <4>2. QED
        BY <4>1 DEF Proper
    <3>6. Len(packets) = Exported
      BY <1>2, <1>4, <3>5, ExportedIsNat, NothingIsSeq DEF TypedInv
    <3>7. QED
      BY <3>3, <3>4, <3>6
  <2>3. QED
    BY <2>1, <2>2
<1>6. OverlaysOf(packets') = <<>>
  BY <1>2, <1>5, BareOrLaidIsProper DEF Proper
<1>7. Len(packets') = Exported + Len(OverlaysOf(packets'))
  BY <1>2, <1>4, <1>5, <1>6, ExportedIsNat, NothingIsSeq
<1>8. QED
  BY <1>1, <1>3, <1>5, <1>7 DEF TypedInv

LEMMA RowsAreNat ==
  ASSUME ReadFomGrid
  PROVE  rows' \in Nat
<1>1. ASSUME NEW c \in Columns PROVE RowsMvp(c) \in Nat /\ RowsV13(c) \in Nat
  <2>1. {c.lat, c.lon, c.val} \subseteq Nat /\ {c.lat, c.lon, c.val} # {}
    BY DocumentAssumption
  <2>2. QED
    BY <2>1, LeastFacts DEF RowsMvp, RowsV13
<1>2. QED
  BY <1>1 DEF ReadFomGrid

LEMMA ImageStepsTyped ==
  ASSUME DocInv, TypedInv, InjectFomRectangle \/ UploadFomImage
  PROVE  TypedInv'
<1>1. /\ UNCHANGED planVars /\ rows' = rows /\ service' = service /\ packets' = Injected
      /\ service \in {"mvp", "v13"} /\ Built
      /\ \/ LaidOut /\ (PolygonOf(packets) # None => extent' \in {PolygonOf(packets), "user"})
         \/ Overlaid /\ extent' = "user"
  BY ServiceRange DEF InjectFomRectangle, UploadFomImage, DocInv, Routes, ExportInv
<1>2. WellFormed(objects)
  BY DEF DocInv, PlanInv
<1>3. UNCHANGED <<AreaNames, Exported, objects, accesses, stage, coverage>>
  BY <1>1, SameScenario
<1>4. CASE packets' = packets
  BY <1>1, <1>3, <1>4 DEF TypedInv
<1>5. CASE packets' # packets
  <2>1. /\ LaidOut /\ PolygonOf(packets) # None
        /\ packets' = Append(packets, OverlayPacket(PolygonOf(packets)))
    BY <1>1, <1>2, <1>3, <1>5, InjectedFacts
  <2>2. PICK readable : Laid(packets, objects, coverage, readable)
    BY <2>1 DEF LaidOut
  <2>3. IsSeq(packets) /\ \A i \in 1..Len(packets) : packets[i].kind # "overlay"
    BY <1>2, <2>2, LaidRides DEF Laid, Frame
  <2>4. AllFit(packets', objects, AreaNames) /\ Len(packets') = Len(packets) + Len(OverlaysOf(packets'))
    BY <2>1, <2>3, InjectedFits DEF TypedInv
  <2>5. packets # <<>> /\ OverlaysOf(packets) = <<>>
    <3>1. Proper(packets)
      BY <1>2, <2>2, BareOrLaidIsProper
    <3>2. 1 <= Len(packets)
      BY <1>2, <2>2, ObjectFacts, SeqFacts DEF Laid, Frame
    <3>3. QED
      BY <3>1, <3>2, NothingIsSeq DEF Proper
  <2>6. Len(packets) = Exported
    <3>1. Linked(accesses, objects)
      BY <1>1, PlanIsLinked DEF DocInv, Routes, Built
    <3>2. QED
      BY <1>1, <1>2, <2>5, <3>1, ExportedIsNat, NothingIsSeq DEF TypedInv
  <2>7. QED
    BY <1>1, <1>3, <2>4, <2>6 DEF TypedInv
<1>6. QED
  BY <1>4, <1>5

LEMMA BuildersTyped ==
  ASSUME DocInv, TypedInv, BuildCzml \/ BuildSyntheticCzml
  PROVE  TypedInv'
<1>1. UNCHANGED planVars /\ rows' = rows /\ service' = service /\ service \notin {"mvp", "v13"}
  BY DEF BuildCzml, BuildSyntheticCzml
<1>2. UNCHANGED <<AreaNames, Exported, objects, accesses, stage, coverage>>
  BY <1>1, SameScenario
<1>3. AllFit(packets', objects, {None}) \/ AllFit(packets', objects, {None} \union NamesIn(entities))
  <2>1. CASE BuildCzml
    <3>1. objects = FixedObjects
      BY <2>1 DEF BuildCzml, DocInv, Routes, Built
    <3>2. QED
      BY <2>1, <3>1, BuildCzmlSound
  <2>2. CASE BuildSyntheticCzml
    BY <2>2, SyntheticSound DEF DocInv
  <2>3. QED
    BY <2>1, <2>2
<1>4. {None} \subseteq AreaNames /\ {None} \union NamesIn(entities) \subseteq AreaNames
  BY DEF AreaNames
<1>5. AllFit(packets', objects, AreaNames)
  BY <1>3, <1>4 DEF AllFit, Fits
<1>6. QED
  BY <1>1, <1>2, <1>5 DEF TypedInv

LEMMA TypedInvariant == DocumentSpec => [](DocInv /\ TypedInv)
<1>1. DocumentInit => TypedInv
  BY NothingFits DEF DocumentInit, PlanInit, TypedInv
<1>2. DocInv /\ TypedInv /\ [DocumentNext]_<<planVars, docVars>> => TypedInv'
  <2> SUFFICES ASSUME DocInv, TypedInv, [DocumentNext]_<<planVars, docVars>> PROVE TypedInv'
    OBVIOUS
  <2>1. ASSUME UNCHANGED planVars, rows' \in Nat, packets' = packets, service' = service
        PROVE  TypedInv'
    BY <2>1, SameScenario DEF TypedInv
  <2>2. CASE UNCHANGED <<planVars, docVars>> \/ NoGrid \/ RenderFomHeatmap \/ Fail
    BY <2>1, <2>2 DEF docVars, NoGrid, RenderFomHeatmap, Fail, TypedInv
  <2>3. CASE ReadFomGrid
    BY <2>1, <2>3, RowsAreNat DEF ReadFomGrid
  <2>4. QED
    BY <2>2, <2>3, PlanStepsTyped, ExportStepsTyped, ImageStepsTyped, BuildersTyped DEF DocumentNext
<1>3. QED
  BY <1>1, <1>2, DocInvInvariant, PTL DEF DocumentSpec

\* A finished document, of whichever service, resolves its references and has
\* its cones on their parents; an overlaid one as much as the laid one under it.
LEMMA OverlaidIsSound ==
  ASSUME NEW objs, WellFormed(objs), NEW d, NEW cov, NEW readable,
         Laid(d, objs, cov, readable), NEW polygon
  PROVE  LET g == Append(d, OverlayPacket(polygon)) IN
         IsSeq(g) /\ Resolves(g) /\ Rides(g, objs) /\ g # <<>> /\ g[1] = DocumentPacket
<1> DEFINE n == Len(d)
           p == OverlayPacket(polygon)
           g == Append(d, p)
<1>1. /\ Frame(d, objs, cov, readable) /\ IsSeq(d) /\ n \in Nat /\ 1 <= n
      /\ d[1] = DocumentPacket
  BY ObjectFacts, SeqFacts DEF Laid, Frame
<1>2. p.id = <<"fom-overlay">> /\ p.kind = "overlay" /\ p.refs = {}
  BY DEF OverlayPacket, Packet
<1> HIDE DEF p
<1>3. IsSeq(g) /\ Len(g) = n + 1 /\ g[n + 1] = p /\ \A i \in 1..n : g[i] = d[i]
  BY <1>1, AppendFacts
<1> HIDE DEF g
<1>4. \A i \in 1..Len(g) : i \in 1..n \/ i = n + 1
  BY <1>1, <1>3
<1>5. \A i \in 1..n : i \in 1..Len(g)
  BY <1>1, <1>3
<1>6. Resolves(d) /\ Rides(d, objs)
  BY LaidResolves, LaidRides
<1>7. Resolves(g)
  <2> SUFFICES ASSUME NEW i \in 1..Len(g), NEW r \in g[i].refs
               PROVE  \E j \in 1..Len(g) :
                        /\ g[j].id = r /\ HasPosition(g[j])
                        /\ \A x \in 1..Len(g) : g[x].id = r => x = j
    BY DEF Resolves
  <2>1. i \in 1..n /\ r \in d[i].refs
    BY <1>2, <1>3, <1>4
  <2>2. PICK j \in 1..n :
          /\ d[j].id = r /\ HasPosition(d[j]) /\ \A x \in 1..n : d[x].id = r => x = j
    BY <1>6, <2>1 DEF Resolves
  <2>3. r # <<"fom-overlay">>
    <3>1. PICK o : (Standing(o) \/ Mounted(o)) /\ r = PathOf(o)
      BY <1>1, <2>1, LaidRefs
    <3>2. QED
      BY <3>1, PathFacts
  <2>4. \A x \in 1..Len(g) : g[x].id = r => x = j
    BY <1>2, <1>3, <1>4, <2>2, <2>3
  <2>5. QED
    BY <1>3, <1>5, <2>2, <2>4
<1>8. Rides(g, objs)
  <2>1. \A q \in ToSet(d) : q \in ToSet(g)
    BY <1>1, <1>3, <1>5, SeqFacts
  <2> SUFFICES ASSUME NEW i \in 1..Len(g)
               PROVE  /\ g[i].kind # "conic"
                      /\ g[i].kind = "cylinder" =>
                           \E o \in ToSet(objs) :
                             /\ o.class = "Sensor" /\ g[i].id = PathOf(o)
                             /\ \/ g[i].refs = {PathOf(o.under)}
                                \/ \E q \in ToSet(g) :
                                     /\ q.id = PathOf(o.under)
                                     /\ q.samples = g[i].samples /\ q.samples > 0
                      /\ g[i].kind \in {"lobe", "cone"} =>
                           \E q \in ToSet(g) : {q.id} = g[i].refs /\ g[i].samples <= q.samples
    BY DEF Rides
  <2>2. CASE i = n + 1
    BY <1>2, <1>3, <2>2
  <2>3. CASE i \in 1..n
    <3>1. g[i] = d[i]
      BY <1>3, <2>3
    <3>2. QED
      BY <1>6, <2>1, <2>3, <3>1 DEF Rides
  <2>4. QED
    BY <1>4, <2>2, <2>3
<1>9. g # <<>> /\ g[1] = DocumentPacket
  <2>1. IsSeq(<<>>) /\ Len(<<>>) = 0
    BY NothingIsSeq
  <2>2. 1 \in 1..n
    BY <1>1
  <2>3. QED
    BY <1>1, <1>3, <2>1, <2>2
<1>10. QED
  BY <1>3, <1>7, <1>8, <1>9 DEF g, p

LEMMA SoundIsProper ==
  ASSUME NEW d, NEW objs, Sound(d, objs)
  PROVE  Proper(d)
<1>1. OverlayPacket(None).kind = "overlay"
  BY DEF OverlayPacket, Packet
<1>2. OverlaysOf(d) = <<>>
  BY <1>1, OverlayFacts DEF Sound
<1>3. QED
  BY <1>2 DEF Sound, Proper

\* At every step the document is without an overlay, or finished and with one.
LEMMA ProperOrOverlaid ==
  ASSUME DocInv
  PROVE  Proper(packets) \/ (step = "done" /\ service \in {"mvp", "v13"} /\ Overlaid)
<1>1. WellFormed(objects) /\ step \in {"scenario", "patch", "grid", "render", "inject", "done", "failed"}
  BY DEF DocInv, PlanInv, DocTypes
<1>2. CASE step = "scenario" \/ step = "failed"
  BY <1>2, NothingIsProper DEF DocInv
<1>3. CASE service \in {"mvp", "v13"} /\ step \notin {"scenario", "failed"}
  <2>1. \/ \E readable : \/ Bare(packets, objects, coverage, readable)
                         \/ Laid(packets, objects, coverage, readable)
        \/ step = "done" /\ Overlaid
    BY <1>1, <1>3 DEF DocInv, ExportInv, LaidOut
  <2>2. QED
    BY <1>1, <1>3, <2>1, BareOrLaidIsProper
<1>4. CASE service \in {"mvp3", "mock2", "mock3"} /\ step \notin {"scenario", "failed"}
  <2>1. step = "done"
    BY <1>4 DEF DocInv, Routes
  <2>2. QED
    BY <1>4, <2>1, SoundIsProper DEF DocInv
<1>5. QED
  BY <1>2, <1>3, <1>4, ServiceRange

LEMMA OverlaidFacts ==
  ASSUME WellFormed(objects), Overlaid
  PROVE  /\ IsSeq(packets) /\ Resolves(packets) /\ Rides(packets, objects)
         /\ packets # <<>> /\ packets[1] = DocumentPacket
         /\ Len(OverlaysOf(packets)) = 1 /\ extent \in {OverlaysOf(packets)[1].area, "user"}
         /\ \E d, readable :
              /\ Laid(d, objects, coverage, readable) /\ coverage # None
              /\ PolygonOf(d) # None /\ OverlaysOf(packets)[1].area = PolygonOf(d)
              /\ packets = Append(d, OverlayPacket(PolygonOf(d)))
<1>1. PICK d, readable :
        /\ Laid(d, objects, coverage, readable) /\ PolygonOf(d) # None /\ coverage # None
        /\ packets = Append(d, OverlayPacket(PolygonOf(d)))
        /\ extent \in {PolygonOf(d), "user"}
  BY DEF Overlaid
<1>2. IsSeq(d) /\ \A i \in 1..Len(d) : d[i].kind # "overlay"
  BY <1>1, LaidRides DEF Laid, Frame
<1>3. /\ OverlayPacket(PolygonOf(d)).kind = "overlay"
      /\ OverlayPacket(PolygonOf(d)).area = PolygonOf(d)
  BY DEF OverlayPacket, Packet
<1>4. /\ Len(OverlaysOf(packets)) = 1
      /\ OverlaysOf(packets)[1] = OverlayPacket(PolygonOf(d))
  <2> DEFINE p == OverlayPacket(PolygonOf(d))
  <2>1. p.kind = "overlay"
    BY <1>3
  <2> HIDE DEF p
  <2>2. Len(OverlaysOf(Append(d, p))) = 1 /\ OverlaysOf(Append(d, p))[1] = p
    BY <1>2, <2>1, OverlayFacts
  <2>3. packets = Append(d, p)
    BY <1>1 DEF p
  <2>4. QED
    BY <2>2, <2>3 DEF p
<1>5. /\ IsSeq(packets) /\ Resolves(packets) /\ Rides(packets, objects)
      /\ packets # <<>> /\ packets[1] = DocumentPacket
  BY <1>1, OverlaidIsSound
<1>6. QED
  BY <1>1, <1>3, <1>4, <1>5

LEMMA PacketsAreSeq ==
  ASSUME DocInv
  PROVE  IsSeq(packets)
<1>1. CASE Proper(packets)
  BY <1>1 DEF Proper
<1>2. CASE Overlaid
  BY <1>2, OverlaidFacts DEF DocInv, PlanInv
<1>3. QED
  BY <1>1, <1>2, ProperOrOverlaid

LEMMA DoneFacts ==
  ASSUME DocInv, Done
  PROVE  /\ IsSeq(packets) /\ DOMAIN packets = 1..Len(packets)
         /\ Resolves(packets) /\ Rides(packets, objects)
<1>1. WellFormed(objects)
  BY DEF DocInv, PlanInv
<1>2. IsSeq(packets) /\ Resolves(packets) /\ Rides(packets, objects)
  <2>1. CASE LaidOut
    BY <1>1, <2>1, LaidResolves, LaidRides DEF LaidOut, Laid, Frame
  <2>2. CASE Overlaid
    BY <1>1, <2>2, OverlaidFacts
  <2>3. CASE Sound(packets, objects)
    BY <2>3 DEF Sound
  <2>4. QED
    BY <2>1, <2>2, <2>3, ServiceRange DEF DocInv, ExportInv, Done
<1>3. QED
  BY <1>2, SeqFacts

-----------------------------------------------------------------------------
(* The line of sight.                                                      *)

Apart(ivs) == \A u, v \in ivs : u = v \/ u[2] < v[1] \/ v[2] < u[1]

\* What the samples are: all in the past and within the exercise, the first clear.
Samples ==
  /\ duration \in Int /\ t \in Nat
  /\ visible \subseteq Int /\ blocked \subseteq Int
  /\ \A x \in visible \union blocked : 0 <= x /\ x < t /\ x <= duration
  /\ IF t = 0 THEN visible = {} /\ blocked = {} ELSE 0 \in visible

\* The closed intervals, in the middle of the pass and after it; the last may
\* end with the exercise.
Closed(ivs, hidden, ends) ==
  /\ \A iv \in ivs : iv[1] \in visible /\ iv[2] \in ends /\ iv[1] <= iv[2]
  /\ Apart(ivs)
  /\ \A x \in hidden, iv \in ivs : x < iv[1] \/ iv[2] <= x

\* The interval that is open lies after all that are closed and all that is blocked.
Open ==
  /\ inLos \in BOOLEAN
  /\ inLos => /\ segStart \in visible
              /\ \A iv \in intervals : iv[2] < segStart
              /\ \A x \in blocked : x < segStart
  /\ \A x \in visible :
       \/ inLos /\ segStart <= x
       \/ \E iv \in intervals : iv[1] <= x /\ x <= iv[2]

Scanning == Samples /\ Closed(intervals, blocked, blocked) /\ Open

Scanned ==
  /\ Samples
  /\ Closed(intervals, blocked, blocked \union {duration})
  /\ \A x \in visible : \E iv \in intervals : iv[1] <= x /\ x <= iv[2]

\* The pass keeps Scanning; what it leaves, for an exercise that lasts, is Scanned.
LosInv ==
  /\ losStep \in {"tracks", "scan", "build", "done", "raised"}
  /\ losStep \in {"tracks", "scan"} => Scanning
  /\ losStep \in {"build", "done"} /\ duration > 0 => Scanned
  /\ losStep = "done" => lines["los"] = intervals

\* A closed interval ends in the past.
LEMMA ClosedIsPast ==
  ASSUME Samples, Closed(intervals, blocked, blocked), NEW iv \in intervals
  PROVE  iv[2] \in Int /\ iv[2] < t
<1>1. iv[2] \in blocked
  BY DEF Closed
<1>2. QED
  BY <1>1 DEF Samples

\* Closing the open interval at a time no sample so far is later than.
LEMMA ClosingKeepsClosed ==
  ASSUME Scanning, inLos, NEW e \in Int, \A x \in visible \union blocked : x <= e
  PROVE  Closed(intervals \union {<<segStart, e>>}, blocked \union {e}, blocked \union {e})
<1> DEFINE last == <<segStart, e>>
<1>1. last[1] = segStart /\ last[2] = e
  OBVIOUS
<1> HIDE DEF last
<1>2. /\ segStart \in visible /\ segStart <= e
      /\ \A iv \in intervals : iv[2] < segStart
      /\ \A x \in blocked : x < segStart
  BY DEF Scanning, Open
<1>3. /\ visible \subseteq Int /\ blocked \subseteq Int
      /\ \A iv \in intervals : iv[1] \in visible /\ iv[2] \in blocked /\ iv[1] <= iv[2]
      /\ Apart(intervals)
      /\ \A x \in blocked, iv \in intervals : x < iv[1] \/ iv[2] <= x
  BY DEF Scanning, Samples, Closed
<1>4. Apart(intervals \union {last})
  BY <1>1, <1>2, <1>3 DEF Apart
<1>5. \A x \in blocked \union {e}, iv \in intervals \union {last} : x < iv[1] \/ iv[2] <= x
  <2> SUFFICES ASSUME NEW x \in blocked \union {e}, NEW iv \in intervals \union {last}
               PROVE  x < iv[1] \/ iv[2] <= x
    OBVIOUS
  <2>1. CASE iv = last
    BY <1>1, <1>2, <2>1
  <2>2. CASE iv \in intervals /\ x \in blocked
    BY <1>3, <2>2
  <2>3. CASE iv \in intervals /\ x = e
    <3>1. iv[2] < segStart /\ iv[2] \in Int /\ segStart \in Int /\ segStart <= e
      BY <1>2, <1>3, <2>3
    <3>2. QED
      BY <2>3, <3>1
  <2>4. QED
    BY <2>1, <2>2, <2>3
<1>6. \A iv \in intervals \union {last} :
        iv[1] \in visible /\ iv[2] \in blocked \union {e} /\ iv[1] <= iv[2]
  BY <1>1, <1>2, <1>3
<1>7. QED
  BY <1>4, <1>5, <1>6 DEF Closed, last

LEMMA ScanKeepsScanning ==
  ASSUME Scanning, NEW above \in Profiles, Scan(above)
  PROVE  Scanning'
<1> USE LosAssumption
<1>1. /\ t <= duration /\ t' = t + STEP /\ duration' = duration
      /\ STEP \in Nat \ {0} /\ t \in Nat /\ duration \in Int
  BY DEF Scan, Scanning, Samples
<1>2. t = 0 => HasLos(above)
  BY DEF Profiles, HasLos
<1>3. CASE HasLos(above)
  <2>1. /\ inLos' = TRUE /\ visible' = visible \union {t}
        /\ segStart' = IF inLos THEN segStart ELSE t
        /\ intervals' = intervals /\ blocked' = blocked
    BY <1>3 DEF Scan
  <2>2. Samples'
    BY <1>1, <2>1 DEF Scanning, Samples
  <2>3. Closed(intervals, blocked, blocked)'
    BY <2>1 DEF Scanning, Closed, Apart
  <2>4. Open'
    <3>1. /\ visible \subseteq Int /\ blocked \subseteq Int
          /\ \A x \in visible \union blocked : x < t
          /\ \A iv \in intervals : iv[2] \in Int /\ iv[2] < t
      BY ClosedIsPast DEF Scanning, Samples
    <3>2. CASE inLos
      <4>1. segStart' = segStart /\ segStart < t
        BY <2>1, <3>1, <3>2 DEF Scanning, Open
      <4>2. /\ segStart \in visible
            /\ \A iv \in intervals : iv[2] < segStart
            /\ \A x \in blocked : x < segStart
        BY <3>2 DEF Scanning, Open
      <4>3. ASSUME NEW x \in visible \union {t}
            PROVE  segStart <= x \/ \E iv \in intervals : iv[1] <= x /\ x <= iv[2]
        <5>1. CASE x \in visible
          BY <5>1 DEF Scanning, Open
        <5>2. CASE x = t
          BY <1>1, <3>1, <4>1, <4>2, <5>2
        <5>3. QED
          BY <5>1, <5>2
      <4>4. QED
        BY <2>1, <3>2, <4>1, <4>2, <4>3 DEF Open
    <3>3. CASE ~inLos
      <4>1. segStart' = t
        BY <2>1, <3>3
      <4>2. \A x \in visible : \E iv \in intervals : iv[1] <= x /\ x <= iv[2]
        BY <3>3 DEF Scanning, Open
      <4>3. QED
        BY <1>1, <2>1, <3>1, <4>1, <4>2 DEF Open
    <3>4. QED
      BY <3>2, <3>3 DEF Scanning, Open
  <2>5. QED
    BY <2>2, <2>3, <2>4 DEF Scanning
<1>4. CASE ~HasLos(above)
  <2>1. /\ inLos' = FALSE /\ blocked' = blocked \union {t}
        /\ intervals' = IF inLos THEN intervals \union {<<segStart, t>>} ELSE intervals
        /\ visible' = visible /\ segStart' = segStart
    BY <1>4 DEF Scan
  <2>2. Samples'
    BY <1>1, <1>2, <1>4, <2>1 DEF Scanning, Samples
  <2>3. Closed(intervals, blocked, blocked)'
    <3>1. CASE inLos
      <4>1. \A x \in visible \union blocked : x <= t
        BY <1>1 DEF Scanning, Samples
      <4>2. QED
        BY <1>1, <2>1, <3>1, <4>1, ClosingKeepsClosed DEF Closed, Apart
    <3>2. CASE ~inLos
      <4>1. /\ \A iv \in intervals : iv[1] \in visible /\ iv[2] \in blocked /\ iv[1] <= iv[2]
            /\ Apart(intervals)
            /\ \A x \in blocked, iv \in intervals : x < iv[1] \/ iv[2] <= x
            /\ blocked \subseteq Int /\ \A x \in blocked : x < t
        BY DEF Scanning, Samples, Closed
      <4>2. \A iv \in intervals : iv[2] \in Int /\ iv[2] < t
        BY ClosedIsPast DEF Scanning
      <4>3. \A x \in blocked \union {t}, iv \in intervals : x < iv[1] \/ iv[2] <= x
        BY <1>1, <4>1, <4>2
      <4>4. QED
        BY <2>1, <3>2, <4>1, <4>3 DEF Closed, Apart
    <3>3. QED
      BY <3>1, <3>2
  <2>4. Open'
    <3>1. SUFFICES ASSUME NEW x \in visible
                   PROVE  \E iv \in intervals' : iv[1] <= x /\ x <= iv[2]
      BY <2>1 DEF Open
    <3>2. CASE inLos /\ segStart <= x
      <4>1. <<segStart, t>> \in intervals' /\ x <= t
        BY <1>1, <2>1, <3>2 DEF Scanning, Samples
      <4>2. QED
        BY <3>2, <4>1
    <3>3. CASE \E iv \in intervals : iv[1] <= x /\ x <= iv[2]
      BY <2>1, <3>3
    <3>4. QED
      BY <3>2, <3>3 DEF Scanning, Open
  <2>5. QED
    BY <2>2, <2>3, <2>4 DEF Scanning
<1>5. QED
  BY <1>3, <1>4

LEMMA EndScanIsScanned ==
  ASSUME Scanning, EndScan, duration > 0
  PROVE  Scanned'
<1>1. /\ t > duration /\ t \in Nat /\ duration \in Int
      /\ UNCHANGED <<duration, t, visible, blocked>>
  BY DEF EndScan, Scanning, Samples
<1>2. 0 \in visible
  BY <1>1 DEF Scanning, Samples
<1>3. inLos \/ intervals # {}
  BY <1>2 DEF Scanning, Open
<1>4. intervals' = IF inLos THEN intervals \union {<<segStart, duration>>} ELSE intervals
  BY <1>3 DEF EndScan
<1>5. Samples'
  BY <1>1 DEF Scanning, Samples
<1>6. Closed(intervals, blocked, blocked \union {duration})'
  <2>1. CASE inLos
    <3>1. \A x \in visible \union blocked : x <= duration
      BY DEF Scanning, Samples
    <3>2. QED
      BY <1>1, <1>4, <2>1, <3>1, ClosingKeepsClosed DEF Closed, Apart
  <2>2. CASE ~inLos
    BY <1>1, <1>4, <2>2 DEF Scanning, Closed, Apart
  <2>3. QED
    BY <2>1, <2>2
<1>7. ASSUME NEW x \in visible
      PROVE  \E iv \in intervals' : iv[1] <= x /\ x <= iv[2]
  <2>1. CASE inLos /\ segStart <= x
    <3>1. <<segStart, duration>> \in intervals' /\ x <= duration
      BY <1>4, <2>1 DEF Scanning, Samples
    <3>2. QED
      BY <2>1, <3>1
  <2>2. CASE \E iv \in intervals : iv[1] <= x /\ x <= iv[2]
    BY <1>4, <2>2
  <2>3. QED
    BY <2>1, <2>2 DEF Scanning, Open
<1>8. QED
  BY <1>1, <1>5, <1>6, <1>7 DEF Scanned

LEMMA LosInvInvariant == LosSpec => []LosInv
<1>1. LosInit => LosInv
  <2> SUFFICES ASSUME LosInit PROVE LosInv
    OBVIOUS
  <2>1. Samples
    BY LosAssumption DEF LosInit, Samples
  <2>2. Closed(intervals, blocked, blocked) /\ Open
    BY DEF LosInit, Closed, Apart, Open
  <2>3. QED
    BY <2>1, <2>2 DEF LosInit, LosInv, Scanning
<1>2. LosInv /\ [LosNext]_losVars => LosInv'
  <2> SUFFICES ASSUME LosInv, [LosNext]_losVars PROVE LosInv'
    OBVIOUS
  <2>1. CASE CircleTrack
    BY <2>1 DEF CircleTrack, LosInv, Scanning, Samples, Closed, Apart, Open
  <2>2. ASSUME NEW above \in Profiles, Scan(above) PROVE LosInv'
    <3>1. losStep = "scan" /\ losStep' = "scan"
      BY <2>2 DEF Scan
    <3>2. Scanning'
      BY <2>2, <3>1, ScanKeepsScanning DEF LosInv
    <3>3. QED
      BY <3>1, <3>2 DEF LosInv
  <2>3. CASE EndScan
    <3>1. losStep = "scan" /\ losStep' = "build" /\ duration' = duration
      BY <2>3 DEF EndScan
    <3>2. duration > 0 => Scanned'
      BY <2>3, <3>1, EndScanIsScanned DEF LosInv
    <3>3. QED
      BY <3>1, <3>2 DEF LosInv
  <2>4. CASE EmitPackets
    <3>1. lines'["los"] = intervals
      BY <2>4 DEF EmitPackets, PlatformPackets
    <3>2. losStep = "build" /\ losStep' = "done"
          /\ UNCHANGED <<duration, t, inLos, segStart, intervals, visible, blocked>>
      BY <2>4 DEF EmitPackets
    <3>3. QED
      BY <3>1, <3>2 DEF LosInv, Scanned, Samples, Closed, Apart
  <2>5. CASE UNCHANGED losVars
    BY <2>5 DEF losVars, LosInv, Scanning, Scanned, Samples, Closed, Apart, Open
  <2>6. QED
    BY <2>1, <2>2, <2>3, <2>4, <2>5 DEF LosNext
<1>3. QED
  BY <1>1, <1>2, PTL DEF LosSpec

-----------------------------------------------------------------------------
(* The properties of the run.                                              *)

\* However a plan is drawn, renamed, reparented and cut down, and however many
\* aircraft it has, ComputeAccesses gives every two aircraft one access.
THEOREM PlanPairsAircraftOnce == PlanSpec => []AircraftPairsOnce
<1>1. QED
  BY InitPlanInv, NextPlanInv, PlanInvPairs, PTL DEF PlanSpec

\* The same beside the other services and the document's steps.
THEOREM AircraftPairsOnceHolds == DocumentSpec => []AircraftPairsOnce
<1>1. DocInv => AircraftPairsOnce
  BY PlanInvPairs DEF DocInv
<1>2. QED
  BY <1>1, DocInvInvariant, PTL

\* For every plan, file and service, the plan, the scenario and the packets keep
\* their types, and a document that STK exported has a packet for each object,
\* figure of merit and access and beyond them at most one overlay, however often
\* an image is rendered or uploaded (inject_fom_rectangle drops the one of before).
THEOREM DocumentTypesHold == DocumentSpec => []DocumentTypeOK
<1>1. DocInv /\ TypedInv => DocumentTypeOK
  <2> SUFFICES ASSUME DocInv, TypedInv PROVE DocumentTypeOK
    OBVIOUS
  <2>1. Overlays = OverlaysOf(packets)
    BY DEF Overlays, OverlaysOf
  <2>2. WellFormed(objects)
    BY DEF DocInv, PlanInv
  <2>3. Len(Overlays) <= 1 /\ (packets # <<>> => packets[1] = DocumentPacket)
    <3>1. CASE Proper(packets)
      BY <2>1, <3>1, NothingIsSeq DEF Proper
    <3>2. CASE Overlaid
      <4>1. Len(OverlaysOf(packets)) = 1 /\ packets[1] = DocumentPacket
        BY <2>2, <3>2, OverlaidFacts
      <4>2. QED
        BY <2>1, <4>1
    <3>3. QED
      BY <3>1, <3>2, ProperOrOverlaid
  <2>4. Linked(accesses, objects)
    <3>1. CASE stage \in {"built", "loaded"}
      BY <3>1, PlanIsLinked DEF DocInv, Routes
    <3>2. CASE stage \notin {"built", "loaded"}
      <4>1. accesses = <<>>
        BY <3>2 DEF TypedInv
      <4> DEFINE e == <<>>
      <4>2. IsSeq(e) /\ Len(e) = 0 /\ accesses = e
        BY <4>1, NothingIsSeq
      <4> HIDE DEF e
      <4>3. DOMAIN e = {}
        BY <4>2, SeqFacts
      <4>4. QED
        BY <4>2, <4>3 DEF Linked, IsSeq
    <3>3. QED
      BY <3>1, <3>2
  <2>5. \A i \in DOMAIN packets : PacketOK(packets[i])
    <3>1. DOMAIN packets = 1..Len(packets)
      BY PacketsAreSeq, SeqFacts
    <3>2. \A p : Fits(p, objects, AreaNames) => PacketOK(p)
      BY DEF Fits, PacketOK
    <3>3. QED
      BY <3>1, <3>2 DEF TypedInv, AllFit
  <2>6. QED
    BY <2>1, <2>2, <2>3, <2>4, <2>5
       DEF DocumentTypeOK, DocInv, DocTypes, PlanInv, PlanTypes, EntityRecords, TypedInv
<1>2. QED
  BY <1>1, TypedInvariant, PTL

\* In every finished document, of any scenario and any service, whatever a packet
\* refers to is there once and has a position.
THEOREM ReferencesResolveHolds == DocumentSpec => []ReferencesResolve
<1>1. DocInv => ReferencesResolve
  <2> SUFFICES ASSUME DocInv, Done PROVE ReferencesResolve
    BY DEF ReferencesResolve
  <2>1. DOMAIN packets = 1..Len(packets) /\ Resolves(packets)
    BY DoneFacts
  <2>2. QED
    BY <2>1 DEF Resolves, ReferencesResolve
<1>2. QED
  BY <1>1, DocInvInvariant, PTL

\* patch_czml_sensors leaves no sensor to STK's conic form, whatever the scenario
\* and whichever aircraft have samples: each cone has its parent's samples or
\* refers to it; in mvp3 no sensor outlasts the positions of its aircraft.
THEOREM ConesRideParentsHolds == DocumentSpec => []ConesRideParents
<1>1. DocInv => ConesRideParents
  <2> SUFFICES ASSUME DocInv, Done PROVE ConesRideParents
    BY DEF ConesRideParents
  <2>1. DOMAIN packets = 1..Len(packets) /\ Rides(packets, objects)
    BY DoneFacts
  <2>2. QED
    BY <2>1 DEF Rides, ConesRideParents
<1>2. QED
  BY <1>1, DocInvInvariant, PTL

\* Whatever polygons a document has, a heatmap is rendered over the area that its
\* overlay covers, or the overlay shows the user's image.
THEOREM ImageMatchesOverlayHolds == DocumentSpec => []ImageMatchesOverlay
<1>1. DocInv => ImageMatchesOverlay
  <2> SUFFICES ASSUME DocInv, Overlays # <<>>
               PROVE  extent \in {Overlays[1].area, "user"}
    BY DEF ImageMatchesOverlay
  <2>1. Overlays = OverlaysOf(packets)
    BY DEF Overlays, OverlaysOf
  <2>2. Overlaid
    BY <2>1, ProperOrOverlaid DEF Proper
  <2>3. QED
    BY <2>1, <2>2, OverlaidFacts DEF DocInv, PlanInv
<1>2. QED
  BY <1>1, DocInvInvariant, PTL

\* For every plan of mvp2, and whichever of its polygons can be read, the overlay
\* lies on the area target the coverage was computed for, unless the target's own
\* packet shows no readable polygon: the first area of the plan is the first of
\* the export (inject_fom_rectangle skips what it cannot read).
THEOREM OverlayCoversTargetHolds == DocumentSpec => []OverlayCoversTarget
<1>1. DocInv => OverlayCoversTarget
  <2> SUFFICES ASSUME DocInv, service = "v13", Done, Overlays # <<>>
               PROVE  \/ Overlays[1].area = coverage.target
                      \/ \E i \in DOMAIN packets :
                           /\ packets[i].id = <<"AreaTarget", coverage.target>>
                           /\ packets[i].area = None
    BY DEF OverlayCoversTarget
  <2>1. Overlays = OverlaysOf(packets)
    BY DEF Overlays, OverlaysOf
  <2>2. Overlaid
    BY <2>1, ProperOrOverlaid DEF Proper
  <2>3. stage = "built"
    BY DEF DocInv, Routes, Built, Done
  <2>4. PICK d, readable :
          /\ Laid(d, objects, coverage, readable) /\ coverage # None
          /\ PolygonOf(d) # None /\ OverlaysOf(packets)[1].area = PolygonOf(d)
          /\ packets = Append(d, OverlayPacket(PolygonOf(d)))
    BY <2>2, OverlaidFacts DEF DocInv, PlanInv
  <2>5. CASE PolygonOf(d) = coverage.target
    BY <2>1, <2>4, <2>5
  <2>6. CASE PolygonOf(d) # coverage.target
    <3>1. PICK i \in 1..Len(d) : d[i].id = <<"AreaTarget", coverage.target>> /\ d[i].area = None
      BY <2>3, <2>4, <2>6, FirstPolygonIsTarget DEF DocInv
    <3>2. IsSeq(d)
      BY <2>4 DEF Laid, Frame
    <3>3. /\ IsSeq(packets) /\ Len(packets) = Len(d) + 1 /\ Len(d) \in Nat
          /\ packets[i] = d[i]
      BY <2>4, <3>2, AppendFacts, SeqFacts
    <3>4. i \in DOMAIN packets
      BY <3>3, SeqFacts
    <3>5. QED
      BY <3>1, <3>3, <3>4
  <2>7. QED
    BY <2>5, <2>6
<1>2. QED
  BY <1>1, DocInvInvariant, PTL

\* For every step, duration and pattern of occlusion, the lines are shown at
\* every sample with a line of sight and hidden at every other, but for the
\* instant that ends an interval (build_synthetic_czml's pass over the samples).
THEOREM LosShownExactlyHolds == LosSpec => []LosShownExactly
<1>1. LosInv => LosShownExactly
  BY DEF LosInv, Scanned, Closed, LosShownExactly
<1>2. QED
  BY <1>1, LosInvInvariant, PTL

\* For every step, duration and pattern of occlusion, the intervals start at a
\* visible sample, end at a blocked one or with the exercise, and are disjoint.
THEOREM IntervalsAreApartHolds == LosSpec => []IntervalsAreApart
<1>1. LosInv => IntervalsAreApart
  BY DEF LosInv, Scanned, Closed, Apart, IntervalsAreApart
<1>2. QED
  BY <1>1, LosInvInvariant, PTL
=============================================================================
