---------------------------- MODULE DeliveryLemmas ----------------------------
(****************************************************************************)
(* Lemmas on the operators of module Delivery: sums along a sequence, what  *)
(* Keep leaves of an ascending one, how many messages are displayed, and    *)
(* how often a message is on a screen.                                      *)
(****************************************************************************)
EXTENDS Delivery, TLAPS, FiniteSetTheorems, SequenceTheorems, WellFoundedInduction

(****************************************************************************)
(* Induction over the natural numbers, for sets, and recursion along a      *)
(* sequence.                                                                *)
(****************************************************************************)

LEMMA Least ==
  ASSUME NEW T \in SUBSET Nat, T # {}
  PROVE  \E n \in T : \A m \in T : n <= m
<1> DEFINE R == OpToRel(<, Nat)
<1>1. IsWellFoundedOn(R, Nat)
  BY NatLessThanWellFounded
<1>2. \A m, n \in Nat : m < n => <<m, n>> \in R
  BY DEF OpToRel
<1> HIDE DEF R
<1>3. PICK n \in T : \A m \in T : <<m, n>> \notin R
  BY <1>1, WFMin
<1>4. \A m \in T : ~(m < n)
  BY <1>2, <1>3
<1> QED
  BY <1>4

LEMMA UpTo ==
  ASSUME NEW N \in Nat, NEW P, 0 \in P, \A n \in 1 .. N : n - 1 \in P => n \in P
  PROVE  \A n \in 0 .. N : n \in P
<1> DEFINE Q == (0 .. N) \ P
<1> SUFFICES ASSUME Q # {}
             PROVE  FALSE
  OBVIOUS
<1>1. Q \in SUBSET Nat
  OBVIOUS
<1> HIDE DEF Q
<1>2. PICK n \in Q : \A m \in Q : n <= m
  BY <1>1, Least
<1> USE DEF Q
<1>3. n \in 1 .. N /\ n - 1 \in 0 .. N
  BY <1>2
<1>4. n - 1 \in P
  BY <1>2, <1>3
<1> QED
  BY <1>2, <1>3, <1>4

IsAlong(g, N, V, v, step) ==
  g \in [0 .. N -> V] /\ g[0] = v /\ \A n \in 1 .. N : g[n] = step[<<g[n - 1], n>>]

HasAlong(N, V, v, step) == \E g : IsAlong(g, N, V, v, step)

\* A value for each prefix of a sequence, from the value before.
LEMMA RecursionAlong ==
  ASSUME NEW N \in Nat, NEW V, NEW v \in V, NEW step \in [V \X (1 .. N) -> V]
  PROVE  HasAlong(N, V, v, step)
<1> DEFINE Good(n, g) == g[0] = v /\ \A i \in 1 .. n : g[i] = step[<<g[i - 1], i>>]
           P == {n \in Nat : \E g \in [0 .. n -> V] : Good(n, g)}
<1>1. 0 \in P
  <2>1. [i \in 0 .. 0 |-> v] \in [0 .. 0 -> V] /\ Good(0, [i \in 0 .. 0 |-> v])
    OBVIOUS
  <2> QED
    BY <2>1
<1>2. ASSUME NEW n \in 1 .. N, n - 1 \in P
      PROVE  n \in P
  <2>1. PICK g \in [0 .. n - 1 -> V] : Good(n - 1, g)
    BY <1>2
  <2> DEFINE h == [i \in 0 .. n |-> IF i = n THEN step[<<g[n - 1], n>>] ELSE g[i]]
  <2>2. step[<<g[n - 1], n>>] \in V
    OBVIOUS
  <2>3. h \in [0 .. n -> V]
    BY <2>2
  <2>4. \A i \in 1 .. n - 1 : h[i] = g[i] /\ h[i - 1] = g[i - 1]
    OBVIOUS
  <2>5. h[0] = v /\ h[n] = step[<<h[n - 1], n>>]
    BY <2>1
  <2>6. ASSUME NEW i \in 1 .. n
        PROVE  h[i] = step[<<h[i - 1], i>>]
    <3>1. CASE i = n
      BY <2>5, <3>1
    <3>2. CASE i # n
      <4>1. i \in 1 .. n - 1 /\ g[i] = step[<<g[i - 1], i>>]
        BY <2>1, <3>2
      <4>2. h[i] = g[i] /\ h[i - 1] = g[i - 1]
        BY <2>4, <4>1
      <4> QED
        BY <4>1, <4>2
    <3> QED
      BY <3>1, <3>2
  <2> HIDE DEF h
  <2>8. Good(n, h)
    BY <2>5, <2>6
  <2> HIDE DEF Good
  <2>7. n \in Nat /\ \E k \in [0 .. n -> V] : Good(n, k)
    BY <2>3, <2>8
  <2> HIDE DEF Good
  <2> QED
    BY <2>7
<1> HIDE DEF P
<1>3. N \in P
  BY <1>1, <1>2, UpTo
<1> QED
  BY <1>3 DEF P, HasAlong, IsAlong
-----------------------------------------------------------------------------
(****************************************************************************)
(* Prefix sums.                                                             *)
(****************************************************************************)

LEMMA SumsOf ==
  ASSUME NEW s \in Seq(Nat)
  PROVE  /\ Sums(s)[0] = 0
         /\ \A n \in 1 .. Len(s) : Sums(s)[n] = Sums(s)[n - 1] + s[n]
         /\ \A n \in 0 .. Len(s) : Sums(s)[n] \in Nat
<1> DEFINE N == Len(s)
           step == [p \in Nat \X (1 .. N) |-> p[1] + s[p[2]]]
           Def(f) == [n \in 0 .. N |-> IF n = 0 THEN 0 ELSE f[n - 1] + s[n]]
<1>1. N \in Nat /\ \A n \in 1 .. N : s[n] \in Nat
  BY LenProperties
<1>2. step \in [Nat \X (1 .. N) -> Nat]
  BY <1>1
<1>3. \A x \in Nat, n \in 1 .. N : step[<<x, n>>] = x + s[n]
  OBVIOUS
<1> HIDE DEF step, N
<1>4. PICK g \in [0 .. N -> Nat] : g[0] = 0 /\ \A n \in 1 .. N : g[n] = step[<<g[n - 1], n>>]
  <2> DEFINE Q == Nat
  <2>1. 0 \in Q /\ step \in [Q \X (1 .. N) -> Q]
    BY <1>2
  <2> HIDE DEF Q
  <2>2. HasAlong(N, Q, 0, step)
    BY <1>1, <2>1, RecursionAlong
  <2> QED
    BY <2>2 DEF Q, HasAlong, IsAlong
<1>5. g = Def(g)
  <2>1. ASSUME NEW n \in 1 .. N
        PROVE  g[n] = g[n - 1] + s[n]
    <3>1. n - 1 \in 0 .. N
      BY <1>1
    <3>2. g[n - 1] \in Nat
      BY <3>1
    <3> QED
      BY <1>3, <1>4, <3>2
  <2>2. \A n \in 0 .. N : g[n] = IF n = 0 THEN 0 ELSE g[n - 1] + s[n]
    BY <1>1, <1>4, <2>1
  <2> QED
    BY <2>2
<1>6. Sums(s) = CHOOSE f : f = Def(f)
  BY DEF Sums, N
<1>7. Sums(s) = Def(Sums(s))
  BY <1>5, <1>6
<1>8. Sums(s)[0] = 0 /\ \A n \in 1 .. N : Sums(s)[n] = Sums(s)[n - 1] + s[n]
  BY <1>1, <1>7
<1> HIDE DEF Def
<1>9. \A n \in 0 .. N : Sums(s)[n] \in Nat
  <2> DEFINE P == {n \in 0 .. N : Sums(s)[n] \in Nat}
  <2>1. 0 \in P
    BY <1>1, <1>8
  <2>2. ASSUME NEW n \in 1 .. N, n - 1 \in P
        PROVE  n \in P
    <3>1. Sums(s)[n] = Sums(s)[n - 1] + s[n] /\ s[n] \in Nat /\ Sums(s)[n - 1] \in Nat
      BY <1>1, <1>8, <2>2
    <3>2. Sums(s)[n] \in Nat
      BY <3>1
    <3> QED
      BY <1>1, <3>2
  <2> HIDE DEF P
  <2>3. \A n \in 0 .. N : n \in P
    BY <1>1, <2>1, <2>2, UpTo
  <2> QED
    BY <2>3 DEF P
<1> QED
  BY <1>8, <1>9 DEF N
-----------------------------------------------------------------------------
(****************************************************************************)
(* Filters of ascending sequences.                                          *)
(****************************************************************************)

Ascending(s) == \A i, j \in DOMAIN s : i < j => s[i] < s[j]

LEMMA AscendingAppend ==
  ASSUME NEW T \in SUBSET Nat, NEW s \in Seq(T), NEW x \in T, Ascending(s),
         \A i \in DOMAIN s : s[i] < x
  PROVE  /\ Append(s, x) \in Seq(T) /\ Ascending(Append(s, x))
         /\ ToSet(Append(s, x)) = ToSet(s) \cup {x}
<1>1. /\ DOMAIN s = 1 .. Len(s) /\ Len(s) \in Nat
      /\ Append(s, x) \in Seq(T) /\ Len(Append(s, x)) = Len(s) + 1
      /\ DOMAIN Append(s, x) = 1 .. Len(s) + 1
      /\ \A i \in 1 .. Len(s) : Append(s, x)[i] = s[i] /\ s[i] \in T
      /\ Append(s, x)[Len(s) + 1] = x
  BY LenProperties, AppendProperties
<1>2. \A i \in 1 .. Len(s) + 1 : i \in 1 .. Len(s) \/ i = Len(s) + 1
  BY <1>1
<1>3. Ascending(Append(s, x))
  BY <1>1, <1>2 DEF Ascending
<1>4. ToSet(Append(s, x)) = ToSet(s) \cup {x}
  BY <1>1, <1>2 DEF ToSet
<1> QED
  BY <1>1, <1>3, <1>4

LEMMA Kept ==
  ASSUME NEW T \in SUBSET Nat, NEW s \in Seq(T), Ascending(s), NEW S
  PROVE  /\ Keep(s, S) \in Seq(T)
         /\ Ascending(Keep(s, S))
         /\ ToSet(Keep(s, S)) = ToSet(s) \cap S
<1> DEFINE N == Len(s)
           Next1(k, n) == IF s[n] \in S THEN Append(k, s[n]) ELSE k
           step == [p \in Seq(T) \X (1 .. N) |-> Next1(p[1], p[2])]
           Def(f) == [n \in 0 .. N |-> IF n = 0 THEN <<>> ELSE Next1(f[n - 1], n)]
           f == CHOOSE f : f = Def(f)
<1>1. N \in Nat /\ DOMAIN s = 1 .. N /\ \A n \in 1 .. N : s[n] \in T
  BY LenProperties
<1>2. step \in [Seq(T) \X (1 .. N) -> Seq(T)]
  BY <1>1, AppendProperties
<1>3. \A k \in Seq(T), n \in 1 .. N : step[<<k, n>>] = Next1(k, n)
  OBVIOUS
<1> DEFINE Q == Seq(T)
<1>b. <<>> \in Q
  OBVIOUS
<1> HIDE DEF step, Next1, N, Q
<1>4. PICK g \in [0 .. N -> Seq(T)] : g[0] = <<>> /\ \A n \in 1 .. N : g[n] = step[<<g[n - 1], n>>]
  <2>1. N \in Nat /\ step \in [Q \X (1 .. N) -> Q]
    BY <1>1, <1>2 DEF Q
  <2>2. HasAlong(N, Q, <<>>, step)
    BY <1>b, <2>1, RecursionAlong
  <2> QED
    BY <2>2 DEF Q, HasAlong, IsAlong
<1>5. g = Def(g)
  <2>1. ASSUME NEW n \in 1 .. N
        PROVE  g[n] = Next1(g[n - 1], n)
    <3>1. n - 1 \in 0 .. N
      BY <1>1
    <3>2. g[n - 1] \in Seq(T)
      BY <3>1
    <3> QED
      BY <1>3, <1>4, <3>2
  <2>2. \A n \in 0 .. N : g[n] = IF n = 0 THEN <<>> ELSE Next1(g[n - 1], n)
    BY <1>1, <1>4, <2>1
  <2> QED
    BY <2>2
<1>6. f = Def(f)
  BY <1>5
<1>7. Keep(s, S) = f[N]
  BY DEF Keep, Next1, N
<1> HIDE DEF f
<1>8. f[0] = <<>> /\ \A n \in 1 .. N : f[n] = Next1(f[n - 1], n)
  BY <1>1, <1>6
<1> HIDE DEF Def
<1> DEFINE Good(n) == f[n] \in Seq(T) /\ Ascending(f[n]) /\ ToSet(f[n]) = {s[i] : i \in 1 .. n} \cap S
           P == {n \in 0 .. N : Good(n)}
<1>9. 0 \in P
  <2>1. f[0] \in Seq(T) /\ DOMAIN f[0] = {}
    BY <1>8
  <2>2. Ascending(f[0]) /\ ToSet(f[0]) = {}
    BY <2>1 DEF Ascending, ToSet
  <2>3. {s[i] : i \in 1 .. 0} = {}
    OBVIOUS
  <2> QED
    BY <1>1, <2>1, <2>2, <2>3
<1>10. ASSUME NEW n \in 1 .. N, n - 1 \in P
       PROVE  n \in P
  <2> DEFINE k == f[n - 1]
             x == s[n]
             R(m) == {s[i] : i \in 1 .. m}
  <2>1. k \in Seq(T) /\ Ascending(k) /\ ToSet(k) = R(n - 1) \cap S
    BY <1>10
  <2>2. R(n) = R(n - 1) \cup {x}
    BY <1>1
  <2>3. x \in T /\ n \in 0 .. N
    BY <1>1
  <2>4. f[n] = IF x \in S THEN Append(k, x) ELSE k
    BY <1>8 DEF Next1
  <2>5. \A i \in DOMAIN k : k[i] < x
    <3> SUFFICES ASSUME NEW i \in DOMAIN k
                 PROVE  k[i] < x
      OBVIOUS
    <3>1. k[i] \in R(n - 1)
      BY <2>1 DEF ToSet
    <3>2. PICK j \in 1 .. n - 1 : k[i] = s[j]
      BY <3>1
    <3> QED
      BY <1>1, <3>2 DEF Ascending
  <2> HIDE DEF k, x, R
  <2>6. f[n] \in Seq(T) /\ Ascending(f[n]) /\ ToSet(f[n]) = R(n) \cap S
    <3>1. CASE x \in S
      <4>1. Append(k, x) \in Seq(T) /\ Ascending(Append(k, x)) /\ ToSet(Append(k, x)) = ToSet(k) \cup {x}
        BY <2>1, <2>3, <2>5, AscendingAppend
      <4> QED
        BY <2>1, <2>2, <2>4, <3>1, <4>1
    <3>2. CASE x \notin S
      BY <2>1, <2>2, <2>4, <3>2
    <3> QED
      BY <3>1, <3>2
  <2> USE DEF R
  <2> QED
    BY <2>3, <2>6
<1> HIDE DEF P
<1>11. \A n \in 0 .. N : n \in P
  BY <1>1, <1>9, <1>10, UpTo
<1>12. ToSet(s) = {s[i] : i \in 1 .. N}
  BY <1>1 DEF ToSet
<1>13. N \in P
  BY <1>1, <1>11
<1> QED
  BY <1>7, <1>12, <1>13 DEF P
-----------------------------------------------------------------------------
(****************************************************************************)
(* How many messages of these sizes are displayed.                          *)
(****************************************************************************)

CountedSums(z) == Sums([j \in DOMAIN z |-> CountedFor(z[j])])

PackedSums(z) == Sums([i \in DOMAIN z |-> PackedSize(z[i])])

ShownOf(z) == Cardinality({i \in DOMAIN z : CountedSums(z)[i - 1] < PackedSums(z)[Len(z)]})

Empties(z, n) == {i \in 1 .. n : z[i] = 0}

LEMMA SumsBySizes ==
  ASSUME NEW z \in Seq(Nat)
  PROVE  /\ CountedSums(z)[0] = 0 /\ PackedSums(z)[0] = 0
         /\ \A n \in 1 .. Len(z) :
              /\ CountedSums(z)[n] = CountedSums(z)[n - 1] + (25 + IF z[n] > 0 THEN z[n] ELSE 25)
              /\ PackedSums(z)[n] = PackedSums(z)[n - 1] + (25 + z[n])
         /\ \A n \in 0 .. Len(z) : CountedSums(z)[n] \in Nat /\ PackedSums(z)[n] \in Nat
<1>1. Len(z) \in Nat /\ DOMAIN z = 1 .. Len(z) /\ \A n \in 1 .. Len(z) : z[n] \in Nat
  BY LenProperties
<1> DEFINE c == [j \in DOMAIN z |-> CountedFor(z[j])]
           p == [j \in DOMAIN z |-> PackedSize(z[j])]
<1>2. \A x \in Nat : CountedFor(x) = 25 + (IF x > 0 THEN x ELSE 25) /\ PackedSize(x) = 25 + x
  BY DEF CountedFor, PackedSize, MIN_MSG_RESPONSE_SIZE
<1>3. /\ \A n \in 1 .. Len(z) : c[n] = 25 + (IF z[n] > 0 THEN z[n] ELSE 25) /\ c[n] \in Nat
      /\ c \in Seq(Nat) /\ Len(c) = Len(z)
  <2>1. \A n \in 1 .. Len(z) : c[n] = 25 + (IF z[n] > 0 THEN z[n] ELSE 25)
    BY <1>1, <1>2
  <2>2. \A n \in 1 .. Len(z) : c[n] \in Nat
    BY <1>1, <2>1
  <2>3. c \in [1 .. Len(z) -> Nat]
    BY <1>1, <2>2
  <2> HIDE DEF c
  <2>4. c \in Seq(Nat) /\ Len(c) = Len(z)
    BY <1>1, <2>3, IsASeq, LenProperties
  <2> QED
    BY <2>1, <2>2, <2>4
<1>4. /\ \A n \in 1 .. Len(z) : p[n] = 25 + z[n]
      /\ p \in Seq(Nat) /\ Len(p) = Len(z)
  <2>1. \A n \in 1 .. Len(z) : p[n] = 25 + z[n]
    BY <1>1, <1>2
  <2>2. \A n \in 1 .. Len(z) : p[n] \in Nat
    BY <1>1, <2>1
  <2>3. p \in [1 .. Len(z) -> Nat]
    BY <1>1, <2>2
  <2> HIDE DEF p
  <2>4. p \in Seq(Nat) /\ Len(p) = Len(z)
    BY <1>1, <2>3, IsASeq, LenProperties
  <2> QED
    BY <2>1, <2>4
<1>5. CountedSums(z) = Sums(c) /\ PackedSums(z) = Sums(p)
  BY DEF CountedSums, PackedSums
<1> HIDE DEF c, p
<1>6. /\ Sums(c)[0] = 0
      /\ \A n \in 1 .. Len(z) : Sums(c)[n] = Sums(c)[n - 1] + c[n]
      /\ \A n \in 0 .. Len(z) : Sums(c)[n] \in Nat
  BY <1>3, SumsOf
<1>7. /\ Sums(p)[0] = 0
      /\ \A n \in 1 .. Len(z) : Sums(p)[n] = Sums(p)[n - 1] + p[n]
      /\ \A n \in 0 .. Len(z) : Sums(p)[n] \in Nat
  BY <1>4, SumsOf
<1> QED
  BY <1>3, <1>4, <1>5, <1>6, <1>7

LEMMA EmptiesNext ==
  ASSUME NEW z, NEW n \in Nat \ {0}
  PROVE  /\ IsFiniteSet(Empties(z, n)) /\ IsFiniteSet(Empties(z, n - 1))
         /\ Cardinality(Empties(z, n - 1)) \in Nat
         /\ Cardinality(Empties(z, n)) = Cardinality(Empties(z, n - 1)) + IF z[n] = 0 THEN 1 ELSE 0
<1>1. IsFiniteSet(1 .. n) /\ IsFiniteSet(1 .. n - 1)
  BY FS_Interval
<1>2. Empties(z, n) \subseteq 1 .. n /\ Empties(z, n - 1) \subseteq 1 .. n - 1
  BY DEF Empties
<1>3. IsFiniteSet(Empties(z, n)) /\ IsFiniteSet(Empties(z, n - 1))
  BY <1>1, <1>2, FS_Subset
<1>4. Cardinality(Empties(z, n - 1)) \in Nat
  BY <1>3, FS_CardinalityType
<1>5. CASE z[n] = 0
  <2>1. Empties(z, n) = Empties(z, n - 1) \cup {n} /\ n \notin Empties(z, n - 1)
    BY <1>5 DEF Empties
  <2> QED
    BY <1>3, <1>4, <1>5, <2>1, FS_AddElement
<1>6. CASE z[n] # 0
  <2>1. Empties(z, n) = Empties(z, n - 1)
    BY <1>6 DEF Empties
  <2> QED
    BY <1>3, <1>4, <1>6, <2>1
<1> QED
  BY <1>5, <1>6

LEMMA ShownUpToEmpties ==
  ASSUME NEW z \in Seq(Nat)
  PROVE  /\ ShownOf(z) \in 0 .. Len(z)
         /\ Len(z) - ShownOf(z) <= Cardinality(Empties(z, ShownOf(z)))
<1> DEFINE L == Len(z)
           C == CountedSums(z)
           P == PackedSums(z)
           E(n) == Cardinality(Empties(z, n))
<1>1. L \in Nat /\ DOMAIN z = 1 .. L /\ \A n \in 1 .. L : z[n] \in Nat
  BY LenProperties
<1>2. /\ C[0] = 0 /\ P[0] = 0
      /\ \A n \in 1 .. L : C[n] = C[n - 1] + (25 + IF z[n] > 0 THEN z[n] ELSE 25)
      /\ \A n \in 1 .. L : P[n] = P[n - 1] + (25 + z[n])
      /\ \A n \in 0 .. L : C[n] \in Nat /\ P[n] \in Nat
  BY SumsBySizes
<1>3. E(0) = 0 /\ \A n \in Nat \ {0} : E(n) = E(n - 1) + (IF z[n] = 0 THEN 1 ELSE 0) /\ E(n - 1) \in Nat
  <2>1. Empties(z, 0) = {}
    BY DEF Empties
  <2> QED
    BY <2>1, EmptiesNext, FS_EmptySet
<1>4. ShownOf(z) = Cardinality({i \in 1 .. L : C[i - 1] < P[L]})
  BY <1>1 DEF ShownOf
<1> HIDE DEF L, C, P, E
\* The count is ahead of the payload by a header for every message without content.
<1>5. \A n \in 0 .. L : E(n) \in Nat /\ C[n] = P[n] + 25 * E(n)
  <2> DEFINE A == {n \in 0 .. L : E(n) \in Nat /\ C[n] = P[n] + 25 * E(n)}
  <2>1. 0 \in A
    BY <1>1, <1>2, <1>3
  <2>2. ASSUME NEW n \in 1 .. L, n - 1 \in A
        PROVE  n \in A
    <3>1. n \in Nat \ {0} /\ n \in 0 .. L /\ n - 1 \in 0 .. L
      BY <1>1
    <3> DEFINE e == E(n - 1)
               f == E(n)
    <3>2. e \in Nat /\ C[n - 1] = P[n - 1] + 25 * e
      BY <2>2
    <3>3. f = e + IF z[n] = 0 THEN 1 ELSE 0
      BY <1>3, <3>1
    <3>4. z[n] \in Nat /\ P[n - 1] \in Nat /\ C[n - 1] \in Nat
      BY <1>1, <1>2, <3>1
    <3>5. C[n] = C[n - 1] + (25 + IF z[n] > 0 THEN z[n] ELSE 25) /\ P[n] = P[n - 1] + (25 + z[n])
      BY <1>2
    <3> HIDE DEF e, f
    <3>6. f \in Nat /\ C[n] = P[n] + 25 * f
      <4>1. CASE z[n] = 0
        <5>1. f = e + 1 /\ C[n] = C[n - 1] + 50 /\ P[n] = P[n - 1] + 25
          BY <3>3, <3>5, <4>1
        <5> QED
          BY <3>2, <3>4, <5>1
      <4>2. CASE z[n] > 0
        <5>1. f = e /\ C[n] = C[n - 1] + (25 + z[n]) /\ P[n] = P[n - 1] + (25 + z[n])
          BY <3>2, <3>3, <3>4, <3>5, <4>2
        <5> QED
          BY <3>2, <3>4, <5>1
      <4> QED
        BY <3>4, <4>1, <4>2
    <3> QED
      BY <3>1, <3>6 DEF f
  <2> HIDE DEF A
  <2>3. \A n \in 0 .. L : n \in A
    BY <1>1, <2>1, <2>2, UpTo
  <2> QED
    BY <2>3 DEF A
\* Every message that is left has a header at least.
<1>6. \A n \in 0 .. L : P[L] >= P[n] + 25 * (L - n)
  <2> DEFINE A == {m \in 0 .. L : P[L] >= P[L - m] + 25 * m}
  <2>1. 0 \in A
    BY <1>1, <1>2
  <2>2. ASSUME NEW m \in 1 .. L, m - 1 \in A
        PROVE  m \in A
    <3> DEFINE n == L - m
    <3>1. n \in 0 .. L /\ n + 1 \in 1 .. L /\ L - (m - 1) = n + 1 /\ (n + 1) - 1 = n /\ m \in 0 .. L
      BY <1>1
    <3>2. P[n + 1] = P[n] + (25 + z[n + 1]) /\ z[n + 1] \in Nat /\ P[n] \in Nat /\ P[n + 1] \in Nat /\ P[L] \in Nat
      BY <1>1, <1>2, <3>1
    <3>3. P[L] >= P[n + 1] + 25 * (m - 1)
      BY <2>2, <3>1
    <3>4. P[L] >= P[n] + 25 * m
      BY <3>2, <3>3
    <3> QED
      BY <3>1, <3>4
  <2> HIDE DEF A
  <2>3. \A m \in 0 .. L : m \in A
    BY <1>1, <2>1, <2>2, UpTo
  <2>4. ASSUME NEW n \in 0 .. L
        PROVE  P[L] >= P[n] + 25 * (L - n)
    <3>1. L - n \in 0 .. L /\ L - (L - n) = n
      BY <1>1
    <3>2. L - n \in A
      BY <2>3, <3>1
    <3> QED
      BY <3>1, <3>2 DEF A
  <2> QED
    BY <2>4
\* The loop ends at the first count that reaches the payload.
<1> DEFINE D == {n \in 0 .. L : C[n] >= P[L]}
<1>7. PICK d \in D : \A n \in D : d <= n
  <2>1. L \in 0 .. L /\ L \in D
    <3> DEFINE e == E(L)
    <3>1. L \in 0 .. L /\ e \in Nat /\ C[L] = P[L] + 25 * e /\ P[L] \in Nat
      BY <1>1, <1>2, <1>5
    <3> HIDE DEF e
    <3> QED
      BY <3>1
  <2>2. D \in SUBSET Nat /\ D # {}
    BY <2>1
  <2> HIDE DEF D
  <2> QED
    BY <2>2, Least
<1>8. d \in 0 .. L /\ C[d] >= P[L]
  BY <1>7
<1>9. \A n \in 0 .. L : n < d => C[n] < P[L]
  BY <1>1, <1>2, <1>7
<1> HIDE DEF D
<1>10. \A n \in 0 .. L : n >= d => C[n] >= P[L]
  <2> DEFINE A == {n \in 0 .. L : n >= d => C[n] >= P[L]}
  <2>1. 0 \in A
    BY <1>1, <1>8
  <2>2. ASSUME NEW n \in 1 .. L, n - 1 \in A
        PROVE  n \in A
    <3>1. n \in 0 .. L /\ n - 1 \in 0 .. L
      BY <1>1
    <3>2. C[n] >= C[n - 1] /\ C[n] \in Nat /\ C[n - 1] \in Nat /\ P[L] \in Nat
      BY <1>1, <1>2, <3>1
    <3>3. CASE n <= d
      BY <1>8, <3>1, <3>3
    <3>4. CASE n > d
      <4>1. n - 1 >= d
        BY <1>8, <3>4
      <4>2. C[n - 1] >= P[L]
        BY <2>2, <4>1
      <4> QED
        BY <3>1, <3>2, <4>2
    <3> QED
      BY <1>8, <3>3, <3>4
  <2> HIDE DEF A
  <2>3. \A n \in 0 .. L : n \in A
    BY <1>1, <2>1, <2>2, UpTo
  <2> QED
    BY <2>3 DEF A
<1>11. {i \in 1 .. L : C[i - 1] < P[L]} = 1 .. d
  <2>1. ASSUME NEW i \in 1 .. L
        PROVE  C[i - 1] < P[L] <=> i <= d
    <3>1. i - 1 \in 0 .. L /\ C[i - 1] \in Nat /\ P[L] \in Nat
      BY <1>1, <1>2
    <3> QED
      BY <1>8, <1>9, <1>10, <3>1
  <2> QED
    BY <1>1, <1>8, <2>1
<1>12. ShownOf(z) = d
  <2>1. d \in Nat /\ d \in Int /\ 1 \in Int
    BY <1>1, <1>8
  <2>2. Cardinality(1 .. d) = IF 1 > d THEN 0 ELSE d - 1 + 1
    BY <2>1, FS_Interval, Zenon
  <2> DEFINE c == Cardinality(1 .. d)
  <2>3. ShownOf(z) = c /\ c = IF 1 > d THEN 0 ELSE d - 1 + 1
    BY <1>4, <1>11, <2>2, Zenon
  <2> HIDE DEF c
  <2> QED
    BY <2>1, <2>3
<1>13. L - d <= E(d)
  <2> DEFINE e == E(d)
  <2>1. e \in Nat /\ C[d] = P[d] + 25 * e /\ P[d] \in Nat /\ P[L] \in Nat
    BY <1>1, <1>2, <1>5, <1>8
  <2>2. P[L] >= P[d] + 25 * (L - d)
    BY <1>6, <1>8
  <2> HIDE DEF e
  <2>3. L - d <= e
    BY <1>1, <1>8, <2>1, <2>2
  <2> QED
    BY <2>3 DEF e
<1> QED
  BY <1>8, <1>12, <1>13 DEF L, E
-----------------------------------------------------------------------------
(****************************************************************************)
(* Sequences of message ids: what is in a longer one, a shorter one, and    *)
(* how many times.                                                          *)
(****************************************************************************)

Times(s, i) == Cardinality({k \in DOMAIN s : s[k] = i})

LEMMA SeqWider ==
  ASSUME NEW S, NEW T, S \subseteq T, NEW s \in Seq(S)
  PROVE  s \in Seq(T)
<1>1. Len(s) \in Nat /\ s \in [1 .. Len(s) -> S]
  BY LenProperties
<1>2. s \in [1 .. Len(s) -> T]
  BY <1>1
<1> QED
  BY <1>1, <1>2, IsASeq

LEMMA InToSet ==
  ASSUME NEW T, NEW s \in Seq(T)
  PROVE  /\ ToSet(s) \subseteq T
         /\ \A x : x \in ToSet(s) <=> \E k \in 1 .. Len(s) : s[k] = x
         /\ DOMAIN s = 1 .. Len(s) /\ Len(s) \in Nat
<1>1. DOMAIN s = 1 .. Len(s) /\ Len(s) \in Nat /\ \A k \in 1 .. Len(s) : s[k] \in T
  BY LenProperties
<1> QED
  BY <1>1 DEF ToSet

LEMMA FirstOf ==
  ASSUME NEW T, NEW s \in Seq(T), NEW n \in 0 .. Len(s)
  PROVE  /\ SubSeq(s, 1, n) \in Seq(T) /\ Len(SubSeq(s, 1, n)) = n
         /\ \A k \in 1 .. n : SubSeq(s, 1, n)[k] = s[k]
         /\ ToSet(SubSeq(s, 1, n)) \subseteq ToSet(s)
         /\ Ascending(s) => Ascending(SubSeq(s, 1, n))
<1>1. DOMAIN s = 1 .. Len(s) /\ Len(s) \in Nat
  BY LenProperties
<1> DEFINE t == SubSeq(s, 1, n)
<1>2. t \in Seq(T) /\ Len(t) = n /\ \A k \in 1 .. n : t[k] = s[k]
  BY <1>1, SubSeqProperties
<1> HIDE DEF t
<1>3. DOMAIN t = 1 .. n
  BY <1>2, LenProperties
<1>4. ToSet(t) \subseteq ToSet(s)
  BY <1>1, <1>2, <1>3 DEF ToSet
<1>5. Ascending(s) => Ascending(t)
  BY <1>1, <1>2, <1>3 DEF Ascending
<1> QED
  BY <1>2, <1>4, <1>5 DEF t

LEMMA ConcatOf ==
  ASSUME NEW T, NEW s \in Seq(T), NEW t \in Seq(T)
  PROVE  /\ s \o t \in Seq(T) /\ Len(s \o t) = Len(s) + Len(t)
         /\ \A k \in 1 .. Len(s) : (s \o t)[k] = s[k]
         /\ \A k \in 1 .. Len(t) : (s \o t)[Len(s) + k] = t[k]
         /\ \A k \in DOMAIN (s \o t) :
              k \in 1 .. Len(s) \/ (k - Len(s) \in 1 .. Len(t) /\ (s \o t)[k] = t[k - Len(s)])
         /\ ToSet(s \o t) = ToSet(s) \cup ToSet(t)
<1> DEFINE m == Len(s)
           n == Len(t)
           r == s \o t
<1>1. m \in Nat /\ n \in Nat /\ DOMAIN s = 1 .. m /\ DOMAIN t = 1 .. n
  BY LenProperties
<1>2. /\ r \in Seq(T) /\ Len(r) = m + n
      /\ \A k \in 1 .. m + n : r[k] = IF k <= m THEN s[k] ELSE t[k - m]
  BY ConcatProperties
<1>3. DOMAIN r = 1 .. m + n
  BY <1>2, LenProperties
<1> HIDE DEF m, n, r
<1>4. \A k \in 1 .. m : k \in 1 .. m + n /\ r[k] = s[k]
  BY <1>1, <1>2
<1>5. ASSUME NEW k \in 1 .. n
      PROVE  m + k \in 1 .. m + n /\ r[m + k] = t[k]
  <2>1. m + k \in 1 .. m + n /\ ~(m + k <= m) /\ (m + k) - m = k
    BY <1>1
  <2> QED
    BY <1>2, <2>1
<1>6. \A k \in DOMAIN r : k \in 1 .. m \/ (k - m \in 1 .. n /\ r[k] = t[k - m])
  BY <1>1, <1>2, <1>3
<1>7. ToSet(r) = ToSet(s) \cup ToSet(t)
  <2>1. ToSet(r) \subseteq ToSet(s) \cup ToSet(t)
    BY <1>1, <1>4, <1>6 DEF ToSet
  <2>2. ToSet(s) \subseteq ToSet(r)
    BY <1>1, <1>3, <1>4 DEF ToSet
  <2>3. ToSet(t) \subseteq ToSet(r)
    BY <1>1, <1>3, <1>5 DEF ToSet
  <2> QED
    BY <2>1, <2>2, <2>3
<1> QED
  BY <1>2, <1>4, <1>5, <1>6, <1>7 DEF m, n, r

LEMMA TimesFinite ==
  ASSUME NEW T, NEW s \in Seq(T), NEW i
  PROVE  /\ IsFiniteSet({k \in DOMAIN s : s[k] = i}) /\ Times(s, i) \in Nat
         /\ i \notin ToSet(s) => Times(s, i) = 0
<1>1. Len(s) \in Nat /\ DOMAIN s = 1 .. Len(s)
  BY LenProperties
<1>2. IsFiniteSet(1 .. Len(s))
  BY <1>1, FS_Interval
<1>3. IsFiniteSet({k \in DOMAIN s : s[k] = i})
  BY <1>1, <1>2, FS_Subset
<1>4. ASSUME i \notin ToSet(s)
      PROVE  {k \in DOMAIN s : s[k] = i} = {}
  BY <1>4 DEF ToSet
<1> QED
  BY <1>3, <1>4, FS_CardinalityType, FS_EmptySet DEF Times

\* What is added once is counted once more.
LEMMA TimesConcat ==
  ASSUME NEW T \in SUBSET Nat, NEW s \in Seq(T), NEW t \in Seq(T), Ascending(t), NEW i
  PROVE  Times(s \o t, i) = Times(s, i) + IF i \in ToSet(t) THEN 1 ELSE 0
<1> DEFINE m == Len(s)
           r == s \o t
           A == {k \in DOMAIN s : s[k] = i}
           B == {k \in DOMAIN r : r[k] = i}
<1>1. m \in Nat /\ Len(t) \in Nat /\ DOMAIN s = 1 .. m /\ DOMAIN t = 1 .. Len(t)
  BY LenProperties
<1>2. /\ \A k \in 1 .. m : r[k] = s[k]
      /\ \A k \in 1 .. Len(t) : r[m + k] = t[k]
      /\ \A k \in DOMAIN r : k \in 1 .. m \/ (k - m \in 1 .. Len(t) /\ r[k] = t[k - m])
      /\ r \in Seq(T) /\ Len(r) = m + Len(t)
  BY ConcatOf
<1>3. DOMAIN r = 1 .. m + Len(t)
  BY <1>2, LenProperties
<1>4. IsFiniteSet(A) /\ Times(s, i) = Cardinality(A) /\ Cardinality(A) \in Nat
  BY TimesFinite DEF Times
<1>5. Times(r, i) = Cardinality(B)
  BY DEF Times
<1> HIDE DEF r, m
<1>6. A \subseteq B
  BY <1>1, <1>2, <1>3
<1>7. CASE i \notin ToSet(t)
  <2>1. \A k \in 1 .. Len(t) : t[k] # i
    BY <1>1, <1>7 DEF ToSet
  <2>2. B \subseteq A
    BY <1>1, <1>2, <2>1
  <2>3. A = B
    BY <1>6, <2>2
  <2> HIDE DEF A, B
  <2> QED
    BY <1>4, <1>5, <1>7, <2>3 DEF r
<1>8. CASE i \in ToSet(t)
  <2>1. PICK j \in 1 .. Len(t) : t[j] = i
    BY <1>1, <1>8 DEF ToSet
  <2>2. ASSUME NEW k \in 1 .. Len(t), t[k] = i
        PROVE  k = j
    <3>1. t[j] \in Nat
      BY <1>1, LenProperties
    <3>2. k < j => t[k] < t[j]
      BY <1>1 DEF Ascending
    <3>3. j < k => t[j] < t[k]
      BY <1>1 DEF Ascending
    <3>4. ~(k < j) /\ ~(j < k)
      BY <2>1, <2>2, <3>1, <3>2, <3>3
    <3> QED
      BY <1>1, <3>4
  <2>3. m + j \in B /\ m + j \notin A
    BY <1>1, <1>2, <1>3, <2>1
  <2>4. B \subseteq A \cup {m + j}
    <3> SUFFICES ASSUME NEW k \in B, k \notin A
                 PROVE  k = m + j
      OBVIOUS
    <3>1. k \in DOMAIN r /\ r[k] = i /\ k \notin 1 .. m
      BY <1>1, <1>2
    <3>2. k - m \in 1 .. Len(t) /\ t[k - m] = i
      BY <1>2, <3>1
    <3>3. k - m = j
      BY <2>2, <3>2
    <3> QED
      BY <1>1, <1>3, <3>1, <3>3
  <2>5. B = A \cup {m + j}
    BY <1>6, <2>3, <2>4
  <2> HIDE DEF A, B
  <2>6. Cardinality(B) = Cardinality(A) + 1
    BY <1>4, <2>3, <2>5, FS_AddElement
  <2> QED
    BY <1>4, <1>5, <1>8, <2>6 DEF r
<1> QED
  BY <1>7, <1>8
-----------------------------------------------------------------------------
(****************************************************************************)
(* The order of first appearances.                                          *)
(****************************************************************************)

\* Whenever something greater than y is in s, y is at or before that place.
Before(s, y) == \A k \in DOMAIN s : y < s[k] => \E j \in 1 .. k : s[j] = y

InOrder(s) ==
  \A k, l \in DOMAIN s : k < l /\ s[k] > s[l] => \E j \in 1 .. k : s[j] = s[l]

LEMMA BeforeConcat ==
  ASSUME NEW s \in Seq(Nat), NEW t \in Seq(Nat), NEW y \in Nat, Before(s, y), Before(t, y)
  PROVE  Before(s \o t, y)
<1> DEFINE m == Len(s)
           r == s \o t
<1>1. /\ \A k \in 1 .. m : r[k] = s[k]
      /\ \A k \in 1 .. Len(t) : r[m + k] = t[k]
      /\ \A k \in DOMAIN r : k \in 1 .. m \/ (k - m \in 1 .. Len(t) /\ r[k] = t[k - m])
      /\ r \in Seq(Nat)
  BY ConcatOf
<1>2. m \in Nat /\ Len(t) \in Nat /\ DOMAIN s = 1 .. m /\ DOMAIN t = 1 .. Len(t)
  BY LenProperties
<1>3. DOMAIN r = 1 .. Len(r) /\ Len(r) \in Nat
  BY <1>1, LenProperties
<1> HIDE DEF m, r
<1> SUFFICES ASSUME NEW k \in DOMAIN r, y < r[k]
             PROVE  \E j \in 1 .. k : r[j] = y
  BY DEF Before, r
<1>4. CASE k \in 1 .. m
  <2>1. PICK j \in 1 .. k : s[j] = y
    BY <1>1, <1>2, <1>4 DEF Before
  <2>2. j \in 1 .. m
    BY <1>2, <1>4
  <2> QED
    BY <1>1, <2>1, <2>2
<1>5. CASE k - m \in 1 .. Len(t) /\ r[k] = t[k - m]
  <2>1. PICK j \in 1 .. k - m : t[j] = y
    BY <1>2, <1>5 DEF Before
  <2>2. j \in 1 .. Len(t) /\ m + j \in 1 .. k
    BY <1>2, <1>3, <1>5
  <2>3. r[m + j] = y
    BY <1>1, <2>1, <2>2
  <2> QED
    BY <2>2, <2>3
<1> QED
  BY <1>1, <1>4, <1>5

LEMMA InOrderConcat ==
  ASSUME NEW s \in Seq(Nat), NEW t \in Seq(Nat), InOrder(s), Ascending(t),
         \A y \in ToSet(t) : Before(s, y)
  PROVE  InOrder(s \o t)
<1> DEFINE m == Len(s)
           r == s \o t
<1>1. /\ \A k \in 1 .. m : r[k] = s[k]
      /\ \A k \in DOMAIN r : k \in 1 .. m \/ (k - m \in 1 .. Len(t) /\ r[k] = t[k - m])
      /\ r \in Seq(Nat)
  BY ConcatOf
<1>2. m \in Nat /\ Len(t) \in Nat /\ DOMAIN s = 1 .. m /\ DOMAIN t = 1 .. Len(t)
  BY LenProperties
<1>3. DOMAIN r = 1 .. Len(r) /\ Len(r) \in Nat
  BY <1>1, LenProperties
<1>a. \A k \in 1 .. Len(t) : t[k] \in Nat
  BY ElementOfSeq
<1> HIDE DEF m, r
<1> SUFFICES ASSUME NEW k \in DOMAIN r, NEW l \in DOMAIN r, k < l, r[k] > r[l]
             PROVE  \E j \in 1 .. k : r[j] = r[l]
  BY DEF InOrder, r
<1>4. CASE l \in 1 .. m
  <2>1. k \in 1 .. m
    BY <1>2, <1>3, <1>4
  <2>2. PICK j \in 1 .. k : s[j] = s[l]
    BY <1>1, <1>2, <1>4, <2>1 DEF InOrder
  <2>3. j \in 1 .. m
    BY <1>2, <2>1
  <2> QED
    BY <1>1, <1>4, <2>2, <2>3
<1>5. CASE l - m \in 1 .. Len(t) /\ r[l] = t[l - m]
  <2>1. CASE k \in 1 .. m
    <3>1. r[l] \in ToSet(t) /\ r[k] = s[k] /\ r[l] \in Nat /\ r[k] \in Nat
      <4>1. r[l] \in ToSet(t) /\ r[k] = s[k] /\ r[l] \in Nat
        BY <1>1, <1>2, <1>5, <1>a, <2>1 DEF ToSet
      <4>2. r[k] \in Nat
        BY <1>1, <1>3, ElementOfSeq
      <4> QED
        BY <4>1, <4>2
    <3>2. r[l] < s[k]
      BY <3>1
    <3>3. PICK j \in 1 .. k : s[j] = r[l]
      BY <1>2, <2>1, <3>1, <3>2 DEF Before
    <3>4. j \in 1 .. m
      BY <1>2, <2>1
    <3> QED
      BY <1>1, <3>3, <3>4
  <2>2. CASE k - m \in 1 .. Len(t) /\ r[k] = t[k - m]
    <3>1. k - m < l - m
      BY <1>2, <1>3
    <3>2. t[k - m] < t[l - m]
      BY <1>2, <1>5, <2>2, <3>1 DEF Ascending
    <3>3. FALSE
      BY <1>5, <1>a, <2>2, <3>2
    <3> QED
      BY <3>3
  <2> QED
    BY <1>1, <2>1, <2>2
<1> QED
  BY <1>1, <1>4, <1>5

\* A part of an ascending sequence has all that is less than one of its elements.
LEMMA BeforeFirst ==
  ASSUME NEW b \in Seq(Nat), Ascending(b), NEW t \in Seq(Nat), Len(t) <= Len(b),
         \A k \in 1 .. Len(t) : t[k] = b[k],
         NEW y \in Nat, \A x \in ToSet(b) : y < x => y \in ToSet(b)
  PROVE  Before(t, y)
<1>1. /\ Len(b) \in Nat /\ DOMAIN b = 1 .. Len(b)
      /\ Len(t) \in Nat /\ DOMAIN t = 1 .. Len(t)
      /\ \A k \in 1 .. Len(b) : b[k] \in Nat
  BY LenProperties, ElementOfSeq
<1> SUFFICES ASSUME NEW k \in 1 .. Len(t), y < t[k]
             PROVE  \E j \in 1 .. k : t[j] = y
  BY <1>1 DEF Before
<1>2. k \in 1 .. Len(b) /\ b[k] = t[k] /\ k \in Nat
  BY <1>1
<1>3. b[k] \in ToSet(b) /\ y < b[k]
  BY <1>1, <1>2 DEF ToSet
<1>4. PICK j \in 1 .. Len(b) : b[j] = y
  BY <1>1, <1>3 DEF ToSet
<1>5. ~(k < j)
  <2>1. k < j => b[k] < b[j]
    BY <1>1, <1>2 DEF Ascending
  <2> QED
    BY <1>1, <1>2, <1>3, <1>4, <2>1
<1>6. j \in 1 .. k /\ j \in 1 .. Len(t)
  BY <1>1, <1>2, <1>5
<1> QED
  BY <1>4, <1>6

LEMMA CopiedIn ==
  ASSUME NEW b \in Seq(Nat), NEW n \in 0 .. Len(b)
  PROVE  \A i : i \in ToSet(SubSeq(b, 1, n)) <=> \E j \in 1 .. n : b[j] = i
<1> DEFINE t == SubSeq(b, 1, n)
<1>1. t \in Seq(Nat) /\ Len(t) = n /\ \A k \in 1 .. n : t[k] = b[k]
  BY FirstOf
<1> HIDE DEF t
<1>2. \A i : i \in ToSet(t) <=> \E k \in 1 .. Len(t) : t[k] = i
  BY <1>1, InToSet
<1> QED
  BY <1>1, <1>2 DEF t

\* Whatever is not displayed has a message without content before it.
LEMMA EmptyBeforeHidden ==
  ASSUME NEW z \in Seq(Nat), NEW l \in 1 .. Len(z), ShownOf(z) < l
  PROVE  \E k \in 1 .. Len(z) : k < l /\ z[k] = 0
<1> DEFINE d == ShownOf(z)
           E == Empties(z, d)
<1>1. d \in 0 .. Len(z) /\ Len(z) - d <= Cardinality(E) /\ Len(z) \in Nat
  BY ShownUpToEmpties, LenProperties
<1>2. E # {}
  <2>1. E = {} => Cardinality(E) = 0
    BY FS_EmptySet
  <2>2. d < l
    OBVIOUS
  <2> HIDE DEF d, E
  <2> QED
    BY <1>1, <2>1, <2>2
<1>3. PICK k \in 1 .. d : z[k] = 0
  BY <1>2 DEF Empties
<1> HIDE DEF d, E
<1>4. d < l
  BY DEF d
<1> QED
  BY <1>1, <1>3, <1>4
=============================================================================
