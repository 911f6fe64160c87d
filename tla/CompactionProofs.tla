-------------------------- MODULE CompactionProofs --------------------------
(***************************************************************************)
(* Proofs about Compaction: its types, that a complete SSTable never       *)
(* changes, that an undisturbed reader finds what was there, and that the  *)
(* files implement VersionStore.                                           *)
(***************************************************************************)
EXTENDS Compaction, Integers, FiniteSetTheorems, SequenceTheorems, WellFoundedInduction, TLAPS

-----------------------------------------------------------------------------
(* Induction over the naturals, as membership in a set, and maxima.        *)

\* Induction: a set with 0 and the successors of its members has all naturals.
\* A least number outside the set would be the successor of one inside.
LEMMA NatSetInduction ==
    ASSUME NEW S, 0 \in S, \A n \in Nat : n \in S => n + 1 \in S
    PROVE  \A n \in Nat : n \in S
<1>1. SUFFICES ASSUME NEW m \in Nat, m \notin S PROVE FALSE
  OBVIOUS
<1> DEFINE T == {n \in Nat : n \notin S}
<1> DEFINE R == OpToRel(<, Nat)
<1>2. T \subseteq Nat /\ T # {}
  BY <1>1
<1>3. IsWellFoundedOn(R, Nat)
  BY NatLessThanWellFounded
<1>4. \E x \in T : \A y \in T : ~ (<<y, x>> \in R)
  <2> HIDE DEF T, R
  <2> QED BY <1>2, <1>3, WFMin
<1>5. PICK x \in T : \A y \in T : ~ (<<y, x>> \in R)
  BY <1>4
<1>6. x \in Nat /\ x # 0 /\ x - 1 \in Nat
  OBVIOUS
<1>7. x - 1 \in T
  <2>1. x - 1 \in S => x \in S
    BY <1>6
  <2> QED BY <2>1, <1>6
<1>8. <<x - 1, x>> \in R
  BY <1>6 DEF OpToRel
<1> QED BY <1>5, <1>7, <1>8

\* The same up to a bound.
LEMMA UpToInduction ==
    ASSUME NEW n \in Nat, NEW S, 0 \in S, \A i \in 0 .. n - 1 : i \in S => i + 1 \in S
    PROVE  \A i \in 0 .. n : i \in S
<1> DEFINE T == {i \in Nat : i <= n => i \in S}
<1>1. 0 \in T
  OBVIOUS
<1>2. ASSUME NEW i \in Nat, i \in T PROVE i + 1 \in T
  <2>1. CASE i + 1 <= n
    <3>1. i \in 0 .. n - 1 /\ i \in S
      BY <1>2, <2>1
    <3> QED BY <3>1
  <2>2. CASE ~(i + 1 <= n)
    BY <2>2
  <2> QED BY <2>1, <2>2
<1>3. \A i \in Nat : i \in T
  <2> HIDE DEF T
  <2> QED BY <1>1, <1>2, NatSetInduction
<1> QED BY <1>3

\* A function on 0 .. n with the value x at 0 and the step h.
Steps(V, n) == [1 .. n -> [V -> V]]
Iterates(V, n, x, h) ==
    \E g \in [0 .. n -> V] : g[0] = x /\ \A i \in 1 .. n : g[i] = h[i][g[i - 1]]

\* There always is one.
LEMMA RecursionExists ==
    ASSUME NEW V, NEW x \in V, NEW n \in Nat, NEW h \in Steps(V, n)
    PROVE  Iterates(V, n, x, h)
<1> USE DEF Steps
<1> DEFINE Upto(m) == \E g \in [0 .. m -> V] : g[0] = x /\ \A i \in 1 .. m : g[i] = h[i][g[i - 1]]
<1> DEFINE S == {m \in Nat : Upto(m)}
<1>1. 0 \in S
  <2> DEFINE g == [i \in 0 .. 0 |-> x]
  <2>1. g \in [0 .. 0 -> V] /\ g[0] = x /\ \A i \in 1 .. 0 : g[i] = h[i][g[i - 1]]
    OBVIOUS
  <2> QED BY <2>1
<1>2. ASSUME NEW m \in 0 .. n - 1, m \in S PROVE m + 1 \in S
  <2>1. PICK g \in [0 .. m -> V] : g[0] = x /\ \A i \in 1 .. m : g[i] = h[i][g[i - 1]]
    BY <1>2
  <2> DEFINE f == [i \in 0 .. m + 1 |-> IF i = m + 1 THEN h[m + 1][g[m]] ELSE g[i]]
  <2>2. h[m + 1] \in [V -> V] /\ g[m] \in V
    BY <2>1
  <2>3. f \in [0 .. m + 1 -> V]
    BY <2>1, <2>2
  <2>4. f[0] = x
    BY <2>1
  <2>5. ASSUME NEW i \in 1 .. m + 1 PROVE f[i] = h[i][f[i - 1]]
    <3>1. CASE i = m + 1
      BY <3>1
    <3>2. CASE i # m + 1
      <4>1. i \in 1 .. m /\ i \in 0 .. m + 1 /\ i - 1 \in 0 .. m + 1 /\ i - 1 # m + 1
        BY <3>2
      <4>2. f[i] = g[i] /\ f[i - 1] = g[i - 1]
        BY <3>2, <4>1
      <4> HIDE DEF f
      <4> QED BY <2>1, <4>1, <4>2
    <3> QED BY <3>1, <3>2
  <2>6. Upto(m + 1)
    <3> HIDE DEF f
    <3> QED BY <2>3, <2>4, <2>5
  <2> HIDE DEF Upto
  <2> QED BY <2>6
<1>3. \A m \in 0 .. n : m \in S
  <2> HIDE DEF S
  <2> QED BY <1>1, <1>2, UpToInduction
<1>4. n \in S
  <2> HIDE DEF S
  <2> QED BY <1>3
<1> QED BY <1>4 DEF Iterates

\* The values of a function on 1 .. n have a greatest one.
LEMMA GreatestValue ==
    ASSUME NEW n \in Nat, n > 0, NEW f \in [1 .. n -> Nat]
    PROVE  \E j \in 1 .. n : \A i \in 1 .. n : f[i] <= f[j]
<1> DEFINE P(k) == \E j \in 1 .. k : \A i \in 1 .. k : f[i] <= f[j]
<1> DEFINE T == {k \in Nat : k = 0 \/ P(k)}
<1>1. 0 \in T
  OBVIOUS
<1>2. ASSUME NEW k \in 0 .. n - 1, k \in T PROVE k + 1 \in T
  <2>1. k \in Nat /\ k + 1 \in Nat /\ k + 1 \in 1 .. n /\ \A i \in 1 .. k : f[i] \in Nat
    OBVIOUS
  <2>2. CASE k = 0
    <3>1. P(1)
      BY <2>1, <2>2
    <3> QED BY <3>1, <2>2
  <2>3. CASE P(k)
    <3>1. PICK j \in 1 .. k : \A i \in 1 .. k : f[i] <= f[j]
      BY <2>3
    <3>2. f[k + 1] \in Nat /\ f[j] \in Nat
      BY <2>1
    <3>3. CASE f[k + 1] <= f[j]
      <4>1. \A i \in 1 .. k + 1 : f[i] <= f[j]
        BY <3>1, <3>3, <2>1
      <4>2. P(k + 1)
        BY <4>1, <2>1
      <4> HIDE DEF P
      <4> QED BY <4>2, <2>1
    <3>4. CASE f[j] < f[k + 1]
      <4>1. \A i \in 1 .. k + 1 : f[i] <= f[k + 1]
        BY <3>1, <3>2, <3>4, <2>1
      <4>2. P(k + 1)
        BY <4>1, <2>1
      <4> HIDE DEF P
      <4> QED BY <4>2, <2>1
    <3> QED BY <3>2, <3>3, <3>4
  <2> HIDE DEF P
  <2> QED BY <1>2, <2>2, <2>3
<1>3. \A k \in 0 .. n : k \in T
  <2> HIDE DEF T
  <2> QED BY <1>1, <1>2, UpToInduction
<1>4. n \in T
  <2> HIDE DEF T
  <2> QED BY <1>3
<1> HIDE DEF P
<1>5. P(n)
  BY <1>4
<1> QED BY <1>5 DEF P

\* A finite set of naturals that is not empty has its maximum.
LEMMA MaxIs ==
    ASSUME NEW S \in SUBSET Nat, IsFiniteSet(S), S # {}
    PROVE  Max(S) \in S /\ \A y \in S : y <= Max(S)
<1>1. PICK n \in Nat : ExistsBijection(1 .. n, S)
  BY FS_NatBijection
<1>2. PICK f \in Bijection(1 .. n, S) : TRUE
  BY <1>1 DEF ExistsBijection
<1>3. f \in [1 .. n -> S] /\ \A y \in S : \E i \in 1 .. n : f[i] = y
  BY <1>2 DEF Bijection, Surjection, Injection, IsInjective
<1>4. n > 0 /\ f \in [1 .. n -> Nat]
  <2>1. PICK y : y \in S
    OBVIOUS
  <2>2. PICK i \in 1 .. n : f[i] = y
    BY <1>3, <2>1
  <2>3. n > 0
    BY <2>2
  <2>4. f \in [1 .. n -> Nat]
    BY <1>3
  <2> QED BY <2>3, <2>4
<1>5. PICK j \in 1 .. n : \A i \in 1 .. n : f[i] <= f[j]
  BY <1>4, GreatestValue
<1>6. f[j] \in S /\ \A y \in S : f[j] >= y
  BY <1>3, <1>4, <1>5
<1>7. Max(S) \in S /\ \A y \in S : Max(S) >= y
  BY <1>6 DEF Max
<1> QED BY <1>7

-----------------------------------------------------------------------------
(* The loops of the planner and of the merge, as functions of how far they *)
(* are.                                                                    *)

\* Keep is the last value of a loop that appends some elements.
KeepLoop(s, K, F) ==
    /\ F[0] = << >>
    /\ \A i \in 1 .. Len(s) : F[i] = IF i \in K THEN Append(F[i - 1], s[i]) ELSE F[i - 1]
    /\ Keep(s, K) = F[Len(s)]

LEMMA KeepDefined ==
    ASSUME NEW A, NEW s \in Seq(A), NEW K
    PROVE  \E F \in [0 .. Len(s) -> Seq(A)] : KeepLoop(s, K, F)
<1> DEFINE n == Len(s)
<1> DEFINE Body(F) == [k \in 0 .. Len(s) |->
                         IF k = 0 THEN << >>
                         ELSE IF k \in K THEN Append(F[k - 1], s[k]) ELSE F[k - 1]]
<1> DEFINE h == [i \in 1 .. n |-> [v \in Seq(A) |-> IF i \in K THEN Append(v, s[i]) ELSE v]]
<1> DEFINE G == CHOOSE F : F = Body(F)
<1>1. n \in Nat /\ \A i \in 1 .. n : s[i] \in A
  OBVIOUS
<1>2. h \in Steps(Seq(A), n)
  <2>1. ASSUME NEW i \in 1 .. n, NEW v \in Seq(A) PROVE Append(v, s[i]) \in Seq(A)
    BY <1>1
  <2> HIDE DEF n
  <2> QED BY <2>1 DEF Steps
<1>3. PICK g \in [0 .. n -> Seq(A)] : g[0] = << >> /\ \A i \in 1 .. n : g[i] = h[i][g[i - 1]]
  <2> DEFINE V == Seq(A)
  <2> DEFINE e == << >>
  <2>1. e \in V
    OBVIOUS
  <2>2. Iterates(V, n, e, h)
    <3>1. h \in Steps(V, n)
      BY <1>2
    <3> HIDE DEF h, n, V, e
    <3> QED BY <1>1, <2>1, <3>1, RecursionExists
  <2> HIDE DEF h
  <2> QED BY <2>2 DEF Iterates
<1>4. \A i \in 1 .. n : g[i] = IF i \in K THEN Append(g[i - 1], s[i]) ELSE g[i - 1]
  <2>1. ASSUME NEW i \in 1 .. n PROVE g[i] = IF i \in K THEN Append(g[i - 1], s[i]) ELSE g[i - 1]
    <3>1. i - 1 \in 0 .. n /\ g[i - 1] \in Seq(A)
      BY <1>3, <1>1
    <3>2. h[i][g[i - 1]] = IF i \in K THEN Append(g[i - 1], s[i]) ELSE g[i - 1]
      <4> HIDE DEF n
      <4> QED BY <3>1
    <3> QED BY <3>2, <1>3
  <2> QED BY <2>1
<1>5. g = Body(g)
  <2>1. \A i \in 0 .. n : g[i] = Body(g)[i]
    <3>1. g[0] = Body(g)[0]
      BY <1>3
    <3>2. ASSUME NEW i \in 1 .. n PROVE g[i] = Body(g)[i]
      BY <1>4
    <3>3. \A i \in 0 .. n : i = 0 \/ i \in 1 .. n
      BY <1>1
    <3> HIDE DEF Body, n
    <3> QED BY <3>1, <3>2, <3>3
  <2>2. g = [i \in 0 .. n |-> g[i]] /\ Body(g) = [i \in 0 .. n |-> Body(g)[i]]
    BY <1>3
  <2> HIDE DEF Body
  <2> QED BY <2>1, <2>2
<1>6. G = Body(G)
  <2> HIDE DEF Body
  <2> QED BY <1>5, Zenon
<1>7. Keep(s, K) = G[n]
  BY DEF Keep
<1> HIDE DEF G
<1>8. G[0] = << >> /\ \A i \in 1 .. n : G[i] = IF i \in K THEN Append(G[i - 1], s[i]) ELSE G[i - 1]
  <2>1. \A i \in 0 .. n : G[i] = Body(G)[i]
    BY <1>6, Zenon
  <2>2. G[0] = << >>
    BY <2>1, <1>1
  <2>3. ASSUME NEW i \in 1 .. n PROVE G[i] = IF i \in K THEN Append(G[i - 1], s[i]) ELSE G[i - 1]
    BY <2>1, <1>1
  <2> QED BY <2>2, <2>3
<1>9. \A i \in 0 .. n : G[i] \in Seq(A)
  <2> DEFINE T == {i \in Nat : G[i] \in Seq(A)}
  <2>1. 0 \in T
    <3>1. << >> \in Seq(A) /\ G[0] = << >>
      BY <1>8
    <3> QED BY <3>1
  <2>2. ASSUME NEW i \in 0 .. n - 1, i \in T PROVE i + 1 \in T
    <3>1. i + 1 \in 1 .. n /\ (i + 1) - 1 = i /\ s[i + 1] \in A
      BY <1>1
    <3>2. G[i + 1] = IF i + 1 \in K THEN Append(G[i], s[i + 1]) ELSE G[i]
      BY <1>8, <3>1
    <3>3. G[i] \in Seq(A)
      BY <2>2
    <3>4. Append(G[i], s[i + 1]) \in Seq(A)
      BY <3>1, <3>3
    <3>5. G[i + 1] \in Seq(A)
      BY <3>2, <3>3, <3>4
    <3> QED BY <3>1, <3>5
  <2>3. \A i \in 0 .. n : i \in T
    <3> HIDE DEF T, n
    <3> QED BY <1>1, <2>1, <2>2, UpToInduction
  <2> QED BY <2>3
<1>10. G = [i \in 0 .. n |-> G[i]]
  <2>1. G = [i \in 0 .. n |-> Body(G)[i]]
    BY <1>6
  <2>2. DOMAIN G = 0 .. n
    BY <2>1, Zenon
  <2> QED BY <1>6, <2>2
<1>11. G \in [0 .. n -> Seq(A)]
  BY <1>9, <1>10
<1>12. KeepLoop(s, K, G)
  BY <1>7, <1>8 DEF KeepLoop
<1> QED BY <1>11, <1>12

\* What is kept are elements at the positions to be kept.
LEMMA KeepType ==
    ASSUME NEW A, NEW s \in Seq(A), NEW K
    PROVE  /\ Keep(s, K) \in Seq(A)
           /\ \A j \in 1 .. Len(Keep(s, K)) : \E k \in K \cap (1 .. Len(s)) : Keep(s, K)[j] = s[k]
<1> DEFINE n == Len(s)
<1>1. PICK F \in [0 .. n -> Seq(A)] : KeepLoop(s, K, F)
  BY KeepDefined
<1>2. n \in Nat /\ \A i \in 1 .. n : s[i] \in A
  OBVIOUS
<1>3. /\ F[0] = << >>
      /\ \A i \in 1 .. n : F[i] = IF i \in K THEN Append(F[i - 1], s[i]) ELSE F[i - 1]
      /\ Keep(s, K) = F[n]
  BY <1>1 DEF KeepLoop
<1> DEFINE Good(f) == \A j \in 1 .. Len(f) : \E k \in K \cap (1 .. n) : f[j] = s[k]
<1> DEFINE T == {i \in Nat : Good(F[i])}
<1> HIDE DEF n
<1>4. 0 \in T
  BY <1>3
<1>5. ASSUME NEW i \in 0 .. n - 1, i \in T PROVE i + 1 \in T
  <2>1. i + 1 \in 1 .. n /\ i \in 0 .. n /\ i + 1 \in Nat /\ (i + 1) - 1 = i
    BY <1>2
  <2>2. F[i + 1] = IF i + 1 \in K THEN Append(F[i], s[i + 1]) ELSE F[i]
    BY <1>3, <2>1
  <2>3. Good(F[i]) /\ F[i] \in Seq(A) /\ s[i + 1] \in A
    BY <1>1, <1>2, <1>5, <2>1
  <2>4. ASSUME i + 1 \in K, NEW f, f = F[i] PROVE Good(Append(f, s[i + 1]))
    <3>1. f \in Seq(A) /\ s[i + 1] \in A /\ Good(f)
      BY <2>3, <2>4
    <3>2. /\ Len(Append(f, s[i + 1])) = Len(f) + 1 /\ Len(f) \in Nat
          /\ \A j \in 1 .. Len(f) : Append(f, s[i + 1])[j] = f[j]
          /\ Append(f, s[i + 1])[Len(f) + 1] = s[i + 1]
      BY <3>1
    <3>3. ASSUME NEW j \in 1 .. Len(f) + 1
          PROVE  \E k \in K \cap (1 .. n) : Append(f, s[i + 1])[j] = s[k]
      <4>1. CASE j = Len(f) + 1
        BY <4>1, <3>2, <2>1, <2>4
      <4>2. CASE j \in 1 .. Len(f)
        BY <4>2, <3>1, <3>2
      <4> QED BY <4>1, <4>2, <3>2
    <3> QED BY <3>2, <3>3
  <2> HIDE DEF Good
  <2>5. Good(F[i + 1])
    BY <2>2, <2>3, <2>4
  <2> QED BY <2>1, <2>5
<1>6. \A i \in 0 .. n : i \in T
  <2> HIDE DEF T
  <2> QED BY <1>2, <1>4, <1>5, UpToInduction
<1>7. n \in T /\ F[n] \in Seq(A)
  <2> HIDE DEF T
  <2> QED BY <1>1, <1>2, <1>6
<1>8. Good(F[n])
  BY <1>7
<1> QED BY <1>3, <1>7, <1>8 DEF n

\* A tier is a sequence of files, whatever is added to it.
LEMMA AddType ==
    ASSUME NEW A, NEW t \in Seq(Seq(A)), NEW info \in A
    PROVE  AddToTiers(t, info) \in Seq(Seq(A))
<1>1. <<info>> \in Seq(A) /\ Append(t, <<info>>) \in Seq(Seq(A))
  OBVIOUS
<1>2. ASSUME t # << >> PROVE Append(Front(t), Append(Last(t), info)) \in Seq(Seq(A))
  <2>1. Len(t) \in Nat \ {0} /\ Last(t) \in Seq(A)
    BY <1>2 DEF Last
  <2>2. Front(t) \in Seq(Seq(A))
    BY <2>1, SubSeqProperties DEF Front
  <2>3. Append(Last(t), info) \in Seq(A)
    BY <2>1
  <2> QED BY <2>2, <2>3
<1> QED BY <1>1, <1>2 DEF AddToTiers

\* GroupBySizeTier is the last value of a loop over the files.
TierLoop(s, F) ==
    /\ F[0] = << >>
    /\ \A i \in 1 .. Len(s) : F[i] = AddToTiers(F[i - 1], s[i])
    /\ GroupBySizeTier(s) = F[Len(s)]

LEMMA TiersDefined ==
    ASSUME NEW A, NEW s \in Seq(A)
    PROVE  \E F \in [0 .. Len(s) -> Seq(Seq(A))] : TierLoop(s, F)
<1> DEFINE n == Len(s)
<1> DEFINE V == Seq(Seq(A))
<1> DEFINE Body(F) == [k \in 0 .. Len(s) |-> IF k = 0 THEN << >> ELSE AddToTiers(F[k - 1], s[k])]
<1> DEFINE h == [i \in 1 .. n |-> [v \in V |-> AddToTiers(v, s[i])]]
<1> DEFINE G == CHOOSE F : F = Body(F)
<1>1. n \in Nat /\ (\A i \in 1 .. n : s[i] \in A) /\ << >> \in V
  OBVIOUS
<1>2. \A i \in 1 .. n : \A v \in V : AddToTiers(v, s[i]) \in V
  BY <1>1, AddType
<1> HIDE DEF V
<1>3. PICK g \in [0 .. n -> V] : g[0] = << >> /\ \A i \in 1 .. n : g[i] = h[i][g[i - 1]]
  <2> DEFINE e == << >>
  <2>1. e \in V
    BY <1>1
  <2>2. h \in Steps(V, n)
    <3> HIDE DEF n
    <3> QED BY <1>2 DEF Steps
  <2>3. Iterates(V, n, e, h)
    <3> HIDE DEF h, n, e
    <3> QED BY <1>1, <2>1, <2>2, RecursionExists
  <2> HIDE DEF h
  <2> QED BY <2>3 DEF Iterates
<1>4. \A i \in 1 .. n : g[i] = AddToTiers(g[i - 1], s[i])
  <2>1. ASSUME NEW i \in 1 .. n PROVE g[i] = AddToTiers(g[i - 1], s[i])
    <3>1. i - 1 \in 0 .. n /\ g[i - 1] \in V
      BY <1>3, <1>1
    <3>2. h[i][g[i - 1]] = AddToTiers(g[i - 1], s[i])
      <4> HIDE DEF n
      <4> QED BY <3>1
    <3> QED BY <3>2, <1>3
  <2> QED BY <2>1
<1>5. g = Body(g)
  <2>1. \A i \in 0 .. n : g[i] = Body(g)[i]
    <3>1. g[0] = Body(g)[0]
      BY <1>3
    <3>2. ASSUME NEW i \in 1 .. n PROVE g[i] = Body(g)[i]
      BY <1>4
    <3>3. \A i \in 0 .. n : i = 0 \/ i \in 1 .. n
      BY <1>1
    <3> HIDE DEF Body, n
    <3> QED BY <3>1, <3>2, <3>3
  <2>2. g = [i \in 0 .. n |-> g[i]] /\ Body(g) = [i \in 0 .. n |-> Body(g)[i]]
    BY <1>3
  <2> HIDE DEF Body
  <2> QED BY <2>1, <2>2
<1>6. G = Body(G)
  <2> HIDE DEF Body
  <2> QED BY <1>5, Zenon
<1>7. GroupBySizeTier(s) = G[n]
  BY DEF GroupBySizeTier
<1> HIDE DEF G
<1>8. G[0] = << >> /\ \A i \in 1 .. n : G[i] = AddToTiers(G[i - 1], s[i])
  <2>1. \A i \in 0 .. n : G[i] = Body(G)[i]
    BY <1>6, Zenon
  <2>2. G[0] = << >>
    BY <2>1, <1>1
  <2>3. ASSUME NEW i \in 1 .. n PROVE G[i] = AddToTiers(G[i - 1], s[i])
    BY <2>1, <1>1
  <2> QED BY <2>2, <2>3
<1>9. \A i \in 0 .. n : G[i] \in V
  <2> DEFINE T == {i \in Nat : G[i] \in V}
  <2>1. 0 \in T
    BY <1>1, <1>8
  <2>2. ASSUME NEW i \in 0 .. n - 1, i \in T PROVE i + 1 \in T
    <3>1. i + 1 \in 1 .. n /\ i + 1 \in Nat /\ (i + 1) - 1 = i
      BY <1>1
    <3>2. G[i + 1] = AddToTiers(G[i], s[i + 1])
      BY <1>8, <3>1
    <3>3. AddToTiers(G[i], s[i + 1]) \in V
      BY <2>2, <1>2, <3>1
    <3> QED BY <3>1, <3>2, <3>3
  <2>3. \A i \in 0 .. n : i \in T
    <3> HIDE DEF T, n
    <3> QED BY <1>1, <2>1, <2>2, UpToInduction
  <2> QED BY <2>3
<1>10. G = [i \in 0 .. n |-> G[i]]
  <2>1. G = [i \in 0 .. n |-> Body(G)[i]]
    BY <1>6
  <2>2. DOMAIN G = 0 .. n
    BY <2>1, Zenon
  <2> QED BY <1>6, <2>2
<1>11. G \in [0 .. n -> V]
  BY <1>9, <1>10
<1>12. TierLoop(s, G)
  BY <1>7, <1>8 DEF TierLoop
<1> QED BY <1>11, <1>12 DEF V

LEMMA TiersType ==
    ASSUME NEW A, NEW s \in Seq(A)
    PROVE  GroupBySizeTier(s) \in Seq(Seq(A))
<1>1. PICK F \in [0 .. Len(s) -> Seq(Seq(A))] : TierLoop(s, F)
  BY TiersDefined
<1>2. Len(s) \in 0 .. Len(s)
  OBVIOUS
<1> QED BY <1>1, <1>2 DEF TierLoop

LEMMA TierPlanType ==
    ASSUME NEW A, NEW tier \in Seq(A)
    PROVE  /\ TierPlan(tier) \in Seq(A)
           /\ TierPlan(tier) # << >> => Len(TierPlan(tier)) >= 2
<1>1. OldFiles(tier) \in Seq(A)
  BY KeepType DEF OldFiles
<1> QED BY <1>1 DEF TierPlan

\* A plan for a list of files is a sequence of sequences of these files, none
\* with fewer than two.
LEMMA PlanType ==
    ASSUME NEW A, NEW list \in Seq(A)
    PROVE  /\ PlanCompaction(list) \in Seq(Seq(A))
           /\ \A j \in 1 .. Len(PlanCompaction(list)) : Len(PlanCompaction(list)[j]) >= 2
<1> DEFINE tiers == GroupBySizeTier(list)
<1> DEFINE plans == [i \in DOMAIN tiers |-> TierPlan(tiers[i])]
<1> DEFINE K == {i \in DOMAIN plans : plans[i] # << >>}
<1>1. tiers \in Seq(Seq(A))
  BY TiersType
<1>2. plans \in Seq(Seq(A)) /\ \A i \in DOMAIN plans : plans[i] # << >> => Len(plans[i]) >= 2
  <2>1. ASSUME NEW i \in DOMAIN tiers
        PROVE  TierPlan(tiers[i]) \in Seq(A) /\ (TierPlan(tiers[i]) # << >> => Len(TierPlan(tiers[i])) >= 2)
    <3>1. tiers[i] \in Seq(A)
      BY <1>1
    <3> QED BY <3>1, TierPlanType
  <2>2. DOMAIN tiers = 1 .. Len(tiers) /\ Len(tiers) \in Nat
    BY <1>1
  <2>3. plans \in [1 .. Len(tiers) -> Seq(A)]
    BY <2>1, <2>2
  <2>4. plans \in Seq(Seq(A))
    BY <2>2, <2>3
  <2>5. \A i \in DOMAIN plans : plans[i] # << >> => Len(plans[i]) >= 2
    <3> HIDE DEF tiers
    <3> QED BY <2>1
  <2> QED BY <2>4, <2>5
<1>3. /\ Keep(plans, K) \in Seq(Seq(A))
      /\ \A j \in 1 .. Len(Keep(plans, K)) : \E k \in K \cap (1 .. Len(plans)) : Keep(plans, K)[j] = plans[k]
  <2> HIDE DEF plans, K
  <2> QED BY <1>2, KeepType
<1>4. PlanCompaction(list) = IF Len(list) < 2 THEN << >> ELSE Keep(plans, K)
  BY DEF PlanCompaction
<1>5. \A k \in K : Len(plans[k]) >= 2
  <2> HIDE DEF plans
  <2> QED BY <1>2
<1>6. CASE Len(list) < 2
  <2>1. PlanCompaction(list) = << >>
    <3> HIDE DEF plans, K
    <3> QED BY <1>4, <1>6
  <2> QED BY <2>1
<1>7. CASE ~(Len(list) < 2)
  <2>1. PlanCompaction(list) = Keep(plans, K)
    <3> HIDE DEF plans, K
    <3> QED BY <1>4, <1>7
  <2> HIDE DEF plans, K
  <2> QED BY <2>1, <1>3, <1>5
<1> QED BY <1>6, <1>7

\* FlattenSeq is the last value of a loop over the sequences.
FlattenLoop(s, F) ==
    /\ F[1] = s[1]
    /\ \A i \in 2 .. Len(s) : F[i] = F[i - 1] \o s[i]
    /\ FlattenSeq(s) = F[Len(s)]

LEMMA FlattenDefined ==
    ASSUME NEW A, NEW s \in Seq(Seq(A)), s # << >>
    PROVE  \E F \in [1 .. Len(s) -> Seq(A)] : FlattenLoop(s, F)
<1> DEFINE n == Len(s)
<1> DEFINE V == Seq(A)
<1> DEFINE Body(F) == [i \in 1 .. Len(s) |-> IF i = 1 THEN s[i] ELSE F[i - 1] \o s[i]]
<1> DEFINE h == [i \in 1 .. n - 1 |-> [v \in V |-> v \o s[i + 1]]]
<1> DEFINE G == CHOOSE F : F = Body(F)
<1>1. n \in Nat /\ n # 0 /\ n - 1 \in Nat /\ \A i \in 1 .. n : s[i] \in V
  OBVIOUS
<1>2. \A v, x \in V : v \o x \in V
  OBVIOUS
<1>3. PICK g \in [0 .. n - 1 -> V] : g[0] = s[1] /\ \A i \in 1 .. n - 1 : g[i] = h[i][g[i - 1]]
  <2> HIDE DEF V
  <2> DEFINE e == s[1]
  <2> DEFINE m == n - 1
  <2>1. e \in V
    BY <1>1
  <2>2. h \in Steps(V, m)
    <3>1. \A i \in 1 .. m : i + 1 \in 1 .. n
      BY <1>1
    <3> HIDE DEF n
    <3> QED BY <1>1, <1>2, <3>1 DEF Steps
  <2>3. Iterates(V, m, e, h)
    <3> HIDE DEF h, n, e, m
    <3>1. m \in Nat
      BY <1>1 DEF m
    <3> QED BY <3>1, <2>1, <2>2, RecursionExists
  <2> HIDE DEF h
  <2> QED BY <2>3 DEF Iterates
<1> HIDE DEF V
<1> DEFINE f == [i \in 1 .. n |-> g[i - 1]]
<1>4. f[1] = s[1] /\ \A i \in 2 .. n : f[i] = f[i - 1] \o s[i]
  <2>1. f[1] = s[1]
    BY <1>1, <1>3
  <2>2. ASSUME NEW i \in 2 .. n PROVE f[i] = f[i - 1] \o s[i]
    <3>1. /\ i \in 1 .. n /\ i - 1 \in 1 .. n /\ i - 1 \in 1 .. n - 1
          /\ (i - 1) - 1 \in 0 .. n - 1 /\ (i - 1) + 1 = i
      BY <1>1
    <3>2. g[i - 1] = h[i - 1][g[(i - 1) - 1]] /\ g[(i - 1) - 1] \in V
      <4> HIDE DEF h
      <4> QED BY <1>3, <3>1
    <3>3. h[i - 1][g[(i - 1) - 1]] = g[(i - 1) - 1] \o s[i]
      <4> HIDE DEF n
      <4> QED BY <3>1, <3>2
    <3>4. f[i] = g[i - 1] /\ f[i - 1] = g[(i - 1) - 1]
      BY <3>1
    <3> HIDE DEF f, h
    <3> QED BY <3>2, <3>3, <3>4
  <2> QED BY <2>1, <2>2
<1>5. f = Body(f)
  <2>1. \A i \in 1 .. n : f[i] = Body(f)[i]
    <3>1. f[1] = Body(f)[1]
      <4> HIDE DEF f
      <4> QED BY <1>1, <1>4
    <3>2. ASSUME NEW i \in 2 .. n PROVE f[i] = Body(f)[i]
      <4>1. i \in 1 .. Len(s) /\ i # 1
        BY <1>1
      <4>2. Body(f)[i] = f[i - 1] \o s[i]
        <5> HIDE DEF f
        <5> QED BY <4>1
      <4> HIDE DEF f, Body
      <4> QED BY <4>2, <1>4
    <3>3. \A i \in 1 .. n : i = 1 \/ i \in 2 .. n
      BY <1>1
    <3> HIDE DEF Body, n, f
    <3> QED BY <3>1, <3>2, <3>3
  <2>2. f = [i \in 1 .. n |-> f[i]] /\ Body(f) = [i \in 1 .. n |-> Body(f)[i]]
    OBVIOUS
  <2> HIDE DEF Body, f
  <2> QED BY <2>1, <2>2
<1>6. G = Body(G)
  <2> HIDE DEF Body, f
  <2> QED BY <1>5, Zenon
<1>7. FlattenSeq(s) = G[n]
  BY <1>1 DEF FlattenSeq
<1> HIDE DEF G
<1>8. G[1] = s[1] /\ \A i \in 2 .. n : G[i] = G[i - 1] \o s[i]
  <2>1. \A i \in 1 .. n : G[i] = Body(G)[i]
    BY <1>6, Zenon
  <2>2. G[1] = s[1]
    BY <2>1, <1>1
  <2>3. ASSUME NEW i \in 2 .. n PROVE G[i] = G[i - 1] \o s[i]
    <3>1. i \in 1 .. n /\ i # 1
      BY <1>1
    <3> QED BY <2>1, <3>1
  <2> QED BY <2>2, <2>3
<1>9. \A i \in 1 .. n : G[i] \in V
  <2> DEFINE T == {i \in Nat : i = 0 \/ G[i] \in V}
  <2>1. 0 \in T
    OBVIOUS
  <2>2. ASSUME NEW i \in 0 .. n - 1, i \in T PROVE i + 1 \in T
    <3>1. i + 1 \in 1 .. n /\ i + 1 \in Nat /\ (i + 1) - 1 = i
      BY <1>1
    <3>2. CASE i = 0
      <4>1. G[1] \in V
        BY <1>1, <1>8
      <4> QED BY <4>1, <3>2
    <3>3. CASE i # 0
      <4>1. i + 1 \in 2 .. n
        BY <3>1, <3>3
      <4>2. G[i + 1] = G[i] \o s[i + 1] /\ G[i] \in V /\ s[i + 1] \in V
        BY <4>1, <3>1, <3>3, <1>8, <1>1, <2>2
      <4>3. G[i + 1] \in V
        BY <4>2, <1>2
      <4> QED BY <4>3, <3>1
    <3> QED BY <3>2, <3>3
  <2>3. \A i \in 0 .. n : i \in T
    <3> HIDE DEF T, n
    <3> QED BY <1>1, <2>1, <2>2, UpToInduction
  <2>4. \A i \in 1 .. n : i \in 0 .. n /\ i # 0
    BY <1>1
  <2> QED BY <2>3, <2>4
<1>10. G = [i \in 1 .. n |-> G[i]]
  <2>1. G = [i \in 1 .. n |-> Body(G)[i]]
    BY <1>6
  <2>2. DOMAIN G = 1 .. n
    BY <2>1, Zenon
  <2> QED BY <1>6, <2>2
<1>11. G \in [1 .. n -> V]
  BY <1>9, <1>10
<1>12. FlattenLoop(s, G)
  BY <1>7, <1>8 DEF FlattenLoop
<1> QED BY <1>11, <1>12 DEF V

\* A flat sequence has the elements of the sequences.
LEMMA FlattenRows ==
    ASSUME NEW A, NEW s \in Seq(Seq(A))
    PROVE  /\ FlattenSeq(s) \in Seq(A)
           /\ RowsIn(FlattenSeq(s)) = UNION {RowsIn(s[k]) : k \in DOMAIN s}
<1>1. CASE s = << >>
  <2>1. FlattenSeq(s) = << >>
    BY <1>1 DEF FlattenSeq
  <2>2. DOMAIN s = {} /\ RowsIn(<< >>) = {}
    BY <1>1 DEF RowsIn
  <2>3. UNION {RowsIn(s[k]) : k \in DOMAIN s} = {}
    BY <2>2
  <2>4. << >> \in Seq(A)
    OBVIOUS
  <2> QED BY <2>1, <2>2, <2>3, <2>4
<1>2. CASE s # << >>
  <2> DEFINE n == Len(s)
  <2>1. PICK F \in [1 .. n -> Seq(A)] : FlattenLoop(s, F)
    BY <1>2, FlattenDefined
  <2>2. n \in Nat /\ n # 0 /\ DOMAIN s = 1 .. n /\ \A i \in 1 .. n : s[i] \in Seq(A)
    BY <1>2
  <2>3. F[1] = s[1] /\ (\A i \in 2 .. n : F[i] = F[i - 1] \o s[i]) /\ FlattenSeq(s) = F[n]
    BY <2>1 DEF FlattenLoop
  <2> HIDE DEF n
  <2> DEFINE U(k) == UNION {RowsIn(s[j]) : j \in 1 .. k}
  <2> DEFINE T == {k \in Nat : k = 0 \/ RowsIn(F[k]) = U(k)}
  <2>4. 0 \in T
    OBVIOUS
  <2>5. ASSUME NEW k \in 0 .. n - 1, k \in T PROVE k + 1 \in T
    <3>1. k + 1 \in 1 .. n /\ k + 1 \in Nat /\ (k + 1) - 1 = k
      BY <2>2
    <3>2. CASE k = 0
      <4>1. RowsIn(F[1]) = U(1)
        BY <2>3
      <4> QED BY <4>1, <3>2
    <3>3. CASE k # 0
      <4>1. k + 1 \in 2 .. n /\ k \in 1 .. n
        BY <3>1, <3>3, <2>2
      <4>2. F[k + 1] = F[k] \o s[k + 1] /\ F[k] \in Seq(A) /\ s[k + 1] \in Seq(A)
        BY <4>1, <3>1, <2>1, <2>2, <2>3
      <4>3. RowsIn(F[k]) = U(k)
        BY <2>5, <3>3
      <4>4. \A a, b \in Seq(A) : RowsIn(a \o b) = RowsIn(a) \cup RowsIn(b)
        <5>1. SUFFICES ASSUME NEW a \in Seq(A), NEW b \in Seq(A)
                       PROVE  RowsIn(a \o b) = RowsIn(a) \cup RowsIn(b)
          OBVIOUS
        <5>2. Len(a \o b) = Len(a) + Len(b) /\ Len(a) \in Nat /\ Len(b) \in Nat /\ a \o b \in Seq(A)
          OBVIOUS
        <5>3. \A i \in 1 .. Len(a) : i \in 1 .. Len(a \o b) /\ (a \o b)[i] = a[i]
          BY <5>2
        <5>4. \A i \in 1 .. Len(b) : Len(a) + i \in 1 .. Len(a \o b) /\ (a \o b)[Len(a) + i] = b[i]
          BY <5>2
        <5>5. ASSUME NEW i \in 1 .. Len(a \o b) PROVE (a \o b)[i] \in RowsIn(a) \cup RowsIn(b)
          <6>1. CASE i <= Len(a)
            BY <6>1, <5>2 DEF RowsIn
          <6>2. CASE i > Len(a)
            <7>1. i - Len(a) \in 1 .. Len(b) /\ Len(a) + (i - Len(a)) = i
              BY <6>2, <5>2
            <7>2. (a \o b)[i] = b[i - Len(a)]
              BY <7>1, <5>4
            <7> QED BY <7>1, <7>2 DEF RowsIn
          <6> QED BY <6>1, <6>2, <5>2
        <5>6. DOMAIN a = 1 .. Len(a) /\ DOMAIN b = 1 .. Len(b) /\ DOMAIN (a \o b) = 1 .. Len(a \o b)
          OBVIOUS
        <5>7. RowsIn(a \o b) \subseteq RowsIn(a) \cup RowsIn(b)
          BY <5>5, <5>6 DEF RowsIn
        <5>8. RowsIn(a) \subseteq RowsIn(a \o b)
          BY <5>3, <5>6 DEF RowsIn
        <5>9. RowsIn(b) \subseteq RowsIn(a \o b)
          BY <5>4, <5>6 DEF RowsIn
        <5> QED BY <5>7, <5>8, <5>9
      <4>5. U(k + 1) = U(k) \cup RowsIn(s[k + 1])
        <5>1. 1 .. k + 1 = (1 .. k) \cup {k + 1}
          BY <3>1
        <5> QED BY <5>1
      <4>6. RowsIn(F[k + 1]) = U(k + 1)
        <5> HIDE DEF U
        <5> QED BY <4>2, <4>3, <4>4, <4>5
      <4> HIDE DEF U
      <4> QED BY <4>6, <3>1
    <3> QED BY <3>2, <3>3
  <2>6. \A k \in 0 .. n : k \in T
    <3> HIDE DEF T
    <3> QED BY <2>2, <2>4, <2>5, UpToInduction
  <2>7. n \in T /\ F[n] \in Seq(A)
    <3> HIDE DEF T
    <3> QED BY <2>1, <2>2, <2>6
  <2> HIDE DEF U
  <2>8. RowsIn(F[n]) = U(n)
    BY <2>2, <2>7
  <2> QED BY <2>2, <2>3, <2>7, <2>8 DEF U
<1> QED BY <1>1, <1>2

-----------------------------------------------------------------------------
(* Sizes, numbers and merged rows.                                         *)

LEMMA SeqFacts ==
    ASSUME NEW A, NEW s \in Seq(A)
    PROVE  /\ DOMAIN s = 1 .. Len(s) /\ Len(s) \in Nat
           /\ \A i \in DOMAIN s : s[i] \in A
           /\ RowsIn(s) \subseteq A
BY DEF RowsIn

LEMMA SeqIs ==
    ASSUME NEW A, NEW n \in Nat, NEW f \in [1 .. n -> A]
    PROVE  f \in Seq(A)
OBVIOUS

LEMMA SeqMonotone ==
    ASSUME NEW A, NEW B, A \subseteq B, NEW s \in Seq(A)
    PROVE  s \in Seq(B)
<1>1. s \in [1 .. Len(s) -> A] /\ Len(s) \in Nat
  OBVIOUS
<1>2. s \in [1 .. Len(s) -> B]
  BY <1>1
<1> QED BY <1>1, <1>2, SeqIs

LEMMA ConcatAt ==
    ASSUME NEW A, NEW s \in Seq(A), NEW t \in Seq(A)
    PROVE  /\ s \o t \in Seq(A) /\ Len(s \o t) = Len(s) + Len(t)
           /\ DOMAIN (s \o t) = 1 .. Len(s) + Len(t)
           /\ \A i \in 1 .. Len(s) : (s \o t)[i] = s[i]
           /\ \A i \in 1 .. Len(t) : (s \o t)[Len(s) + i] = t[i]
<1>1. s \o t \in Seq(A) /\ Len(s \o t) = Len(s) + Len(t)
  OBVIOUS
<1>2. DOMAIN (s \o t) = 1 .. Len(s) + Len(t)
  BY <1>1, SeqFacts, Zenon
<1> QED BY <1>1, <1>2

LEMMA FiniteRange ==
    ASSUME NEW S, IsFiniteSet(S), NEW f, DOMAIN f = S
    PROVE  IsFiniteSet({f[x] : x \in S})
<1> DEFINE T == {f[x] : x \in S}
<1> DEFINE g == [x \in S |-> f[x]]
<1>1. g \in Surjection(S, T)
  BY DEF Surjection
<1> HIDE DEF g, T
<1>2. IsFiniteSet(T)
  BY <1>1, FS_Surjection
<1> QED BY <1>2 DEF T

LEMMA FiniteUnion ==
    ASSUME NEW S, IsFiniteSet(S), NEW f, DOMAIN f = S, \A x \in S : IsFiniteSet(f[x])
    PROVE  IsFiniteSet(UNION {f[x] : x \in S})
<1> DEFINE T == {f[x] : x \in S}
<1>1. IsFiniteSet(T)
  BY FiniteRange
<1>2. \A X \in T : IsFiniteSet(X)
  OBVIOUS
<1> HIDE DEF T
<1>3. IsFiniteSet(UNION T)
  BY <1>1, <1>2, FS_UNION
<1> QED BY <1>3 DEF T

\* The size of a file is a number.
LEMMA BytesFinite ==
    ASSUME NEW file \in File
    PROVE  IsFiniteSet(Bytes(file)) /\ Size(file) \in Nat
<1> DEFINE row(id) == [i \in DOMAIN file.rows[id] |-> {i} \X (1 .. RowLen[file.rows[id][i]])]
<1> DEFINE all(id) == UNION {{i} \X (1 .. RowLen[file.rows[id][i]]) : i \in DOMAIN file.rows[id]}
<1> DEFINE g == [id \in Ids |-> {id} \X all(id)]
<1>1. ASSUME NEW id \in Ids PROVE IsFiniteSet(all(id))
  <2>1. file.rows[id] \in Seq(1..MaxVersions)
    BY DEF File
  <2>2. /\ DOMAIN file.rows[id] = 1 .. Len(file.rows[id]) /\ Len(file.rows[id]) \in Nat
        /\ \A i \in DOMAIN file.rows[id] : file.rows[id][i] \in 1..MaxVersions
    BY <2>1, SeqFacts, Zenon
  <2>3. IsFiniteSet(DOMAIN file.rows[id])
    BY <2>2, FS_Interval
  <2>4. ASSUME NEW i \in DOMAIN file.rows[id] PROVE IsFiniteSet({i} \X (1 .. RowLen[file.rows[id][i]]))
    <3>1. RowLen[file.rows[id][i]] \in Nat
      BY <2>2, CompactionAssumption
    <3>2. IsFiniteSet(1 .. RowLen[file.rows[id][i]])
      BY <3>1, FS_Interval
    <3>3. IsFiniteSet({i})
      BY FS_Singleton
    <3> QED BY <3>2, <3>3, FS_Product
  <2> DEFINE r == row(id)
  <2>5. DOMAIN r = DOMAIN file.rows[id] /\ \A i \in DOMAIN file.rows[id] : IsFiniteSet(r[i])
    BY <2>4
  <2>6. all(id) = UNION {r[i] : i \in DOMAIN file.rows[id]}
    <3>1. {{i} \X (1 .. RowLen[file.rows[id][i]]) : i \in DOMAIN file.rows[id]}
            = {r[i] : i \in DOMAIN file.rows[id]}
      BY Zenon
    <3> QED BY <3>1, Zenon
  <2>7. IsFiniteSet(UNION {r[i] : i \in DOMAIN file.rows[id]})
    <3> HIDE DEF r
    <3> QED BY <2>3, <2>5, FiniteUnion
  <2> QED BY <2>6, <2>7
<1>2. \A id \in Ids : IsFiniteSet(g[id])
  <2> SUFFICES ASSUME NEW id \in Ids PROVE IsFiniteSet({id} \X all(id))
    OBVIOUS
  <2> HIDE DEF all
  <2>1. IsFiniteSet({id}) /\ IsFiniteSet(all(id))
    BY <1>1, FS_Singleton
  <2> QED BY <2>1, FS_Product
<1>3. IsFiniteSet(UNION {g[id] : id \in Ids})
  <2>1. DOMAIN g = Ids
    OBVIOUS
  <2> HIDE DEF g
  <2> QED BY <1>2, <2>1, FiniteUnion, CompactionAssumption
<1>4. Bytes(file) = UNION {g[id] : id \in Ids}
  BY DEF Bytes
<1> HIDE DEF g
<1>5. IsFiniteSet(Bytes(file))
  BY <1>3, <1>4
<1> QED BY <1>5, FS_CardinalityType DEF Size

LEMMA JobBytesType ==
    ASSUME NEW job \in Seq(Names), \A n \in DOMAIN dir : dir[n] \in File
    PROVE  JobBytes(job) \in Nat
<1> DEFINE all(k) == IF job[k] \in DOMAIN dir THEN Bytes(dir[job[k]]) ELSE {}
<1> DEFINE g == [k \in DOMAIN job |-> {k} \X all(k)]
<1> DEFINE U == UNION {g[k] : k \in DOMAIN job}
<1>1. ASSUME NEW k \in DOMAIN job PROVE IsFiniteSet(g[k])
  <2>1. IsFiniteSet(all(k))
    BY BytesFinite, FS_EmptySet
  <2>2. IsFiniteSet({k})
    BY FS_Singleton
  <2> HIDE DEF all
  <2> QED BY <2>1, <2>2, FS_Product
<1>2. DOMAIN job = 1 .. Len(job) /\ Len(job) \in Nat
  OBVIOUS
<1>3. IsFiniteSet(DOMAIN job)
  BY <1>2, FS_Interval
<1>4. IsFiniteSet(U)
  <2>1. DOMAIN g = DOMAIN job
    OBVIOUS
  <2> HIDE DEF g
  <2> QED BY <1>1, <1>3, <2>1, FiniteUnion
<1>5. JobBytes(job) = 2 * Cardinality(U)
  BY DEF JobBytes
<1> HIDE DEF U
<1>6. Cardinality(U) \in Nat
  BY <1>4, FS_CardinalityType
<1> QED BY <1>5, <1>6

\* A sorted list of the files is a sequence of them.
LEMMA ListType ==
    ASSUME IsFiniteSet(DOMAIN dir), NEW list \in SortedLists(Infos)
    PROVE  list \in Seq(Infos)
<1> DEFINE S == {m \in Visible : Complete(m)}
<1> DEFINE g == [n \in S |-> [name |-> n, size |-> Size(dir[n]), mtime |-> dir[n].mtime, old |-> dir[n].old]]
<1>1. S \subseteq DOMAIN dir
  BY DEF Visible
<1>2. IsFiniteSet(S)
  BY <1>1, FS_Subset
<1>3. Infos = {g[n] : n \in S}
  BY DEF Infos
<1>4. IsFiniteSet(Infos)
  <2>1. DOMAIN g = S
    OBVIOUS
  <2> HIDE DEF g, S
  <2> QED BY <1>2, <1>3, <2>1, FiniteRange
<1>5. Cardinality(Infos) \in Nat
  BY <1>4, FS_CardinalityType
<1>6. list \in [1 .. Cardinality(Infos) -> Infos]
  BY DEF SortedLists
<1> QED BY <1>5, <1>6

LEMMA FiniteRows ==
    ASSUME NEW A, NEW s \in Seq(A)
    PROVE  IsFiniteSet(RowsIn(s))
<1>1. DOMAIN s = 1 .. Len(s) /\ Len(s) \in Nat
  BY SeqFacts
<1>2. IsFiniteSet(DOMAIN s)
  BY <1>1, FS_Interval
<1> QED BY <1>2, FiniteRange DEF RowsIn

\* Successors of the numbers of some names, with x: there is a greatest.
LEMMA GreatestNumber ==
    ASSUME NEW S \in SUBSET Names, IsFiniteSet(S), NEW x \in Nat,
           NEW m, m = Max({n[2] + 1 : n \in S} \cup {x})
    PROVE  m \in Nat /\ x <= m /\ \A n \in S : n[2] < m
<1> DEFINE g == [n \in S |-> n[2] + 1]
<1> DEFINE T == {n[2] + 1 : n \in S}
<1>1. \A n \in S : n[2] \in Nat
  BY DEF Names
<1>2. IsFiniteSet(T)
  <2>1. T = {g[n] : n \in S} /\ DOMAIN g = S
    OBVIOUS
  <2> HIDE DEF g, T
  <2> QED BY <2>1, FiniteRange
<1>3. T \cup {x} \in SUBSET Nat /\ T \cup {x} # {}
  BY <1>1
<1>4. IsFiniteSet(T \cup {x})
  <2> HIDE DEF T
  <2> QED BY <1>2, FS_AddElement
<1>5. m \in T \cup {x} /\ \A y \in T \cup {x} : y <= m
  <2>1. m = Max(T \cup {x})
    OBVIOUS
  <2> HIDE DEF T
  <2> QED BY <2>1, <1>3, <1>4, MaxIs
<1>6. m \in Nat /\ x <= m
  <2> HIDE DEF T
  <2> QED BY <1>3, <1>5
<1>7. ASSUME NEW n \in S PROVE n[2] < m
  <2>1. n[2] + 1 <= m
    BY <1>5
  <2> QED BY <2>1, <1>1, <1>6
<1> QED BY <1>6, <1>7

\* The number of an output is above nextSeq and all that are in use.
LEMMA OutputSeqIs ==
    ASSUME IsFiniteSet(DOMAIN dir), DOMAIN dir \subseteq Names, NEW job \in Seq(Names), nextSeq \in Nat
    PROVE  /\ OutputSeq(job) \in Nat /\ nextSeq <= OutputSeq(job)
           /\ \A n \in DOMAIN dir \cup RowsIn(job) : n[1] = ExecPrefix => n[2] < OutputSeq(job)
<1> DEFINE S == {m \in DOMAIN dir \cup RowsIn(job) : m[1] = ExecPrefix}
<1>1. RowsIn(job) \subseteq Names /\ IsFiniteSet(RowsIn(job))
  BY SeqFacts, FiniteRows
<1>2. S \in SUBSET Names
  BY <1>1
<1>3. IsFiniteSet(S)
  <2>1. IsFiniteSet(DOMAIN dir \cup RowsIn(job))
    BY <1>1, FS_Union
  <2>2. S \subseteq DOMAIN dir \cup RowsIn(job)
    OBVIOUS
  <2> HIDE DEF S
  <2> QED BY <2>1, <2>2, FS_Subset
<1>4. OutputSeq(job) = Max({n[2] + 1 : n \in S} \cup {nextSeq})
  BY DEF OutputSeq
<1>5. PICK m : m = OutputSeq(job)
  OBVIOUS
<1>6. m \in Nat /\ nextSeq <= m /\ \A n \in S : n[2] < m
  <2>1. m = Max({n[2] + 1 : n \in S} \cup {nextSeq})
    BY <1>4, <1>5
  <2> HIDE DEF S
  <2> QED BY <1>2, <1>3, <2>1, GreatestNumber
<1> QED BY <1>5, <1>6

\* findNextSequence.
LEMMA NextSequenceType ==
    ASSUME IsFiniteSet(DOMAIN dir), DOMAIN dir \subseteq Names
    PROVE  Max0({n[2] + 1 : n \in {m \in DOMAIN dir : m[1] = ExecPrefix}}) \in Nat
<1> DEFINE S == {m \in DOMAIN dir : m[1] = ExecPrefix}
<1>1. S \in SUBSET Names /\ S \subseteq DOMAIN dir
  OBVIOUS
<1>2. IsFiniteSet(S)
  BY <1>1, FS_Subset
<1>3. PICK k : k = Max({n[2] + 1 : n \in S} \cup {0})
  OBVIOUS
<1>4. k \in Nat
  <2> HIDE DEF S
  <2> QED BY <1>1, <1>2, <1>3, GreatestNumber
<1> QED BY <1>3, <1>4 DEF Max0

\* A set of naturals that is not empty has a least member.
LEMMA LeastNat ==
    ASSUME NEW S \in SUBSET Nat, S # {}
    PROVE  \E x \in S : \A y \in S : x <= y
<1> DEFINE R == OpToRel(<, Nat)
<1>1. IsWellFoundedOn(R, Nat)
  BY NatLessThanWellFounded
<1>2. PICK x \in S : \A y \in S : ~ (<<y, x>> \in R)
  <2> HIDE DEF R
  <2> QED BY <1>1, WFMin
<1>3. \A y \in S : ~(y < x)
  BY <1>2 DEF OpToRel
<1> QED BY <1>3

\* selectBestRow returns one of the rows, and none is longer.
LEMMA BestRow ==
    ASSUME NEW rows \in Seq(1..MaxVersions), rows # << >>
    PROVE  /\ SelectBestRow(rows) \in RowsIn(rows)
           /\ \A v \in RowsIn(rows) : RowLen[v] <= RowLen[SelectBestRow(rows)]
<1> DEFINE n == Len(rows)
<1> DEFINE f == [i \in 1 .. n |-> RowLen[rows[i]]]
<1>1. /\ DOMAIN rows = 1 .. n /\ n \in Nat /\ n > 0
      /\ \A i \in 1 .. n : rows[i] \in 1..MaxVersions
  <2>1. DOMAIN rows = 1 .. n /\ n \in Nat /\ \A i \in DOMAIN rows : rows[i] \in 1..MaxVersions
    BY SeqFacts, Zenon
  <2>2. n # 0
    OBVIOUS
  <2> QED BY <2>1, <2>2
<1>2. f \in [1 .. n -> Nat]
  BY <1>1, CompactionAssumption
<1>3. PICK j \in 1 .. n : \A i \in 1 .. n : f[i] <= f[j]
  <2> HIDE DEF f, n
  <2> QED BY <1>1, <1>2, GreatestValue
<1> DEFINE S == {i \in 1 .. n : f[i] = f[j]}
<1>4. S \in SUBSET Nat /\ j \in S
  BY <1>1
<1>5. PICK i \in S : \A y \in S : i <= y
  <2> HIDE DEF S
  <2> QED BY <1>4, LeastNat
<1> HIDE DEF n
<1>6. i \in 1 .. n /\ f[i] = f[j]
  OBVIOUS
<1>7. ASSUME NEW k \in 1 .. (i - 1) PROVE f[k] < f[i]
  <2>1. k \in 1 .. n /\ k < i
    BY <1>1, <1>6
  <2>2. k \notin S
    <3> HIDE DEF S
    <3> QED BY <1>1, <1>4, <1>5, <1>6, <2>1
  <2>3. f[k] # f[j]
    BY <2>1, <2>2
  <2> HIDE DEF f, S
  <2> QED BY <1>2, <1>3, <1>6, <2>1, <2>3
<1> DEFINE Best(x) == /\ \A k \in DOMAIN rows : RowLen[rows[k]] <= RowLen[rows[x]]
                      /\ \A k \in 1..(x - 1) : RowLen[rows[k]] < RowLen[rows[x]]
<1>8. i \in DOMAIN rows /\ Best(i)
  <2>1. \A k \in DOMAIN rows : RowLen[rows[k]] <= RowLen[rows[i]]
    BY <1>1, <1>3, <1>6
  <2>2. ASSUME NEW k \in 1..(i - 1) PROVE RowLen[rows[k]] < RowLen[rows[i]]
    <3>1. k \in 1 .. n
      BY <1>1, <1>6
    <3>2. f[k] = RowLen[rows[k]] /\ f[i] = RowLen[rows[i]]
      BY <1>6, <3>1
    <3> HIDE DEF f, S
    <3> QED BY <1>7, <3>2
  <2> QED BY <1>1, <1>6, <2>1, <2>2
<1>9. PICK b : b = CHOOSE x \in DOMAIN rows : Best(x)
  OBVIOUS
<1>10. b \in DOMAIN rows /\ Best(b)
  <2> HIDE DEF Best
  <2> QED BY <1>8, <1>9
<1>11. SelectBestRow(rows) = rows[b]
  BY <1>9 DEF SelectBestRow
<1> QED BY <1>10, <1>11 DEF RowsIn

\* The merged rows of an entity come from the inputs, and no row of an input is
\* longer.
LEMMA MergedRows ==
    ASSUME NEW job \in Seq(Names), \A n \in RowsIn(job) : n \in DOMAIN dir /\ dir[n] \in File
    PROVE  /\ Merged(job) \in [Ids -> Seq(1..MaxVersions)]
           /\ \A id \in Ids : \A v \in RowsIn(Merged(job)[id]) :
                 \E n \in RowsIn(job) : v \in RowsIn(dir[n].rows[id])
           /\ \A id \in Ids : \A n \in RowsIn(job) : \A v \in RowsIn(dir[n].rows[id]) :
                 \E u \in RowsIn(Merged(job)[id]) : RowLen[v] <= RowLen[u]
<1> DEFINE V == 1..MaxVersions
<1> DEFINE L == Len(job)
<1>1. DOMAIN job = 1 .. L /\ L \in Nat
  BY SeqFacts
<1>2. ASSUME NEW id \in Ids
      PROVE  /\ Merged(job)[id] \in Seq(V)
             /\ \A v \in RowsIn(Merged(job)[id]) : \E n \in RowsIn(job) : v \in RowsIn(dir[n].rows[id])
             /\ \A n \in RowsIn(job) : \A v \in RowsIn(dir[n].rows[id]) :
                   \E u \in RowsIn(Merged(job)[id]) : RowLen[v] <= RowLen[u]
  <2> DEFINE s == [k \in DOMAIN job |-> dir[job[L + 1 - k]].rows[id]]
  <2> DEFINE all == AllRows(job, id)
  <2>1. \A n \in RowsIn(job) : dir[n].rows[id] \in Seq(V)
    BY DEF File
  <2>2. \A k \in 1 .. L : L + 1 - k \in 1 .. L /\ job[L + 1 - k] \in RowsIn(job)
    BY <1>1 DEF RowsIn
  <2>3. s \in Seq(Seq(V)) /\ DOMAIN s = 1 .. L
    <3>1. s \in [1 .. L -> Seq(V)]
      <4> HIDE DEF V, L
      <4> QED BY <1>1, <2>1, <2>2
    <3> QED BY <3>1, <1>1
  <2>4. all = FlattenSeq(s)
    BY DEF AllRows
  <2>5. all \in Seq(V) /\ RowsIn(all) = UNION {RowsIn(s[k]) : k \in DOMAIN s}
    <3> HIDE DEF s, V, all
    <3> QED BY <2>3, <2>4, FlattenRows
  <2>6. \A k \in 1 .. L : RowsIn(s[k]) = RowsIn(dir[job[L + 1 - k]].rows[id])
    BY <1>1
  <2>7. \A v \in RowsIn(all) : \E n \in RowsIn(job) : v \in RowsIn(dir[n].rows[id])
    <3> HIDE DEF s, all, L
    <3> QED BY <2>2, <2>3, <2>5, <2>6
  <2>8. ASSUME NEW n \in RowsIn(job) PROVE RowsIn(dir[n].rows[id]) \subseteq RowsIn(all)
    <3>1. PICK k \in 1 .. L : n = job[k]
      BY <1>1 DEF RowsIn
    <3>2. L + 1 - k \in 1 .. L /\ L + 1 - (L + 1 - k) = k
      BY <1>1
    <3>3. RowsIn(s[L + 1 - k]) = RowsIn(dir[n].rows[id])
      <4> HIDE DEF s, L
      <4> QED BY <2>6, <3>1, <3>2
    <3> HIDE DEF s, all, L
    <3> QED BY <2>3, <2>5, <3>2, <3>3
  <2>9. Merged(job)[id] = IF all = << >> THEN << >> ELSE <<SelectBestRow(all)>>
    BY DEF Merged
  <2> HIDE DEF s, all
  <2>10. CASE all = << >>
    <3>1. Merged(job)[id] = << >> /\ RowsIn(all) = {} /\ RowsIn(Merged(job)[id]) = {}
      BY <2>9, <2>10 DEF RowsIn
    <3>2. << >> \in Seq(V)
      OBVIOUS
    <3> QED BY <2>8, <3>1, <3>2
  <2>11. CASE all # << >>
    <3> DEFINE b == SelectBestRow(all)
    <3>1. b \in RowsIn(all) /\ \A v \in RowsIn(all) : RowLen[v] <= RowLen[b]
      BY <2>5, <2>11, BestRow
    <3>2. b \in V
      <4> HIDE DEF b, V
      <4> QED BY <2>5, <3>1, SeqFacts
    <3>3. Merged(job)[id] = <<b>>
      BY <2>9, <2>11
    <3> HIDE DEF b, V
    <3>4. RowsIn(<<b>>) = {b} /\ <<b>> \in Seq(V)
      BY <3>2 DEF RowsIn
    <3> QED BY <2>7, <2>8, <3>1, <3>3, <3>4
  <2> QED BY <2>10, <2>11
<1>3. Merged(job) \in [Ids -> Seq(V)]
  <2>1. Merged(job) = [id \in Ids |-> Merged(job)[id]]
    BY DEF Merged
  <2> QED BY <2>1, <1>2
<1> QED BY <1>2, <1>3

-----------------------------------------------------------------------------
(* The inductive invariant.                                                *)

ReaderRecord ==
    [op : {"none", "reading"}, id : Ids \cup {None}, todo : SUBSET Names, found : SUBSET (1..MaxVersions),
     expect : BOOLEAN, disturbed : BOOLEAN]

\* TypeOK, and the types of the history.
Types ==
    /\ TypeOK
    /\ IsFiniteSet(DOMAIN dir)
    /\ queue \in Seq(Seq(Names))
    /\ \A p \in Planners : planner[p].pc = "enqueue" => planner[p].jobs # << >>
    /\ reader \in [Readers -> ReaderRecord]
    /\ \A r \in Readers : reader[r].op = "reading" => reader[r].id \in Ids
    /\ now \in Nat
    /\ versions \in 0..MaxVersions
    /\ born \in [Ids -> SUBSET (1..MaxVersions)]

\* The files of the jobs that are planned, queued or under way.
JobNames ==
    {n \in Names : \/ \E i \in DOMAIN queue : n \in RowsIn(queue[i])
                   \/ \E p \in Planners : \E i \in DOMAIN planner[p].jobs : n \in RowsIn(planner[p].jobs[i])
                   \/ \E w \in Workers : n \in RowsIn(worker[w].job)}

\* Names are numbered up to now, so a flush takes a new one.
Numbered ==
    /\ \A n \in DOMAIN dir \cup JobNames : n[2] <= now
    /\ \A w \in Workers : worker[w].pc \in {"merge", "rename"} => worker[w].out[2] <= now

\* A file of a job is gone or complete, and nextSeq has passed its number when
\* it is gone: no output ever takes its name.
JobFiles ==
    \A n \in JobNames :
        /\ n[1] = "sstable"
        /\ n \in DOMAIN dir => Complete(n)
        /\ n[1] = ExecPrefix => n \in DOMAIN dir \/ n[2] < nextSeq

\* The number of an output is above its inputs' and below nextSeq.
OutputNumbers ==
    \A w \in Workers : worker[w].pc \in {"merge", "rename", "delete"} =>
        /\ worker[w].out \in Names
        /\ worker[w].out[1] = ExecPrefix
        /\ worker[w].out[2] < nextSeq
        /\ \A n \in RowsIn(worker[w].job) : n[1] = ExecPrefix => n[2] < worker[w].out[2]

\* A name that is chosen and not yet taken is free, and only one worker has it.
OutputsFree ==
    \A w \in Workers : worker[w].pc \in {"merge", "rename"} =>
        /\ worker[w].out \notin DOMAIN dir \cup JobNames
        /\ \A x \in Workers \ {w} :
              worker[x].pc \in {"merge", "rename"} => worker[x].out # worker[w].out

\* What a worker is about to rename is a table.
OutputRows ==
    \A w \in Workers : worker[w].pc = "rename" => worker[w].rows \in [Ids -> Seq(1..MaxVersions)]

\* A reader that expects a row and is not disturbed has found one or has still
\* to look at a file with one.
StillThere(r) ==
    reader[r].op = "reading" /\ reader[r].expect /\ ~reader[r].disturbed
        => \/ reader[r].found # {}
           \/ \E n \in reader[r].todo \cap DOMAIN dir :
                 Complete(n) /\ dir[n].rows[reader[r].id] # << >>

IInv ==
    /\ Types
    /\ Numbered
    /\ JobFiles
    /\ OutputNumbers
    /\ OutputsFree
    /\ OutputRows
    /\ \A r \in Readers : StillThere(r)

\* The files that a worker is deleting, and the others that can be read.
Doomed == {n \in Names : \E w \in Workers : worker[w].pc = "delete" /\ n \in RowsIn(worker[w].job)}
Live == {n \in DOMAIN dir : Complete(n) /\ n \notin Doomed}

\* Some file that nobody deletes has version v of id, or one with as much data.
Covered(id, v) == \E n \in Live : \E u \in RowsIn(dir[n].rows[id]) : RowLen[u] >= RowLen[v]

\* Versions are new when they are flushed: no two flushes have the same, and
\* none is born before its file is complete.
Fresh ==
    /\ \A id \in Ids : born[id] \subseteq 1..versions
    /\ \A n \in DOMAIN dir : \A id \in Ids : RowsIn(dir[n].rows[id]) \subseteq 1..versions
    /\ \A n \in DOMAIN dir : dir[n].state = "writing" =>
          \A id \in Ids :
             /\ RowsIn(dir[n].rows[id]) \cap born[id] = {}
             /\ \A m \in DOMAIN dir \ {n} :
                   dir[m].state = "writing" => RowsIn(dir[n].rows[id]) \cap RowsIn(dir[m].rows[id]) = {}

\* Files that are to be deleted are not needed.
AllCovered ==
    \A n \in DOMAIN dir : Complete(n) =>
        \A id \in Ids : \A v \in RowsIn(dir[n].rows[id]) : Covered(id, v)

\* The rows of an output were flushed and are not longer than what is there, and
\* at least as long as what its inputs have.
Replaces(w) ==
    \A id \in Ids :
        /\ \A v \in RowsIn(worker[w].rows[id]) : v \in 1..versions /\ Covered(id, v)
        /\ \A n \in RowsIn(worker[w].job) \cap DOMAIN dir :
              \A v \in RowsIn(dir[n].rows[id]) : \E u \in RowsIn(worker[w].rows[id]) : RowLen[u] >= RowLen[v]

SInv ==
    /\ IInv
    /\ Fresh
    /\ AllCovered
    /\ \A w \in Workers : worker[w].pc = "rename" => Replaces(w)
-----------------------------------------------------------------------------
(* Which actions change what.                                              *)

\* The worker w takes a step that is not the scheduler's.
WorkerStep(w) ==
    WorkerPolls(w) \/ DequeueJob(w) \/ QueueEmpty(w) \/ WorkerStops(w) \/ Worker(w)

LEMMA DirFrame ==
    ASSUME Next
    PROVE  \/ dir' = dir
           \/ Environment
           \/ \E w \in Workers : Rename(w) \/ Delete(w)
           \/ Crash \/ PowerLoss
BY DEF Next, CheckAndSchedule, EnqueueJob, TriggerCompaction,
       NothingToDo, SchedulerStops, Stop, Start, WindowReset, GetStatsLocks, GetStatsReturns, WorkerPolls,
       DequeueJob, QueueEmpty, WorkerStops, Worker, Allow, ChooseName, Merge, CompactFails,
       CompactReturns, Reader, ReaderList, ReaderNext, ReaderReturns

LEMMA WorkerFrame ==
    ASSUME Next
    PROVE  worker' = worker \/ Start \/ (\E w \in Workers : WorkerStep(w)) \/ Crash \/ PowerLoss
BY DEF Next, Environment, FlushOne, FlushTwo, FlushCreate, FlushClose, Ages, CheckAndSchedule, EnqueueJob, TriggerCompaction,
       NothingToDo, SchedulerStops, Stop,
       WindowReset, GetStatsLocks, GetStatsReturns, WorkerStep, Reader, ReaderList, ReaderNext, ReaderReturns

LEMMA QueueFrame ==
    ASSUME Next
    PROVE  \/ queue' = queue
           \/ \E p \in Planners : EnqueueJob(p)
           \/ \E w \in Workers : DequeueJob(w)
           \/ Crash \/ PowerLoss
BY DEF Next, Environment, FlushOne, FlushTwo, FlushCreate, FlushClose, Ages, CheckAndSchedule,
       TriggerCompaction, NothingToDo, SchedulerStops, Stop, Start, WindowReset,
       GetStatsLocks, GetStatsReturns, WorkerPolls, QueueEmpty, WorkerStops, Worker, Allow, ChooseName,
       Merge, CompactFails, Rename, Delete, CompactReturns, Reader, ReaderList, ReaderNext, ReaderReturns

LEMMA ReaderFrame ==
    ASSUME Next
    PROVE  \/ reader' = reader
           \/ \E w \in Workers : Delete(w)
           \/ \E r \in Readers : Reader(r)
           \/ Crash \/ PowerLoss
BY DEF Next, Environment, FlushOne, FlushTwo, FlushCreate, FlushClose, Ages, CheckAndSchedule, EnqueueJob, TriggerCompaction,
       NothingToDo, SchedulerStops, Stop, Start,
       WindowReset, GetStatsLocks, GetStatsReturns, WorkerPolls, DequeueJob, QueueEmpty, WorkerStops, Worker,
       Allow, ChooseName, Merge, CompactFails, Rename, CompactReturns

LEMMA NumbersFrame ==
    ASSUME Next
    PROVE  \/ now' = now /\ nextSeq' = nextSeq
           \/ Environment
           \/ \E w \in Workers : ChooseName(w) \/ Merge(w)
           \/ Crash \/ PowerLoss
BY DEF Next, CheckAndSchedule, EnqueueJob, TriggerCompaction,
       NothingToDo, SchedulerStops, Stop, Start, WindowReset, GetStatsLocks, GetStatsReturns, WorkerPolls,
       DequeueJob, QueueEmpty, WorkerStops, Worker, Allow, Rename, CompactFails, Delete,
       CompactReturns, Reader, ReaderList, ReaderNext, ReaderReturns

LEMMA PlannerFrame ==
    ASSUME Next
    PROVE  \/ planner' = planner
           \/ \E p \in Planners : CheckAndSchedule(p) \/ EnqueueJob(p)
           \/ \E c \in Callers : TriggerCompaction(c) \/ NothingToDo(c)
           \/ SchedulerStops \/ Start \/ Crash \/ PowerLoss
BY DEF Next, Environment, FlushOne, FlushTwo, FlushCreate, FlushClose, Ages, Stop, WindowReset,
       GetStatsLocks, GetStatsReturns, WorkerPolls, DequeueJob, QueueEmpty, WorkerStops, Worker, Allow,
       ChooseName, Merge, CompactFails, Rename, Delete, CompactReturns, Reader, ReaderList, ReaderNext,
       ReaderReturns

-----------------------------------------------------------------------------
(* Types.                                                                  *)

DirOK(d) ==
    /\ DOMAIN d \subseteq Names
    /\ IsFiniteSet(DOMAIN d)
    /\ \A n \in DOMAIN d : d[n] \in File

WorkerRecord ==
    [pc : {"idle", "poll", "wait", "name", "merge", "rename", "delete", "stopped"},
     job : Seq(Names), bytes : Nat, out : Names \cup {None},
     rows : [Ids -> Seq(1..MaxVersions)] \cup {None}, mtime : Nat]

PlannerRecord == [pc : {"idle", "checked", "enqueue", "stopped"}, jobs : Seq(Seq(Names))]

\* With and Without, as functions.
LEMMA WithIs ==
    ASSUME NEW n, NEW f
    PROVE  /\ DOMAIN With(n, f) = DOMAIN dir \cup {n}
           /\ With(n, f)[n] = f
           /\ \A m \in DOMAIN dir \ {n} : With(n, f)[m] = dir[m]
BY DEF With

LEMMA WithoutIs ==
    ASSUME NEW n
    PROVE  /\ DOMAIN Without(n) = DOMAIN dir \ {n}
           /\ \A m \in DOMAIN dir \ {n} : Without(n)[m] = dir[m]
BY DEF Without

LEMMA WithOK ==
    ASSUME DirOK(dir), NEW n \in Names, NEW f \in File
    PROVE  DirOK(With(n, f))
<1>1. IsFiniteSet(DOMAIN dir \cup {n})
  BY FS_AddElement DEF DirOK
<1> DEFINE D == With(n, f)
<1>2. DOMAIN D = DOMAIN dir \cup {n} /\ D[n] = f /\ \A m \in DOMAIN dir \ {n} : D[m] = dir[m]
  BY WithIs
<1> HIDE DEF D
<1>3. \A m \in DOMAIN D : D[m] \in File
  BY <1>2 DEF DirOK
<1>4. DirOK(D)
  BY <1>1, <1>2, <1>3 DEF DirOK
<1> QED BY <1>4 DEF D

LEMMA WithoutOK ==
    ASSUME DirOK(dir), NEW n
    PROVE  DirOK(Without(n))
<1>1. IsFiniteSet(DOMAIN dir \ {n})
  BY FS_RemoveElement DEF DirOK
<1> QED BY <1>1, WithoutIs DEF DirOK

\* The rows of a flush.
FlushRows(rows) ==
    /\ rows \in [Ids -> Seq(1..MaxVersions)]
    /\ \A id \in Ids : RowsIn(rows[id]) \subseteq versions + 1 .. versions'

\* Every step of the environment is a flush or ages a file.
LEMMA EnvironmentSteps ==
    ASSUME Types, Environment
    PROVE  \/ \E rows : FlushCreate(rows) /\ FlushRows(rows) /\ versions' \in 0..MaxVersions /\ versions <= versions'
           \/ \E n \in DOMAIN dir : FlushClose(n)
           \/ \E n \in DOMAIN dir : Ages(n)
<1> USE CompactionAssumption
<1>1. versions \in Nat /\ MaxVersions \in Nat
  BY DEF Types
<1>2. ASSUME NEW ids \in SUBSET Ids \ {{}}, FlushOne(ids)
      PROVE  \E rows : FlushCreate(rows) /\ FlushRows(rows) /\ versions' \in 0..MaxVersions /\ versions <= versions'
  <2> DEFINE rows == [id \in Ids |-> IF id \in ids THEN <<versions + 1>> ELSE << >>]
  <2>1. versions < MaxVersions /\ versions' = versions + 1 /\ FlushCreate(rows)
    BY <1>2 DEF FlushOne
  <2>2. versions + 1 \in 1..MaxVersions
    BY <1>1, <2>1
  <2>3. << >> \in Seq(1..MaxVersions) /\ <<versions + 1>> \in Seq(1..MaxVersions)
    BY <2>2
  <2>4. RowsIn(<< >>) = {} /\ RowsIn(<<versions + 1>>) = {versions + 1}
    BY DEF RowsIn
  <2>5. rows \in [Ids -> Seq(1..MaxVersions)]
    BY <2>3
  <2>6. \A id \in Ids : RowsIn(rows[id]) \subseteq {versions + 1}
    BY <2>4
  <2>7. {versions + 1} \subseteq versions + 1 .. versions'
    BY <1>1, <2>1
  <2> HIDE DEF rows
  <2>8. FlushRows(rows)
    BY <2>5, <2>6, <2>7 DEF FlushRows
  <2> QED BY <1>1, <2>1, <2>8
<1>3. ASSUME NEW i \in Ids, FlushTwo(i)
      PROVE  \E rows : FlushCreate(rows) /\ FlushRows(rows) /\ versions' \in 0..MaxVersions /\ versions <= versions'
  <2> DEFINE rows == [id \in Ids |-> IF id = i THEN <<versions + 1, versions + 2>> ELSE << >>]
  <2>1. versions + 1 < MaxVersions /\ versions' = versions + 2 /\ FlushCreate(rows)
    BY <1>3 DEF FlushTwo
  <2>2. versions + 1 \in 1..MaxVersions /\ versions + 2 \in 1..MaxVersions
    BY <1>1, <2>1
  <2>3. << >> \in Seq(1..MaxVersions) /\ <<versions + 1, versions + 2>> \in Seq(1..MaxVersions)
    BY <2>2
  <2>4. RowsIn(<< >>) = {} /\ RowsIn(<<versions + 1, versions + 2>>) = {versions + 1, versions + 2}
    BY DEF RowsIn
  <2>5. rows \in [Ids -> Seq(1..MaxVersions)]
    BY <2>3
  <2>6. \A id \in Ids : RowsIn(rows[id]) \subseteq {versions + 1, versions + 2}
    BY <2>4
  <2>7. {versions + 1, versions + 2} \subseteq versions + 1 .. versions'
    BY <1>1, <2>1
  <2> HIDE DEF rows
  <2>8. FlushRows(rows)
    BY <2>5, <2>6, <2>7 DEF FlushRows
  <2> QED BY <1>1, <2>1, <2>8
<1>4. \/ \E ids \in SUBSET Ids \ {{}} : FlushOne(ids)
      \/ \E id \in Ids : FlushTwo(id)
      \/ \E n \in DOMAIN dir : FlushClose(n)
      \/ \E n \in DOMAIN dir : Ages(n)
  BY DEF Environment
<1> QED BY <1>2, <1>3, <1>4, Zenon

\* The types, one by one.
LEMMA TypesIs ==
    Types <=> /\ DirOK(dir)
              /\ queue \in Seq(Seq(Names))
              /\ queueMu \in Callers \cup {None}
              /\ planner \in [Planners -> PlannerRecord]
              /\ \A p \in Planners : planner[p].pc = "enqueue" => planner[p].jobs # << >>
              /\ worker \in [Workers -> WorkerRecord]
              /\ nextSeq \in Nat
              /\ window \in [ops : 0..MaxIOPS, bytes : 0..MaxBandwidth]
              /\ running \in BOOLEAN
              /\ reader \in [Readers -> ReaderRecord]
              /\ \A r \in Readers : reader[r].op = "reading" => reader[r].id \in Ids
              /\ now \in Nat
              /\ versions \in 0..MaxVersions
              /\ born \in [Ids -> SUBSET (1..MaxVersions)]
<1>1. queue \in Seq(Seq(Names)) => \A i \in DOMAIN queue : queue[i] \in Seq(Names)
  OBVIOUS
<1>2. reader \in [Readers -> ReaderRecord] => \A r \in Readers : reader[r].todo \subseteq Names
  BY DEF ReaderRecord
<1> QED BY <1>1, <1>2 DEF Types, TypeOK, DirOK, WorkerRecord, PlannerRecord

\* A file with one field changed is a file.
LEMMA FileUpdates ==
    ASSUME NEW f \in File
    PROVE  /\ [f EXCEPT !.state = "complete"] \in File
           /\ [f EXCEPT !.state = "broken"] \in File
           /\ [f EXCEPT !.old = TRUE] \in File
           /\ [f EXCEPT !.settled = TRUE] \in File
           /\ [f EXCEPT !.state = "broken", !.settled = TRUE] \in File
BY DEF File

\* The file that Rename puts in place.
LEMMA RenamedFile ==
    ASSUME IInv, NEW w \in Workers, worker[w].pc = "rename"
    PROVE  /\ worker[w].out \in Names
           /\ [rows |-> worker[w].rows, mtime |-> worker[w].mtime, old |-> FALSE,
               state |-> "complete", settled |-> FALSE] \in File
<1>1. worker[w].rows \in [Ids -> Seq(1..MaxVersions)] /\ worker[w].out \in Names
  BY DEF IInv, OutputRows, OutputNumbers
<1>2. worker[w].mtime \in Nat
  BY TypesIs DEF IInv, WorkerRecord
<1> QED BY <1>1, <1>2 DEF File

LEMMA DirTypes ==
    ASSUME IInv, Next
    PROVE  DirOK(dir')
<1>1. Types /\ DirOK(dir) /\ now \in Nat
  BY TypesIs DEF IInv
<1>2. ASSUME NEW rows, FlushCreate(rows), FlushRows(rows) PROVE DirOK(dir')
  <2> DEFINE f == [rows |-> rows, mtime |-> now + 1, old |-> FALSE, state |-> "writing", settled |-> FALSE]
  <2>1. f \in File
    BY <1>1, <1>2 DEF File, FlushRows
  <2>2. <<"sstable", now + 1>> \in Names
    BY <1>1 DEF Names
  <2>3. dir' = With(<<"sstable", now + 1>>, f)
    BY <1>2 DEF FlushCreate
  <2> HIDE DEF f
  <2> QED BY <1>1, <2>1, <2>2, <2>3, WithOK
<1>3. ASSUME NEW n \in DOMAIN dir, FlushClose(n) \/ Ages(n) PROVE DirOK(dir')
  <2>1. \A m \in DOMAIN dir : dir[m] \in File
    BY <1>1 DEF DirOK
  <2>2. /\ [dir[n] EXCEPT !.state = "complete"] \in File
        /\ [dir[n] EXCEPT !.old = TRUE] \in File
    BY <2>1, FileUpdates
  <2>3. DOMAIN dir' = DOMAIN dir /\ \A m \in DOMAIN dir \ {n} : dir'[m] = dir[m]
    BY <1>3 DEF FlushClose, Ages
  <2>4. dir'[n] \in {[dir[n] EXCEPT !.state = "complete"], [dir[n] EXCEPT !.old = TRUE]}
    BY <1>3 DEF FlushClose, Ages
  <2>5. \A m \in DOMAIN dir' : dir'[m] \in File
    BY <2>1, <2>2, <2>3, <2>4
  <2> QED BY <1>1, <2>3, <2>5 DEF DirOK
<1>4. ASSUME NEW w \in Workers, Rename(w) PROVE DirOK(dir')
  <2>1. worker[w].pc = "rename"
    BY <1>4 DEF Rename
  <2> QED BY <1>1, <1>4, <2>1, RenamedFile, WithOK DEF Rename
<1>5. ASSUME NEW w \in Workers, Delete(w) PROVE DirOK(dir')
  BY <1>1, <1>5, WithoutOK DEF Delete
<1>6. ASSUME Crash \/ PowerLoss PROVE DirOK(dir')
  <2>1. DOMAIN dir' = DOMAIN dir
    BY <1>6 DEF Crash, PowerLoss
  <2>2. ASSUME NEW m \in DOMAIN dir PROVE dir'[m] \in File
    <3>1. dir[m] \in File
      BY <1>1 DEF DirOK
    <3>2. dir'[m] \in {dir[m], [dir[m] EXCEPT !.state = "broken"], [dir[m] EXCEPT !.settled = TRUE],
                       [dir[m] EXCEPT !.state = "broken", !.settled = TRUE]}
      BY <1>6 DEF Crash, PowerLoss
    <3> QED BY <3>1, <3>2, FileUpdates
  <2> QED BY <1>1, <2>1, <2>2 DEF DirOK
<1>7. ASSUME Environment PROVE DirOK(dir')
  BY <1>1, <1>2, <1>3, <1>7, EnvironmentSteps
<1> QED BY <1>1, <1>4, <1>5, <1>6, <1>7, DirFrame

\* The files that the planner lists.
Ready == {n \in Visible : Complete(n)}

\* checkAndSchedule plans jobs whose files are listed.
LEMMA ScheduledJobs ==
    ASSUME Types, NEW p \in Planners, CheckAndSchedule(p)
    PROVE  \E jobs \in Seq(Seq(Ready)) :
              jobs # << >> /\ planner' = [planner EXCEPT ![p] = [pc |-> "enqueue", jobs |-> jobs]]
<1> DEFINE Jobs(list) == [i \in DOMAIN PlanCompaction(list) |->
                            [k \in DOMAIN PlanCompaction(list)[i] |-> PlanCompaction(list)[i][k].name]]
<1>1. PICK list \in SortedLists(Infos) :
        Jobs(list) # << >> /\ planner' = [planner EXCEPT ![p] = [pc |-> "enqueue", jobs |-> Jobs(list)]]
  BY DEF CheckAndSchedule
<1> DEFINE plans == PlanCompaction(list)
<1> DEFINE jobs == [i \in DOMAIN plans |-> [k \in DOMAIN plans[i] |-> plans[i][k].name]]
<1>2. list \in Seq(Infos)
  BY ListType DEF Types
<1>3. plans \in Seq(Seq(Infos))
  BY <1>2, PlanType
<1>4. jobs # << >> /\ planner' = [planner EXCEPT ![p] = [pc |-> "enqueue", jobs |-> jobs]]
  BY <1>1
<1> HIDE DEF plans, Jobs
<1>5. \A info \in Infos : info.name \in Ready
  BY DEF Infos, Ready
<1>6. ASSUME NEW i \in DOMAIN plans PROVE jobs[i] \in Seq(Ready)
  <2>1. plans[i] \in Seq(Infos)
    BY <1>3
  <2>2. /\ DOMAIN plans[i] = 1 .. Len(plans[i]) /\ Len(plans[i]) \in Nat
        /\ \A k \in DOMAIN plans[i] : plans[i][k] \in Infos
    BY <2>1, SeqFacts
  <2>3. jobs[i] \in [1 .. Len(plans[i]) -> Ready]
    BY <2>2, <1>5
  <2> HIDE DEF jobs
  <2> QED BY <2>2, <2>3
<1>7. DOMAIN plans = 1 .. Len(plans) /\ Len(plans) \in Nat
  BY <1>3
<1>8. jobs \in [1 .. Len(plans) -> Seq(Ready)]
  <2>1. DOMAIN jobs = DOMAIN plans /\ jobs = [i \in DOMAIN plans |-> jobs[i]]
    OBVIOUS
  <2> HIDE DEF jobs
  <2> QED BY <1>6, <1>7, <2>1
<1>9. jobs \in Seq(Seq(Ready))
  <2> HIDE DEF jobs
  <2> QED BY <1>7, <1>8
<1> HIDE DEF jobs
<1> QED BY <1>4, <1>9

\* dequeueJob removes one job.
LEMMA DequeuedJob ==
    ASSUME Types, NEW w \in Workers, DequeueJob(w)
    PROVE  \E i \in DOMAIN queue :
              /\ worker' = [worker EXCEPT ![w] = [worker[w] EXCEPT !.pc = "wait", !.job = queue[i],
                                                                  !.bytes = JobBytes(queue[i])]]
              /\ queue' = RemoveAt(queue, i)
              /\ queue[i] \in Seq(Names)
              /\ queue' \in Seq(Seq(Names))
              /\ \A j \in DOMAIN queue' : \E k \in DOMAIN queue : queue'[j] = queue[k]
<1>1. PICK i \in DOMAIN queue :
              /\ worker' = [worker EXCEPT ![w] = [worker[w] EXCEPT !.pc = "wait", !.job = queue[i],
                                                                  !.bytes = JobBytes(queue[i])]]
              /\ queue' = RemoveAt(queue, i)
  BY DEF DequeueJob
<1>2. queue \in Seq(Seq(Names))
  BY DEF Types
<1> DEFINE a == SubSeq(queue, 1, i - 1)
<1> DEFINE b == SubSeq(queue, i + 1, Len(queue))
<1>3. i \in 1 .. Len(queue) /\ Len(queue) \in Nat /\ queue[i] \in Seq(Names)
  BY <1>2
<1>4. a \in Seq(Seq(Names)) /\ Len(a) = i - 1 /\ \A j \in 1 .. i - 1 : a[j] = queue[j]
  BY <1>2, <1>3, SubSeqProperties
<1>5. b \in Seq(Seq(Names)) /\ Len(b) = Len(queue) - i /\ \A j \in 1 .. Len(queue) - i : b[j] = queue[i + j]
  BY <1>2, <1>3, SubSeqProperties
<1>6. queue' = a \o b
  BY <1>1 DEF RemoveAt
<1> HIDE DEF a, b
<1>7. queue' \in Seq(Seq(Names)) /\ Len(queue') = Len(queue) - 1 /\ DOMAIN queue' = 1 .. Len(queue')
  BY <1>3, <1>4, <1>5, <1>6
<1>8. ASSUME NEW j \in DOMAIN queue' PROVE \E k \in DOMAIN queue : queue'[j] = queue[k]
  <2>1. CASE j <= i - 1
    <3>1. j \in 1 .. i - 1 /\ j \in DOMAIN queue
      BY <1>2, <1>3, <1>7, <2>1
    <3>2. queue'[j] = a[j] /\ a[j] = queue[j]
      BY <1>3, <1>4, <1>5, <1>6, <3>1
    <3> QED BY <3>1, <3>2
  <2>2. CASE j > i - 1
    <3>1. j \in Nat /\ j - (i - 1) \in 1 .. Len(queue) - i
      BY <1>3, <1>7, <2>2
    <3>2. queue'[j] = b[j - (i - 1)]
      <4>1. j - (i - 1) \in 1 .. Len(b) /\ Len(a) + (j - (i - 1)) = j
        <5>1. i \in Nat /\ j \in Nat
          BY <1>3, <3>1
        <5>2. Len(a) + (j - (i - 1)) = j
          BY <1>4, <5>1
        <5> QED BY <1>5, <3>1, <5>2
      <4>2. (a \o b)[Len(a) + (j - (i - 1))] = b[j - (i - 1)]
        <5>1. \A k \in 1 .. Len(b) : (a \o b)[Len(a) + k] = b[k]
          <6> DEFINE A == Seq(Names)
          <6>1. a \in Seq(A) /\ b \in Seq(A)
            BY <1>4, <1>5
          <6> HIDE DEF A
          <6> QED BY <6>1, ConcatAt
        <5> QED BY <4>1, <5>1, Zenon
      <4> QED BY <1>6, <4>1, <4>2
    <3>3. b[j - (i - 1)] = queue[i + (j - (i - 1))]
      BY <1>5, <3>1
    <3>4. i + (j - (i - 1)) \in DOMAIN queue
      BY <1>2, <1>3, <3>1
    <3> QED BY <3>2, <3>3, <3>4
  <2> QED BY <1>3, <1>7, <2>1, <2>2
<1> QED BY <1>1, <1>3, <1>7, <1>8

\* What is appended to a sequence is its last element.
LEMMA AppendAt ==
    ASSUME NEW A, NEW s \in Seq(A), NEW x \in A
    PROVE  /\ Append(s, x) \in Seq(A) /\ Len(Append(s, x)) = Len(s) + 1 /\ Len(s) \in Nat
           /\ \A i \in 1 .. Len(s) : Append(s, x)[i] = s[i]
           /\ Append(s, x)[Len(s) + 1] = x
OBVIOUS

LEMMA TailAt ==
    ASSUME NEW A, NEW s \in Seq(A), s # << >>
    PROVE  /\ Head(s) \in A /\ Tail(s) \in Seq(A) /\ 1 \in DOMAIN s /\ Head(s) = s[1]
           /\ \A i \in DOMAIN Tail(s) : \E k \in DOMAIN s : Tail(s)[i] = s[k]
<1>1. /\ Len(s) \in Nat /\ Len(s) > 0 /\ DOMAIN s = 1 .. Len(s)
      /\ Tail(s) \in Seq(A) /\ Len(Tail(s)) = Len(s) - 1 /\ Head(s) = s[1]
      /\ \A i \in 1 .. Len(s) - 1 : Tail(s)[i] = s[i + 1]
  OBVIOUS
<1>2. DOMAIN Tail(s) = 1 .. Len(s) - 1
  BY <1>1, SeqFacts, Zenon
<1>3. ASSUME NEW i \in 1 .. Len(s) - 1 PROVE \E k \in DOMAIN s : Tail(s)[i] = s[k]
  <2>1. i + 1 \in DOMAIN s /\ Tail(s)[i] = s[i + 1]
    BY <1>1
  <2> QED BY <2>1
<1>4. 1 \in DOMAIN s /\ s[1] \in A
  BY <1>1
<1> QED BY <1>1, <1>2, <1>3, <1>4

\* The planner that enqueues has a job, and the others stay.
LEMMA Enqueues ==
    ASSUME Types, NEW p \in Planners, EnqueueJob(p)
    PROVE  LET jobs == planner[p].jobs
           IN  /\ jobs \in Seq(Seq(Names)) /\ jobs # << >>
               /\ Head(jobs) \in Seq(Names) /\ Tail(jobs) \in Seq(Seq(Names))
               /\ 1 \in DOMAIN jobs /\ Head(jobs) = jobs[1]
               /\ \A i \in DOMAIN Tail(jobs) : \E k \in DOMAIN jobs : Tail(jobs)[i] = jobs[k]
               /\ queue' = Append(queue, Head(jobs))
               /\ planner' = [planner EXCEPT ![p] =
                     [pc |-> IF Tail(jobs) = << >> THEN "idle" ELSE "enqueue", jobs |-> Tail(jobs)]]
<1> DEFINE jobs == planner[p].jobs
<1>1. planner \in [Planners -> PlannerRecord] /\ planner[p].pc = "enqueue" => jobs # << >>
  BY TypesIs
<1>2. jobs \in Seq(Seq(Names)) /\ jobs # << >>
  BY <1>1, TypesIs DEF EnqueueJob, PlannerRecord
<1>3. /\ queue' = Append(queue, Head(jobs))
      /\ planner' = [planner EXCEPT ![p] =
            [pc |-> IF Tail(jobs) = << >> THEN "idle" ELSE "enqueue", jobs |-> Tail(jobs)]]
  BY DEF EnqueueJob
<1> HIDE DEF jobs
<1>4. /\ Head(jobs) \in Seq(Names) /\ Tail(jobs) \in Seq(Seq(Names))
      /\ 1 \in DOMAIN jobs /\ Head(jobs) = jobs[1]
      /\ \A i \in DOMAIN Tail(jobs) : \E k \in DOMAIN jobs : Tail(jobs)[i] = jobs[k]
  <2> DEFINE A == Seq(Names)
  <2>1. jobs \in Seq(A)
    BY <1>2
  <2> HIDE DEF A
  <2>2. /\ Head(jobs) \in A /\ Tail(jobs) \in Seq(A)
        /\ 1 \in DOMAIN jobs /\ Head(jobs) = jobs[1]
        /\ \A i \in DOMAIN Tail(jobs) : \E k \in DOMAIN jobs : Tail(jobs)[i] = jobs[k]
    BY <1>2, <2>1, TailAt
  <2> QED BY <2>2 DEF A
<1> QED BY <1>2, <1>3, <1>4 DEF jobs

LEMMA QueueTypes ==
    ASSUME Types, Next
    PROVE  queue' \in Seq(Seq(Names))
<1>1. queue \in Seq(Seq(Names))
  BY DEF Types
<1>2. ASSUME NEW p \in Planners, EnqueueJob(p) PROVE queue' \in Seq(Seq(Names))
  <2>1. PICK job \in Seq(Names) : queue' = Append(queue, job)
    BY <1>2, Enqueues
  <2> QED BY <1>1, <2>1
<1>3. ASSUME NEW w \in Workers, DequeueJob(w) PROVE queue' \in Seq(Seq(Names))
  BY <1>3, DequeuedJob
<1>4. ASSUME Crash \/ PowerLoss PROVE queue' \in Seq(Seq(Names))
  <2>1. queue' = << >>
    BY <1>4 DEF Crash, PowerLoss, Reborn
  <2>2. << >> \in Seq(Seq(Names))
    OBVIOUS
  <2> QED BY <2>1, <2>2
<1> QED BY <1>1, <1>2, <1>3, <1>4, QueueFrame

Schedules == \E p \in Planners : CheckAndSchedule(p)

\* Where the job of a planner comes from.
FromJobs(p, job) ==
    \/ \E k \in DOMAIN planner[p].jobs : job = planner[p].jobs[k]
    \/ Schedules /\ job \in Seq(Ready)

LEMMA IdlePlannerType == IdlePlanner \in PlannerRecord /\ IdlePlanner.pc = "idle" /\ IdlePlanner.jobs = << >>
<1>1. << >> \in Seq(Seq(Names))
  OBVIOUS
<1> QED BY <1>1 DEF IdlePlanner, PlannerRecord

LEMMA PlannerSteps ==
    ASSUME Types, Next
    PROVE  /\ planner' \in [Planners -> PlannerRecord]
           /\ \A p \in Planners : planner'[p].pc = "enqueue" => planner'[p].jobs # << >>
           /\ \A p \in Planners : \A i \in DOMAIN planner'[p].jobs : FromJobs(p, planner'[p].jobs[i])
<1> DEFINE Good(p, rec) == /\ rec \in PlannerRecord
                           /\ rec.pc = "enqueue" => rec.jobs # << >>
                           /\ \A i \in DOMAIN rec.jobs : FromJobs(p, rec.jobs[i])
<1> DEFINE Goal == planner' \in [Planners -> PlannerRecord] /\ \A p \in Planners : Good(p, planner'[p])
<1>1. /\ planner \in [Planners -> PlannerRecord] /\ Scheduler \in Planners /\ Callers \subseteq Planners
      /\ \A p \in Planners : planner[p].pc = "enqueue" => planner[p].jobs # << >>
      /\ Ready \subseteq Names
  BY TypesIs DEF Planners, Ready, Visible, DirOK
<1>2. \A p \in Planners : Good(p, planner[p])
  BY <1>1 DEF FromJobs
<1>3. \A p \in Planners : Good(p, IdlePlanner)
  BY IdlePlannerType
<1>4. ASSUME NEW p \in Planners, NEW rec, Good(p, rec), planner' = [planner EXCEPT ![p] = rec] PROVE Goal
  <2>1. planner' \in [Planners -> PlannerRecord]
    BY <1>1, <1>4
  <2>2. ASSUME NEW q \in Planners PROVE planner'[q] = IF q = p THEN rec ELSE planner[q]
    BY <1>1, <1>4
  <2> HIDE DEF Good
  <2> QED BY <1>2, <1>4, <2>1, <2>2
<1>5. ASSUME NEW p \in Planners, NEW pc \in {"idle", "checked", "stopped"}, planner' = [planner EXCEPT ![p].pc = pc]
      PROVE  Goal
  <2> DEFINE rec == [planner[p] EXCEPT !.pc = pc]
  <2>1. planner' = [planner EXCEPT ![p] = rec]
    BY <1>1, <1>5
  <2>2. rec \in PlannerRecord /\ rec.pc = pc /\ rec.jobs = planner[p].jobs
    BY <1>1 DEF PlannerRecord
  <2> HIDE DEF rec
  <2>3. Good(p, rec)
    BY <2>2 DEF FromJobs
  <2> HIDE DEF Good, Goal
  <2> QED BY <1>4, <2>1, <2>3
<1>6. ASSUME NEW p \in Planners, planner' = [planner EXCEPT ![p] = IdlePlanner] PROVE Goal
  <2> HIDE DEF Good, Goal
  <2> QED BY <1>3, <1>4, <1>6
<1>7. ASSUME NEW p \in Planners, CheckAndSchedule(p) PROVE Goal
  <2>1. PICK jobs \in Seq(Seq(Ready)) :
              jobs # << >> /\ planner' = [planner EXCEPT ![p] = [pc |-> "enqueue", jobs |-> jobs]]
    BY <1>7, ScheduledJobs
  <2>2. Seq(Ready) \subseteq Seq(Names)
    BY <1>1, SeqMonotone
  <2>3. jobs \in Seq(Seq(Names))
    BY <2>2, SeqMonotone
  <2>4. \A i \in DOMAIN jobs : jobs[i] \in Seq(Ready)
    BY <2>1, SeqFacts
  <2> DEFINE rec == [pc |-> "enqueue", jobs |-> jobs]
  <2>5. rec \in PlannerRecord /\ rec.jobs = jobs
    BY <2>3 DEF PlannerRecord
  <2> HIDE DEF rec
  <2>6. Good(p, rec)
    BY <1>7, <2>1, <2>4, <2>5 DEF FromJobs, Schedules
  <2>7. planner' = [planner EXCEPT ![p] = rec]
    BY <2>1 DEF rec
  <2> HIDE DEF Good, Goal
  <2> QED BY <1>4, <2>6, <2>7
<1>8. ASSUME NEW p \in Planners, EnqueueJob(p) PROVE Goal
  <2> DEFINE jobs == planner[p].jobs
  <2> DEFINE rec == [pc |-> IF Tail(jobs) = << >> THEN "idle" ELSE "enqueue", jobs |-> Tail(jobs)]
  <2>1. /\ Tail(jobs) \in Seq(Seq(Names))
        /\ \A i \in DOMAIN Tail(jobs) : \E k \in DOMAIN jobs : Tail(jobs)[i] = jobs[k]
        /\ planner' = [planner EXCEPT ![p] = rec]
    BY <1>8, Enqueues
  <2> HIDE DEF jobs
  <2>2. /\ rec \in PlannerRecord /\ rec.jobs = Tail(jobs)
        /\ rec.pc = "enqueue" => rec.jobs # << >>
    BY <2>1 DEF PlannerRecord
  <2> HIDE DEF rec
  <2>3. Good(p, rec)
    BY <2>1, <2>2 DEF FromJobs, jobs
  <2> HIDE DEF Good, Goal
  <2> QED BY <1>4, <2>1, <2>3
<1>9. ASSUME Crash \/ PowerLoss PROVE Goal
  <2>1. planner' = [p \in Planners |-> IdlePlanner]
    BY <1>9 DEF Crash, PowerLoss, Reborn
  <2>2. planner' \in [Planners -> PlannerRecord] /\ \A p \in Planners : planner'[p] = IdlePlanner
    BY <2>1, IdlePlannerType
  <2> HIDE DEF Good
  <2> QED BY <1>3, <2>2
<1>10. ASSUME NEW c \in Callers, TriggerCompaction(c) PROVE Goal
  <2>1. planner' = [planner EXCEPT ![c].pc = "checked"] /\ c \in Planners
    BY <1>1, <1>10 DEF TriggerCompaction
  <2> HIDE DEF Goal
  <2> QED BY <1>5, <2>1
<1>11. ASSUME NEW c \in Callers, NothingToDo(c) PROVE Goal
  <2>1. planner' = [planner EXCEPT ![c] = IdlePlanner] /\ c \in Planners
    BY <1>1, <1>11 DEF NothingToDo
  <2> HIDE DEF Goal
  <2> QED BY <1>6, <2>1
<1>12. ASSUME SchedulerStops PROVE Goal
  <2>1. planner' = [planner EXCEPT ![Scheduler].pc = "stopped"]
    BY <1>12 DEF SchedulerStops
  <2> HIDE DEF Goal
  <2> QED BY <1>1, <1>5, <2>1
<1>13. ASSUME Start PROVE Goal
  <2>1. planner' = [planner EXCEPT ![Scheduler] = IdlePlanner]
    BY <1>13 DEF Start
  <2> HIDE DEF Goal
  <2> QED BY <1>1, <1>6, <2>1
<1>14. ASSUME planner' = planner PROVE Goal
  BY <1>1, <1>2, <1>14
<1>15. Goal
  <2> HIDE DEF Goal
  <2> QED BY <1>7, <1>8, <1>9, <1>10, <1>11, <1>12, <1>13, <1>14, PlannerFrame
<1> QED BY <1>15

\* Steps of a worker that only move it on.
LEMMA QuietSteps ==
    ASSUME NEW w \in Workers, WorkerPolls(w) \/ QueueEmpty(w) \/ WorkerStops(w) \/ Allow(w)
    PROVE  /\ \E p \in {"poll", "idle", "stopped", "name"} : worker' = [worker EXCEPT ![w].pc = p]
           /\ worker[w].pc \in {"idle", "poll", "wait"}
           /\ UNCHANGED <<dir, queue, nextSeq, reader, now, versions, born, losses>>
BY DEF WorkerPolls, QueueEmpty, WorkerStops, Allow

LEMMA IdleWorkerType == IdleWorker \in WorkerRecord /\ IdleWorker.pc = "idle" /\ RowsIn(IdleWorker.job) = {}
<1>1. << >> \in Seq(Names) /\ RowsIn(<< >>) = {}
  BY DEF RowsIn
<1> QED BY <1>1 DEF IdleWorker, WorkerRecord

\* What a step of a worker does to it.
LEMMA WorkerTypes ==
    ASSUME IInv, Next
    PROVE  worker' \in [Workers -> WorkerRecord]
<1>1. worker \in [Workers -> WorkerRecord] /\ DirOK(dir) /\ nextSeq \in Nat /\ Types
  BY TypesIs DEF IInv
<1>2. ASSUME Start \/ Crash \/ PowerLoss PROVE worker' \in [Workers -> WorkerRecord]
  <2>1. worker' = [x \in Workers |-> IdleWorker]
    BY <1>2 DEF Start, Crash, PowerLoss, Reborn
  <2> QED BY <2>1, IdleWorkerType
<1>3. ASSUME NEW w \in Workers, WorkerStep(w) PROVE worker' \in [Workers -> WorkerRecord]
  <2>1. worker[w] \in WorkerRecord
    BY <1>1
  <2>2. SUFFICES ASSUME NEW rec, worker' = [worker EXCEPT ![w] = rec] PROVE rec \in WorkerRecord
    <3>1. \E rec : worker' = [worker EXCEPT ![w] = rec]
      <4>1. CASE DequeueJob(w)
        BY <4>1 DEF DequeueJob
      <4>2. CASE WorkerPolls(w) \/ QueueEmpty(w) \/ WorkerStops(w)
        BY <4>2 DEF WorkerPolls, QueueEmpty, WorkerStops
      <4>3. CASE Worker(w)
        BY <4>3 DEF Worker, Allow, ChooseName, Merge, CompactFails, Rename, Delete, CompactReturns, Done
      <4> QED BY <1>3, <4>1, <4>2, <4>3 DEF WorkerStep
    <3>2. \A rec \in WorkerRecord : [worker EXCEPT ![w] = rec] \in [Workers -> WorkerRecord]
      BY <1>1
    <3> QED BY <3>1, <3>2
  <2>3. rec = worker'[w]
    BY <1>1, <2>2
  <2>4. CASE WorkerPolls(w) \/ QueueEmpty(w) \/ WorkerStops(w) \/ Allow(w)
    <3>1. PICK p \in {"poll", "idle", "stopped", "name"} : worker' = [worker EXCEPT ![w].pc = p]
      BY <2>4, QuietSteps
    <3>2. rec = [worker[w] EXCEPT !.pc = p]
      BY <1>1, <2>3, <3>1
    <3> QED BY <2>1, <3>2 DEF WorkerRecord
  <2>5. CASE DequeueJob(w)
    <3>1. PICK i \in DOMAIN queue :
              /\ worker' = [worker EXCEPT ![w] = [worker[w] EXCEPT !.pc = "wait", !.job = queue[i],
                                                                  !.bytes = JobBytes(queue[i])]]
              /\ queue[i] \in Seq(Names)
      BY <1>1, <2>5, DequeuedJob
    <3>2. rec = [worker[w] EXCEPT !.pc = "wait", !.job = queue[i], !.bytes = JobBytes(queue[i])]
      BY <1>1, <2>3, <3>1
    <3>3. JobBytes(queue[i]) \in Nat
      BY <1>1, <3>1, JobBytesType DEF DirOK
    <3> QED BY <2>1, <3>1, <3>2, <3>3 DEF WorkerRecord
  <2>6. CASE ChooseName(w)
    <3>1. worker[w].job \in Seq(Names)
      BY <2>1 DEF WorkerRecord
    <3>2. OutputSeq(worker[w].job) \in Nat
      BY <1>1, <3>1, OutputSeqIs DEF DirOK
    <3>3. <<ExecPrefix, OutputSeq(worker[w].job)>> \in Names
      BY <3>2 DEF Names
    <3>4. rec = [worker[w] EXCEPT !.pc = "merge", !.out = <<ExecPrefix, OutputSeq(worker[w].job)>>]
      BY <1>1, <2>3, <2>6 DEF ChooseName
    <3> QED BY <2>1, <3>3, <3>4 DEF WorkerRecord
  <2>7. CASE Merge(w)
    <3> DEFINE job == worker[w].job
    <3>1. job \in Seq(Names)
      BY <2>1 DEF WorkerRecord
    <3>2. \A n \in RowsIn(job) : n \in DOMAIN dir /\ dir[n] \in File
      BY <1>1, <2>7 DEF Merge, DirOK
    <3>3. Merged(job) \in [Ids -> Seq(1..MaxVersions)]
      <4> HIDE DEF job
      <4> QED BY <3>1, <3>2, MergedRows
    <3>4. rec = [worker[w] EXCEPT !.pc = "rename", !.rows = Merged(job), !.mtime = now + 1]
      BY <1>1, <2>3, <2>7 DEF Merge
    <3>5. now + 1 \in Nat
      BY <1>1 DEF Types
    <3> HIDE DEF job
    <3> QED BY <2>1, <3>3, <3>4, <3>5 DEF WorkerRecord
  <2>8. CASE CompactFails(w) \/ CompactReturns(w)
    <3>1. rec = IdleWorker
      BY <1>1, <2>3, <2>8 DEF CompactFails, CompactReturns, Done
    <3> QED BY <3>1, IdleWorkerType
  <2>9. CASE Rename(w)
    <3>1. rec = [worker[w] EXCEPT !.pc = "delete"]
      BY <1>1, <2>3, <2>9 DEF Rename
    <3> QED BY <2>1, <3>1 DEF WorkerRecord
  <2>10. CASE Delete(w)
    <3>1. rec = [worker[w] EXCEPT !.job = Tail(worker[w].job)] /\ worker[w].job # << >>
      BY <1>1, <2>3, <2>10 DEF Delete
    <3>2. worker[w].job \in Seq(Names)
      BY <2>1 DEF WorkerRecord
    <3>3. Tail(worker[w].job) \in Seq(Names)
      BY <3>1, <3>2
    <3> QED BY <2>1, <3>1, <3>3 DEF WorkerRecord
  <2> QED BY <1>3, <2>4, <2>5, <2>6, <2>7, <2>8, <2>9, <2>10 DEF WorkerStep, Worker
<1> QED BY <1>1, <1>2, <1>3, WorkerFrame

LEMMA IdleReaderType == IdleReader \in ReaderRecord
BY DEF IdleReader, ReaderRecord

\* What a reader sees of a file.
RowsSeen(n, id) == IF n \in DOMAIN dir /\ Complete(n) THEN dir[n].rows[id] ELSE << >>

\* ReaderNext looks at one file.
LEMMA ReadsOne ==
    ASSUME NEW r \in Readers, ReaderNext(r), reader \in [Readers -> ReaderRecord]
    PROVE  \E n : reader' = [reader EXCEPT ![r] =
              [reader[r] EXCEPT !.todo = reader[r].todo \ {n},
                                !.found = reader[r].found \cup LastOf(RowsSeen(n, reader[r].id))]]
<1> DEFINE n == CHOOSE m \in reader[r].todo : \A o \in reader[r].todo : o[2] <= m[2]
<1> DEFINE rows == IF n \in DOMAIN dir /\ Complete(n) THEN dir[n].rows[reader[r].id] ELSE << >>
<1>1. reader' = [reader EXCEPT ![r].todo = reader[r].todo \ {n},
                                ![r].found = reader[r].found \cup LastOf(rows)]
  BY DEF ReaderNext
<1>2. rows = RowsSeen(n, reader[r].id)
  BY DEF RowsSeen
<1> HIDE DEF n, rows
<1>3. reader' = [reader EXCEPT ![r] = [reader[r] EXCEPT !.todo = reader[r].todo \ {n},
                                                       !.found = reader[r].found \cup LastOf(rows)]]
  BY <1>1
<1> QED BY <1>2, <1>3

LEMMA ReaderTypes ==
    ASSUME Types, Next
    PROVE  reader' \in [Readers -> ReaderRecord]
<1>1. reader \in [Readers -> ReaderRecord] /\ DirOK(dir)
  BY TypesIs
<1>2. ASSUME Crash \/ PowerLoss PROVE reader' \in [Readers -> ReaderRecord]
  <2>1. reader' = [r \in Readers |-> IdleReader]
    BY <1>2 DEF Crash, PowerLoss, Reborn
  <2> QED BY <2>1, IdleReaderType
<1>3. ASSUME NEW w \in Workers, Delete(w) PROVE reader' \in [Readers -> ReaderRecord]
  <2>1. \A r \in Readers : [reader[r] EXCEPT !.disturbed = TRUE] \in ReaderRecord
    BY <1>1 DEF ReaderRecord
  <2>2. /\ reader' = [r \in Readers |-> reader'[r]]
        /\ \A r \in Readers : reader'[r] \in {reader[r], [reader[r] EXCEPT !.disturbed = TRUE]}
    BY <1>3 DEF Delete
  <2>3. \A r \in Readers : reader'[r] \in ReaderRecord
    BY <1>1, <2>1, <2>2
  <2> QED BY <2>2, <2>3
<1>4. ASSUME NEW r \in Readers, Reader(r) PROVE reader' \in [Readers -> ReaderRecord]
  <2>1. reader[r] \in ReaderRecord
    BY <1>1
  <2>2. CASE ReaderReturns(r)
    BY <1>1, <2>2, IdleReaderType DEF ReaderReturns
  <2>3. ASSUME NEW id \in Ids, ReaderList(r, id) PROVE reader' \in [Readers -> ReaderRecord]
    <3>1. Visible \subseteq Names /\ Findable(id) \in BOOLEAN
      BY <1>1 DEF DirOK, Visible, Findable
    <3> DEFINE rec == [op |-> "reading", id |-> id, todo |-> Visible, found |-> {},
                       expect |-> Findable(id), disturbed |-> FALSE]
    <3>2. rec \in ReaderRecord
      BY <3>1 DEF ReaderRecord
    <3>3. reader' = [reader EXCEPT ![r] = rec]
      BY <2>3 DEF ReaderList
    <3> HIDE DEF rec
    <3> QED BY <1>1, <3>2, <3>3
  <2>4. CASE ReaderNext(r)
    <3>1. PICK n : reader' = [reader EXCEPT ![r] =
              [reader[r] EXCEPT !.todo = reader[r].todo \ {n},
                                !.found = reader[r].found \cup LastOf(RowsSeen(n, reader[r].id))]]
      BY <1>1, <2>4, ReadsOne
    <3> DEFINE rows == RowsSeen(n, reader[r].id)
    <3>2. LastOf(rows) \subseteq 1..MaxVersions
      <4>1. rows = << >> \/ rows \in Seq(1..MaxVersions)
        <5>1. CASE n \in DOMAIN dir /\ Complete(n) /\ reader[r].id \in Ids
          BY <1>1, <5>1 DEF DirOK, File, RowsSeen
        <5>2. CASE ~(n \in DOMAIN dir /\ Complete(n))
          BY <5>2 DEF RowsSeen
        <5>3. reader[r].id \in Ids
          BY <2>4 DEF Types, ReaderNext
        <5> QED BY <5>1, <5>2, <5>3
      <4> HIDE DEF rows
      <4>2. CASE rows # << >>
        <5>1. Len(rows) \in DOMAIN rows /\ rows \in Seq(1..MaxVersions)
          BY <4>1, <4>2
        <5>2. Last(rows) \in 1..MaxVersions
          BY <5>1, SeqFacts, Zenon DEF Last
        <5> QED BY <5>2, <4>2 DEF LastOf
      <4> QED BY <4>2 DEF LastOf
    <3> HIDE DEF rows
    <3>3. [reader[r] EXCEPT !.todo = reader[r].todo \ {n}, !.found = reader[r].found \cup LastOf(rows)]
            \in ReaderRecord
      BY <2>1, <3>2 DEF ReaderRecord
    <3> QED BY <1>1, <3>1, <3>3 DEF rows
  <2> QED BY <1>4, <2>2, <2>3, <2>4 DEF Reader
<1> QED BY <1>1, <1>2, <1>3, <1>4, ReaderFrame

\* Who is reading knows what.
LEMMA ReaderIds ==
    ASSUME Types, Next
    PROVE  \A r \in Readers : reader'[r].op = "reading" => reader'[r].id \in Ids
<1>1. reader \in [Readers -> ReaderRecord] /\ \A r \in Readers : reader[r].op = "reading" => reader[r].id \in Ids
  BY DEF Types
<1>2. ASSUME Crash \/ PowerLoss, NEW r \in Readers PROVE reader'[r].op # "reading"
  <2>1. reader' = [x \in Readers |-> IdleReader]
    BY <1>2 DEF Crash, PowerLoss, Reborn
  <2> QED BY <2>1 DEF IdleReader
<1>3. ASSUME NEW w \in Workers, Delete(w), NEW r \in Readers
      PROVE  reader'[r].op = reader[r].op /\ reader'[r].id = reader[r].id
  <2>1. reader'[r] \in {reader[r], [reader[r] EXCEPT !.disturbed = TRUE]}
    BY <1>3 DEF Delete
  <2>2. reader[r] \in ReaderRecord
    BY <1>1
  <2> QED BY <2>1, <2>2 DEF ReaderRecord
<1>4. ASSUME NEW x \in Readers, Reader(x), NEW r \in Readers, reader'[r].op = "reading"
      PROVE  reader'[r].id \in Ids
  <2>1. CASE r # x
    <3>1. reader'[r] = reader[r]
      BY <1>1, <1>4, <2>1 DEF Reader, ReaderList, ReaderNext, ReaderReturns
    <3> QED BY <1>1, <1>4, <3>1
  <2>2. CASE r = x /\ ReaderReturns(x)
    BY <1>1, <1>4, <2>2 DEF ReaderReturns, IdleReader
  <2>3. CASE r = x /\ \E id \in Ids : ReaderList(x, id)
    BY <1>1, <2>3 DEF ReaderList
  <2>4. CASE r = x /\ ReaderNext(x)
    <3>1. PICK a, b : reader' = [reader EXCEPT ![x] = [reader[x] EXCEPT !.todo = a, !.found = b]]
      BY <1>1, <2>4, ReadsOne
    <3>2. reader'[x] = [reader[x] EXCEPT !.todo = a, !.found = b]
      BY <1>1, <3>1
    <3>3. reader[x] \in ReaderRecord
      BY <1>1
    <3>4. reader'[x].id = reader[x].id
      BY <3>2, <3>3 DEF ReaderRecord
    <3> QED BY <1>1, <2>4, <3>4 DEF ReaderNext
  <2> QED BY <1>4, <2>1, <2>2, <2>3, <2>4 DEF Reader
<1> QED BY <1>1, <1>2, <1>3, <1>4, ReaderFrame

\* Max of two numbers.
LEMMA MaxTwo ==
    ASSUME NEW a \in Nat, NEW b \in Nat
    PROVE  Max({a, b}) \in Nat /\ a <= Max({a, b}) /\ b <= Max({a, b})
<1>1. IsFiniteSet({a}) /\ {a} \cup {b} = {a, b}
  BY FS_Singleton
<1>2. IsFiniteSet({a, b})
  BY <1>1, FS_AddElement
<1>3. {a, b} \in SUBSET Nat /\ {a, b} # {}
  OBVIOUS
<1>4. Max({a, b}) \in {a, b} /\ \A y \in {a, b} : y <= Max({a, b})
  BY <1>2, <1>3, MaxIs
<1> QED BY <1>4

\* Numbers never go back while the process lives, and time never does.
LEMMA NumberSteps ==
    ASSUME Types, Next
    PROVE  /\ now' \in Nat /\ nextSeq' \in Nat /\ now <= now'
           /\ Crash \/ PowerLoss \/ nextSeq <= nextSeq'
<1>1. now \in Nat /\ nextSeq \in Nat /\ DirOK(dir) /\ worker \in [Workers -> WorkerRecord]
  BY TypesIs
<1>2. ASSUME Environment PROVE now' \in {now, now + 1} /\ nextSeq' = nextSeq
  <2>1. ASSUME NEW ids, FlushOne(ids) \/ FlushTwo(ids) PROVE now' = now + 1 /\ nextSeq' = nextSeq
    BY <2>1 DEF FlushOne, FlushTwo, FlushCreate
  <2>2. ASSUME NEW n, FlushClose(n) \/ Ages(n) PROVE now' = now /\ nextSeq' = nextSeq
    BY <2>2 DEF FlushClose, Ages
  <2> QED BY <1>2, <2>1, <2>2 DEF Environment
<1>3. ASSUME NEW w \in Workers, ChooseName(w)
      PROVE  now' \in Nat /\ nextSeq' \in Nat /\ now <= now' /\ nextSeq <= nextSeq'
  <2> DEFINE k == OutputSeq(worker[w].job)
  <2>1. worker[w].job \in Seq(Names)
    BY <1>1 DEF WorkerRecord
  <2>2. k \in Nat /\ nextSeq <= k
    BY <1>1, <2>1, OutputSeqIs DEF DirOK
  <2>3. nextSeq' = k + 1 /\ now' = Max({now, k})
    BY <1>3 DEF ChooseName
  <2> HIDE DEF k
  <2>4. now' \in Nat /\ now <= now'
    BY <1>1, <2>2, <2>3, MaxTwo
  <2> QED BY <1>1, <2>2, <2>3, <2>4
<1>4. ASSUME NEW w \in Workers, Merge(w) PROVE now' = now + 1 /\ nextSeq' = nextSeq
  BY <1>4 DEF Merge
<1>5. ASSUME Crash \/ PowerLoss PROVE now' = now /\ nextSeq' \in Nat
  <2>1. now' = now /\ nextSeq' = Max0({n[2] + 1 : n \in {m \in DOMAIN dir : m[1] = ExecPrefix}})
    BY <1>5 DEF Crash, PowerLoss, Reborn
  <2> QED BY <1>1, <2>1, NextSequenceType DEF DirOK
<1> QED BY <1>1, <1>2, <1>3, <1>4, <1>5, NumbersFrame

\* The limiter's counters stay within the limits.
LEMMA WindowTypes ==
    ASSUME Types, Next
    PROVE  window' \in [ops : 0..MaxIOPS, bytes : 0..MaxBandwidth]
<1>1. /\ window \in [ops : 0..MaxIOPS, bytes : 0..MaxBandwidth] /\ worker \in [Workers -> WorkerRecord]
      /\ MaxIOPS \in Nat /\ MaxBandwidth \in Nat
  BY TypesIs, CompactionAssumption
<1>2. \/ window' = window \/ window' = [ops |-> 0, bytes |-> 0]
      \/ \E w \in Workers : Allow(w)
  BY DEF Next, Environment, FlushOne, FlushTwo, FlushCreate, FlushClose, Ages, CheckAndSchedule, EnqueueJob, TriggerCompaction,
       NothingToDo, SchedulerStops, Stop, Start,
       WindowReset, GetStatsLocks, GetStatsReturns, WorkerPolls, DequeueJob, QueueEmpty, WorkerStops, Worker,
       ChooseName, Merge, CompactFails, Rename, Delete, CompactReturns, Reader, ReaderList, ReaderNext,
       ReaderReturns, Crash, PowerLoss, Reborn
<1>3. ASSUME NEW w \in Workers, Allow(w) PROVE window' \in [ops : 0..MaxIOPS, bytes : 0..MaxBandwidth]
  <2>1. worker[w].bytes \in Nat /\ window.ops \in Nat /\ window.bytes \in Nat
    BY <1>1 DEF WorkerRecord
  <2>2. /\ window' = [ops |-> window.ops + 1, bytes |-> window.bytes + worker[w].bytes]
        /\ window.ops < MaxIOPS /\ window.bytes + worker[w].bytes <= MaxBandwidth
    BY <1>3 DEF Allow
  <2>3. window.ops + 1 \in 0..MaxIOPS /\ window.bytes + worker[w].bytes \in 0..MaxBandwidth
    BY <1>1, <2>1, <2>2
  <2> QED BY <2>2, <2>3
<1> QED BY <1>1, <1>2, <1>3

\* The rest of the state.
LEMMA OtherTypes ==
    ASSUME Types, Next
    PROVE  /\ queueMu' \in Callers \cup {None}
           /\ running' \in BOOLEAN
           /\ versions' \in 0..MaxVersions
           /\ born' \in [Ids -> SUBSET (1..MaxVersions)]
<1>1. queueMu \in Callers \cup {None} /\ running \in BOOLEAN /\ versions \in 0..MaxVersions
  BY TypesIs
<1>2. queueMu' = queueMu \/ queueMu' = None \/ \E c \in Callers : queueMu' = c
  BY DEF Next, Environment, FlushOne, FlushTwo, FlushCreate, FlushClose, Ages, CheckAndSchedule, EnqueueJob, TriggerCompaction,
       NothingToDo, SchedulerStops, Stop, Start,
       WindowReset, GetStatsLocks, GetStatsReturns, WorkerPolls, DequeueJob, QueueEmpty, WorkerStops, Worker,
       Allow, ChooseName, Merge, CompactFails, Rename, Delete, CompactReturns, Reader, ReaderList, ReaderNext,
       ReaderReturns, Crash, PowerLoss, Reborn
<1>3. running' = running \/ running' \in BOOLEAN
  BY DEF Next, Environment, FlushOne, FlushTwo, FlushCreate, FlushClose, Ages, CheckAndSchedule, EnqueueJob, TriggerCompaction,
       NothingToDo, SchedulerStops, Stop, Start,
       WindowReset, GetStatsLocks, GetStatsReturns, WorkerPolls, DequeueJob, QueueEmpty, WorkerStops, Worker,
       Allow, ChooseName, Merge, CompactFails, Rename, Delete, CompactReturns, Reader, ReaderList, ReaderNext,
       ReaderReturns, Crash, PowerLoss, Reborn
<1>4. (versions' = versions /\ born' = born) \/ Environment
  BY DEF Next, CheckAndSchedule, EnqueueJob, TriggerCompaction,
       NothingToDo, SchedulerStops, Stop, Start,
       WindowReset, GetStatsLocks, GetStatsReturns, WorkerPolls, DequeueJob, QueueEmpty, WorkerStops, Worker,
       Allow, ChooseName, Merge, CompactFails, Rename, Delete, CompactReturns, Reader, ReaderList, ReaderNext,
       ReaderReturns, Crash, PowerLoss, Reborn
<1>5. born \in [Ids -> SUBSET (1..MaxVersions)] /\ DirOK(dir)
  BY TypesIs
<1>6. ASSUME NEW n \in DOMAIN dir, FlushClose(n)
      PROVE  versions' = versions /\ born' \in [Ids -> SUBSET (1..MaxVersions)]
  <2>1. \A id \in Ids : dir[n].rows[id] \in Seq(1..MaxVersions)
    BY <1>5 DEF DirOK, File
  <2>2. \A id \in Ids : RowsIn(dir[n].rows[id]) \subseteq 1..MaxVersions
    BY <2>1, SeqFacts, Zenon
  <2>3. versions' = versions /\ born' = [id \in Ids |-> born[id] \cup RowsIn(dir[n].rows[id])]
    BY <1>6 DEF FlushClose
  <2>4. \A id \in Ids : born[id] \cup RowsIn(dir[n].rows[id]) \in SUBSET (1..MaxVersions)
    BY <1>5, <2>2
  <2> QED BY <2>3, <2>4
<1>7. ASSUME Environment PROVE versions' \in 0..MaxVersions /\ born' \in [Ids -> SUBSET (1..MaxVersions)]
  <2>1. ASSUME NEW rows, FlushCreate(rows) PROVE born' = born
    BY <2>1 DEF FlushCreate
  <2>2. ASSUME NEW n, Ages(n) PROVE born' = born /\ versions' = versions
    BY <2>2 DEF Ages
  <2> QED BY <1>1, <1>5, <1>6, <1>7, <2>1, <2>2, EnvironmentSteps
<1>8. queueMu' \in Callers \cup {None}
  BY <1>1, <1>2
<1>9. running' \in BOOLEAN
  BY <1>1, <1>3
<1>10. versions' \in 0..MaxVersions /\ born' \in [Ids -> SUBSET (1..MaxVersions)]
  BY <1>1, <1>4, <1>5, <1>7
<1> QED BY <1>8, <1>9, <1>10

LEMMA TypesStep ==
    ASSUME IInv, Next
    PROVE  Types'
<1>1. Types
  BY DEF IInv
<1>2. DirOK(dir') /\ worker' \in [Workers -> WorkerRecord]
  BY DirTypes, WorkerTypes
<1>3. queue' \in Seq(Seq(Names)) /\ reader' \in [Readers -> ReaderRecord]
  BY <1>1, QueueTypes, ReaderTypes
<1>4. /\ \A r \in Readers : reader'[r].op = "reading" => reader'[r].id \in Ids
      /\ now' \in Nat /\ nextSeq' \in Nat
      /\ window' \in [ops : 0..MaxIOPS, bytes : 0..MaxBandwidth]
  BY <1>1, ReaderIds, NumberSteps, WindowTypes
<1>5. /\ queueMu' \in Callers \cup {None} /\ running' \in BOOLEAN
      /\ versions' \in 0..MaxVersions /\ born' \in [Ids -> SUBSET (1..MaxVersions)]
  BY <1>1, OtherTypes
<1>6. /\ \A i \in DOMAIN queue' : queue'[i] \in Seq(Names)
      /\ \A r \in Readers : reader'[r].todo \subseteq Names
  BY <1>3 DEF ReaderRecord
<1>7. /\ planner' \in [Planners -> PlannerRecord]
      /\ \A p \in Planners : planner'[p].pc = "enqueue" => planner'[p].jobs # << >>
  BY <1>1, PlannerSteps
<1>8. TypeOK'
  BY <1>2, <1>4, <1>5, <1>6, <1>7 DEF TypeOK, DirOK, WorkerRecord, PlannerRecord
<1> QED BY <1>2, <1>3, <1>4, <1>5, <1>7, <1>8 DEF Types, DirOK

-----------------------------------------------------------------------------
(* What a step does to a worker and to the files of the jobs.              *)

LEMMA TailRows ==
    ASSUME NEW A, NEW s \in Seq(A), s # << >>
    PROVE  Tail(s) \in Seq(A) /\ RowsIn(s) = RowsIn(Tail(s)) \cup {Head(s)}
<1>1. /\ Len(s) \in Nat /\ Len(s) > 0 /\ DOMAIN s = 1 .. Len(s)
      /\ Tail(s) \in Seq(A) /\ Len(Tail(s)) = Len(s) - 1 /\ Head(s) = s[1]
      /\ \A i \in 1 .. Len(s) - 1 : Tail(s)[i] = s[i + 1]
  OBVIOUS
<1>2. DOMAIN Tail(s) = 1 .. Len(s) - 1
  BY <1>1, SeqFacts, Zenon
<1>3. ASSUME NEW i \in 1 .. Len(s) PROVE s[i] \in RowsIn(Tail(s)) \cup {Head(s)}
  <2>1. CASE i = 1
    BY <2>1, <1>1
  <2>2. CASE i # 1
    <3>1. i - 1 \in 1 .. Len(s) - 1 /\ (i - 1) + 1 = i
      BY <2>2, <1>1
    <3>2. Tail(s)[i - 1] = s[i]
      BY <1>1, <3>1
    <3> QED BY <1>2, <3>1, <3>2 DEF RowsIn
  <2> QED BY <2>1, <2>2
<1>4. ASSUME NEW i \in 1 .. Len(s) - 1 PROVE Tail(s)[i] \in RowsIn(s)
  <2>1. i + 1 \in DOMAIN s /\ Tail(s)[i] = s[i + 1]
    BY <1>1
  <2> QED BY <2>1 DEF RowsIn
<1>5. Head(s) \in RowsIn(s)
  BY <1>1 DEF RowsIn
<1>6. RowsIn(s) \subseteq RowsIn(Tail(s)) \cup {Head(s)}
  BY <1>1, <1>3 DEF RowsIn
<1>7. RowsIn(Tail(s)) \subseteq RowsIn(s)
  BY <1>2, <1>4 DEF RowsIn
<1> QED BY <1>1, <1>5, <1>6, <1>7

Resting == {"idle", "poll", "wait", "name", "stopped"}

\* A worker that has not named an output: its job is its old one or a queued one.
Rests(x) ==
    /\ worker'[x].pc \in Resting
    /\ \/ RowsIn(worker'[x].job) \subseteq RowsIn(worker[x].job)
       \/ \E i \in DOMAIN queue : worker'[x].job = queue[i]

Moves(x) ==
    \/ worker'[x] = worker[x]
    \/ Rests(x)
    \/ /\ ChooseName(x) /\ worker[x].pc = "name"
       /\ worker'[x].pc = "merge" /\ worker'[x].job = worker[x].job
       /\ worker'[x].out = <<ExecPrefix, OutputSeq(worker[x].job)>>
    \/ /\ Merge(x) /\ worker[x].pc = "merge"
       /\ worker'[x].pc = "rename" /\ worker'[x].job = worker[x].job
       /\ worker'[x].out = worker[x].out /\ worker'[x].rows = Merged(worker[x].job)
    \/ /\ Rename(x) /\ worker[x].pc = "rename"
       /\ worker'[x].pc = "delete" /\ worker'[x].job = worker[x].job /\ worker'[x].out = worker[x].out
    \/ /\ Delete(x) /\ worker[x].pc = "delete"
       /\ worker'[x].pc = "delete" /\ worker'[x].out = worker[x].out
       /\ RowsIn(worker[x].job) = RowsIn(worker'[x].job) \cup {Head(worker[x].job)}

\* Only the worker that takes the step changes.
LEMMA OthersStay ==
    ASSUME Types, NEW w \in Workers, WorkerStep(w), NEW x \in Workers \ {w}
    PROVE  worker'[x] = worker[x]
<1>1. worker \in [Workers -> WorkerRecord]
  BY TypesIs
<1>2. CASE DequeueJob(w)
  BY <1>1, <1>2 DEF DequeueJob
<1>3. CASE WorkerPolls(w) \/ QueueEmpty(w) \/ WorkerStops(w)
  BY <1>1, <1>3 DEF WorkerPolls, QueueEmpty, WorkerStops
<1>4. CASE Worker(w)
  BY <1>1, <1>4 DEF Worker, Allow, ChooseName, Merge, CompactFails, Rename, Delete, CompactReturns, Done
<1> QED BY <1>2, <1>3, <1>4 DEF WorkerStep

LEMMA WorkerMoves ==
    ASSUME Types, Next, NEW x \in Workers
    PROVE  Moves(x)
<1>1. worker \in [Workers -> WorkerRecord] /\ worker[x] \in WorkerRecord /\ worker[x].job \in Seq(Names)
  BY TypesIs DEF WorkerRecord
<1>2. ASSUME Start \/ Crash \/ PowerLoss PROVE Rests(x)
  <2>1. worker'[x] = IdleWorker
    BY <1>2 DEF Start, Crash, PowerLoss, Reborn
  <2> QED BY <2>1, IdleWorkerType DEF Rests, Resting
<1>3. ASSUME NEW w \in Workers, WorkerStep(w), w # x PROVE worker'[x] = worker[x]
  BY <1>3, OthersStay
<1>4. ASSUME WorkerStep(x) PROVE Moves(x)
  <2>1. CASE WorkerPolls(x) \/ QueueEmpty(x) \/ WorkerStops(x) \/ Allow(x)
    <3>1. PICK p \in {"poll", "idle", "stopped", "name"} : worker' = [worker EXCEPT ![x].pc = p]
      BY <2>1, QuietSteps
    <3>2. worker'[x].pc = p /\ worker'[x].job = worker[x].job
      BY <1>1, <3>1 DEF WorkerRecord
    <3> QED BY <3>2 DEF Moves, Rests, Resting
  <2>2. CASE DequeueJob(x)
    <3>1. PICK i \in DOMAIN queue :
              worker' = [worker EXCEPT ![x] = [worker[x] EXCEPT !.pc = "wait", !.job = queue[i],
                                                               !.bytes = JobBytes(queue[i])]]
      BY <2>2, DequeuedJob
    <3>2. worker'[x].pc = "wait" /\ worker'[x].job = queue[i]
      BY <1>1, <3>1 DEF WorkerRecord
    <3> QED BY <3>2 DEF Moves, Rests, Resting
  <2>3. CASE ChooseName(x)
    <3>1. /\ worker'[x] = [worker[x] EXCEPT !.pc = "merge", !.out = <<ExecPrefix, OutputSeq(worker[x].job)>>]
          /\ worker[x].pc = "name"
      BY <1>1, <2>3 DEF ChooseName
    <3>2. /\ worker'[x].pc = "merge" /\ worker'[x].job = worker[x].job
          /\ worker'[x].out = <<ExecPrefix, OutputSeq(worker[x].job)>>
      BY <1>1, <3>1 DEF WorkerRecord
    <3> QED BY <2>3, <3>1, <3>2 DEF Moves
  <2>4. CASE Merge(x)
    <3>1. /\ worker'[x] = [worker[x] EXCEPT !.pc = "rename", !.rows = Merged(worker[x].job), !.mtime = now + 1]
          /\ worker[x].pc = "merge"
      BY <1>1, <2>4 DEF Merge
    <3>2. /\ worker'[x].pc = "rename" /\ worker'[x].job = worker[x].job
          /\ worker'[x].out = worker[x].out /\ worker'[x].rows = Merged(worker[x].job)
      BY <1>1, <3>1 DEF WorkerRecord
    <3> QED BY <2>4, <3>1, <3>2 DEF Moves
  <2>5. CASE CompactFails(x) \/ CompactReturns(x)
    <3>1. worker'[x] = IdleWorker
      BY <1>1, <2>5 DEF CompactFails, CompactReturns, Done
    <3> QED BY <3>1, IdleWorkerType DEF Moves, Rests, Resting
  <2>6. CASE Rename(x)
    <3>1. worker'[x] = [worker[x] EXCEPT !.pc = "delete"] /\ worker[x].pc = "rename"
      BY <1>1, <2>6 DEF Rename
    <3>2. worker'[x].pc = "delete" /\ worker'[x].job = worker[x].job /\ worker'[x].out = worker[x].out
      BY <1>1, <3>1 DEF WorkerRecord
    <3> QED BY <2>6, <3>1, <3>2 DEF Moves
  <2>7. CASE Delete(x)
    <3>1. /\ worker'[x] = [worker[x] EXCEPT !.job = Tail(worker[x].job)]
          /\ worker[x].pc = "delete" /\ worker[x].job # << >>
      BY <1>1, <2>7 DEF Delete
    <3>2. worker'[x].pc = "delete" /\ worker'[x].job = Tail(worker[x].job) /\ worker'[x].out = worker[x].out
      BY <1>1, <3>1 DEF WorkerRecord
    <3>3. RowsIn(worker[x].job) = RowsIn(Tail(worker[x].job)) \cup {Head(worker[x].job)}
      BY <1>1, <3>1, TailRows
    <3> QED BY <2>7, <3>1, <3>2, <3>3 DEF Moves
  <2> QED BY <1>4, <2>1, <2>2, <2>3, <2>4, <2>5, <2>6, <2>7 DEF WorkerStep, Worker
<1>5. worker' = worker => Moves(x)
  BY DEF Moves
<1> QED BY <1>2, <1>3, <1>4, <1>5, WorkerFrame DEF Moves

LEMMA JobNamesOf ==
    ASSUME Types
    PROVE  /\ \A i \in DOMAIN queue : RowsIn(queue[i]) \subseteq JobNames
           /\ \A p \in Planners : \A i \in DOMAIN planner[p].jobs : RowsIn(planner[p].jobs[i]) \subseteq JobNames
           /\ \A w \in Workers : RowsIn(worker[w].job) \subseteq JobNames
<1>1. worker \in [Workers -> WorkerRecord] /\ \A i \in DOMAIN queue : queue[i] \in Seq(Names)
  BY TypesIs DEF Types, TypeOK
<1>2. \A w \in Workers : worker[w].job \in Seq(Names)
  BY <1>1 DEF WorkerRecord
<1>3. /\ \A i \in DOMAIN queue : RowsIn(queue[i]) \subseteq Names
      /\ \A w \in Workers : RowsIn(worker[w].job) \subseteq Names
  BY <1>1, <1>2, SeqFacts, Zenon
<1>4. ASSUME NEW p \in Planners, NEW i \in DOMAIN planner[p].jobs
      PROVE  RowsIn(planner[p].jobs[i]) \subseteq Names
  <2>1. planner[p].jobs \in Seq(Seq(Names))
    BY TypesIs DEF PlannerRecord
  <2>2. planner[p].jobs[i] \in Seq(Names)
    BY <2>1
  <2> QED BY <2>2, SeqFacts, Zenon
<1> QED BY <1>3, <1>4 DEF JobNames

\* Only checkAndSchedule brings new files into the jobs, ones that it listed.
LEMMA JobNamesStep ==
    ASSUME Types, Next
    PROVE  JobNames' \subseteq JobNames \/ (Schedules /\ JobNames' \subseteq JobNames \cup Ready)
<1>1. ASSUME NEW x \in Workers PROVE RowsIn(worker'[x].job) \subseteq JobNames
  <2>1. \/ RowsIn(worker'[x].job) \subseteq RowsIn(worker[x].job)
        \/ \E i \in DOMAIN queue : worker'[x].job = queue[i]
    BY <1>1, WorkerMoves DEF Moves, Rests
  <2> QED BY <2>1, JobNamesOf
<1>2. ASSUME NEW p \in Planners, EnqueueJob(p), NEW j \in DOMAIN queue' PROVE RowsIn(queue'[j]) \subseteq JobNames
  <2>1. /\ queue' = Append(queue, planner[p].jobs[1]) /\ planner[p].jobs[1] \in Seq(Names)
        /\ 1 \in DOMAIN planner[p].jobs
    BY <1>2, Enqueues
  <2>2. queue \in Seq(Seq(Names))
    BY DEF Types
  <2>3. PICK job \in Seq(Names) : job = planner[p].jobs[1]
    BY <2>1
  <2>4. /\ Len(queue') = Len(queue) + 1 /\ Len(queue) \in Nat /\ queue' \in Seq(Seq(Names))
        /\ \A i \in 1 .. Len(queue) : queue'[i] = queue[i]
        /\ queue'[Len(queue) + 1] = job
    <3> DEFINE A == Seq(Names)
    <3>1. queue \in Seq(A) /\ job \in A
      BY <2>2
    <3> HIDE DEF A
    <3>2. /\ Append(queue, job) \in Seq(A) /\ Len(Append(queue, job)) = Len(queue) + 1 /\ Len(queue) \in Nat
          /\ \A i \in 1 .. Len(queue) : Append(queue, job)[i] = queue[i]
          /\ Append(queue, job)[Len(queue) + 1] = job
      BY <3>1, AppendAt
    <3> QED BY <2>1, <2>3, <3>2 DEF A
  <2>5. DOMAIN queue' = 1 .. Len(queue) + 1 /\ DOMAIN queue = 1 .. Len(queue)
    BY <2>2, <2>4
  <2>6. CASE j <= Len(queue)
    <3>1. j \in DOMAIN queue /\ queue'[j] = queue[j]
      BY <2>4, <2>5, <2>6
    <3> QED BY <3>1, JobNamesOf
  <2>7. CASE j > Len(queue)
    <3>1. j = Len(queue) + 1
      BY <2>4, <2>5, <2>7
    <3>2. queue'[j] = planner[p].jobs[1]
      BY <2>3, <2>4, <3>1
    <3> QED BY <2>1, <3>2, JobNamesOf
  <2> QED BY <2>4, <2>5, <2>6, <2>7
<1>3. ASSUME NEW w \in Workers, DequeueJob(w), NEW j \in DOMAIN queue' PROVE RowsIn(queue'[j]) \subseteq JobNames
  <2>1. \E k \in DOMAIN queue : queue'[j] = queue[k]
    BY <1>3, DequeuedJob
  <2> QED BY <2>1, JobNamesOf
<1>4. ASSUME Crash \/ PowerLoss, NEW j \in DOMAIN queue' PROVE RowsIn(queue'[j]) \subseteq JobNames
  <2>1. queue' = << >>
    BY <1>4 DEF Crash, PowerLoss, Reborn
  <2> QED BY <2>1
<1>5. ASSUME queue' = queue, NEW j \in DOMAIN queue' PROVE RowsIn(queue'[j]) \subseteq JobNames
  BY <1>5, JobNamesOf
<1>6. \A j \in DOMAIN queue' : RowsIn(queue'[j]) \subseteq JobNames
  BY <1>2, <1>3, <1>4, <1>5, QueueFrame
<1>7. ASSUME NEW p \in Planners, NEW i \in DOMAIN planner'[p].jobs
      PROVE  \/ RowsIn(planner'[p].jobs[i]) \subseteq JobNames
             \/ Schedules /\ RowsIn(planner'[p].jobs[i]) \subseteq Ready
  <2>1. FromJobs(p, planner'[p].jobs[i])
    BY PlannerSteps
  <2>2. CASE \E k \in DOMAIN planner[p].jobs : planner'[p].jobs[i] = planner[p].jobs[k]
    BY <2>2, JobNamesOf
  <2>3. CASE Schedules /\ planner'[p].jobs[i] \in Seq(Ready)
    BY <2>3, SeqFacts
  <2> QED BY <2>1, <2>2, <2>3 DEF FromJobs
<1>8. ASSUME NEW n \in JobNames'
      PROVE  \/ \E i \in DOMAIN queue' : n \in RowsIn(queue'[i])
             \/ \E p \in Planners : \E i \in DOMAIN planner'[p].jobs : n \in RowsIn(planner'[p].jobs[i])
             \/ \E w \in Workers : n \in RowsIn(worker'[w].job)
  BY <1>8 DEF JobNames, RowsIn
<1> QED BY <1>1, <1>6, <1>7, <1>8

-----------------------------------------------------------------------------
(* What happens to the files.                                              *)

\* A file that was there has the rows it had, and stays complete but for a
\* power loss; only writer.Close completes it, and nobody writes it again.
Kept(n) ==
    /\ n \in DOMAIN dir
    /\ dir'[n].rows = dir[n].rows
    /\ Complete(n) => dir'[n].state = "complete" \/ PowerLoss
    /\ dir'[n].state = "complete" => Complete(n) \/ FlushClose(n)
    /\ dir'[n].state = "writing" => dir[n].state = "writing"

\* A flush has created n.
Flushed(n) ==
    /\ n = <<"sstable", now + 1>>
    /\ now' = now + 1
    /\ dir'[n].state = "writing"
    /\ \A id \in Ids : RowsIn(dir'[n].rows[id]) \subseteq versions + 1 .. versions'
    /\ worker' = worker
    /\ n \notin DOMAIN dir

\* Worker w has renamed its output to n.
Renamed(w, n) ==
    /\ Rename(w)
    /\ n = worker[w].out
    /\ dir'[n].rows = worker[w].rows
    /\ dir'[n].state = "complete"
    /\ n \notin DOMAIN dir

LEMMA DirSteps ==
    ASSUME IInv, Next
    PROVE  /\ \A n \in DOMAIN dir' : Kept(n) \/ Flushed(n) \/ \E w \in Workers : Renamed(w, n)
           /\ \A n \in DOMAIN dir \ DOMAIN dir' :
                 \E w \in Workers : Delete(w) /\ n = Head(worker[w].job)
<1> DEFINE Change == /\ \A n \in DOMAIN dir' : Kept(n) \/ Flushed(n) \/ \E w \in Workers : Renamed(w, n)
                     /\ \A n \in DOMAIN dir \ DOMAIN dir' :
                           \E w \in Workers : Delete(w) /\ n = Head(worker[w].job)
<1>1. Types /\ DirOK(dir) /\ now \in Nat
  BY TypesIs DEF IInv
<1>2. ASSUME NEW rows, FlushCreate(rows), FlushRows(rows) PROVE Change
  <2> DEFINE f == [rows |-> rows, mtime |-> now + 1, old |-> FALSE, state |-> "writing", settled |-> FALSE]
  <2> DEFINE N == <<"sstable", now + 1>>
  <2>1. dir' = With(N, f) /\ now' = now + 1 /\ worker' = worker /\ f.state = "writing" /\ f.rows = rows
    BY <1>2 DEF FlushCreate
  <2>2. N \notin DOMAIN dir
    <3>1. N[2] = now + 1
      OBVIOUS
    <3>2. \A n \in DOMAIN dir : n[2] <= now
      BY DEF IInv, Numbered
    <3> HIDE DEF N
    <3> QED BY <1>1, <3>1, <3>2
  <2> HIDE DEF f
  <2>3. DOMAIN dir' = DOMAIN dir \cup {N} /\ dir'[N] = f /\ \A m \in DOMAIN dir : dir'[m] = dir[m]
    <3> HIDE DEF N
    <3>1. PICK d : d = With(N, f)
      OBVIOUS
    <3>2. DOMAIN d = DOMAIN dir \cup {N} /\ d[N] = f /\ \A m \in DOMAIN dir : d[m] = dir[m]
      BY <2>2, <3>1 DEF With
    <3> QED BY <2>1, <3>1, <3>2
  <2>4. Flushed(N)
    <3>1. \A id \in Ids : RowsIn(rows[id]) \subseteq versions + 1 .. versions'
      BY <1>2 DEF FlushRows
    <3> QED BY <2>1, <2>2, <2>3, <3>1 DEF Flushed
  <2> HIDE DEF N
  <2>5. ASSUME NEW m \in DOMAIN dir PROVE Kept(m)
    BY <2>3 DEF Kept, Complete
  <2> QED BY <2>3, <2>4, <2>5
<1>3. ASSUME NEW n \in DOMAIN dir, FlushClose(n) \/ Ages(n) PROVE Change
  <2>1. DOMAIN dir' = DOMAIN dir /\ \A m \in DOMAIN dir \ {n} : dir'[m] = dir[m]
    BY <1>3 DEF FlushClose, Ages
  <2>2. dir'[n] \in {[dir[n] EXCEPT !.state = "complete"], [dir[n] EXCEPT !.old = TRUE]}
    BY <1>3 DEF FlushClose, Ages
  <2>3. dir[n] \in File
    BY <1>1 DEF DirOK
  <2>4. /\ dir'[n].rows = dir[n].rows
        /\ dir'[n].state = dir[n].state \/ (dir'[n].state = "complete" /\ FlushClose(n))
    <3>1. CASE FlushClose(n)
      BY <2>2, <2>3, <3>1 DEF File
    <3>2. CASE Ages(n)
      <4>1. dir'[n] = [dir[n] EXCEPT !.old = TRUE]
        BY <3>2 DEF Ages
      <4> QED BY <2>3, <4>1 DEF File
    <3> QED BY <1>3, <3>1, <3>2
  <2>5. \A m \in DOMAIN dir : Kept(m)
    BY <2>1, <2>4 DEF Kept, Complete
  <2> QED BY <2>1, <2>5
<1>4. ASSUME NEW w \in Workers, Rename(w) PROVE Change
  <2> DEFINE f == [rows |-> worker[w].rows, mtime |-> worker[w].mtime, old |-> FALSE,
                   state |-> "complete", settled |-> FALSE]
  <2>1. dir' = With(worker[w].out, f) /\ worker[w].pc = "rename"
    BY <1>4 DEF Rename
  <2>2. f.rows = worker[w].rows /\ f.state = "complete"
    OBVIOUS
  <2> HIDE DEF f
  <2>3. worker[w].out \notin DOMAIN dir
    BY <2>1 DEF IInv, OutputsFree
  <2>4. /\ DOMAIN dir' = DOMAIN dir \cup {worker[w].out} /\ dir'[worker[w].out] = f
        /\ \A m \in DOMAIN dir : dir'[m] = dir[m]
    <3>1. PICK d : d = With(worker[w].out, f)
      OBVIOUS
    <3>2. DOMAIN d = DOMAIN dir \cup {worker[w].out} /\ d[worker[w].out] = f /\ \A m \in DOMAIN dir : d[m] = dir[m]
      BY <2>3, <3>1 DEF With
    <3> QED BY <2>1, <3>1, <3>2
  <2>5. Renamed(w, worker[w].out)
    BY <1>4, <2>2, <2>3, <2>4 DEF Renamed
  <2>6. ASSUME NEW m \in DOMAIN dir PROVE Kept(m)
    BY <2>4 DEF Kept, Complete
  <2> QED BY <2>4, <2>5, <2>6
<1>5. ASSUME NEW w \in Workers, Delete(w) PROVE Change
  <2> DEFINE h == Head(worker[w].job)
  <2>1. dir' = dir \/ dir' = Without(h)
    BY <1>5 DEF Delete
  <2>2. DOMAIN dir \ {h} \subseteq DOMAIN dir' /\ \A m \in DOMAIN dir' : m \in DOMAIN dir /\ dir'[m] = dir[m]
    <3> HIDE DEF h
    <3> QED BY <2>1, WithoutIs
  <2>3. ASSUME NEW m \in DOMAIN dir' PROVE Kept(m)
    BY <2>2 DEF Kept, Complete
  <2> QED BY <1>5, <2>2, <2>3
<1>6. ASSUME Crash \/ PowerLoss PROVE Change
  <2>1. DOMAIN dir' = DOMAIN dir
    BY <1>6 DEF Crash, PowerLoss
  <2>2. ASSUME NEW m \in DOMAIN dir PROVE Kept(m)
    <3>1. dir[m] \in File
      BY <1>1 DEF DirOK
    <3>2. CASE Crash
      <4>1. dir'[m] \in {dir[m], [dir[m] EXCEPT !.state = "broken"]} /\ (Complete(m) => dir'[m] = dir[m])
        BY <3>2 DEF Crash
      <4> QED BY <3>1, <4>1 DEF Kept, Complete, File
    <3>3. CASE PowerLoss
      <4>1. dir'[m] \in {[dir[m] EXCEPT !.settled = TRUE], [dir[m] EXCEPT !.state = "broken", !.settled = TRUE]}
        BY <3>3 DEF PowerLoss
      <4> QED BY <3>1, <3>3, <4>1 DEF Kept, Complete, File
    <3> QED BY <1>6, <3>2, <3>3
  <2> QED BY <2>1, <2>2
<1>7. ASSUME Environment PROVE Change
  BY <1>1, <1>2, <1>3, <1>7, EnvironmentSteps
<1>8. ASSUME dir' = dir PROVE Change
  BY <1>8 DEF Kept, Complete
<1> QED BY <1>4, <1>5, <1>6, <1>7, <1>8, DirFrame

-----------------------------------------------------------------------------
(* Names.                                                                  *)

\* A new process has no jobs.
LEMMA NoJobs ==
    ASSUME Types, Crash \/ PowerLoss
    PROVE  JobNames' = {} /\ \A w \in Workers : worker'[w] = IdleWorker
<1>1. queue' = << >> /\ \A w \in Workers : worker'[w] = IdleWorker
  BY DEF Crash, PowerLoss, Reborn
<1>2. \A w \in Workers : RowsIn(worker'[w].job) = {}
  BY <1>1, IdleWorkerType
<1>3. DOMAIN queue' = {}
  BY <1>1
<1>4. ASSUME NEW p \in Planners PROVE DOMAIN planner'[p].jobs = {}
  <2>1. planner'[p] = IdlePlanner
    BY DEF Crash, PowerLoss, Reborn
  <2> QED BY <2>1, IdlePlannerType
<1> QED BY <1>1, <1>2, <1>3, <1>4 DEF JobNames, RowsIn

\* Where a worker that has chosen a name comes from.
LEMMA NamedBefore ==
    ASSUME Types, Next, NEW w \in Workers, worker'[w].pc \in {"merge", "rename"}
    PROVE  \/ worker[w].pc \in {"merge", "rename"} /\ worker'[w].out = worker[w].out
           \/ /\ ChooseName(w)
              /\ worker'[w].out = <<ExecPrefix, OutputSeq(worker[w].job)>>
              /\ nextSeq' = OutputSeq(worker[w].job) + 1
              /\ now' = Max({now, OutputSeq(worker[w].job)})
              /\ dir' = dir
              /\ worker[w].job \in Seq(Names)
              /\ OutputSeq(worker[w].job) \in Nat
              /\ nextSeq <= OutputSeq(worker[w].job)
              /\ \A n \in DOMAIN dir \cup RowsIn(worker[w].job) :
                    n[1] = ExecPrefix => n[2] < OutputSeq(worker[w].job)
<1>1. CASE ChooseName(w)
  <2>1. worker \in [Workers -> WorkerRecord] /\ nextSeq \in Nat /\ DirOK(dir)
    BY TypesIs
  <2>2. worker[w].job \in Seq(Names)
    BY <2>1 DEF WorkerRecord
  <2>3. /\ OutputSeq(worker[w].job) \in Nat
        /\ nextSeq <= OutputSeq(worker[w].job)
        /\ \A n \in DOMAIN dir \cup RowsIn(worker[w].job) :
              n[1] = ExecPrefix => n[2] < OutputSeq(worker[w].job)
    BY <2>1, <2>2, OutputSeqIs DEF DirOK
  <2>4. /\ nextSeq' = OutputSeq(worker[w].job) + 1
        /\ now' = Max({now, OutputSeq(worker[w].job)})
        /\ dir' = dir
        /\ worker'[w] = [worker[w] EXCEPT !.pc = "merge", !.out = <<ExecPrefix, OutputSeq(worker[w].job)>>]
    BY <1>1, <2>1 DEF ChooseName
  <2>5. worker'[w].out = <<ExecPrefix, OutputSeq(worker[w].job)>>
    BY <2>1, <2>4 DEF WorkerRecord
  <2> QED BY <1>1, <2>2, <2>3, <2>4, <2>5
<1>2. CASE ~ChooseName(w)
  BY <1>2, WorkerMoves DEF Moves, Rests, Resting
<1> QED BY <1>1, <1>2

LEMMA NumberedStep ==
    ASSUME IInv, Next
    PROVE  Numbered'
<1>1. Types /\ DirOK(dir) /\ now \in Nat /\ nextSeq \in Nat /\ Numbered
  BY TypesIs DEF IInv
<1>2. now' \in Nat /\ now <= now'
  BY <1>1, NumberSteps
<1>3. \A n \in Names : n[2] \in Nat
  BY DEF Names
<1>4. JobNames \subseteq Names /\ DOMAIN dir \subseteq Names
  BY <1>1 DEF JobNames, DirOK
<1>5. ASSUME NEW n \in DOMAIN dir \cup JobNames PROVE n[2] <= now'
  BY <1>1, <1>2, <1>3, <1>4 DEF Numbered
<1>6. ASSUME NEW n \in DOMAIN dir' PROVE n[2] <= now'
  <2>1. CASE Kept(n)
    BY <1>5, <2>1 DEF Kept
  <2>2. CASE Flushed(n)
    BY <1>1, <2>2 DEF Flushed
  <2>3. ASSUME NEW w \in Workers, Renamed(w, n) PROVE n[2] <= now'
    <3>1. worker[w].pc = "rename" /\ n = worker[w].out
      BY <2>3 DEF Renamed, Rename
    <3>2. n[2] <= now /\ n \in Names
      BY <1>1, <3>1 DEF Numbered, IInv, OutputNumbers
    <3> QED BY <1>1, <1>2, <1>3, <3>2
  <2> QED BY <2>1, <2>2, <2>3, DirSteps
<1>7. ASSUME NEW n \in JobNames' PROVE n[2] <= now'
  BY <1>1, <1>5, <1>7, JobNamesStep DEF Ready, Visible
<1>8. ASSUME NEW w \in Workers, worker'[w].pc \in {"merge", "rename"} PROVE worker'[w].out[2] <= now'
  <2>1. CASE worker[w].pc \in {"merge", "rename"} /\ worker'[w].out = worker[w].out
    <3>1. worker[w].out[2] <= now /\ worker[w].out[2] \in Nat
      BY <1>1, <1>3, <2>1 DEF Numbered, IInv, OutputNumbers
    <3> QED BY <1>1, <1>2, <2>1, <3>1
  <2>2. ASSUME NEW k \in Nat, worker'[w].out = <<ExecPrefix, k>>, now' = Max({now, k})
        PROVE  worker'[w].out[2] <= now'
    BY <1>1, <2>2, MaxTwo
  <2> QED BY <1>1, <1>8, <2>1, <2>2, NamedBefore
<1> QED BY <1>6, <1>7, <1>8 DEF Numbered

LEMMA JobFilesStep ==
    ASSUME IInv, Next
    PROVE  JobFiles'
<1>1. Types /\ DirOK(dir) /\ now \in Nat /\ nextSeq \in Nat
  BY TypesIs DEF IInv
<1>2. CASE Crash \/ PowerLoss
  BY <1>1, <1>2, NoJobs DEF JobFiles
<1>3. ASSUME ~Crash, ~PowerLoss, NEW n \in JobNames'
      PROVE  /\ n[1] = "sstable"
             /\ n \in DOMAIN dir' => dir'[n].state = "complete"
             /\ n[1] = ExecPrefix => n \in DOMAIN dir' \/ n[2] < nextSeq'
  <2>1. CASE n \in JobNames
    <3>1. /\ n[1] = "sstable" /\ n \in Names /\ n[2] <= now
          /\ n \in DOMAIN dir => Complete(n)
          /\ n[1] = ExecPrefix => n \in DOMAIN dir \/ n[2] < nextSeq
      BY <2>1 DEF IInv, JobFiles, Numbered, JobNames
    <3>2. n[2] \in Nat
      BY <3>1 DEF Names
    <3>3. ASSUME n \in DOMAIN dir' PROVE dir'[n].state = "complete"
      <4>1. ~Flushed(n)
        BY <1>1, <3>1, <3>2 DEF Flushed
      <4>2. ASSUME NEW w \in Workers PROVE ~Renamed(w, n)
        BY <2>1 DEF Renamed, Rename, IInv, OutputsFree
      <4>3. Kept(n)
        BY <3>3, <4>1, <4>2, DirSteps
      <4> QED BY <1>3, <3>1, <4>3 DEF Kept
    <3>4. nextSeq' \in Nat /\ nextSeq <= nextSeq'
      BY <1>1, <1>3, NumberSteps
    <3>5. ASSUME n[1] = ExecPrefix, n \in DOMAIN dir \ DOMAIN dir' PROVE n[2] < nextSeq'
      <4>1. PICK w \in Workers : Delete(w) /\ n = Head(worker[w].job)
        BY <3>5, DirSteps
      <4>2. worker[w].pc = "delete" /\ worker[w].job # << >> /\ worker[w].job \in Seq(Names)
        <5>1. worker[w] \in WorkerRecord
          BY <1>1, TypesIs
        <5> QED BY <4>1, <5>1 DEF Delete, WorkerRecord
      <4>3. n \in RowsIn(worker[w].job)
        BY <4>1, <4>2, TailRows
      <4>4. n[2] < worker[w].out[2] /\ worker[w].out[2] < nextSeq /\ worker[w].out \in Names
        BY <3>5, <4>2, <4>3 DEF IInv, OutputNumbers
      <4>5. worker[w].out[2] \in Nat
        BY <4>4 DEF Names
      <4> QED BY <1>1, <3>2, <3>4, <4>4, <4>5
    <3>6. n[2] < nextSeq => n[2] < nextSeq'
      BY <1>1, <3>2, <3>4
    <3> QED BY <3>1, <3>3, <3>5, <3>6
  <2>2. CASE n \notin JobNames
    <3>1. Schedules /\ n \in Ready
      BY <1>1, <1>3, <2>2, JobNamesStep
    <3>2. dir' = dir
      BY <3>1 DEF Schedules, CheckAndSchedule
    <3> QED BY <3>1, <3>2 DEF Ready, Visible, Complete
  <2> QED BY <2>1, <2>2
<1> QED BY <1>2, <1>3 DEF JobFiles, Complete

LEMMA OutputNumbersStep ==
    ASSUME IInv, Next
    PROVE  OutputNumbers'
<1>1. Types /\ nextSeq \in Nat /\ worker \in [Workers -> WorkerRecord]
  BY TypesIs DEF IInv
<1>2. CASE Crash \/ PowerLoss
  BY <1>1, <1>2, NoJobs, IdleWorkerType DEF OutputNumbers
<1>3. ASSUME ~Crash, ~PowerLoss, NEW w \in Workers, worker'[w].pc \in {"merge", "rename", "delete"}
      PROVE  /\ worker'[w].out \in Names
             /\ worker'[w].out[1] = ExecPrefix
             /\ worker'[w].out[2] < nextSeq'
             /\ \A n \in RowsIn(worker'[w].job) : n[1] = ExecPrefix => n[2] < worker'[w].out[2]
  <2>1. nextSeq' \in Nat /\ nextSeq <= nextSeq'
    BY <1>1, <1>3, NumberSteps
  <2>2. ASSUME worker[w].pc \in {"merge", "rename", "delete"}, worker'[w].out = worker[w].out,
               RowsIn(worker'[w].job) \subseteq RowsIn(worker[w].job)
        PROVE  /\ worker'[w].out \in Names
               /\ worker'[w].out[1] = ExecPrefix
               /\ worker'[w].out[2] < nextSeq'
               /\ \A n \in RowsIn(worker'[w].job) : n[1] = ExecPrefix => n[2] < worker'[w].out[2]
    <3>1. /\ worker[w].out \in Names
          /\ worker[w].out[1] = ExecPrefix
          /\ worker[w].out[2] < nextSeq
          /\ \A n \in RowsIn(worker[w].job) : n[1] = ExecPrefix => n[2] < worker[w].out[2]
      BY <2>2 DEF IInv, OutputNumbers
    <3>2. worker[w].out[2] \in Nat
      BY <3>1 DEF Names
    <3>3. worker[w].out[2] < nextSeq'
      BY <1>1, <2>1, <3>1, <3>2
    <3> QED BY <2>2, <3>1, <3>3
  <2>3. CASE ChooseName(w)
    <3> DEFINE k == OutputSeq(worker[w].job)
    <3>1. worker'[w].pc = "merge" /\ worker'[w].job = worker[w].job
      <4>1. worker'[w] = [worker[w] EXCEPT !.pc = "merge", !.out = <<ExecPrefix, OutputSeq(worker[w].job)>>]
        BY <1>1, <2>3 DEF ChooseName
      <4> QED BY <1>1, <4>1 DEF WorkerRecord
    <3>2. worker[w].pc = "name"
      BY <2>3 DEF ChooseName
    <3>3. /\ worker'[w].out = <<ExecPrefix, k>> /\ nextSeq' = k + 1 /\ k \in Nat
          /\ \A n \in RowsIn(worker[w].job) : n[1] = ExecPrefix => n[2] < k
      BY <1>1, <3>1, <3>2, NamedBefore
    <3> HIDE DEF k
    <3> QED BY <3>1, <3>3 DEF Names
  <2>4. CASE ~ChooseName(w)
    <3>1. /\ worker[w].pc \in {"merge", "rename", "delete"} /\ worker'[w].out = worker[w].out
          /\ RowsIn(worker'[w].job) \subseteq RowsIn(worker[w].job)
      BY <1>1, <1>3, <2>4, WorkerMoves DEF Moves, Rests, Resting
    <3> QED BY <2>2, <3>1
  <2> QED BY <2>3, <2>4
<1>4. CASE ~Crash /\ ~PowerLoss
  BY <1>3, <1>4 DEF OutputNumbers, RowsIn
<1> QED BY <1>2, <1>4

\* A name that is chosen is not in use.
LEMMA NewName ==
    ASSUME IInv, Next, NEW w \in Workers, ChooseName(w), worker'[w].pc = "merge"
    PROVE  /\ worker'[w].out \notin DOMAIN dir \cup JobNames
           /\ \A x \in Workers : worker[x].pc \in {"merge", "rename"} => worker[x].out # worker'[w].out
<1> DEFINE k == OutputSeq(worker[w].job)
<1>1. Types /\ nextSeq \in Nat
  BY TypesIs DEF IInv
<1>2. worker[w].pc = "name"
  BY DEF ChooseName
<1>3. /\ worker'[w].out = <<ExecPrefix, k>> /\ k \in Nat /\ nextSeq <= k
      /\ \A n \in DOMAIN dir : n[1] = ExecPrefix => n[2] < k
  BY <1>1, <1>2, NamedBefore
<1> HIDE DEF k
<1>4. worker'[w].out[1] = ExecPrefix /\ worker'[w].out[2] = k
  BY <1>3
<1>5. worker'[w].out \notin DOMAIN dir
  BY <1>3, <1>4
<1>6. ASSUME worker'[w].out \in JobNames PROVE FALSE
  <2>1. worker'[w].out[2] < nextSeq
    BY <1>4, <1>5, <1>6 DEF IInv, JobFiles
  <2> QED BY <1>1, <1>3, <1>4, <2>1
<1>7. ASSUME NEW x \in Workers, worker[x].pc \in {"merge", "rename"} PROVE worker[x].out # worker'[w].out
  <2>1. worker[x].out[2] < nextSeq
    BY <1>7 DEF IInv, OutputNumbers
  <2> QED BY <1>1, <1>3, <1>4, <2>1
<1> QED BY <1>5, <1>6, <1>7

LEMMA OutputsFreeStep ==
    ASSUME IInv, Next
    PROVE  OutputsFree'
<1>1. Types /\ now \in Nat /\ nextSeq \in Nat /\ worker \in [Workers -> WorkerRecord]
  BY TypesIs DEF IInv
<1>2. JobNames' \subseteq JobNames \cup DOMAIN dir
  BY <1>1, JobNamesStep DEF Ready, Visible
<1>3. ASSUME NEW w \in Workers, ChooseName(w)
      PROVE  worker'[w].pc = "merge" /\ dir' = dir /\ \A x \in Workers \ {w} : worker'[x] = worker[x]
  <2>1. worker'[w] = [worker[w] EXCEPT !.pc = "merge", !.out = <<ExecPrefix, OutputSeq(worker[w].job)>>]
    BY <1>1, <1>3 DEF ChooseName
  <2>2. worker'[w].pc = "merge"
    BY <1>1, <2>1 DEF WorkerRecord
  <2>3. dir' = dir /\ WorkerStep(w)
    BY <1>3 DEF ChooseName, WorkerStep, Worker
  <2> QED BY <1>1, <2>2, <2>3, OthersStay
<1>4. ASSUME NEW w \in Workers, worker'[w].pc \in {"merge", "rename"}
      PROVE  worker'[w].out \notin DOMAIN dir'
  <2>1. CASE ChooseName(w)
    BY <1>3, <2>1, NewName
  <2>2. CASE ~ChooseName(w)
    <3>1. worker[w].pc \in {"merge", "rename"} /\ worker'[w].out = worker[w].out
      BY <1>1, <1>4, <2>2, NamedBefore
    <3>2. /\ worker[w].out \notin DOMAIN dir /\ worker[w].out[2] <= now
          /\ \A x \in Workers \ {w} : worker[x].pc \in {"merge", "rename"} => worker[x].out # worker[w].out
      BY <3>1 DEF IInv, OutputsFree, Numbered
    <3>3. ~Kept(worker[w].out)
      BY <3>2 DEF Kept
    <3>4. ~Flushed(worker[w].out)
      BY <1>1, <3>2 DEF Flushed
    <3>5. ASSUME NEW x \in Workers, Renamed(x, worker[w].out) PROVE FALSE
      <4>1. Rename(x) /\ worker[x].pc = "rename" /\ worker[x].out = worker[w].out
        BY <3>5 DEF Renamed, Rename
      <4>2. x = w
        BY <3>2, <4>1
      <4>3. worker'[w] = [worker[w] EXCEPT !.pc = "delete"]
        BY <1>1, <4>1, <4>2 DEF Rename
      <4>4. worker'[w].pc = "delete"
        BY <1>1, <4>3 DEF WorkerRecord
      <4> QED BY <1>4, <4>4
    <3> QED BY <3>1, <3>3, <3>4, <3>5, DirSteps
  <2> QED BY <2>1, <2>2
<1>5. ASSUME NEW w \in Workers, worker'[w].pc \in {"merge", "rename"}
      PROVE  worker'[w].out \notin JobNames'
  <2>1. CASE ChooseName(w)
    BY <1>2, <1>3, <2>1, NewName
  <2>2. CASE ~ChooseName(w)
    BY <1>1, <1>2, <1>5, <2>2, NamedBefore DEF IInv, OutputsFree
  <2> QED BY <2>1, <2>2
<1>6. ASSUME NEW w \in Workers, worker'[w].pc \in {"merge", "rename"},
             NEW x \in Workers \ {w}, worker'[x].pc \in {"merge", "rename"}
      PROVE  worker'[x].out # worker'[w].out
  <2>1. CASE ChooseName(w)
    BY <1>3, <1>6, <2>1, NewName
  <2>2. CASE ChooseName(x)
    BY <1>3, <1>6, <2>2, NewName
  <2>3. CASE ~ChooseName(w) /\ ~ChooseName(x)
    BY <1>1, <1>6, <2>3, NamedBefore DEF IInv, OutputsFree
  <2> QED BY <2>1, <2>2, <2>3
<1> QED BY <1>4, <1>5, <1>6 DEF OutputsFree

LEMMA OutputRowsStep ==
    ASSUME IInv, Next
    PROVE  OutputRows'
<1>1. Types /\ worker \in [Workers -> WorkerRecord] /\ DirOK(dir)
  BY TypesIs DEF IInv
<1>2. ASSUME NEW w \in Workers, worker'[w].pc = "rename" PROVE worker'[w].rows \in [Ids -> Seq(1..MaxVersions)]
  <2>1. CASE Merge(w) /\ worker'[w].rows = Merged(worker[w].job)
    <3>1. worker[w].job \in Seq(Names)
      BY <1>1 DEF WorkerRecord
    <3>2. \A n \in RowsIn(worker[w].job) : n \in DOMAIN dir /\ dir[n] \in File
      BY <1>1, <2>1 DEF Merge, DirOK
    <3> QED BY <2>1, <3>1, <3>2, MergedRows
  <2>2. CASE worker'[w] = worker[w]
    BY <1>2, <2>2 DEF IInv, OutputRows
  <2> QED BY <1>1, <1>2, <2>1, <2>2, WorkerMoves DEF Moves, Rests, Resting
<1> QED BY <1>2 DEF OutputRows

-----------------------------------------------------------------------------
(* Readers.                                                                *)

\* A file with a row of id.
Shows(n, id) == n \in DOMAIN dir /\ Complete(n) /\ dir[n].rows[id] # << >>
ShowsNext(n, id) == n \in DOMAIN dir' /\ dir'[n].state = "complete" /\ dir'[n].rows[id] # << >>

\* It is still one after a step that is no power loss, if it is still there.
LEMMA ShowsOn ==
    ASSUME IInv, Next, ~PowerLoss, NEW n, NEW id, Shows(n, id), n \in DOMAIN dir'
    PROVE  ShowsNext(n, id)
<1>1. n \in DOMAIN dir /\ Complete(n) /\ dir[n].rows[id] # << >>
  BY DEF Shows
<1>2. Kept(n)
  BY <1>1, DirSteps DEF Flushed, Renamed
<1>3. dir'[n].state = "complete" /\ dir'[n].rows = dir[n].rows
  BY <1>1, <1>2 DEF Kept
<1> QED BY <1>1, <1>3 DEF Shows, ShowsNext, Complete

\* A reader that reads on sees what it saw, without the file it has read.
LEMMA StillThereStep ==
    ASSUME IInv, Next, NEW r \in Readers
    PROVE  StillThere(r)'
<1> DEFINE R == reader[r]
<1> DEFINE Q == reader'[r]
<1>1. /\ Types /\ StillThere(r) /\ reader \in [Readers -> ReaderRecord] /\ R \in ReaderRecord
  BY TypesIs DEF IInv
<1>2. SUFFICES ASSUME Q.op = "reading", Q.expect, ~Q.disturbed
               PROVE  Q.found # {} \/ \E n \in Q.todo : ShowsNext(n, Q.id)
  <2>1. \/ ~(Q.op = "reading" /\ Q.expect /\ ~Q.disturbed)
        \/ Q.found # {} \/ \E n \in Q.todo : ShowsNext(n, Q.id)
    BY <1>2
  <2> QED BY <2>1 DEF StillThere, ShowsNext, Complete
<1>3. ~Crash /\ ~PowerLoss
  <2>1. ASSUME Crash \/ PowerLoss PROVE FALSE
    <3>1. reader' = [x \in Readers |-> IdleReader]
      BY <2>1 DEF Crash, PowerLoss, Reborn
    <3>2. Q = IdleReader
      BY <3>1
    <3> QED BY <1>2, <3>2 DEF IdleReader
  <2> QED BY <2>1
<1>4. CASE \E x \in Readers : Reader(x)
  <2>1. PICK x \in Readers : Reader(x)
    BY <1>4
  <2>2. dir' = dir
    BY <2>1 DEF Reader, ReaderList, ReaderNext, ReaderReturns
  <2>3. ASSUME NEW n, NEW id, Shows(n, id) PROVE ShowsNext(n, id)
    BY <2>2, <2>3 DEF Shows, ShowsNext, Complete
  <2>4. CASE x # r
    <3>1. Q = R
      BY <1>1, <2>1, <2>4 DEF Reader, ReaderList, ReaderNext, ReaderReturns
    <3>2. R.found # {} \/ \E n \in R.todo : Shows(n, R.id)
      BY <1>1, <1>2, <3>1 DEF StillThere, Shows
    <3> QED BY <2>3, <3>1, <3>2
  <2>5. CASE ReaderReturns(r)
    <3>1. Q = IdleReader
      BY <1>1, <2>5 DEF ReaderReturns
    <3> QED BY <1>2, <3>1 DEF IdleReader
  <2>6. ASSUME NEW id \in Ids, ReaderList(r, id)
        PROVE  \E n \in Q.todo : ShowsNext(n, Q.id)
    <3>1. Q = [op |-> "reading", id |-> id, todo |-> Visible, found |-> {},
               expect |-> Findable(id), disturbed |-> FALSE]
      BY <1>1, <2>6 DEF ReaderList
    <3>2. Q.todo = Visible /\ Q.id = id /\ Findable(id)
      BY <1>2, <3>1
    <3>3. PICK n \in Visible : Shows(n, id)
      BY <3>2 DEF Findable, Shows, Visible
    <3> QED BY <2>3, <3>2, <3>3
  <2>7. CASE ReaderNext(r)
    <3>1. PICK n : reader' = [reader EXCEPT ![r] =
              [R EXCEPT !.todo = R.todo \ {n}, !.found = R.found \cup LastOf(RowsSeen(n, R.id))]]
      BY <1>1, <2>7, ReadsOne
    <3>2. PICK last : last = LastOf(RowsSeen(n, R.id))
      OBVIOUS
    <3>3. Q = [R EXCEPT !.todo = R.todo \ {n}, !.found = R.found \cup last]
      BY <1>1, <3>1, <3>2
    <3>4. /\ Q.todo = R.todo \ {n} /\ Q.found = R.found \cup last /\ Q.id = R.id
          /\ Q.op = R.op /\ Q.expect = R.expect /\ Q.disturbed = R.disturbed
      BY <1>1, <3>3 DEF ReaderRecord
    <3>5. R.found # {} \/ \E m \in R.todo : Shows(m, R.id)
      BY <1>1, <1>2, <3>4 DEF StillThere, Shows
    <3>6. ASSUME Shows(n, R.id) PROVE last # {}
      <4>1. RowsSeen(n, R.id) # << >>
        BY <3>6 DEF Shows, RowsSeen
      <4> QED BY <3>2, <4>1 DEF LastOf
    <3> QED BY <2>3, <3>4, <3>5, <3>6
  <2> QED BY <2>1, <2>4, <2>5, <2>6, <2>7 DEF Reader
<1>5. CASE \E w \in Workers : Delete(w)
  <2>1. PICK w \in Workers : Delete(w)
    BY <1>5
  <2> DEFINE h == Head(worker[w].job)
  <2>2. Q = IF h \in R.todo /\ h \notin DOMAIN dir' THEN [R EXCEPT !.disturbed = TRUE] ELSE R
    BY <2>1 DEF Delete
  <2>3. dir' = dir \/ dir' = Without(h)
    BY <2>1 DEF Delete
  <2>4. DOMAIN dir \ {h} \subseteq DOMAIN dir'
    <3> HIDE DEF h
    <3> QED BY <2>3, WithoutIs
  <2> HIDE DEF h
  <2>5. Q = R /\ ~(h \in R.todo /\ h \notin DOMAIN dir')
    <3>1. [R EXCEPT !.disturbed = TRUE].disturbed = TRUE
      BY <1>1 DEF ReaderRecord
    <3> QED BY <1>2, <2>2, <3>1
  <2>6. CASE R.found # {}
    BY <2>5, <2>6
  <2>7. CASE R.found = {}
    <3>1. PICK n \in R.todo : Shows(n, R.id)
      BY <1>1, <1>2, <2>5, <2>7 DEF StillThere, Shows
    <3>2. n \in DOMAIN dir'
      BY <2>4, <2>5, <3>1 DEF Shows
    <3>3. ShowsNext(n, R.id)
      BY <1>3, <3>1, <3>2, ShowsOn
    <3> QED BY <2>5, <3>3
  <2> QED BY <2>6, <2>7
<1>6. CASE reader' = reader /\ ~(\E w \in Workers : Delete(w))
  <2>1. Q = R /\ DOMAIN dir \subseteq DOMAIN dir'
    BY <1>6, DirSteps
  <2>2. CASE R.found # {}
    BY <2>1, <2>2
  <2>3. CASE R.found = {}
    <3>1. PICK n \in R.todo : Shows(n, R.id)
      BY <1>1, <1>2, <2>1, <2>3 DEF StillThere, Shows
    <3>2. n \in DOMAIN dir'
      BY <2>1, <3>1 DEF Shows
    <3>3. ShowsNext(n, R.id)
      BY <1>3, <3>1, <3>2, ShowsOn
    <3> QED BY <2>1, <3>3
  <2> QED BY <2>2, <2>3
<1> QED BY <1>3, <1>4, <1>5, <1>6, ReaderFrame

-----------------------------------------------------------------------------
(* The theorems about files, names and readers.                            *)

\* The invariant holds of an empty directory.
LEMMA InitIInv ==
    ASSUME Init
    PROVE  IInv
<1> USE CompactionAssumption
<1>1. /\ queue = << >> /\ DOMAIN queue = {} /\ DOMAIN dir = {}
      /\ \A w \in Workers : worker[w] = IdleWorker
      /\ \A r \in Readers : reader[r] = IdleReader
  BY DEF Init
<1>2. IsFiniteSet(DOMAIN dir)
  BY <1>1, FS_EmptySet
<1>3. DirOK(dir)
  BY <1>1, <1>2 DEF DirOK
<1>4. << >> \in Seq(Seq(Names))
  OBVIOUS
<1>5. worker \in [Workers -> WorkerRecord] /\ reader \in [Readers -> ReaderRecord]
  BY IdleWorkerType, IdleReaderType DEF Init
<1>6. [ops |-> 0, bytes |-> 0] \in [ops : 0..MaxIOPS, bytes : 0..MaxBandwidth]
  OBVIOUS
<1>7. \A r \in Readers : reader[r].op # "reading"
  BY <1>1 DEF IdleReader
<1>8. born \in [Ids -> SUBSET (1..MaxVersions)]
  BY DEF Init
<1>9. planner \in [Planners -> PlannerRecord] /\ \A p \in Planners : planner[p] = IdlePlanner
  BY IdlePlannerType DEF Init
<1>10. \A p \in Planners : planner[p].pc # "enqueue" /\ DOMAIN planner[p].jobs = {}
  BY <1>9, IdlePlannerType
<1>11. Types
  BY <1>1, <1>3, <1>4, <1>5, <1>6, <1>7, <1>8, <1>9, <1>10, TypesIs DEF Init
<1>12. \A w \in Workers : worker[w].pc = "idle" /\ RowsIn(worker[w].job) = {}
  BY <1>1, IdleWorkerType
<1>13. JobNames = {}
  BY <1>1, <1>12, <1>10 DEF JobNames
<1>14. Numbered /\ JobFiles
  BY <1>1, <1>12, <1>13 DEF Numbered, JobFiles
<1>15. OutputNumbers /\ OutputsFree /\ OutputRows
  BY <1>12 DEF OutputNumbers, OutputsFree, OutputRows
<1>16. \A r \in Readers : StillThere(r)
  BY <1>7 DEF StillThere
<1> QED BY <1>11, <1>14, <1>15, <1>16 DEF IInv

LEMMA IInvStep ==
    ASSUME IInv, [Next]_vars
    PROVE  IInv'
<1>1. CASE Next
  <2>1. \A r \in Readers : StillThere(r)'
    BY <1>1, StillThereStep
  <2> QED BY <1>1, <2>1, TypesStep, NumberedStep, JobFilesStep, OutputNumbersStep, OutputsFreeStep,
             OutputRowsStep DEF IInv
<1>2. CASE UNCHANGED vars
  <2>1. Types'
    BY <1>2 DEF vars, IInv, Types, TypeOK
  <2>2. JobNames' = JobNames
    BY <1>2 DEF vars, JobNames, RowsIn
  <2>3. Numbered' /\ JobFiles' /\ OutputsFree'
    BY <1>2, <2>2 DEF vars, IInv, Numbered, JobFiles, OutputsFree, Complete
  <2>4. OutputNumbers' /\ OutputRows'
    BY <1>2 DEF vars, IInv, OutputNumbers, OutputRows, RowsIn
  <2>5. \A r \in Readers : StillThere(r)'
    BY <1>2 DEF vars, IInv, StillThere, Complete
  <2> QED BY <2>1, <2>3, <2>4, <2>5 DEF IInv
<1> QED BY <1>1, <1>2

LEMMA Invariance == Spec => []IInv
<1>1. Init => IInv
  BY InitIInv
<1>2. IInv /\ [Next]_vars => IInv'
  BY IInvStep
<1> QED BY <1>1, <1>2, PTL DEF Spec

\* Every state of the compaction manager, its workers, the limiter and the
\* readers has the types that the code declares; the limiter never lets more
\* operations or bytes through in a second than the limits.
THEOREM TypeCorrect == Spec => []TypeOK
<1>1. IInv => TypeOK
  BY DEF IInv, Types
<1> QED BY <1>1, Invariance, PTL

\* A complete SSTable never changes, for any number of workers: no rename and no
\* flush hits a name that is in use.
THEOREM TablesAreImmutable == Spec => TablesImmutable
<1> DEFINE Same == \A n \in DOMAIN dir \cap DOMAIN dir' : Complete(n) => dir'[n].rows = dir[n].rows
<1>1. IInv /\ [Next]_vars => [Same]_vars
  <2> SUFFICES ASSUME IInv, Next PROVE Same
    OBVIOUS
  <2>1. ASSUME NEW n \in DOMAIN dir \cap DOMAIN dir' PROVE Kept(n)
    BY <2>1, DirSteps DEF Flushed, Renamed
  <2> QED BY <2>1 DEF Kept
<1> QED BY <1>1, Invariance, PTL DEF Spec, TablesImmutable

\* A reader that no delete disturbs finds an entity that was there when it
\* listed the directory.
THEOREM ReadersFindUndisturbed == Spec => []ReaderFindsUndisturbed
<1>1. IInv => ReaderFindsUndisturbed
  <2> SUFFICES ASSUME IInv, NEW r \in Readers, reader[r].op = "reading", reader[r].todo = {}, reader[r].expect
               PROVE  reader[r].found # {} \/ reader[r].disturbed
    BY DEF ReaderFindsUndisturbed
  <2>1. StillThere(r)
    BY DEF IInv
  <2> QED BY <2>1 DEF StillThere
<1> QED BY <1>1, Invariance, PTL

-----------------------------------------------------------------------------
(* Versions.                                                               *)

LEMMA BornSteps ==
    ASSUME Types, Next
    PROVE  /\ \/ born' = born
              \/ \E n \in DOMAIN dir : FlushClose(n)
           /\ versions' \in Nat /\ versions <= versions'
<1>1. versions \in Nat
  BY DEF Types
<1>2. versions' \in Nat /\ versions <= versions'
  <2>1. ASSUME NEW i, FlushOne(i) \/ FlushTwo(i) PROVE versions' \in Nat /\ versions <= versions'
    BY <1>1, <2>1 DEF FlushOne, FlushTwo
  <2>2. CASE versions' = versions
    BY <1>1, <2>2
  <2>3. \/ versions' = versions
        \/ \E i : FlushOne(i) \/ FlushTwo(i)
    BY DEF Next, Environment, FlushClose, Ages, CheckAndSchedule, EnqueueJob, TriggerCompaction,
       NothingToDo, SchedulerStops, Stop, Start, WindowReset, GetStatsLocks,
           GetStatsReturns, WorkerPolls, DequeueJob, QueueEmpty, WorkerStops, Worker, Allow, ChooseName, Merge,
           CompactFails, Rename, Delete, CompactReturns, Reader, ReaderList, ReaderNext, ReaderReturns,
           Crash, PowerLoss, Reborn
  <2> QED BY <2>1, <2>2, <2>3
<1>3. born' = born \/ \E n \in DOMAIN dir : FlushClose(n)
  BY DEF Next, Environment, FlushOne, FlushTwo, FlushCreate, Ages, CheckAndSchedule, EnqueueJob, TriggerCompaction,
       NothingToDo, SchedulerStops, Stop, Start, WindowReset,
         GetStatsLocks, GetStatsReturns, WorkerPolls, DequeueJob, QueueEmpty, WorkerStops, Worker, Allow,
         ChooseName, Merge, CompactFails, Rename, Delete, CompactReturns, Reader, ReaderList, ReaderNext,
         ReaderReturns, Crash, PowerLoss, Reborn
<1> QED BY <1>2, <1>3

\* writer.Close changes one file, and its versions are born.
LEMMA Closes ==
    ASSUME Types, NEW n \in DOMAIN dir, FlushClose(n)
    PROVE  /\ dir[n].state = "writing" /\ DOMAIN dir' = DOMAIN dir
           /\ dir'[n].state = "complete" /\ dir'[n].rows = dir[n].rows
           /\ \A m \in DOMAIN dir \ {n} : dir'[m] = dir[m]
           /\ \A id \in Ids : born'[id] = born[id] \cup RowsIn(dir[n].rows[id])
<1>1. dir[n] \in File
  BY TypesIs DEF DirOK
<1>2. /\ dir[n].state = "writing" /\ DOMAIN dir' = DOMAIN dir
      /\ \A m \in DOMAIN dir \ {n} : dir'[m] = dir[m]
      /\ dir'[n] = [dir[n] EXCEPT !.state = "complete"]
      /\ \A id \in Ids : born'[id] = born[id] \cup RowsIn(dir[n].rows[id])
  BY DEF FlushClose
<1>3. dir'[n].state = "complete" /\ dir'[n].rows = dir[n].rows
  BY <1>1, <1>2 DEF File
<1> QED BY <1>2, <1>3

\* The rows of a file are versions.
LEMMA RowsTyped ==
    ASSUME Types, NEW n \in DOMAIN dir, NEW id \in Ids
    PROVE  RowsIn(dir[n].rows[id]) \subseteq 1..MaxVersions
<1>1. dir[n] \in File
  BY TypesIs DEF DirOK
<1>2. dir[n].rows[id] \in Seq(1..MaxVersions)
  BY <1>1 DEF File
<1> QED BY <1>2, SeqFacts, Zenon

\* Lengths are naturals.
LEMMA LengthType ==
    ASSUME NEW v \in 1..MaxVersions
    PROVE  RowLen[v] \in Nat
BY CompactionAssumption

\* The rows that a worker is about to rename.
LEMMA OutputTyped ==
    ASSUME IInv, NEW w \in Workers, worker[w].pc = "rename", NEW id \in Ids
    PROVE  RowsIn(worker[w].rows[id]) \subseteq 1..MaxVersions
<1>1. worker[w].rows[id] \in Seq(1..MaxVersions)
  BY DEF IInv, OutputRows
<1> QED BY <1>1, SeqFacts, Zenon

LEMMA FreshStep ==
    ASSUME SInv, Next
    PROVE  Fresh'
<1>1. IInv /\ Types /\ Fresh /\ versions \in Nat /\ MaxVersions \in Nat
  BY CompactionAssumption DEF SInv, IInv, Types
<1>2. versions' \in Nat /\ versions <= versions'
  BY <1>1, BornSteps
<1>3. \A v \in 1..versions : v \in 1..versions'
  BY <1>1, <1>2
<1>4. ASSUME NEW id \in Ids PROVE born'[id] \subseteq 1..versions'
  <2>1. CASE born' = born
    BY <1>1, <1>3, <2>1 DEF Fresh
  <2>2. ASSUME NEW n \in DOMAIN dir, FlushClose(n) PROVE born'[id] \subseteq 1..versions'
    BY <1>1, <1>3, <2>2, Closes DEF Fresh
  <2> QED BY <1>1, <2>1, <2>2, BornSteps
<1>5. ASSUME NEW n \in DOMAIN dir', NEW id \in Ids PROVE RowsIn(dir'[n].rows[id]) \subseteq 1..versions'
  <2>1. CASE Kept(n)
    BY <1>1, <1>3, <2>1 DEF Kept, Fresh
  <2>2. CASE Flushed(n)
    <3>1. RowsIn(dir'[n].rows[id]) \subseteq versions + 1 .. versions'
      BY <2>2 DEF Flushed
    <3> QED BY <1>1, <1>2, <3>1
  <2>3. ASSUME NEW w \in Workers, Renamed(w, n) PROVE RowsIn(dir'[n].rows[id]) \subseteq 1..versions'
    <3>1. worker[w].pc = "rename" /\ dir'[n].rows = worker[w].rows
      BY <2>3 DEF Renamed, Rename
    <3>2. ASSUME NEW v \in RowsIn(worker[w].rows[id]) PROVE v \in 1..versions'
      <4>1. v \in 1..versions
        BY <1>1, <3>1, <3>2 DEF SInv, Replaces
      <4> QED BY <1>3, <4>1
    <3> QED BY <3>1, <3>2
  <2> QED BY <1>1, <2>1, <2>2, <2>3, DirSteps
<1>6. ASSUME NEW n \in DOMAIN dir', dir'[n].state = "writing"
      PROVE  \/ n \in DOMAIN dir /\ dir[n].state = "writing" /\ dir'[n].rows = dir[n].rows
             \/ /\ n \notin DOMAIN dir
                /\ n = <<"sstable", now + 1>>
                /\ born' = born
                /\ \A id \in Ids : RowsIn(dir'[n].rows[id]) \subseteq versions + 1 .. versions'
  <2>1. CASE Kept(n)
    BY <1>6, <2>1 DEF Kept
  <2>2. CASE Flushed(n)
    <3>1. ASSUME NEW m \in DOMAIN dir, FlushClose(m) PROVE FALSE
      BY <1>1, <2>2, <3>1, Closes DEF Flushed
    <3>2. born' = born
      BY <1>1, <3>1, BornSteps
    <3> QED BY <2>2, <3>2 DEF Flushed
  <2>3. ASSUME NEW w \in Workers, Renamed(w, n) PROVE FALSE
    BY <1>6, <2>3 DEF Renamed
  <2> QED BY <1>1, <2>1, <2>2, <2>3, DirSteps
<1>7. ASSUME NEW n \in DOMAIN dir', dir'[n].state = "writing", NEW id \in Ids
      PROVE  RowsIn(dir'[n].rows[id]) \cap born'[id] = {}
  <2>1. CASE n \in DOMAIN dir /\ dir[n].state = "writing" /\ dir'[n].rows = dir[n].rows
    <3>1. RowsIn(dir[n].rows[id]) \cap born[id] = {}
      BY <1>1, <2>1 DEF Fresh
    <3>2. ASSUME NEW m \in DOMAIN dir, FlushClose(m) PROVE RowsIn(dir[n].rows[id]) \cap born'[id] = {}
      <4>1. m # n /\ dir[m].state = "writing" /\ born'[id] = born[id] \cup RowsIn(dir[m].rows[id])
        BY <1>1, <1>7, <3>2, Closes
      <4>2. RowsIn(dir[n].rows[id]) \cap RowsIn(dir[m].rows[id]) = {}
        BY <1>1, <2>1, <4>1 DEF Fresh
      <4> QED BY <3>1, <4>1, <4>2
    <3> QED BY <1>1, <2>1, <3>1, <3>2, BornSteps
  <2>2. CASE born' = born /\ RowsIn(dir'[n].rows[id]) \subseteq versions + 1 .. versions'
    <3>1. born[id] \subseteq 1..versions
      BY <1>1 DEF Fresh
    <3> QED BY <1>1, <1>2, <2>2, <3>1
  <2> QED BY <1>6, <1>7, <2>1, <2>2
<1>8. ASSUME NEW n \in DOMAIN dir', dir'[n].state = "writing", NEW m \in DOMAIN dir' \ {n},
             dir'[m].state = "writing", NEW id \in Ids
      PROVE  RowsIn(dir'[n].rows[id]) \cap RowsIn(dir'[m].rows[id]) = {}
  <2>1. ASSUME NEW a \in DOMAIN dir, dir'[a].rows = dir[a].rows,
               NEW b, RowsIn(dir'[b].rows[id]) \subseteq versions + 1 .. versions'
        PROVE  RowsIn(dir'[a].rows[id]) \cap RowsIn(dir'[b].rows[id]) = {}
    <3>1. RowsIn(dir'[a].rows[id]) \subseteq 1..versions
      BY <1>1, <2>1 DEF Fresh
    <3> QED BY <1>1, <1>2, <2>1, <3>1
  <2>2. CASE n \notin DOMAIN dir
    <3>1. n = <<"sstable", now + 1>> /\ RowsIn(dir'[n].rows[id]) \subseteq versions + 1 .. versions'
      BY <1>6, <1>8, <2>2
    <3>2. m \in DOMAIN dir /\ dir'[m].rows = dir[m].rows
      BY <1>6, <1>8, <3>1
    <3> QED BY <2>1, <3>1, <3>2
  <2>3. CASE m \notin DOMAIN dir
    <3>1. m = <<"sstable", now + 1>> /\ RowsIn(dir'[m].rows[id]) \subseteq versions + 1 .. versions'
      BY <1>6, <1>8, <2>3
    <3>2. n \in DOMAIN dir /\ dir'[n].rows = dir[n].rows
      BY <1>6, <1>8, <3>1
    <3>3. RowsIn(dir'[n].rows[id]) \cap RowsIn(dir'[m].rows[id]) = {}
      BY <2>1, <3>1, <3>2
    <3> QED BY <3>3
  <2>4. CASE n \in DOMAIN dir /\ m \in DOMAIN dir
    <3>1. /\ dir[n].state = "writing" /\ dir'[n].rows = dir[n].rows
          /\ dir[m].state = "writing" /\ dir'[m].rows = dir[m].rows
      BY <1>6, <1>8, <2>4
    <3> QED BY <1>1, <2>4, <3>1 DEF Fresh
  <2> QED BY <2>2, <2>3, <2>4
<1> QED BY <1>4, <1>5, <1>7, <1>8 DEF Fresh, RowsIn

-----------------------------------------------------------------------------
(* Nothing that is needed is deleted.                                      *)

\* The files to be deleted are files of jobs; only a rename adds some.
LEMMA DoomedIs ==
    ASSUME Types, Next
    PROVE  /\ Doomed' \subseteq JobNames'
           /\ \A n \in Doomed' : n \in Doomed \/ \E w \in Workers : Rename(w) /\ n \in RowsIn(worker[w].job)
           /\ \A w \in Workers : Delete(w) => Head(worker[w].job) \in Doomed
           /\ Crash \/ PowerLoss => Doomed' = {}
<1>1. Doomed' \subseteq JobNames'
  BY DEF Doomed, JobNames, RowsIn
<1>2. ASSUME NEW n \in Doomed'
      PROVE  n \in Doomed \/ \E w \in Workers : Rename(w) /\ n \in RowsIn(worker[w].job)
  <2>1. PICK w \in Workers : worker'[w].pc = "delete" /\ n \in RowsIn(worker'[w].job) /\ n \in Names
    BY <1>2 DEF Doomed, RowsIn
  <2>2. CASE worker[w].pc = "delete" /\ n \in RowsIn(worker[w].job)
    BY <2>1, <2>2 DEF Doomed
  <2>3. CASE Rename(w) /\ worker'[w].job = worker[w].job
    BY <2>1, <2>3
  <2> QED BY <2>1, <2>2, <2>3, WorkerMoves DEF Moves, Rests, Resting
<1>3. ASSUME NEW w \in Workers, Delete(w) PROVE Head(worker[w].job) \in Doomed
  <2>1. worker[w] \in WorkerRecord
    BY TypesIs
  <2>2. worker[w].pc = "delete" /\ worker[w].job # << >> /\ worker[w].job \in Seq(Names)
    BY <1>3, <2>1 DEF Delete, WorkerRecord
  <2>3. Head(worker[w].job) \in RowsIn(worker[w].job) /\ RowsIn(worker[w].job) \subseteq Names
    BY <2>2, TailRows, SeqFacts
  <2> QED BY <2>2, <2>3 DEF Doomed
<1>4. ASSUME Crash \/ PowerLoss PROVE Doomed' = {}
  BY <1>1, <1>4, NoJobs
<1> QED BY <1>1, <1>2, <1>3, <1>4

\* A file that has just become complete is nobody's to delete.
LEMMA NewIsLive ==
    ASSUME IInv, Next, NEW n \in DOMAIN dir', dir'[n].state = "complete", ~(n \in DOMAIN dir /\ Complete(n))
    PROVE  n \in Live'
<1>1. Types
  BY DEF IInv
<1>2. JobNames' \subseteq JobNames \cup Ready
  BY <1>1, JobNamesStep
<1>3. n \notin Ready
  BY DEF Ready, Visible
<1>4. n \notin JobNames
  <2>1. CASE Kept(n)
    BY <2>1 DEF Kept, IInv, JobFiles
  <2>2. ASSUME NEW w \in Workers, Renamed(w, n) PROVE n \notin JobNames
    BY <2>2 DEF Renamed, Rename, IInv, OutputsFree
  <2> QED BY <2>1, <2>2, DirSteps DEF Flushed
<1>5. n \notin Doomed'
  BY <1>1, <1>2, <1>3, <1>4, DoomedIs
<1> QED BY <1>5 DEF Live, Complete

\* What is covered stays so, but for a power loss.
LEMMA CoverStep ==
    ASSUME SInv, Next, ~PowerLoss, NEW id \in Ids, NEW v \in 1..MaxVersions, Covered(id, v)
    PROVE  Covered(id, v)'
<1>1. IInv /\ Types /\ MaxVersions \in Nat
  BY CompactionAssumption DEF SInv, IInv
<1>2. PICK n \in Live : \E u \in RowsIn(dir[n].rows[id]) : RowLen[u] >= RowLen[v]
  BY DEF Covered
<1>3. n \in DOMAIN dir /\ Complete(n) /\ n \notin Doomed
  BY DEF Live
<1>4. PICK u \in RowsIn(dir[n].rows[id]) : RowLen[u] >= RowLen[v]
  BY <1>2
<1>5. u \in 1..MaxVersions
  BY <1>1, <1>3, <1>4, RowsTyped
<1>6. n \in DOMAIN dir'
  BY <1>1, <1>3, DirSteps, DoomedIs
<1>7. Kept(n)
  BY <1>1, <1>3, <1>6, DirSteps DEF Flushed, Renamed
<1>8. dir'[n].rows = dir[n].rows /\ dir'[n].state = "complete"
  BY <1>3, <1>7 DEF Kept
<1>9. CASE n \notin Doomed'
  <2>1. n \in Live'
    BY <1>6, <1>8, <1>9 DEF Live, Complete
  <2> QED BY <1>4, <1>8, <2>1 DEF Covered, RowsIn
<1>10. CASE n \in Doomed'
  <2>1. PICK w \in Workers : Rename(w) /\ n \in RowsIn(worker[w].job)
    BY <1>1, <1>3, <1>10, DoomedIs
  <2>2. worker[w].pc = "rename"
    BY <2>1 DEF Rename
  <2>3. PICK x \in RowsIn(worker[w].rows[id]) : RowLen[x] >= RowLen[u]
    BY <1>3, <1>4, <2>1, <2>2 DEF SInv, Replaces
  <2>4. x \in 1..MaxVersions
    BY <1>1, <2>2, <2>3, OutputTyped
  <2>5. RowLen[x] >= RowLen[v]
    <3>1. RowLen[x] \in Nat /\ RowLen[u] \in Nat /\ RowLen[v] \in Nat
      BY <1>5, <2>4, LengthType
    <3> QED BY <1>4, <2>3, <3>1
  <2> DEFINE o == worker[w].out
  <2>6. o \notin DOMAIN dir
    BY <1>1, <2>2 DEF IInv, OutputsFree
  <2>7. o \in DOMAIN dir' /\ dir'[o].state = "complete" /\ dir'[o].rows = worker[w].rows
    <3> DEFINE f == [rows |-> worker[w].rows, mtime |-> worker[w].mtime, old |-> FALSE,
                     state |-> "complete", settled |-> FALSE]
    <3>1. dir' = With(o, f)
      BY <2>1 DEF Rename
    <3>2. f.rows = worker[w].rows /\ f.state = "complete"
      OBVIOUS
    <3> HIDE DEF f, o
    <3> QED BY <3>1, <3>2, Zenon DEF With
  <2> HIDE DEF o
  <2>8. o \in Live'
    BY <1>1, <2>6, <2>7, NewIsLive
  <2> QED BY <2>3, <2>5, <2>7, <2>8 DEF Covered, RowsIn
<1> QED BY <1>9, <1>10

LEMMA AllCoveredStep ==
    ASSUME SInv, Next
    PROVE  AllCovered'
<1>1. IInv /\ Types
  BY DEF SInv, IInv
<1>2. IInv' /\ Types' /\ MaxVersions \in Nat
  BY <1>1, IInvStep, CompactionAssumption DEF IInv
<1>3. ASSUME NEW n \in DOMAIN dir', dir'[n].state = "complete", NEW id \in Ids,
             NEW v \in RowsIn(dir'[n].rows[id])
      PROVE  Covered(id, v)'
  <2>1. v \in 1..MaxVersions
    <3>1. dir' [n] \in File
      BY DirTypes, <1>1 DEF DirOK
    <3>2. dir'[n].rows[id] \in Seq(1..MaxVersions)
      BY <3>1 DEF File
    <3>3. RowsIn(dir'[n].rows[id]) \subseteq 1..MaxVersions
      BY <3>2, SeqFacts, Zenon
    <3> QED BY <3>3
  <2>2. ASSUME n \in Live' PROVE Covered(id, v)'
    <3>1. RowLen[v] >= RowLen[v]
      BY <2>1, LengthType
    <3> QED BY <2>2, <3>1 DEF Covered, RowsIn
  <2>3. CASE Crash \/ PowerLoss
    <3>1. n \in Live'
      BY <1>1, <1>3, <2>3, DoomedIs DEF Live, Complete
    <3> QED BY <2>2, <3>1
  <2>4. CASE ~PowerLoss /\ n \in DOMAIN dir /\ Complete(n)
    <3>1. Kept(n)
      BY <1>1, <2>4, DirSteps DEF Flushed, Renamed
    <3>2. Covered(id, v)
      BY <2>4, <3>1 DEF Kept, SInv, AllCovered
    <3> QED BY <2>1, <2>4, <3>2, CoverStep
  <2>5. CASE ~(n \in DOMAIN dir /\ Complete(n))
    BY <1>1, <1>3, <2>2, <2>5, NewIsLive
  <2> QED BY <2>3, <2>4, <2>5
<1> QED BY <1>3 DEF AllCovered, Complete, RowsIn

LEMMA ReplacesStep ==
    ASSUME SInv, Next, NEW w \in Workers, worker'[w].pc = "rename"
    PROVE  Replaces(w)'
<1>1. IInv /\ Types /\ MaxVersions \in Nat /\ now \in Nat
  BY CompactionAssumption DEF SInv, IInv, Types
<1>2. ~PowerLoss
  BY <1>1, NoJobs, IdleWorkerType
<1>3. \A v \in 1..versions : v \in 1..versions'
  <2>1. versions \in Nat /\ versions' \in Nat /\ versions <= versions'
    BY <1>1, BornSteps DEF Types
  <2> QED BY <2>1
<1>4. CASE worker'[w] = worker[w]
  <2>1. worker[w].pc = "rename"
    BY <1>4
  <2>2. ASSUME NEW id \in Ids, NEW v \in RowsIn(worker'[w].rows[id]) PROVE v \in 1..versions' /\ Covered(id, v)'
    <3>1. v \in 1..MaxVersions /\ v \in 1..versions /\ Covered(id, v)
      BY <1>1, <1>4, <2>1, OutputTyped DEF SInv, Replaces
    <3> QED BY <1>2, <1>3, <3>1, CoverStep
  <2>3. ASSUME NEW id \in Ids, NEW n \in RowsIn(worker'[w].job) \cap DOMAIN dir', NEW v \in RowsIn(dir'[n].rows[id])
        PROVE  \E u \in RowsIn(worker'[w].rows[id]) : RowLen[u] >= RowLen[v]
    <3>1. n \in JobNames /\ n \in RowsIn(worker[w].job)
      BY <1>1, <1>4, JobNamesOf
    <3>2. ~Flushed(n)
      BY <1>1, <3>1 DEF Flushed, IInv, Numbered
    <3>3. ASSUME NEW x \in Workers PROVE ~Renamed(x, n)
      BY <1>1, <3>1 DEF Renamed, Rename, IInv, OutputsFree
    <3>4. n \in DOMAIN dir /\ dir'[n].rows = dir[n].rows
      BY <1>1, <3>2, <3>3, DirSteps DEF Kept
    <3> QED BY <1>4, <2>1, <3>1, <3>4 DEF SInv, Replaces
  <2> QED BY <2>2, <2>3 DEF Replaces, RowsIn
<1>5. CASE Merge(w) /\ worker'[w].job = worker[w].job /\ worker'[w].rows = Merged(worker[w].job)
  <2> DEFINE job == worker[w].job
  <2>1. dir' = dir /\ \A n \in RowsIn(job) : n \in DOMAIN dir /\ Complete(n)
    BY <1>5 DEF Merge
  <2>2. job \in Seq(Names) /\ \A n \in RowsIn(job) : dir[n] \in File
    <3>1. worker[w] \in WorkerRecord /\ DirOK(dir)
      BY <1>1, TypesIs
    <3> QED BY <2>1, <3>1 DEF WorkerRecord, DirOK
  <2> HIDE DEF job
  <2>3. /\ \A id \in Ids : \A v \in RowsIn(Merged(job)[id]) :
              \E n \in RowsIn(job) : v \in RowsIn(dir[n].rows[id])
        /\ \A id \in Ids : \A n \in RowsIn(job) : \A v \in RowsIn(dir[n].rows[id]) :
              \E u \in RowsIn(Merged(job)[id]) : RowLen[v] <= RowLen[u]
    BY <2>1, <2>2, MergedRows
  <2>4. worker'[w].job = job /\ worker'[w].rows = Merged(job)
    BY <1>5 DEF job
  <2>5. ASSUME NEW id \in Ids, NEW v \in RowsIn(worker'[w].rows[id]) PROVE v \in 1..versions' /\ Covered(id, v)'
    <3>1. PICK n \in RowsIn(job) : v \in RowsIn(dir[n].rows[id])
      BY <2>3, <2>4
    <3>2. v \in 1..MaxVersions
      BY <1>1, <2>1, <3>1, RowsTyped
    <3>3. Covered(id, v) /\ v \in 1..versions
      BY <2>1, <3>1 DEF SInv, AllCovered, Fresh
    <3> QED BY <1>2, <1>3, <3>2, <3>3, CoverStep
  <2>6. ASSUME NEW id \in Ids, NEW n \in RowsIn(worker'[w].job) \cap DOMAIN dir', NEW v \in RowsIn(dir'[n].rows[id])
        PROVE  \E u \in RowsIn(worker'[w].rows[id]) : RowLen[u] >= RowLen[v]
    <3>1. n \in RowsIn(job) /\ v \in RowsIn(dir[n].rows[id])
      BY <2>1, <2>4
    <3>2. PICK u \in RowsIn(Merged(job)[id]) : RowLen[v] <= RowLen[u]
      BY <2>3, <3>1
    <3>3. PICK m \in RowsIn(job) : u \in RowsIn(dir[m].rows[id])
      BY <2>3
    <3>4. v \in 1..MaxVersions /\ u \in 1..MaxVersions
      BY <1>1, <2>1, <3>1, <3>3, RowsTyped
    <3>5. RowLen[u] >= RowLen[v]
      BY <3>2, <3>4, LengthType
    <3> QED BY <2>4, <3>2, <3>5
  <2> QED BY <2>5, <2>6 DEF Replaces, RowsIn
<1> QED BY <1>1, <1>4, <1>5, WorkerMoves DEF Moves, Rests, Resting

LEMMA SInvStep ==
    ASSUME SInv, [Next]_vars
    PROVE  SInv'
<1>1. CASE Next
  <2>1. IInv'
    BY <1>1, IInvStep DEF SInv
  <2>2. ASSUME NEW w \in Workers, worker'[w].pc = "rename" PROVE Replaces(w)'
    BY <1>1, <2>2, ReplacesStep
  <2> QED BY <1>1, <2>1, <2>2, FreshStep, AllCoveredStep DEF SInv
<1>2. CASE UNCHANGED vars
  <2>1. IInv'
    BY <1>2, IInvStep DEF SInv
  <2>2. Fresh'
    <3>1. dir' = dir /\ born' = born /\ versions' = versions
      BY <1>2 DEF vars
    <3>2. Fresh
      BY DEF SInv
    <3>3. /\ \A id \in Ids : born'[id] \subseteq 1..versions'
          /\ \A n \in DOMAIN dir' : \A id \in Ids : RowsIn(dir'[n].rows[id]) \subseteq 1..versions'
      BY <3>1, <3>2 DEF Fresh
    <3>4. ASSUME NEW n \in DOMAIN dir', dir'[n].state = "writing", NEW id \in Ids
          PROVE  /\ RowsIn(dir'[n].rows[id]) \cap born'[id] = {}
                 /\ \A m \in DOMAIN dir' \ {n} : dir'[m].state = "writing" =>
                       RowsIn(dir'[n].rows[id]) \cap RowsIn(dir'[m].rows[id]) = {}
      BY <3>1, <3>2, <3>4 DEF Fresh
    <3> QED BY <3>3, <3>4 DEF Fresh, RowsIn
  <2>3. Live' = Live
    <3>1. dir' = dir /\ worker' = worker
      BY <1>2 DEF vars
    <3>2. Doomed' = Doomed
      BY <3>1 DEF Doomed, RowsIn
    <3> QED BY <3>1, <3>2 DEF Live, Complete
  <2>4. ASSUME NEW id \in Ids, NEW v, Covered(id, v) PROVE Covered(id, v)'
    <3>1. PICK n \in Live : \E u \in RowsIn(dir[n].rows[id]) : RowLen[u] >= RowLen[v]
      BY <2>4 DEF Covered
    <3>2. n \in Live' /\ dir' = dir
      BY <1>2, <2>3 DEF vars
    <3> QED BY <3>1, <3>2 DEF Covered, RowsIn
  <2>5. AllCovered'
    <3>1. ASSUME NEW n \in DOMAIN dir', dir'[n].state = "complete", NEW id \in Ids, NEW v \in RowsIn(dir'[n].rows[id])
          PROVE  Covered(id, v)'
      <4>1. dir' = dir
        BY <1>2 DEF vars
      <4>2. Covered(id, v)
        BY <3>1, <4>1 DEF SInv, AllCovered, Complete
      <4> QED BY <2>4, <4>2
    <3> QED BY <3>1 DEF AllCovered, Complete, RowsIn
  <2>6. ASSUME NEW w \in Workers, worker'[w].pc = "rename" PROVE Replaces(w)'
    <3>1. Replaces(w) /\ worker' = worker /\ dir' = dir
      BY <1>2, <2>6 DEF vars, SInv
    <3>2. ASSUME NEW id \in Ids, NEW v \in RowsIn(worker'[w].rows[id]) PROVE v \in 1..versions' /\ Covered(id, v)'
      <4>1. Covered(id, v) /\ v \in 1..versions /\ versions' = versions
        BY <1>2, <3>1 DEF Replaces, vars
      <4> QED BY <2>4, <4>1
    <3>3. ASSUME NEW id \in Ids, NEW n \in RowsIn(worker'[w].job) \cap DOMAIN dir', NEW v \in RowsIn(dir'[n].rows[id])
          PROVE  \E u \in RowsIn(worker'[w].rows[id]) : RowLen[u] >= RowLen[v]
      BY <3>1 DEF Replaces
    <3> QED BY <3>2, <3>3 DEF Replaces, RowsIn
  <2> QED BY <2>1, <2>2, <2>5, <2>6 DEF SInv
<1> QED BY <1>1, <1>2

-----------------------------------------------------------------------------
(* The files implement VersionStore.                                       *)

\* The versions of id that can be found in directory d.
SeenIn(d, id) ==
    {v \in 1..MaxVersions : \E n \in DOMAIN d : d[n].state = "complete" /\ v \in RowsIn(d[n].rows[id])}

\* Their lengths.
LensIn(d, id) == {RowLen[v] : v \in SeenIn(d, id)}

\* A finite set of versions has finitely many lengths, and they have a maximum.
LEMMA LengthsMax ==
    ASSUME NEW V \in SUBSET (1..MaxVersions), NEW L \in SUBSET Nat, NEW a \in Nat,
           \A v \in V : RowLen[v] \in L, \A l \in L : \E v \in V : l = RowLen[v]
    PROVE  /\ Max(L \cup {a}) \in Nat /\ a <= Max(L \cup {a})
           /\ Max(L \cup {a}) = a \/ \E v \in V : Max(L \cup {a}) = RowLen[v]
           /\ \A v \in V : RowLen[v] <= Max(L \cup {a})
<1>1. MaxVersions \in Nat /\ \A v \in V : RowLen[v] \in Nat
  BY CompactionAssumption
<1>2. IsFiniteSet(V)
  <2>1. IsFiniteSet(1..MaxVersions)
    BY <1>1, FS_Interval
  <2> QED BY <2>1, FS_Subset
<1>3. IsFiniteSet(L)
  <2> DEFINE g == [v \in V |-> RowLen[v]]
  <2>1. g \in Surjection(V, L)
    BY DEF Surjection
  <2> HIDE DEF g
  <2> QED BY <1>2, <2>1, FS_Surjection
<1>4. L \cup {a} \in SUBSET Nat /\ L \cup {a} # {}
  BY <1>1
<1>5. IsFiniteSet(L \cup {a})
  BY <1>3, FS_AddElement
<1>6. Max(L \cup {a}) \in L \cup {a} /\ \A y \in L \cup {a} : y <= Max(L \cup {a})
  BY <1>4, <1>5, MaxIs
<1> QED BY <1>1, <1>4, <1>6

\* The longest row that is found.
LEMMA LongestSeen ==
    ASSUME NEW d, NEW id \in Ids, NEW x, x = Max(LensIn(d, id) \cup {0})
    PROVE  /\ x \in Nat /\ (x = 0 \/ \E v \in SeenIn(d, id) : x = RowLen[v])
           /\ \A v \in SeenIn(d, id) : RowLen[v] <= x
<1>1. SeenIn(d, id) \in SUBSET (1..MaxVersions) /\ 0 \in Nat
  BY DEF SeenIn
<1>2. /\ \A v \in SeenIn(d, id) : RowLen[v] \in LensIn(d, id)
      /\ \A l \in LensIn(d, id) : \E v \in SeenIn(d, id) : l = RowLen[v]
  BY DEF LensIn
<1>3. LensIn(d, id) \in SUBSET Nat
  BY <1>1, LengthType DEF LensIn
<1> HIDE DEF SeenIn, LensIn
<1>4. PICK V, L, a : V = SeenIn(d, id) /\ L = LensIn(d, id) /\ a = 0
  OBVIOUS
<1>5. /\ V \in SUBSET (1..MaxVersions) /\ a \in Nat /\ x = Max(L \cup {a}) /\ L \in SUBSET Nat
      /\ \A v \in V : RowLen[v] \in L
      /\ \A l \in L : \E v \in V : l = RowLen[v]
  BY <1>1, <1>2, <1>3, <1>4
<1>6. /\ Max(L \cup {a}) \in Nat
      /\ Max(L \cup {a}) = a \/ \E v \in V : Max(L \cup {a}) = RowLen[v]
      /\ \A v \in V : RowLen[v] <= Max(L \cup {a})
  BY <1>5, LengthsMax
<1> QED BY <1>4, <1>5, <1>6

\* All complete files count, whatever their prefix.
LEMMA AllSeen ==
    ASSUME NEW d, DirOK(d), NEW id \in Ids
    PROVE  {RowLen[v] : v \in UNION {RowsIn(d[n].rows[id]) : n \in {m \in DOMAIN d : d[m].state = "complete"}}}
             = LensIn(d, id)
<1> DEFINE N == {m \in DOMAIN d : d[m].state = "complete"}
<1> DEFINE U == UNION {RowsIn(d[n].rows[id]) : n \in N}
<1>1. ASSUME NEW n \in DOMAIN d PROVE RowsIn(d[n].rows[id]) \subseteq 1..MaxVersions
  <2>1. d[n] \in File
    BY DEF DirOK
  <2>2. d[n].rows[id] \in Seq(1..MaxVersions)
    BY <2>1 DEF File
  <2> QED BY <2>2, SeqFacts, Zenon
<1>2. \A v : v \in U <=> \E n \in N : v \in RowsIn(d[n].rows[id])
  <2> HIDE DEF N
  <2> QED BY Zenon
<1> HIDE DEF U
<1>3. \A v : v \in U <=> v \in SeenIn(d, id)
  BY <1>1, <1>2 DEF SeenIn
<1>4. U = SeenIn(d, id)
  BY <1>3
<1>5. {RowLen[v] : v \in U} = LensIn(d, id)
  BY <1>4 DEF LensIn
<1> QED BY <1>5 DEF U

LEMMA LongestNow ==
    ASSUME DirOK(dir)
    PROVE  Longest = [id \in Ids |-> Max(LensIn(dir, id) \cup {0})]
BY AllSeen DEF Longest, Max0, Complete

LEMMA LongestNext ==
    ASSUME DirOK(dir')
    PROVE  Longest' = [id \in Ids |-> Max(LensIn(dir', id) \cup {0})]
BY AllSeen DEF Longest, Max0, Complete, RowsIn

\* VersionStore's maximum is this one.
LEMMA SameMax ==
    ASSUME NEW S
    PROVE  Abstract!Max(S) = Max(S)
BY DEF Abstract!Max, Max

LEMMA InitSInv ==
    ASSUME Init
    PROVE  SInv
<1>1. DOMAIN dir = {} /\ \A id \in Ids : born[id] = {}
  BY DEF Init
<1>2. \A w \in Workers : worker[w].pc = "idle"
  BY IdleWorkerType DEF Init
<1>3. Fresh /\ AllCovered
  BY <1>1 DEF Fresh, AllCovered
<1> QED BY <1>2, <1>3, InitIInv DEF SInv

LEMMA InitRefines ==
    ASSUME Init
    PROVE  Abstract!Init
<1>1. DOMAIN dir = {} /\ DirOK(dir)
  BY InitIInv, TypesIs DEF Init, IInv
<1>2. Longest = [id \in Ids |-> Max(LensIn(dir, id) \cup {0})]
  BY <1>1, LongestNow
<1>3. ASSUME NEW id \in Ids PROVE Max(LensIn(dir, id) \cup {0}) = 0
  <2>1. SeenIn(dir, id) = {}
    BY <1>1 DEF SeenIn
  <2>2. PICK x : x = Max(LensIn(dir, id) \cup {0})
    OBVIOUS
  <2> QED BY <2>1, <2>2, LongestSeen
<1>4. Longest = [id \in Ids |-> 0]
  BY <1>2, <1>3
<1> QED BY <1>4 DEF Init, Abstract!Init

\* Two directories with equally long rows.
LEMMA SameLongest ==
    ASSUME NEW d, NEW e, NEW id \in Ids,
           \A v \in SeenIn(d, id) : \E u \in SeenIn(e, id) : RowLen[u] >= RowLen[v],
           \A v \in SeenIn(e, id) : \E u \in SeenIn(d, id) : RowLen[u] >= RowLen[v]
    PROVE  Max(LensIn(d, id) \cup {0}) = Max(LensIn(e, id) \cup {0})
<1>1. PICK x, y : x = Max(LensIn(d, id) \cup {0}) /\ y = Max(LensIn(e, id) \cup {0})
  OBVIOUS
<1>2. /\ x \in Nat /\ (x = 0 \/ \E v \in SeenIn(d, id) : x = RowLen[v]) /\ \A v \in SeenIn(d, id) : RowLen[v] <= x
      /\ y \in Nat /\ (y = 0 \/ \E v \in SeenIn(e, id) : y = RowLen[v]) /\ \A v \in SeenIn(e, id) : RowLen[v] <= y
  BY <1>1, LongestSeen
<1>3. /\ \A v \in SeenIn(d, id) : RowLen[v] \in Nat
      /\ \A v \in SeenIn(e, id) : RowLen[v] \in Nat
  BY LengthType DEF SeenIn
<1>4. x <= y
  BY <1>2, <1>3
<1>5. y <= x
  BY <1>2, <1>3
<1>6. x = y
  BY <1>2, <1>4, <1>5
<1> QED BY <1>1, <1>6

\* A step that is neither a power loss nor the end of a flush leaves the longest
\* rows alone.
LEMMA LongestKept ==
    ASSUME SInv, Next, ~PowerLoss, \A n \in DOMAIN dir : ~FlushClose(n)
    PROVE  Longest' = Longest
<1>1. IInv /\ Types /\ DirOK(dir) /\ DirOK(dir')
  BY TypesIs, DirTypes DEF SInv, IInv
<1>2. ASSUME NEW id \in Ids, NEW v \in SeenIn(dir, id) PROVE \E u \in SeenIn(dir', id) : RowLen[u] >= RowLen[v]
  <2>1. v \in 1..MaxVersions
    BY DEF SeenIn
  <2>2. Covered(id, v)
    BY DEF SeenIn, SInv, AllCovered, Complete
  <2>3. Covered(id, v)'
    BY <2>1, <2>2, CoverStep
  <2>4. PICK n \in DOMAIN dir' : dir'[n].state = "complete" /\ \E u \in RowsIn(dir'[n].rows[id]) : RowLen[u] >= RowLen[v]
    BY <2>3 DEF Covered, Live, Complete, RowsIn
  <2>5. PICK u \in RowsIn(dir'[n].rows[id]) : RowLen[u] >= RowLen[v]
    BY <2>4
  <2>6. u \in 1..MaxVersions
    <3>1. dir'[n] \in File
      BY <1>1 DEF DirOK
    <3>2. dir'[n].rows[id] \in Seq(1..MaxVersions)
      BY <3>1 DEF File
    <3>3. RowsIn(dir'[n].rows[id]) \subseteq 1..MaxVersions
      BY <3>2, SeqFacts, Zenon
    <3> QED BY <2>5, <3>3
  <2>7. u \in SeenIn(dir', id)
    BY <2>4, <2>5, <2>6 DEF SeenIn
  <2> QED BY <2>5, <2>7
<1>3. ASSUME NEW id \in Ids, NEW v \in SeenIn(dir', id) PROVE \E u \in SeenIn(dir, id) : RowLen[u] >= RowLen[v]
  <2>1. PICK n \in DOMAIN dir' : dir'[n].state = "complete" /\ v \in RowsIn(dir'[n].rows[id])
    BY DEF SeenIn
  <2>2. v \in 1..MaxVersions /\ RowLen[v] >= RowLen[v]
    BY LengthType DEF SeenIn
  <2>3. CASE Kept(n)
    <3>1. n \in DOMAIN dir /\ dir[n].state = "complete" /\ v \in RowsIn(dir[n].rows[id])
      BY <2>1, <2>3 DEF Kept, Complete
    <3>2. v \in SeenIn(dir, id)
      BY <2>2, <3>1 DEF SeenIn
    <3> QED BY <2>2, <3>2
  <2>4. ASSUME NEW w \in Workers, Renamed(w, n) PROVE \E u \in SeenIn(dir, id) : RowLen[u] >= RowLen[v]
    <3>1. worker[w].pc = "rename" /\ v \in RowsIn(worker[w].rows[id])
      BY <2>1, <2>4 DEF Renamed, Rename
    <3>2. Covered(id, v)
      BY <3>1 DEF SInv, Replaces
    <3>3. PICK m \in DOMAIN dir : Complete(m) /\ \E u \in RowsIn(dir[m].rows[id]) : RowLen[u] >= RowLen[v]
      BY <3>2 DEF Covered, Live
    <3>4. PICK u \in RowsIn(dir[m].rows[id]) : RowLen[u] >= RowLen[v]
      BY <3>3
    <3>5. u \in 1..MaxVersions
      BY <1>1, <3>4, RowsTyped
    <3>6. u \in SeenIn(dir, id)
      BY <3>3, <3>4, <3>5 DEF SeenIn, Complete
    <3> QED BY <3>4, <3>6
  <2> QED BY <1>1, <2>1, <2>3, <2>4, DirSteps DEF Flushed
<1>4. \A id \in Ids : Max(LensIn(dir', id) \cup {0}) = Max(LensIn(dir, id) \cup {0})
  BY <1>2, <1>3, SameLongest
<1>5. /\ Longest = [id \in Ids |-> Max(LensIn(dir, id) \cup {0})]
      /\ Longest' = [id \in Ids |-> Max(LensIn(dir', id) \cup {0})]
  BY <1>1, LongestNow, LongestNext
<1> QED BY <1>4, <1>5

\* The end of a flush stores the versions of its file.
LEMMA CloseStores ==
    ASSUME SInv, Next, NEW n \in DOMAIN dir, FlushClose(n)
    PROVE  \/ Abstract!Store
           \/ born' = born /\ Longest' = Longest /\ losses' = losses
<1>1. IInv /\ Types /\ DirOK(dir) /\ DirOK(dir') /\ MaxVersions \in Nat /\ born \in [Ids -> SUBSET (1..MaxVersions)]
  BY TypesIs, DirTypes, CompactionAssumption DEF SInv, IInv
<1>2. /\ dir[n].state = "writing" /\ DOMAIN dir' = DOMAIN dir
      /\ dir'[n].state = "complete" /\ dir'[n].rows = dir[n].rows
      /\ \A m \in DOMAIN dir \ {n} : dir'[m] = dir[m]
      /\ \A id \in Ids : born'[id] = born[id] \cup RowsIn(dir[n].rows[id])
  BY <1>1, Closes
<1>3. losses' = losses /\ DOMAIN born' = Ids /\ born' = [id \in Ids |-> born'[id]]
  BY DEF FlushClose
<1>4. /\ Longest = [id \in Ids |-> Max(LensIn(dir, id) \cup {0})]
      /\ Longest' = [id \in Ids |-> Max(LensIn(dir', id) \cup {0})]
  BY <1>1, LongestNow, LongestNext
<1>5. ASSUME NEW id \in Ids
      PROVE  /\ born'[id] \ born[id] = RowsIn(dir[n].rows[id])
             /\ SeenIn(dir', id) = SeenIn(dir, id) \cup RowsIn(dir[n].rows[id])
             /\ Longest'[id] = Max({Longest[id]} \cup {RowLen[v] : v \in RowsIn(dir[n].rows[id])})
  <2> DEFINE D == RowsIn(dir[n].rows[id])
  <2>1. D \subseteq 1..MaxVersions /\ D \cap born[id] = {}
    BY <1>1, <1>2, RowsTyped DEF SInv, Fresh
  <2>2. born'[id] \ born[id] = D
    BY <1>2, <2>1
  <2>3. SeenIn(dir', id) = SeenIn(dir, id) \cup D
    <3>1. ASSUME NEW v \in SeenIn(dir', id) PROVE v \in SeenIn(dir, id) \cup D
      BY <1>2, <3>1 DEF SeenIn
    <3>2. ASSUME NEW v \in SeenIn(dir, id) PROVE v \in SeenIn(dir', id)
      <4>1. PICK m \in DOMAIN dir : dir[m].state = "complete" /\ v \in RowsIn(dir[m].rows[id])
        BY <3>2 DEF SeenIn
      <4>2. m # n
        BY <1>2, <4>1
      <4> QED BY <1>2, <3>2, <4>1, <4>2 DEF SeenIn
    <3>3. D \subseteq SeenIn(dir', id)
      BY <1>2, <2>1 DEF SeenIn
    <3> QED BY <3>1, <3>2, <3>3
  <2> HIDE DEF D
  <2>4. PICK x, y : x = Longest[id] /\ y = Longest'[id]
    OBVIOUS
  <2>5. x = Max(LensIn(dir, id) \cup {0}) /\ y = Max(LensIn(dir', id) \cup {0})
    BY <1>4, <2>4
  <2>6. /\ x \in Nat /\ (x = 0 \/ \E v \in SeenIn(dir, id) : x = RowLen[v])
        /\ \A v \in SeenIn(dir, id) : RowLen[v] <= x
        /\ y \in Nat /\ (y = 0 \/ \E v \in SeenIn(dir', id) : y = RowLen[v])
        /\ \A v \in SeenIn(dir', id) : RowLen[v] <= y
    BY <2>5, LongestSeen
  <2>7. PICK z : z = Max({x} \cup {RowLen[v] : v \in D})
    OBVIOUS
  <2>8. z \in Nat /\ x <= z /\ (z = x \/ \E v \in D : z = RowLen[v]) /\ \A v \in D : RowLen[v] <= z
    <3>1. PICK L : L = {RowLen[v] : v \in D}
      OBVIOUS
    <3>2. z = Max(L \cup {x})
      <4>1. {x} \cup L = L \cup {x}
        OBVIOUS
      <4> QED BY <2>7, <3>1, <4>1
    <3>3. D \in SUBSET (1..MaxVersions)
      BY <2>1
    <3>4. /\ L \in SUBSET Nat /\ \A v \in D : RowLen[v] \in L
          /\ \A l \in L : \E v \in D : l = RowLen[v]
      BY <3>1, <3>3, LengthType
    <3> QED BY <2>6, <3>2, <3>3, <3>4, LengthsMax
  <2>9. /\ \A v \in SeenIn(dir, id) : RowLen[v] \in Nat
        /\ \A v \in D : RowLen[v] \in Nat
    BY <2>1, LengthType DEF SeenIn
  <2>10. y <= z
    <3>1. ASSUME NEW v \in SeenIn(dir, id), y = RowLen[v] PROVE y <= z
      BY <2>6, <2>8, <2>9, <3>1
    <3>2. ASSUME NEW v \in D, y = RowLen[v] PROVE y <= z
      BY <2>8, <3>2
    <3>3. CASE y = 0
      BY <2>8, <3>3
    <3> QED BY <2>3, <2>6, <3>1, <3>2, <3>3
  <2>11. z <= y
    <3>1. ASSUME NEW v \in SeenIn(dir, id), x = RowLen[v] PROVE x <= y
      BY <2>3, <2>6, <3>1
    <3>2. ASSUME NEW v \in D, z = RowLen[v] PROVE z <= y
      BY <2>3, <2>6, <3>2
    <3>3. x <= y
      BY <2>6, <3>1
    <3> QED BY <2>8, <3>2, <3>3
  <2>12. y = z
    BY <2>6, <2>8, <2>10, <2>11
  <2> QED BY <2>2, <2>3, <2>4, <2>7, <2>12 DEF D
<1>6. CASE born' = born
  <2>1. ASSUME NEW id \in Ids PROVE SeenIn(dir', id) = SeenIn(dir, id)
    BY <1>5, <1>6
  <2>2. Longest' = Longest
    BY <1>4, <2>1 DEF LensIn
  <2> QED BY <1>3, <1>6, <2>2
<1>7. CASE born' # born
  <2>1. \A id \in Ids : born[id] \subseteq born'[id]
    BY <1>2
  <2>2. ASSUME NEW id \in Ids
        PROVE  Longest'[id] = Abstract!Max({Longest[id]} \cup {RowLen[v] : v \in born'[id] \ born[id]})
    BY <1>5, SameMax
  <2>3. Longest' = [id \in Ids |-> Longest'[id]]
    BY <1>4
  <2>4. Longest' = [id \in Ids |-> Abstract!Max({Longest[id]} \cup {RowLen[v] : v \in born'[id] \ born[id]})]
    BY <2>2, <2>3
  <2> QED BY <1>3, <1>7, <2>1, <2>4 DEF Abstract!Store
<1> QED BY <1>6, <1>7

\* A power loss takes versions away.
LEMMA LossRefines ==
    ASSUME SInv, Next, PowerLoss
    PROVE  Abstract!PowerLoss
<1>1. IInv /\ DirOK(dir) /\ DirOK(dir') /\ Types /\ MaxVersions \in Nat
  BY TypesIs, DirTypes, CompactionAssumption DEF SInv, IInv
<1>2. /\ Longest = [id \in Ids |-> Max(LensIn(dir, id) \cup {0})]
      /\ Longest' = [id \in Ids |-> Max(LensIn(dir', id) \cup {0})]
  BY <1>1, LongestNow, LongestNext
<1>3. ASSUME NEW id \in Ids, NEW v \in SeenIn(dir', id) PROVE v \in SeenIn(dir, id)
  <2>1. PICK n \in DOMAIN dir' : dir'[n].state = "complete" /\ v \in RowsIn(dir'[n].rows[id])
    BY DEF SeenIn
  <2>2. born' = born /\ DOMAIN dir' = DOMAIN dir
    BY DEF PowerLoss, Reborn
  <2>3. dir[n] \in File
    BY <1>1, <2>2 DEF DirOK
  <2>4. \/ dir'[n] = [dir[n] EXCEPT !.state = "broken", !.settled = TRUE]
        \/ Complete(n) /\ dir'[n] = [dir[n] EXCEPT !.settled = TRUE]
    BY <2>2 DEF PowerLoss
  <2>5. Complete(n) /\ dir'[n].rows = dir[n].rows
    BY <2>1, <2>3, <2>4 DEF File
  <2> QED BY <2>1, <2>2, <2>5 DEF SeenIn, Complete
<1>4. ASSUME NEW id \in Ids PROVE Longest'[id] <= Longest[id]
  <2>1. PICK x, y : x = Longest[id] /\ y = Longest'[id]
    OBVIOUS
  <2>2. x = Max(LensIn(dir, id) \cup {0}) /\ y = Max(LensIn(dir', id) \cup {0})
    BY <1>2, <2>1
  <2>3. /\ x \in Nat /\ \A v \in SeenIn(dir, id) : RowLen[v] <= x
        /\ y = 0 \/ \E v \in SeenIn(dir', id) : y = RowLen[v]
    BY <2>2, LongestSeen
  <2>4. y <= x
    BY <1>3, <2>3
  <2> QED BY <2>1, <2>4
<1>5. losses' = losses + 1 /\ born' = born
  BY DEF PowerLoss, Reborn
<1> QED BY <1>4, <1>5 DEF Abstract!PowerLoss

\* Only a power loss counts as one.
LEMMA LossesStep ==
    ASSUME Next, ~PowerLoss
    PROVE  losses' = losses
BY DEF Next, Environment, FlushOne, FlushTwo, FlushCreate, FlushClose, Ages, CheckAndSchedule, EnqueueJob, TriggerCompaction,
       NothingToDo, SchedulerStops, Stop, Start,
       WindowReset, GetStatsLocks, GetStatsReturns, WorkerPolls, DequeueJob, QueueEmpty, WorkerStops, Worker,
       Allow, ChooseName, Merge, CompactFails, Rename, Delete, CompactReturns, Reader, ReaderList, ReaderNext,
       ReaderReturns, Crash, Reborn

LEMMA StepRefines ==
    ASSUME SInv, [Next]_vars
    PROVE  [Abstract!Store \/ Abstract!PowerLoss]_<<born, Longest, losses>>
<1>1. CASE PowerLoss /\ Next
  BY <1>1, LossRefines
<1>2. ASSUME Next, NEW n \in DOMAIN dir, FlushClose(n)
      PROVE  [Abstract!Store \/ Abstract!PowerLoss]_<<born, Longest, losses>>
  BY <1>2, CloseStores
<1>3. CASE Next /\ ~PowerLoss /\ \A n \in DOMAIN dir : ~FlushClose(n)
  <2>1. Longest' = Longest /\ losses' = losses
    BY <1>3, LongestKept, LossesStep
  <2>2. born' = born
    BY <1>3, BornSteps DEF SInv, IInv
  <2> QED BY <2>1, <2>2
<1>4. CASE UNCHANGED vars
  <2>1. born' = born /\ losses' = losses /\ dir' = dir
    BY <1>4 DEF vars
  <2>2. Longest' = Longest
    BY <2>1 DEF Longest, Max0, Complete, RowsIn
  <2> QED BY <2>1, <2>2
<1> QED BY <1>1, <1>2, <1>3, <1>4

\* The files implement VersionStore for any number of workers, planners, readers,
\* entities, jobs and crashes, for rows of any lengths and for any prefix of the
\* executor's files: a row that a flush has closed, or one with at least as much
\* data, is in a complete file of the directory until a power loss.
THEOREM StoreIsRefined == Spec => StoreRefined
<1>1. Init => SInv /\ Abstract!Init
  BY InitSInv, InitRefines
<1>2. SInv /\ [Next]_vars => SInv'
  BY SInvStep
<1>3. SInv /\ [Next]_vars => [Abstract!Store \/ Abstract!PowerLoss]_<<born, Longest, losses>>
  BY StepRefines
<1> QED BY <1>1, <1>2, <1>3, PTL DEF Spec, StoreRefined, Abstract!Spec

-----------------------------------------------------------------------------
(* The planner, for every list of files.                                   *)

\* A sequence at the end is added at the end.
LEMMA FlattenAppend ==
    ASSUME NEW A, NEW t \in Seq(Seq(A)), NEW x \in Seq(A)
    PROVE  FlattenSeq(Append(t, x)) = FlattenSeq(t) \o x
<1> DEFINE V == Seq(A)
<1> DEFINE n == Len(t)
<1> DEFINE s == Append(t, x)
<1>1. t \in Seq(V) /\ x \in V
  OBVIOUS
<1>2. /\ s \in Seq(V) /\ Len(s) = n + 1 /\ n \in Nat
      /\ \A i \in 1 .. n : s[i] = t[i]
      /\ s[n + 1] = x
  <2> HIDE DEF V
  <2> QED BY <1>1, AppendAt
<1>3. s # << >>
  <2> HIDE DEF s, n
  <2> QED BY <1>2
<1>4. PICK G \in [1 .. n + 1 -> V] : FlattenLoop(s, G)
  <2> HIDE DEF s, n
  <2> QED BY <1>2, <1>3, FlattenDefined
<1>5. G[1] = s[1] /\ (\A i \in 2 .. n + 1 : G[i] = G[i - 1] \o s[i]) /\ FlattenSeq(s) = G[n + 1]
  <2> HIDE DEF s, n
  <2> QED BY <1>2, <1>4 DEF FlattenLoop
<1>6. CASE t = << >>
  <2>1. n = 0 /\ FlattenSeq(t) = << >>
    BY <1>6 DEF FlattenSeq
  <2>2. FlattenSeq(s) = x
    <3> HIDE DEF s, n
    <3> QED BY <1>2, <1>5, <2>1
  <2>3. << >> \o x = x
    BY <1>1
  <2> QED BY <2>1, <2>2, <2>3
<1>7. CASE t # << >>
  <2>1. n # 0
    BY <1>7
  <2>2. PICK F \in [1 .. n -> V] : FlattenLoop(t, F)
    BY <1>7, FlattenDefined
  <2>3. F[1] = t[1] /\ (\A i \in 2 .. n : F[i] = F[i - 1] \o t[i]) /\ FlattenSeq(t) = F[n]
    BY <2>2 DEF FlattenLoop
  <2> HIDE DEF s, n, V
  <2> DEFINE T == {k \in Nat : k = 0 \/ F[k] = G[k]}
  <2>4. 0 \in T
    OBVIOUS
  <2>5. ASSUME NEW k \in 0 .. n - 1, k \in T PROVE k + 1 \in T
    <3>1. k + 1 \in 1 .. n /\ k + 1 \in Nat /\ (k + 1) - 1 = k
      BY <1>2
    <3>2. CASE k = 0
      BY <1>2, <1>5, <2>3, <3>1, <3>2
    <3>3. CASE k # 0
      <4>1. k + 1 \in 2 .. n /\ k + 1 \in 2 .. n + 1
        BY <1>2, <3>1, <3>3
      <4>2. F[k + 1] = F[k] \o t[k + 1] /\ G[k + 1] = G[k] \o s[k + 1]
        BY <1>5, <2>3, <3>1, <4>1
      <4> QED BY <1>2, <2>5, <3>1, <3>3, <4>2
    <3> QED BY <3>2, <3>3
  <2>6. \A k \in 0 .. n : k \in T
    <3> HIDE DEF T
    <3> QED BY <1>2, <2>4, <2>5, UpToInduction
  <2>7. F[n] = G[n]
    <3>1. n \in 0 .. n
      BY <1>2
    <3> QED BY <2>1, <2>6, <3>1
  <2>8. n + 1 \in 2 .. n + 1 /\ (n + 1) - 1 = n
    BY <1>2, <2>1
  <2>9. G[n + 1] = G[n] \o x
    BY <1>2, <1>5, <2>8
  <2>10. FlattenSeq(s) = FlattenSeq(t) \o x
    BY <1>5, <2>3, <2>7, <2>9
  <2> QED BY <2>10 DEF s
<1> QED BY <1>6, <1>7

\* Keep of one element more.
LEMMA KeepAppend ==
    ASSUME NEW A, NEW s \in Seq(A), NEW x \in A, NEW K, NEW L,
           \A k \in 1 .. Len(s) : k \in K <=> k \in L
    PROVE  Keep(Append(s, x), L) = IF Len(s) + 1 \in L THEN Append(Keep(s, K), x) ELSE Keep(s, K)
<1> DEFINE n == Len(s)
<1> DEFINE t == Append(s, x)
<1>1. /\ t \in Seq(A) /\ Len(t) = n + 1 /\ n \in Nat
      /\ \A i \in 1 .. n : t[i] = s[i]
      /\ t[n + 1] = x
  BY AppendAt
<1>2. PICK F \in [0 .. n -> Seq(A)] : KeepLoop(s, K, F)
  BY KeepDefined
<1>3. PICK G \in [0 .. n + 1 -> Seq(A)] : KeepLoop(t, L, G)
  <2> HIDE DEF t, n
  <2> QED BY <1>1, KeepDefined
<1>4. /\ F[0] = << >>
      /\ \A i \in 1 .. n : F[i] = IF i \in K THEN Append(F[i - 1], s[i]) ELSE F[i - 1]
      /\ Keep(s, K) = F[n]
  BY <1>2 DEF KeepLoop
<1>5. /\ G[0] = << >>
      /\ \A i \in 1 .. n + 1 : G[i] = IF i \in L THEN Append(G[i - 1], t[i]) ELSE G[i - 1]
      /\ Keep(t, L) = G[n + 1]
  <2> HIDE DEF t, n
  <2> QED BY <1>1, <1>3 DEF KeepLoop
<1>6. \A k \in 1 .. n : k \in K <=> k \in L
  OBVIOUS
<1> HIDE DEF t, n
<1> DEFINE T == {k \in Nat : F[k] = G[k]}
<1>7. 0 \in T
  BY <1>4, <1>5
<1>8. ASSUME NEW k \in 0 .. n - 1, k \in T PROVE k + 1 \in T
  <2>1. k + 1 \in 1 .. n /\ k + 1 \in 1 .. n + 1 /\ k + 1 \in Nat /\ (k + 1) - 1 = k
    BY <1>1
  <2>2. /\ F[k + 1] = IF k + 1 \in K THEN Append(F[k], s[k + 1]) ELSE F[k]
        /\ G[k + 1] = IF k + 1 \in L THEN Append(G[k], t[k + 1]) ELSE G[k]
    BY <1>4, <1>5, <2>1
  <2>3. F[k] = G[k] /\ t[k + 1] = s[k + 1] /\ (k + 1 \in K <=> k + 1 \in L)
    BY <1>1, <1>6, <1>8, <2>1
  <2>4. F[k + 1] = G[k + 1]
    BY <2>2, <2>3, Zenon
  <2> QED BY <2>1, <2>4
<1>9. \A k \in 0 .. n : k \in T
  <2> HIDE DEF T
  <2> QED BY <1>1, <1>7, <1>8, UpToInduction
<1>10. F[n] = G[n]
  <2>1. n \in 0 .. n
    BY <1>1
  <2> QED BY <1>9, <2>1
<1>11. n + 1 \in 1 .. n + 1 /\ (n + 1) - 1 = n
  BY <1>1
<1>12. G[n + 1] = IF n + 1 \in L THEN Append(G[n], t[n + 1]) ELSE G[n]
  BY <1>5, <1>11
<1>13. Keep(t, L) = IF n + 1 \in L THEN Append(Keep(s, K), x) ELSE Keep(s, K)
  <2>1. t[n + 1] = x /\ Keep(s, K) = G[n] /\ Keep(t, L) = G[n + 1]
    BY <1>1, <1>4, <1>5, <1>10
  <2> QED BY <1>12, <2>1, Zenon
<1> QED BY <1>13 DEF t, n

\* What ListSSTables says of a file.
FileInfo == [name : Names, size : Nat, mtime : Nat, old : BOOLEAN]

\* Append is at the end of a concatenation.
LEMMA AppendConcat ==
    ASSUME NEW A, NEW a \in Seq(A), NEW b \in Seq(A), NEW x \in A
    PROVE  a \o <<x>> = Append(a, x) /\ a \o Append(b, x) = Append(a \o b, x)
<1>0. <<x>> \in Seq(A) /\ a \o b \in Seq(A)
  OBVIOUS
<1>1. PICK u \in Seq(A) : u = <<x>>
  BY <1>0, Zenon
<1>2. PICK c \in Seq(A) : c = a \o b
  BY <1>0, Zenon
<1>3. Append(a, x) = a \o u /\ Append(b, x) = b \o u /\ Append(c, x) = c \o u
  BY <1>1, AppendIsConcat
<1>4. (a \o b) \o u = a \o (b \o u)
  <2> HIDE <1>1, <1>2, <1>3
  <2> QED BY ConcatAssociative
<1> QED BY <1>1, <1>2, <1>3, <1>4

\* A file joins no tier, a new one, or the last.
Joins(A, t, info, u) ==
    \/ info.size < MinSize /\ u = t
    \/ ~(info.size < MinSize) /\ u = Append(t, <<info>>)
    \/ /\ ~(info.size < MinSize)
       /\ \E f \in Seq(Seq(A)), l \in Seq(A) : t = Append(f, l) /\ u = Append(f, Append(l, info))

LEMMA AddCases ==
    ASSUME NEW A, NEW t \in Seq(Seq(A)), NEW info \in A
    PROVE  Joins(A, t, info, AddToTiers(t, info))
<1>1. ASSUME t # << >> PROVE Front(t) \in Seq(Seq(A)) /\ Last(t) \in Seq(A) /\ t = Append(Front(t), Last(t))
  <2> DEFINE V == Seq(A)
  <2>1. t \in Seq(V) /\ Len(t) \in Nat \ {0}
    BY <1>1
  <2> HIDE DEF V
  <2>2. Last(t) \in V /\ Last(t) = t[Len(t)]
    BY <2>1 DEF Last
  <2>3. /\ Front(t) \in Seq(V) /\ Len(Front(t)) = Len(t) - 1
        /\ \A i \in 1 .. Len(t) - 1 : Front(t)[i] = t[i]
    <3>0. Len(t) - 1 \in Nat
      BY <2>1
    <3>1. PICK m \in Nat : m = Len(t) - 1
      BY <3>0
    <3>2. \A i \in 1 .. m : t[i] \in V
      BY <2>1, <3>1
    <3>3. /\ SubSeq(t, 1, m) \in Seq(V) /\ Len(SubSeq(t, 1, m)) = IF 1 <= m THEN m - 1 + 1 ELSE 0
          /\ \A i \in 1 .. m - 1 + 1 : SubSeq(t, 1, m)[i] = t[1 + i - 1]
      BY <3>2, SubSeqProperties
    <3>4. Front(t) = SubSeq(t, 1, m)
      BY <3>1 DEF Front
    <3>5. m - 1 + 1 = m /\ (IF 1 <= m THEN m - 1 + 1 ELSE 0) = m /\ \A i \in 1 .. m : 1 + i - 1 = i
      OBVIOUS
    <3> QED BY <3>1, <3>3, <3>4, <3>5
  <2>4. PICK u : u = Append(Front(t), Last(t))
    OBVIOUS
  <2>5. /\ u \in Seq(V) /\ Len(u) = Len(t)
        /\ \A i \in 1 .. Len(t) - 1 : u[i] = t[i]
        /\ u[Len(t)] = t[Len(t)]
    BY <2>1, <2>2, <2>3, <2>4, AppendAt
  <2>6. \A i \in 1 .. Len(t) : u[i] = t[i]
    BY <2>1, <2>5
  <2>7. u = t
    <3>1. /\ u \in [1 .. Len(t) -> V] /\ t \in [1 .. Len(t) -> V]
      BY <2>1, <2>5
    <3> QED BY <2>6, <3>1
  <2> QED BY <2>2, <2>3, <2>4, <2>7 DEF V
<1>2. CASE info.size < MinSize
  BY <1>2 DEF AddToTiers, Joins
<1>3. CASE ~(info.size < MinSize) /\ (t = << >> \/ StartsTier(Last(t), info))
  BY <1>3 DEF AddToTiers, Joins
<1>4. CASE ~(info.size < MinSize) /\ ~(t = << >> \/ StartsTier(Last(t), info))
  <2>1. AddToTiers(t, info) = Append(Front(t), Append(Last(t), info))
    BY <1>4 DEF AddToTiers
  <2> QED BY <1>1, <1>4, <2>1, Zenon DEF Joins
<1> QED BY <1>2, <1>3, <1>4

\* The tiers are the files that are large enough, in the order of the list.
LEMMA TiersFlat ==
    ASSUME NEW list \in Seq(FileInfo)
    PROVE  TiersPartition(list)
<1> DEFINE A == FileInfo
<1> DEFINE n == Len(list)
<1> DEFINE K == LargeEnough(list)
<1>1. n \in Nat /\ DOMAIN list = 1 .. n /\ (\A i \in 1 .. n : list[i] \in A) /\ MinSize \in Nat
  BY CompactionAssumption
<1>2. \A info \in A : info.size \in Nat
  BY DEF FileInfo
<1> HIDE DEF A
<1>3. PICK F \in [0 .. n -> Seq(Seq(A))] : TierLoop(list, F)
  BY TiersDefined DEF A
<1>4. PICK H \in [0 .. n -> Seq(A)] : KeepLoop(list, K, H)
  <2> HIDE DEF K
  <2> QED BY KeepDefined DEF A
<1>5. F[0] = << >> /\ (\A i \in 1 .. n : F[i] = AddToTiers(F[i - 1], list[i])) /\ GroupBySizeTier(list) = F[n]
  BY <1>3 DEF TierLoop
<1>6. /\ H[0] = << >> /\ Keep(list, K) = H[n]
      /\ \A i \in 1 .. n : H[i] = IF i \in K THEN Append(H[i - 1], list[i]) ELSE H[i - 1]
  <2> HIDE DEF K
  <2> QED BY <1>4 DEF KeepLoop
<1>7. \A i \in 1 .. n : i \in K <=> ~(list[i].size < MinSize)
  BY <1>1, <1>2 DEF LargeEnough
<1> HIDE DEF n, K
<1> DEFINE T == {k \in Nat : FlattenSeq(F[k]) = H[k]}
<1>8. 0 \in T
  <2>1. FlattenSeq(<< >>) = << >>
    BY DEF FlattenSeq
  <2> QED BY <1>5, <1>6, <2>1
<1>9. ASSUME NEW k \in 0 .. n - 1, k \in T PROVE k + 1 \in T
  <2>1. k + 1 \in 1 .. n /\ k + 1 \in Nat /\ (k + 1) - 1 = k /\ k \in 0 .. n
    BY <1>1
  <2>2. PICK info \in A : info = list[k + 1]
    BY <1>1, <2>1
  <2>3. PICK t \in Seq(Seq(A)), h \in Seq(A) : t = F[k] /\ h = H[k] /\ FlattenSeq(t) = h
    BY <1>3, <1>4, <1>9, <2>1
  <2>4. F[k + 1] = AddToTiers(t, info)
    BY <1>5, <2>1, <2>2, <2>3
  <2>5. H[k + 1] = IF ~(info.size < MinSize) THEN Append(h, info) ELSE h
    BY <1>6, <1>7, <2>1, <2>2, <2>3
  <2>6. \A a, b \in Seq(A) : a \o <<info>> = Append(a, info) /\ a \o Append(b, info) = Append(a \o b, info)
    BY AppendConcat
  <2>7. FlattenSeq(F[k + 1]) = H[k + 1]
    <3>1. CASE info.size < MinSize /\ AddToTiers(t, info) = t
      BY <2>3, <2>4, <2>5, <3>1
    <3>2. CASE ~(info.size < MinSize) /\ AddToTiers(t, info) = Append(t, <<info>>)
      <4>1. <<info>> \in Seq(A)
        OBVIOUS
      <4>2. FlattenSeq(Append(t, <<info>>)) = FlattenSeq(t) \o <<info>>
        BY <4>1, FlattenAppend
      <4> QED BY <2>3, <2>4, <2>5, <2>6, <3>2, <4>2
    <3>3. ASSUME NEW f \in Seq(Seq(A)), NEW l \in Seq(A), ~(info.size < MinSize),
                 t = Append(f, l), AddToTiers(t, info) = Append(f, Append(l, info))
          PROVE  FlattenSeq(F[k + 1]) = H[k + 1]
      <4>1. Append(l, info) \in Seq(A)
        OBVIOUS
      <4>2. /\ FlattenSeq(Append(f, l)) = FlattenSeq(f) \o l
            /\ FlattenSeq(Append(f, Append(l, info))) = FlattenSeq(f) \o Append(l, info)
        BY <4>1, FlattenAppend
      <4>3. FlattenSeq(f) \in Seq(A)
        BY FlattenRows
      <4>4. FlattenSeq(f) \o Append(l, info) = Append(FlattenSeq(f) \o l, info)
        BY <2>6, <4>3
      <4>5. H[k + 1] = Append(h, info)
        BY <2>5, <3>3
      <4>6. FlattenSeq(F[k + 1]) = FlattenSeq(f) \o Append(l, info) /\ h = FlattenSeq(f) \o l
        BY <2>3, <2>4, <3>3, <4>2
      <4> QED BY <4>4, <4>5, <4>6
    <3>4. Joins(A, t, info, AddToTiers(t, info))
      BY AddCases
    <3> QED BY <3>1, <3>2, <3>3, <3>4, Zenon DEF Joins
  <2> QED BY <2>1, <2>7
<1>10. \A k \in 0 .. n : k \in T
  <2> HIDE DEF T
  <2> QED BY <1>1, <1>8, <1>9, UpToInduction
<1>11. FlattenSeq(F[n]) = H[n]
  <2>1. n \in 0 .. n
    BY <1>1
  <2> QED BY <1>10, <2>1
<1> QED BY <1>5, <1>6, <1>11 DEF TiersPartition, K

Worn(info) == info.size >= MinSize /\ info.old

\* The old files of a list with one file more.
LEMMA OldAppend ==
    ASSUME NEW s \in Seq(FileInfo), NEW info \in FileInfo
    PROVE  /\ OldFiles(s) \in Seq(FileInfo)
           /\ OldFiles(Append(s, info)) = IF Worn(info) THEN Append(OldFiles(s), info) ELSE OldFiles(s)
<1> DEFINE A == FileInfo
<1> DEFINE t == Append(s, info)
<1> DEFINE K == {k \in LargeEnough(s) : s[k].old}
<1> DEFINE L == {k \in LargeEnough(t) : t[k].old}
<1>1. /\ t \in Seq(A) /\ Len(t) = Len(s) + 1 /\ Len(s) \in Nat
      /\ \A i \in 1 .. Len(s) : t[i] = s[i]
      /\ t[Len(s) + 1] = info
  <2> HIDE DEF A
  <2> QED BY AppendAt DEF A
<1> HIDE DEF t
<1>2. DOMAIN s = 1 .. Len(s) /\ DOMAIN t = 1 .. Len(s) + 1
  <2>1. DOMAIN s = 1 .. Len(s)
    OBVIOUS
  <2>2. DOMAIN t = 1 .. Len(t)
    BY <1>1
  <2> QED BY <1>1, <2>1, <2>2
<1>3. \A k \in 1 .. Len(s) : k \in K <=> k \in L
  BY <1>1, <1>2 DEF LargeEnough
<1>4. Len(s) + 1 \in L <=> Worn(info)
  BY <1>1, <1>2 DEF LargeEnough, Worn
<1>5. OldFiles(s) = Keep(s, K) /\ OldFiles(t) = Keep(t, L)
  BY DEF OldFiles
<1> HIDE DEF K, L
<1>6. Keep(Append(s, info), L) = IF Len(s) + 1 \in L THEN Append(Keep(s, K), info) ELSE Keep(s, K)
  <2>1. s \in Seq(A) /\ info \in A
    OBVIOUS
  <2> HIDE DEF A
  <2> QED BY <1>3, <2>1, KeepAppend
<1>7. OldFiles(s) \in Seq(A)
  BY <1>5, KeepType
<1> QED BY <1>4, <1>5, <1>6, <1>7 DEF t

\* A list with no file has no old one, one with one file at most one.
LEMMA OldOfOne ==
    ASSUME NEW info \in FileInfo
    PROVE  Len(OldFiles(<<info>>)) = IF Worn(info) THEN 1 ELSE 0
<1>1. << >> \in Seq(FileInfo) /\ <<info>> = Append(<< >>, info)
  OBVIOUS
<1>2. OldFiles(<< >>) \in Seq(FileInfo)
  BY <1>1, OldAppend
<1>3. Len(OldFiles(<< >>)) = 0
  <2>1. PICK F \in [0 .. Len(<< >>) -> Seq(FileInfo)] : KeepLoop(<< >>, {k \in LargeEnough(<< >>) : << >>[k].old}, F)
    BY <1>1, KeepDefined
  <2>2. OldFiles(<< >>) = F[0] /\ F[0] = << >>
    BY <2>1 DEF KeepLoop, OldFiles
  <2> QED BY <2>2
<1>4. OldFiles(<<info>>) = IF Worn(info) THEN Append(OldFiles(<< >>), info) ELSE OldFiles(<< >>)
  <2>1. OldFiles(Append(<< >>, info)) = IF Worn(info) THEN Append(OldFiles(<< >>), info) ELSE OldFiles(<< >>)
    BY <1>1, OldAppend
  <2> QED BY <1>1, <2>1
<1>5. Len(Append(OldFiles(<< >>), info)) = 1
  BY <1>2, <1>3
<1> QED BY <1>3, <1>4, <1>5

\* No tier has more old files than the list.
LEMMA TierOld ==
    ASSUME NEW list \in Seq(FileInfo)
    PROVE  \A i \in DOMAIN GroupBySizeTier(list) : Len(OldFiles(GroupBySizeTier(list)[i])) <= Len(OldFiles(list))
<1> DEFINE A == FileInfo
<1> DEFINE n == Len(list)
<1> DEFINE K == {k \in LargeEnough(list) : list[k].old}
<1>1. n \in Nat /\ DOMAIN list = 1 .. n /\ (\A i \in 1 .. n : list[i] \in A) /\ MinSize \in Nat
  BY CompactionAssumption
<1>2. PICK F \in [0 .. n -> Seq(Seq(A))] : TierLoop(list, F)
  BY TiersDefined
<1>3. PICK H \in [0 .. n -> Seq(A)] : KeepLoop(list, K, H)
  <2> HIDE DEF K
  <2> QED BY KeepDefined
<1>4. F[0] = << >> /\ (\A i \in 1 .. n : F[i] = AddToTiers(F[i - 1], list[i])) /\ GroupBySizeTier(list) = F[n]
  BY <1>2 DEF TierLoop
<1>5. /\ H[0] = << >> /\ OldFiles(list) = H[n]
      /\ \A i \in 1 .. n : H[i] = IF i \in K THEN Append(H[i - 1], list[i]) ELSE H[i - 1]
  <2>1. OldFiles(list) = Keep(list, K)
    BY DEF OldFiles
  <2> HIDE DEF K
  <2> QED BY <1>3, <2>1 DEF KeepLoop
<1>6. \A i \in 1 .. n : i \in K <=> Worn(list[i])
  BY <1>1 DEF LargeEnough, Worn
<1>7. \A info \in A : info.size \in Nat
  BY DEF FileInfo
<1> HIDE DEF n, K, A
<1> DEFINE Few(t, h) == \A i \in DOMAIN t : Len(OldFiles(t[i])) <= Len(h)
<1> DEFINE T == {k \in Nat : Few(F[k], H[k])}
<1>8. 0 \in T
  BY <1>4
<1>9. ASSUME NEW k \in 0 .. n - 1, k \in T PROVE k + 1 \in T
  <2>1. k + 1 \in 1 .. n /\ k + 1 \in Nat /\ (k + 1) - 1 = k /\ k \in 0 .. n
    BY <1>1
  <2>2. PICK info \in A : info = list[k + 1]
    BY <1>1, <2>1
  <2>3. PICK t \in Seq(Seq(A)), h \in Seq(A) : t = F[k] /\ h = H[k] /\ Few(t, h)
    <3>1. F[k] \in Seq(Seq(A)) /\ H[k] \in Seq(A) /\ Few(F[k], H[k])
      BY <1>2, <1>3, <1>9, <2>1
    <3> HIDE DEF Few
    <3> QED BY <3>1, Zenon
  <2>4. F[k + 1] = AddToTiers(t, info)
    BY <1>4, <2>1, <2>2, <2>3
  <2>5. PICK g : g = H[k + 1]
    OBVIOUS
  <2>6. g = IF Worn(info) THEN Append(h, info) ELSE h
    BY <1>5, <1>6, <2>1, <2>2, <2>3, <2>5
  <2>7. Len(h) \in Nat /\ Len(g) = IF Worn(info) THEN Len(h) + 1 ELSE Len(h)
    <3>1. Len(Append(h, info)) = Len(h) + 1 /\ Len(h) \in Nat
      OBVIOUS
    <3> QED BY <2>6, <3>1
  <2>8. \A s \in Seq(A) : Len(OldFiles(s)) \in Nat
    <3>1. \A s \in Seq(A) : OldFiles(s) \in Seq(A)
      BY <2>2, OldAppend DEF A
    <3> QED BY <3>1
  <2>9. ASSUME NEW s \in Seq(A), Len(OldFiles(s)) <= Len(h) PROVE Len(OldFiles(s)) <= Len(g)
    BY <2>7, <2>8, <2>9
  <2>10. ASSUME NEW s \in Seq(A), Len(OldFiles(s)) <= Len(h) PROVE Len(OldFiles(Append(s, info))) <= Len(g)
    <3>1. OldFiles(s) \in Seq(A) /\ OldFiles(Append(s, info)) = IF Worn(info) THEN Append(OldFiles(s), info) ELSE OldFiles(s)
      BY OldAppend DEF A
    <3>2. Len(Append(OldFiles(s), info)) = Len(OldFiles(s)) + 1
      BY <3>1
    <3>3. Len(OldFiles(Append(s, info))) = IF Worn(info) THEN Len(OldFiles(s)) + 1 ELSE Len(OldFiles(s))
      BY <3>1, <3>2
    <3> QED BY <2>7, <2>8, <2>10, <3>3
  <2>11. Len(OldFiles(<<info>>)) <= Len(g)
    <3>1. Len(OldFiles(<<info>>)) = IF Worn(info) THEN 1 ELSE 0
      BY OldOfOne DEF A
    <3> QED BY <2>7, <3>1
  <2>12. ASSUME NEW f \in Seq(Seq(A)), NEW x \in Seq(A), Len(OldFiles(x)) <= Len(g),
                \A i \in DOMAIN f : Len(OldFiles(f[i])) <= Len(h)
         PROVE  Few(Append(f, x), g)
    <3> DEFINE V == Seq(A)
    <3>0. f \in Seq(V) /\ x \in V
      OBVIOUS
    <3> HIDE DEF V
    <3>1. /\ Append(f, x) \in Seq(V) /\ Len(Append(f, x)) = Len(f) + 1 /\ Len(f) \in Nat
          /\ \A i \in 1 .. Len(f) : Append(f, x)[i] = f[i]
          /\ Append(f, x)[Len(f) + 1] = x
      BY <3>0, AppendAt
    <3>2. PICK u : u = Append(f, x)
      OBVIOUS
    <3>3. DOMAIN u = 1 .. Len(f) + 1 /\ DOMAIN f = 1 .. Len(f)
      BY <3>0, <3>1, <3>2
    <3>4. ASSUME NEW i \in DOMAIN u PROVE Len(OldFiles(u[i])) <= Len(g)
      <4>1. CASE i = Len(f) + 1
        BY <2>12, <3>1, <3>2, <4>1
      <4>2. CASE i # Len(f) + 1
        <5>1. i \in DOMAIN f /\ u[i] = f[i]
          BY <3>1, <3>2, <3>3, <4>2
        <5>2. f[i] \in Seq(A) /\ Len(OldFiles(f[i])) <= Len(h)
          BY <2>12, <3>0, <5>1 DEF V
        <5> QED BY <2>9, <5>1, <5>2
      <4> QED BY <4>1, <4>2
    <3> QED BY <3>2, <3>4
  <2>13. Few(F[k + 1], g)
    <3>1. CASE AddToTiers(t, info) = t
      <4>1. ASSUME NEW i \in DOMAIN t PROVE Len(OldFiles(t[i])) <= Len(g)
        <5>1. t[i] \in Seq(A)
          OBVIOUS
        <5> QED BY <2>3, <2>9, <5>1
      <4> QED BY <2>4, <3>1, <4>1
    <3>2. CASE AddToTiers(t, info) = Append(t, <<info>>)
      <4>1. <<info>> \in Seq(A)
        OBVIOUS
      <4> QED BY <2>3, <2>4, <2>11, <2>12, <3>2, <4>1
    <3>3. ASSUME NEW f \in Seq(Seq(A)), NEW l \in Seq(A),
                 t = Append(f, l), AddToTiers(t, info) = Append(f, Append(l, info))
          PROVE  Few(F[k + 1], g)
      <4> DEFINE V == Seq(A)
      <4>0. f \in Seq(V) /\ l \in V
        OBVIOUS
      <4> HIDE DEF V
      <4>1. /\ t \in Seq(V) /\ Len(t) = Len(f) + 1 /\ Len(f) \in Nat
            /\ \A i \in 1 .. Len(f) : t[i] = f[i]
            /\ t[Len(f) + 1] = l
        BY <3>3, <4>0, AppendAt
      <4>2. DOMAIN t = 1 .. Len(f) + 1 /\ DOMAIN f = 1 .. Len(f)
        BY <4>0, <4>1
      <4>few. \A i \in DOMAIN t : Len(OldFiles(t[i])) <= Len(h)
        BY <2>3
      <4>3. Len(OldFiles(l)) <= Len(h)
        <5>1. Len(f) + 1 \in DOMAIN t
          BY <4>1, <4>2
        <5>2. Len(OldFiles(t[Len(f) + 1])) <= Len(h)
          BY <4>few, <5>1
        <5>3. t[Len(f) + 1] = l
          BY <4>1
        <5> QED BY <5>2, <5>3, Zenon
      <4>4. ASSUME NEW i \in DOMAIN f PROVE Len(OldFiles(f[i])) <= Len(h)
        <5>1. i \in DOMAIN t /\ i \in 1 .. Len(f)
          BY <4>1, <4>2
        <5>2. Len(OldFiles(t[i])) <= Len(h)
          BY <4>few, <5>1
        <5>3. t[i] = f[i]
          BY <4>1, <5>1
        <5> QED BY <5>2, <5>3, Zenon
      <4>5. Append(l, info) \in Seq(A)
        OBVIOUS
      <4>6. Len(OldFiles(Append(l, info))) <= Len(g)
        BY <2>10, <4>3
      <4> HIDE DEF Few
      <4> QED BY <2>4, <2>12, <3>3, <4>4, <4>5, <4>6
    <3>4. Joins(A, t, info, AddToTiers(t, info))
      BY AddCases
    <3> HIDE DEF Few
    <3> QED BY <3>1, <3>2, <3>3, <3>4, Zenon DEF Joins
  <2> HIDE DEF Few
  <2> QED BY <2>1, <2>5, <2>13
<1>10. \A k \in 0 .. n : k \in T
  <2> HIDE DEF T
  <2> QED BY <1>1, <1>8, <1>9, UpToInduction
<1>11. Few(F[n], H[n])
  <2>1. n \in 0 .. n
    BY <1>1
  <2> HIDE DEF Few
  <2> QED BY <1>10, <2>1
<1> QED BY <1>4, <1>5, <1>11

\* A plan comes from a list of at least two files, one of whose tiers has a job.
LEMMA PlanFromTier ==
    ASSUME NEW list \in Seq(FileInfo), PlanCompaction(list) # << >>
    PROVE  /\ Len(list) >= 2
           /\ \E i \in DOMAIN GroupBySizeTier(list) : TierPlan(GroupBySizeTier(list)[i]) # << >>
<1> DEFINE A == FileInfo
<1> DEFINE tiers == GroupBySizeTier(list)
<1> DEFINE plans == [i \in DOMAIN tiers |-> TierPlan(tiers[i])]
<1> DEFINE K == {i \in DOMAIN plans : plans[i] # << >>}
<1>1. tiers \in Seq(Seq(A)) /\ Len(list) \in Nat
  BY TiersType
<1>2. plans \in Seq(Seq(A))
  <2>1. ASSUME NEW i \in DOMAIN tiers PROVE TierPlan(tiers[i]) \in Seq(A)
    <3>1. tiers[i] \in Seq(A)
      BY <1>1
    <3> QED BY <3>1, TierPlanType
  <2>2. DOMAIN tiers = 1 .. Len(tiers) /\ Len(tiers) \in Nat
    BY <1>1
  <2>3. plans \in [1 .. Len(tiers) -> Seq(A)]
    BY <2>1, <2>2
  <2> QED BY <2>2, <2>3
<1>3. PlanCompaction(list) = IF Len(list) < 2 THEN << >> ELSE Keep(plans, K)
  BY DEF PlanCompaction
<1>4. Len(list) >= 2 /\ Keep(plans, K) # << >>
  <2> HIDE DEF plans, K
  <2> QED BY <1>1, <1>3
<1>5. \E k \in K : TRUE
  <2> HIDE DEF plans, K
  <2>1. /\ Keep(plans, K) \in Seq(Seq(A))
        /\ \A j \in 1 .. Len(Keep(plans, K)) : \E k \in K \cap (1 .. Len(plans)) : Keep(plans, K)[j] = plans[k]
    BY <1>2, KeepType
  <2>2. 1 \in 1 .. Len(Keep(plans, K))
    BY <1>4, <2>1
  <2> QED BY <2>1, <2>2
<1>6. PICK k \in K : TRUE
  BY <1>5
<1>7. k \in DOMAIN tiers /\ TierPlan(tiers[k]) # << >>
  <2> HIDE DEF tiers
  <2> QED BY <1>6
<1> QED BY <1>4, <1>7

\* groupBySizeTier, PlanCompaction and ShouldCompact agree with each other on every
\* list ListSSTables can return, of any length and order, not only on the short
\* ones TLC enumerates: the tiers are the files that are large enough, each once and
\* in order, every job of a plan merges two files or more, and where there is a plan
\* the test that checkAndSchedule makes before planning holds.
THEOREM PlansSoundForEveryList ==
    ASSUME NEW list \in Seq(FileInfo)
    PROVE  TiersPartition(list) /\ PlanMergesSeveral(list) /\ PlanImpliesShould(list)
<1>1. TiersPartition(list)
  BY TiersFlat
<1>2. PlanMergesSeveral(list)
  <2>1. PICK p : p = PlanCompaction(list)
    OBVIOUS
  <2>2. p \in Seq(Seq(FileInfo)) /\ \A j \in 1 .. Len(p) : Len(p[j]) >= 2
    BY <2>1, PlanType
  <2>3. DOMAIN p = 1 .. Len(p)
    BY <2>2
  <2> QED BY <2>1, <2>2, <2>3 DEF PlanMergesSeveral
<1>3. ASSUME PlanCompaction(list) # << >> PROVE ShouldCompact(list)
  <2>1. PICK i \in DOMAIN GroupBySizeTier(list) : TierPlan(GroupBySizeTier(list)[i]) # << >>
    BY <1>3, PlanFromTier
  <2>2. PICK tier : tier = GroupBySizeTier(list)[i]
    OBVIOUS
  <2>3. Len(tier) >= 4 \/ Len(OldFiles(tier)) >= 2
    BY <2>1, <2>2 DEF TierPlan
  <2>4. Len(list) >= 2
    BY <1>3, PlanFromTier
  <2>5. CASE Len(tier) >= 4
    BY <2>2, <2>4, <2>5 DEF ShouldCompact
  <2>6. CASE Len(OldFiles(tier)) >= 2
    <3>1. Len(OldFiles(tier)) <= Len(OldFiles(list))
      BY <2>2, TierOld
    <3>2. Len(OldFiles(tier)) \in Nat /\ Len(OldFiles(list)) \in Nat
      <4>1. tier \in Seq(FileInfo)
        <5>1. GroupBySizeTier(list) \in Seq(Seq(FileInfo))
          BY TiersType
        <5> QED BY <2>2, <5>1
      <4>2. OldFiles(tier) \in Seq(FileInfo) /\ OldFiles(list) \in Seq(FileInfo)
        BY <4>1, KeepType DEF OldFiles
      <4> QED BY <4>2
    <3>3. Len(OldFiles(list)) >= 2
      BY <2>6, <3>1, <3>2
    <3> QED BY <2>4, <3>3 DEF ShouldCompact
  <2> QED BY <2>3, <2>5, <2>6
<1> QED BY <1>1, <1>2, <1>3 DEF PlanImpliesShould

=============================================================================
