--------------------------- MODULE HandoffLemmas ---------------------------
(***************************************************************************)
(* Facts about the operators that Coordinator and Handoff are built from:  *)
(* Filter, Flatten, the count of the hints, the contents of hints.db and   *)
(* what load makes of them.                                                *)
(*                                                                         *)
(* They need induction over the naturals. The induction theorems of the    *)
(* library have an operator as a parameter, which the provers cannot       *)
(* instantiate; here induction is on membership in a set.                  *)
(***************************************************************************)
EXTENDS Handoff, Integers, FiniteSetTheorems, SequenceTheorems, WellFoundedInduction, TLAPS

\* Induction: a set with 0 and the successors of its members has all naturals.
\* A least number outside the set would be the successor of one inside.
LEMMA NatSetInduction ==
    ASSUME NEW S, 0 \in S, \A n \in Nat : n \in S => n + 1 \in S
    PROVE  \A n \in Nat : n \in S
<1>1. SUFFICES ASSUME NEW m \in Nat, m \notin S PROVE FALSE
  OBVIOUS
<1> DEFINE T == {n \in Nat : n \notin S}
<1> DEFINE R == OpToRel(<, Nat)
<1>2. T \subseteq Nat /\ T # {}
  BY <1>1
<1>3. IsWellFoundedOn(R, Nat)
  BY NatLessThanWellFounded
<1>4. \E x \in T : \A y \in T : ~ (<<y, x>> \in R)
  <2> HIDE DEF T, R
  <2> QED BY <1>2, <1>3, WFMin
<1>5. PICK x \in T : \A y \in T : ~ (<<y, x>> \in R)
  BY <1>4
<1>6. x \in Nat /\ x # 0 /\ x - 1 \in Nat
  OBVIOUS
<1>7. x - 1 \in T
  <2>1. x - 1 \in S => x \in S
    BY <1>6
  <2> QED BY <2>1, <1>6
<1>8. <<x - 1, x>> \in R
  BY <1>6 DEF OpToRel
<1> QED BY <1>5, <1>7, <1>8

\* The same up to a bound.
LEMMA UpToInduction ==
    ASSUME NEW n \in Nat, NEW S, 0 \in S, \A i \in 0 .. n - 1 : i \in S => i + 1 \in S
    PROVE  \A i \in 0 .. n : i \in S
<1> DEFINE T == {i \in Nat : i <= n => i \in S}
<1>1. 0 \in T
  OBVIOUS
<1>2. ASSUME NEW i \in Nat, i \in T PROVE i + 1 \in T
  <2>1. CASE i + 1 <= n
    <3>1. i \in 0 .. n - 1 /\ i \in S
      BY <1>2, <2>1
    <3> QED BY <3>1
  <2>2. CASE ~(i + 1 <= n)
    BY <2>2
  <2> QED BY <2>1, <2>2
<1>3. \A i \in Nat : i \in T
  <2> HIDE DEF T
  <2> QED BY <1>1, <1>2, NatSetInduction
<1> QED BY <1>3

\* A function on 0 .. n with the value x at 0 and the step h.
Steps(V, n) == [1 .. n -> [V -> V]]
Iterates(V, n, x, h) ==
    \E g \in [0 .. n -> V] : g[0] = x /\ \A i \in 1 .. n : g[i] = h[i][g[i - 1]]

\* There always is one.
LEMMA RecursionExists ==
    ASSUME NEW V, NEW x \in V, NEW n \in Nat, NEW h \in Steps(V, n)
    PROVE  Iterates(V, n, x, h)
<1> USE DEF Steps
<1> DEFINE Upto(m) == \E g \in [0 .. m -> V] : g[0] = x /\ \A i \in 1 .. m : g[i] = h[i][g[i - 1]]
<1> DEFINE S == {m \in Nat : Upto(m)}
<1>1. 0 \in S
  <2> DEFINE g == [i \in 0 .. 0 |-> x]
  <2>1. g \in [0 .. 0 -> V] /\ g[0] = x /\ \A i \in 1 .. 0 : g[i] = h[i][g[i - 1]]
    OBVIOUS
  <2> QED BY <2>1
<1>2. ASSUME NEW m \in 0 .. n - 1, m \in S PROVE m + 1 \in S
  <2>1. PICK g \in [0 .. m -> V] : g[0] = x /\ \A i \in 1 .. m : g[i] = h[i][g[i - 1]]
    BY <1>2
  <2> DEFINE f == [i \in 0 .. m + 1 |-> IF i = m + 1 THEN h[m + 1][g[m]] ELSE g[i]]
  <2>2. h[m + 1] \in [V -> V] /\ g[m] \in V
    BY <2>1
  <2>3. f \in [0 .. m + 1 -> V]
    BY <2>1, <2>2
  <2>4. f[0] = x
    BY <2>1
  <2>5. ASSUME NEW i \in 1 .. m + 1 PROVE f[i] = h[i][f[i - 1]]
    <3>1. CASE i = m + 1
      BY <3>1
    <3>2. CASE i # m + 1
      <4>1. i \in 1 .. m /\ i \in 0 .. m + 1 /\ i - 1 \in 0 .. m + 1 /\ i - 1 # m + 1
        BY <3>2
      <4>2. f[i] = g[i] /\ f[i - 1] = g[i - 1]
        BY <3>2, <4>1
      <4> HIDE DEF f
      <4> QED BY <2>1, <4>1, <4>2
    <3> QED BY <3>1, <3>2
  <2>6. Upto(m + 1)
    <3> HIDE DEF f
    <3> QED BY <2>3, <2>4, <2>5
  <2> HIDE DEF Upto
  <2> QED BY <2>6
<1>3. \A m \in 0 .. n : m \in S
  <2> HIDE DEF S
  <2> QED BY <1>1, <1>2, UpToInduction
<1>4. n \in S
  <2> HIDE DEF S
  <2> QED BY <1>3
<1> QED BY <1>4 DEF Iterates

-----------------------------------------------------------------------------
(* Filter.                                                                 *)

\* The step of the recursion of Filter.
FilterStep(s, S, F, i) == IF s[i] \in S THEN Append(F[i - 1], s[i]) ELSE F[i - 1]

\* FilterUpTo(s, S) is the function its definition describes.
LEMMA FilterDefined ==
    ASSUME NEW A, NEW s \in Seq(A), NEW S
    PROVE  /\ FilterUpTo(s, S) \in [0 .. Len(s) -> Seq(A)]
           /\ FilterUpTo(s, S)[0] = << >>
           /\ \A i \in 1 .. Len(s) : FilterUpTo(s, S)[i] = FilterStep(s, S, FilterUpTo(s, S), i)
<1> DEFINE n == Len(s)
<1> DEFINE Body(F) == [i \in 0 .. Len(s) |->
                         IF i = 0 THEN << >>
                         ELSE IF s[i] \in S THEN Append(F[i - 1], s[i]) ELSE F[i - 1]]
<1> DEFINE h == [i \in 1 .. n |-> [v \in Seq(A) |-> IF s[i] \in S THEN Append(v, s[i]) ELSE v]]
<1> DEFINE G == CHOOSE F : F = Body(F)
<1>1. n \in Nat /\ \A i \in 1 .. n : s[i] \in A
  OBVIOUS
<1>2. h \in [1 .. n -> [Seq(A) -> Seq(A)]]
  <2>1. ASSUME NEW i \in 1 .. n, NEW v \in Seq(A) PROVE Append(v, s[i]) \in Seq(A)
    BY <1>1
  <2> HIDE DEF n
  <2> QED BY <2>1
<1>3. PICK g \in [0 .. n -> Seq(A)] : g[0] = << >> /\ \A i \in 1 .. n : g[i] = h[i][g[i - 1]]
  <2> DEFINE V == Seq(A)
  <2> DEFINE e == << >>
  <2>1. e \in V
    OBVIOUS
  <2>2. h \in Steps(V, n)
    BY <1>2 DEF Steps
  <2>3. Iterates(V, n, e, h)
    <3> HIDE DEF h, n, V, e
    <3> QED BY <1>1, <2>1, <2>2, RecursionExists
  <2> HIDE DEF h
  <2> QED BY <2>3 DEF Iterates
<1>4. \A i \in 1 .. n : g[i] = FilterStep(s, S, g, i)
  <2>1. ASSUME NEW i \in 1 .. n PROVE g[i] = FilterStep(s, S, g, i)
    <3>1. i - 1 \in 0 .. n /\ g[i - 1] \in Seq(A)
      BY <1>3, <1>1
    <3>2. h[i][g[i - 1]] = FilterStep(s, S, g, i)
      <4> HIDE DEF n
      <4> QED BY <3>1 DEF FilterStep
    <3> QED BY <3>2, <1>3
  <2> QED BY <2>1
<1>5. g = Body(g)
  <2>1. \A i \in 0 .. n : g[i] = Body(g)[i]
    <3>1. g[0] = Body(g)[0]
      BY <1>3
    <3>2. ASSUME NEW i \in 1 .. n PROVE g[i] = Body(g)[i]
      BY <1>4 DEF FilterStep
    <3>3. \A i \in 0 .. n : i = 0 \/ i \in 1 .. n
      BY <1>1
    <3> HIDE DEF Body, n
    <3> QED BY <3>1, <3>2, <3>3
  <2>2. g = [i \in 0 .. n |-> g[i]] /\ Body(g) = [i \in 0 .. n |-> Body(g)[i]]
    BY <1>3
  <2> HIDE DEF Body
  <2> QED BY <2>1, <2>2
<1>6. G = Body(G)
  <2> HIDE DEF Body
  <2> QED BY <1>5, Zenon
<1>7. FilterUpTo(s, S) = G
  BY DEF FilterUpTo
<1> HIDE DEF G
<1>8. G[0] = << >> /\ \A i \in 1 .. n : G[i] = FilterStep(s, S, G, i)
  <2>1. \A i \in 0 .. n : G[i] = Body(G)[i]
    BY <1>6, Zenon
  <2> QED BY <2>1, <1>1 DEF FilterStep
<1>9. \A i \in 0 .. n : G[i] \in Seq(A)
  <2> DEFINE T == {i \in Nat : G[i] \in Seq(A)}
  <2>1. 0 \in T
    BY <1>8
  <2>2. ASSUME NEW i \in 0 .. n - 1, i \in T PROVE i + 1 \in T
    <3>1. i + 1 \in 1 .. n /\ (i + 1) - 1 = i /\ s[i + 1] \in A
      BY <1>1
    <3>2. G[i + 1] = IF s[i + 1] \in S THEN Append(G[i], s[i + 1]) ELSE G[i]
      BY <1>8, <3>1 DEF FilterStep
    <3>3. G[i] \in Seq(A)
      BY <2>2
    <3>4. Append(G[i], s[i + 1]) \in Seq(A)
      BY <3>1, <3>3
    <3>5. G[i + 1] \in Seq(A)
      BY <3>2, <3>3, <3>4
    <3> QED BY <3>1, <3>5
  <2>3. \A i \in 0 .. n : i \in T
    <3> HIDE DEF T, n
    <3> QED BY <1>1, <2>1, <2>2, UpToInduction
  <2> QED BY <2>3
<1>10. G = [i \in 0 .. n |-> G[i]]
  <2>1. G = [i \in 0 .. n |-> Body(G)[i]]
    BY <1>6
  <2>2. DOMAIN G = 0 .. n
    BY <2>1, Zenon
  <2> QED BY <1>6, <2>2
<1> QED BY <1>7, <1>8, <1>9, <1>10

\* A filtered sequence is a sequence of the same kind, not longer, and has only
\* elements of the set.
LEMMA FilterType ==
    ASSUME NEW A, NEW s \in Seq(A), NEW S
    PROVE  /\ Filter(s, S) \in Seq(A)
           /\ Len(Filter(s, S)) <= Len(s)
           /\ \A j \in 1 .. Len(Filter(s, S)) : Filter(s, S)[j] \in S
<1> DEFINE F == FilterUpTo(s, S)
<1> DEFINE n == Len(s)
<1> DEFINE Good(f, i) == f \in Seq(A) /\ Len(f) <= i /\ \A j \in 1 .. Len(f) : f[j] \in S
<1> DEFINE T == {i \in Nat : Good(F[i], i)}
<1>1. n \in Nat /\ \A i \in 1 .. n : s[i] \in A
  OBVIOUS
<1>2. /\ F \in [0 .. n -> Seq(A)]
      /\ F[0] = << >>
      /\ \A i \in 1 .. n : F[i] = FilterStep(s, S, F, i)
  BY FilterDefined
<1> HIDE DEF F, n
<1>3. 0 \in T
  <2>1. Good(<< >>, 0)
    OBVIOUS
  <2> HIDE DEF Good
  <2> QED BY <1>2, <2>1
<1>4. ASSUME NEW i \in 0 .. n - 1, i \in T PROVE i + 1 \in T
  <2>1. i \in Nat /\ i + 1 \in 1 .. n /\ (i + 1) - 1 = i /\ s[i + 1] \in A
    BY <1>1
  <2>2. F[i + 1] = IF s[i + 1] \in S THEN Append(F[i], s[i + 1]) ELSE F[i]
    BY <1>2, <2>1 DEF FilterStep
  <2>3. Good(F[i], i)
    BY <1>4
  <2>4. ASSUME s[i + 1] \in S, NEW f, f = F[i] PROVE Good(Append(f, s[i + 1]), i + 1)
    <3>1. Append(f, s[i + 1]) \in Seq(A) /\ Len(Append(f, s[i + 1])) = Len(f) + 1 /\ Len(f) \in Nat
      BY <2>1, <2>3, <2>4, AppendProperties
    <3>2. ASSUME NEW j \in 1 .. Len(f) + 1 PROVE Append(f, s[i + 1])[j] \in S
      BY <2>1, <2>3, <2>4, <3>1, AppendProperties
    <3> QED BY <2>1, <2>3, <2>4, <3>1, <3>2
  <2>5. Good(F[i], i + 1)
    <3>1. Len(F[i]) \in Nat
      BY <2>3
    <3> QED BY <2>1, <2>3, <3>1
  <2> HIDE DEF Good
  <2>6. Good(F[i + 1], i + 1)
    BY <2>2, <2>4, <2>5
  <2> QED BY <2>1, <2>6
<1>5. \A i \in 0 .. n : i \in T
  <2> HIDE DEF T
  <2> QED BY <1>1, <1>3, <1>4, UpToInduction
<1>6. n \in T
  <2> HIDE DEF T
  <2> QED BY <1>1, <1>5
<1>7. Filter(s, S) = F[n]
  BY DEF Filter, F, n
<1> QED BY <1>6, <1>7 DEF n

\* The sequence 1, 2, ..., m.
Indices(m) == [i \in 1 .. m |-> i]

\* What a filter leaves of the indices has no index twice.
LEMMA FilterInjective ==
    ASSUME NEW m \in Nat, NEW S
    PROVE  /\ Filter(Indices(m), S) \in Seq(1 .. m)
           /\ \A j \in 1 .. Len(Filter(Indices(m), S)) : Filter(Indices(m), S)[j] \in S
           /\ \A j, k \in 1 .. Len(Filter(Indices(m), S)) :
                 Filter(Indices(m), S)[j] = Filter(Indices(m), S)[k] => j = k
<1> DEFINE s == Indices(m)
<1> DEFINE F == FilterUpTo(s, S)
<1> DEFINE Good(f, i) == /\ f \in Seq(1 .. m)
                         /\ \A j \in 1 .. Len(f) : f[j] <= i
                         /\ \A j, k \in 1 .. Len(f) : f[j] = f[k] => j = k
<1> DEFINE T == {i \in Nat : Good(F[i], i)}
<1>1. s \in Seq(1 .. m) /\ Len(s) = m /\ \A i \in 1 .. m : s[i] = i
  BY DEF Indices
<1>2. F[0] = << >> /\ \A i \in 1 .. m : F[i] = FilterStep(s, S, F, i)
  <2> HIDE DEF s
  <2> QED BY <1>1, FilterDefined
<1> HIDE DEF F, s
<1>3. 0 \in T
  <2>1. Good(<< >>, 0)
    OBVIOUS
  <2> HIDE DEF Good
  <2> QED BY <1>2, <2>1
<1>4. ASSUME NEW i \in 0 .. m - 1, i \in T PROVE i + 1 \in T
  <2>1. i \in Nat /\ i + 1 \in 1 .. m /\ (i + 1) - 1 = i /\ s[i + 1] = i + 1
    BY <1>1
  <2>2. F[i + 1] = IF i + 1 \in S THEN Append(F[i], i + 1) ELSE F[i]
    BY <1>2, <2>1 DEF FilterStep
  <2>3. Good(F[i], i)
    BY <1>4
  <2>4. ASSUME NEW f, f = F[i] PROVE Good(Append(f, i + 1), i + 1)
    <3> DEFINE a == Append(f, i + 1)
    <3>1. a \in Seq(1 .. m) /\ Len(a) = Len(f) + 1 /\ Len(f) \in Nat
      BY <2>1, <2>3, <2>4, AppendProperties
    <3>2. a[Len(f) + 1] = i + 1 /\ \A j \in 1 .. Len(f) : a[j] = f[j] /\ a[j] <= i
      BY <2>1, <2>3, <2>4, AppendProperties
    <3>3. \A j \in 1 .. Len(f) : a[j] \in Nat
      BY <3>1
    <3>4. \A j, k \in 1 .. Len(f) : f[j] = f[k] => j = k
      BY <2>3, <2>4
    <3> HIDE DEF a
    <3>5. \A j \in 1 .. Len(a) : a[j] <= i + 1
      <4>1. ASSUME NEW j \in 1 .. Len(a) PROVE a[j] <= i + 1
        <5>1. CASE j = Len(f) + 1
          BY <2>1, <3>2, <5>1
        <5>2. CASE j # Len(f) + 1
          <6>1. j \in 1 .. Len(f)
            BY <3>1, <5>2
          <6> QED BY <2>1, <3>2, <3>3, <6>1
        <5> QED BY <5>1, <5>2
      <4> QED BY <4>1
    <3>6. ASSUME NEW j \in 1 .. Len(a), NEW k \in 1 .. Len(a), a[j] = a[k] PROVE j = k
      <4>1. \A x \in 1 .. Len(a) : x = Len(f) + 1 \/ x \in 1 .. Len(f)
        BY <3>1
      <4>2. \A x \in 1 .. Len(f) : a[x] # i + 1
        BY <2>1, <3>2, <3>3
      <4>3. CASE j \in 1 .. Len(f) /\ k \in 1 .. Len(f)
        BY <3>2, <3>4, <3>6, <4>3
      <4>4. CASE j = Len(f) + 1
        BY <3>2, <3>6, <4>1, <4>2, <4>4
      <4>5. CASE k = Len(f) + 1
        BY <3>2, <3>6, <4>1, <4>2, <4>5
      <4> QED BY <4>1, <4>3, <4>4, <4>5
    <3>7. Good(a, i + 1)
      BY <3>1, <3>5, <3>6
    <3> QED BY <3>7 DEF a
  <2>5. Good(F[i], i + 1)
    <3>1. \A j \in 1 .. Len(F[i]) : F[i][j] \in Nat
      BY <2>3
    <3> QED BY <2>1, <2>3, <3>1
  <2> HIDE DEF Good
  <2>6. Good(F[i + 1], i + 1)
    BY <2>2, <2>4, <2>5
  <2> QED BY <2>1, <2>6
<1>5. \A i \in 0 .. m : i \in T
  <2> HIDE DEF T
  <2> QED BY <1>3, <1>4, UpToInduction
<1>6. m \in T
  <2> HIDE DEF T
  <2> QED BY <1>5
<1>7. Filter(s, S) = F[m]
  BY <1>1 DEF Filter, F
<1>8. \A j \in 1 .. Len(Filter(s, S)) : Filter(s, S)[j] \in S
  BY <1>1, FilterType
<1> QED BY <1>6, <1>7, <1>8 DEF s

\* S has the indices in a + 1 .. b and no others.
IsInterval(S, m, a, b) == \A i \in 1 .. m : i \in S <=> a < i /\ i <= b

\* What a filter leaves of the indices when the set is an interval of them.
LEMMA FilterInterval ==
    ASSUME NEW m \in Nat, NEW a \in Nat, NEW b \in Nat, a <= b, b <= m,
           NEW S, IsInterval(S, m, a, b)
    PROVE  Filter(Indices(m), S) = [j \in 1 .. b - a |-> a + j]
<1> USE DEF IsInterval
<1> DEFINE s == Indices(m)
<1> DEFINE F == FilterUpTo(s, S)
<1> DEFINE cut(i) == IF i <= a THEN 0 ELSE IF i <= b THEN i - a ELSE b - a
<1> DEFINE Run(n) == [j \in 1 .. n |-> a + j]
<1> DEFINE T == {i \in Nat : F[i] = Run(cut(i))}
<1>1. s \in Seq(1 .. m) /\ Len(s) = m /\ \A i \in 1 .. m : s[i] = i
  BY DEF Indices
<1>2. F[0] = << >> /\ \A i \in 1 .. m : F[i] = FilterStep(s, S, F, i)
  <2> HIDE DEF s
  <2> QED BY <1>1, FilterDefined
<1> HIDE DEF F, s
<1>3. 0 \in T
  <2>1. Run(0) = << >>
    OBVIOUS
  <2>2. cut(0) = 0
    OBVIOUS
  <2> HIDE DEF Run, cut
  <2> QED BY <1>2, <2>1, <2>2
<1>4. ASSUME NEW n \in Nat PROVE Append(Run(n), a + (n + 1)) = Run(n + 1)
  <2>1. Run(n) \in Seq(Nat) /\ Len(Run(n)) = n /\ Run(n + 1) \in Seq(Nat) /\ Len(Run(n + 1)) = n + 1
    OBVIOUS
  <2>2. Append(Run(n), a + (n + 1)) \in Seq(Nat) /\ Len(Append(Run(n), a + (n + 1))) = n + 1
    <3> HIDE DEF Run
    <3> QED BY <2>1, AppendProperties
  <2>3. ASSUME NEW j \in 1 .. n + 1 PROVE Append(Run(n), a + (n + 1))[j] = Run(n + 1)[j]
    <3>1. CASE j = n + 1
      <4>1. Run(n + 1)[j] = a + (n + 1)
        BY <3>1
      <4> HIDE DEF Run
      <4> QED BY <2>1, <3>1, <4>1, AppendProperties
    <3>2. CASE j # n + 1
      <4>1. j \in 1 .. n
        BY <3>2
      <4>2. Run(n + 1)[j] = Run(n)[j]
        BY <4>1
      <4> HIDE DEF Run
      <4> QED BY <2>1, <4>1, <4>2, AppendProperties
    <3> QED BY <3>1, <3>2
  <2> HIDE DEF Run
  <2> QED BY <2>1, <2>2, <2>3, SeqEqual
<1>5. ASSUME NEW i \in 0 .. m - 1, i \in T PROVE i + 1 \in T
  <2>1. i \in Nat /\ i + 1 \in 1 .. m /\ (i + 1) - 1 = i /\ s[i + 1] = i + 1
    BY <1>1
  <2>2. F[i + 1] = IF i + 1 \in S THEN Append(F[i], i + 1) ELSE F[i]
    BY <1>2, <2>1 DEF FilterStep
  <2>3. F[i] = Run(cut(i))
    BY <1>5
  <2>4. CASE a < i + 1 /\ i + 1 <= b
    <3>1. cut(i) \in Nat /\ cut(i + 1) = cut(i) + 1 /\ a + (cut(i) + 1) = i + 1
      BY <2>1, <2>4
    <3>2. F[i + 1] = Append(Run(cut(i)), i + 1)
      BY <2>1, <2>2, <2>3, <2>4
    <3> HIDE DEF Run, cut
    <3>3. F[i + 1] = Run(cut(i + 1))
      BY <1>4, <3>1, <3>2
    <3> QED BY <2>1, <3>3
  <2>5. CASE ~(a < i + 1 /\ i + 1 <= b)
    <3>1. cut(i + 1) = cut(i)
      BY <2>1, <2>5
    <3>2. F[i + 1] = F[i]
      BY <2>1, <2>2, <2>5
    <3> HIDE DEF Run, cut
    <3> QED BY <2>1, <2>3, <3>1, <3>2
  <2> QED BY <2>4, <2>5
<1>6. \A i \in 0 .. m : i \in T
  <2> HIDE DEF T
  <2> QED BY <1>3, <1>5, UpToInduction
<1>7. m \in T
  <2> HIDE DEF T
  <2> QED BY <1>6
<1>8. Filter(s, S) = F[m]
  BY <1>1 DEF Filter, F
<1>9. cut(m) = b - a
  OBVIOUS
<1> QED BY <1>7, <1>8, <1>9 DEF s

-----------------------------------------------------------------------------
(* Flatten.                                                                *)

\* FlattenUpTo(ss) is the function its definition describes.
LEMMA FlattenDefined ==
    ASSUME NEW A, NEW ss \in Seq(Seq(A))
    PROVE  /\ FlattenUpTo(ss) \in [0 .. Len(ss) -> Seq(A)]
           /\ FlattenUpTo(ss)[0] = << >>
           /\ \A i \in 1 .. Len(ss) : FlattenUpTo(ss)[i] = FlattenUpTo(ss)[i - 1] \o ss[i]
<1> DEFINE n == Len(ss)
<1> DEFINE Body(F) == [i \in 0 .. Len(ss) |-> IF i = 0 THEN << >> ELSE F[i - 1] \o ss[i]]
<1> DEFINE h == [i \in 1 .. n |-> [v \in Seq(A) |-> v \o ss[i]]]
<1> DEFINE G == CHOOSE F : F = Body(F)
<1>1. n \in Nat /\ \A i \in 1 .. n : ss[i] \in Seq(A)
  OBVIOUS
<1>2. h \in [1 .. n -> [Seq(A) -> Seq(A)]]
  <2>1. ASSUME NEW i \in 1 .. n, NEW v \in Seq(A) PROVE v \o ss[i] \in Seq(A)
    BY <1>1
  <2> HIDE DEF n
  <2> QED BY <2>1
<1>3. PICK g \in [0 .. n -> Seq(A)] : g[0] = << >> /\ \A i \in 1 .. n : g[i] = h[i][g[i - 1]]
  <2> DEFINE V == Seq(A)
  <2> DEFINE e == << >>
  <2>1. e \in V
    OBVIOUS
  <2>2. h \in Steps(V, n)
    BY <1>2 DEF Steps
  <2>3. Iterates(V, n, e, h)
    <3> HIDE DEF h, n, V, e
    <3> QED BY <1>1, <2>1, <2>2, RecursionExists
  <2> HIDE DEF h
  <2> QED BY <2>3 DEF Iterates
<1>4. \A i \in 1 .. n : g[i] = g[i - 1] \o ss[i]
  <2>1. ASSUME NEW i \in 1 .. n PROVE g[i] = g[i - 1] \o ss[i]
    <3>0. i - 1 \in 0 .. n
      BY <1>1
    <3>1. g[i - 1] \in Seq(A)
      <4> HIDE DEF n
      <4> QED BY <3>0
    <3>2. h[i][g[i - 1]] = g[i - 1] \o ss[i]
      <4> HIDE DEF n
      <4> QED BY <3>1
    <3> QED BY <3>2, <1>3
  <2> QED BY <2>1
<1>5. g = Body(g)
  <2>1. \A i \in 0 .. n : g[i] = Body(g)[i]
    <3>1. g[0] = Body(g)[0]
      BY <1>3
    <3>2. ASSUME NEW i \in 1 .. n PROVE g[i] = Body(g)[i]
      <4>1. i \in 0 .. Len(ss) /\ i # 0
        BY <1>1
      <4>2. Body(g)[i] = g[i - 1] \o ss[i]
        BY <4>1
      <4> HIDE DEF Body, n
      <4> QED BY <1>4, <4>2
    <3>3. \A i \in 0 .. n : i = 0 \/ i \in 1 .. n
      BY <1>1
    <3> HIDE DEF Body, n
    <3> QED BY <3>1, <3>2, <3>3
  <2>2. g = [i \in 0 .. n |-> g[i]] /\ Body(g) = [i \in 0 .. n |-> Body(g)[i]]
    BY <1>3
  <2> HIDE DEF Body
  <2> QED BY <2>1, <2>2
<1>6. G = Body(G)
  <2> HIDE DEF Body
  <2> QED BY <1>5, Zenon
<1>7. FlattenUpTo(ss) = G
  BY DEF FlattenUpTo
<1> HIDE DEF G
<1>8. G[0] = << >> /\ \A i \in 1 .. n : G[i] = G[i - 1] \o ss[i]
  <2>1. \A i \in 0 .. n : G[i] = Body(G)[i]
    BY <1>6, Zenon
  <2>2. Body(G)[0] = << >>
    BY <1>1
  <2>3. ASSUME NEW i \in 1 .. n PROVE Body(G)[i] = G[i - 1] \o ss[i] /\ i \in 0 .. n
    <3>1. i \in 0 .. Len(ss) /\ i # 0
      BY <1>1
    <3> QED BY <3>1
  <2>4. 0 \in 0 .. n
    BY <1>1
  <2> HIDE DEF Body, n
  <2> QED BY <2>1, <2>2, <2>3, <2>4
<1>9. \A i \in 0 .. n : G[i] \in Seq(A)
  <2> DEFINE T == {i \in Nat : G[i] \in Seq(A)}
  <2>1. 0 \in T
    BY <1>8
  <2>2. ASSUME NEW i \in 0 .. n - 1, i \in T PROVE i + 1 \in T
    <3>1. i + 1 \in 1 .. n /\ (i + 1) - 1 = i /\ ss[i + 1] \in Seq(A)
      BY <1>1
    <3>2. G[i + 1] = G[i] \o ss[i + 1]
      BY <1>8, <3>1
    <3>3. G[i] \in Seq(A)
      BY <2>2
    <3>4. G[i + 1] \in Seq(A)
      BY <3>1, <3>2, <3>3
    <3> QED BY <3>1, <3>4
  <2>3. \A i \in 0 .. n : i \in T
    <3> HIDE DEF T, n
    <3> QED BY <1>1, <2>1, <2>2, UpToInduction
  <2> QED BY <2>3
<1>10. G = [i \in 0 .. n |-> G[i]]
  <2>1. G = [i \in 0 .. n |-> Body(G)[i]]
    BY <1>6
  <2>2. DOMAIN G = 0 .. n
    BY <2>1, Zenon
  <2> QED BY <1>6, <2>2
<1> QED BY <1>7, <1>8, <1>9, <1>10

\* Where the p-th sequence begins in what Flatten makes of them.
Offset(ss, p) == Len(FlattenUpTo(ss)[p - 1])

\* Flatten puts every element of every sequence at its offset, and nothing else.
LEMMA FlattenBlocks ==
    ASSUME NEW A, NEW ss \in Seq(Seq(A))
    PROVE  /\ Flatten(ss) \in Seq(A)
           /\ \A p \in 1 .. Len(ss) : Offset(ss, p) \in Nat
           /\ \A p \in 1 .. Len(ss) : \A j \in 1 .. Len(ss[p]) :
                 /\ Offset(ss, p) + j \in 1 .. Len(Flatten(ss))
                 /\ Flatten(ss)[Offset(ss, p) + j] = ss[p][j]
           /\ \A i \in 1 .. Len(Flatten(ss)) : \E p \in 1 .. Len(ss) :
                 \E j \in 1 .. Len(ss[p]) : i = Offset(ss, p) + j
<1> DEFINE F == FlattenUpTo(ss)
<1> DEFINE n == Len(ss)
<1> DEFINE Put(k) == \A p \in 1 .. k : \A j \in 1 .. Len(ss[p]) :
                        /\ Offset(ss, p) + j \in 1 .. Len(F[k])
                        /\ F[k][Offset(ss, p) + j] = ss[p][j]
<1> DEFINE Only(k) == \A i \in 1 .. Len(F[k]) : \E p \in 1 .. k :
                         \E j \in 1 .. Len(ss[p]) : i = Offset(ss, p) + j
<1> DEFINE T == {k \in Nat : Put(k) /\ Only(k)}
<1>1. n \in Nat /\ \A i \in 1 .. n : ss[i] \in Seq(A) /\ Len(ss[i]) \in Nat
  OBVIOUS
<1>2. /\ F \in [0 .. n -> Seq(A)]
      /\ F[0] = << >>
      /\ \A i \in 1 .. n : F[i] = F[i - 1] \o ss[i]
  BY FlattenDefined
<1>3. \A p \in 1 .. n : Offset(ss, p) = Len(F[p - 1])
  BY DEF Offset
<1> HIDE DEF F, n
<1>4. \A k \in 0 .. n : F[k] \in Seq(A) /\ Len(F[k]) \in Nat
  BY <1>2
<1>5. \A p \in 1 .. n : Offset(ss, p) \in Nat
  BY <1>1, <1>3, <1>4
<1>6. 0 \in T
  <2>1. Put(0)
    OBVIOUS
  <2>2. Len(F[0]) = 0
    BY <1>2
  <2>3. Only(0)
    BY <2>2
  <2> HIDE DEF Put, Only
  <2> QED BY <2>1, <2>3
<1>7. ASSUME NEW k \in 0 .. n - 1, k \in T PROVE k + 1 \in T
  <2> DEFINE f == F[k]
  <2> DEFINE t == ss[k + 1]
  <2> DEFINE g == F[k + 1]
  <2>1. k \in 0 .. n /\ k + 1 \in 1 .. n /\ (k + 1) - 1 = k /\ k \in Nat /\ k + 1 \in Nat
    BY <1>1
  <2>2. f \in Seq(A) /\ t \in Seq(A) /\ Len(f) \in Nat /\ Len(t) \in Nat
    BY <1>1, <1>4, <2>1
  <2>3. g = f \o t
    BY <1>2, <2>1
  <2>4. Offset(ss, k + 1) = Len(f)
    BY <1>3, <2>1
  <2>5. Len(g) = Len(f) + Len(t)
    <3> HIDE DEF f, t, g
    <3> QED BY <2>2, <2>3, ConcatProperties
  <2>6. \A i \in 1 .. Len(f) : g[i] = f[i]
    <3> HIDE DEF f, t, g
    <3> QED BY <2>2, <2>3, ConcatProperties
  <2>7. \A j \in 1 .. Len(t) : g[Len(f) + j] = t[j]
    <3> HIDE DEF f, t, g
    <3>1. ASSUME NEW j \in 1 .. Len(t) PROVE g[Len(f) + j] = t[j]
      <4>1. Len(f) + j \in 1 .. Len(f) + Len(t) /\ Len(f) + j > Len(f) /\ (Len(f) + j) - Len(f) = j
        BY <2>2
      <4> QED BY <2>2, <2>3, <4>1, ConcatProperties
    <3> QED BY <3>1
  <2>8. Put(k) /\ Only(k)
    BY <1>7
  <2>9. Put(k + 1)
    <3>1. ASSUME NEW p \in 1 .. k + 1, NEW j \in 1 .. Len(ss[p])
          PROVE  Offset(ss, p) + j \in 1 .. Len(g) /\ g[Offset(ss, p) + j] = ss[p][j]
      <4>1. CASE p = k + 1
        <5>1. j \in 1 .. Len(t) /\ ss[p] = t /\ Offset(ss, p) = Len(f)
          BY <2>4, <4>1
        <5> HIDE DEF f, t, g
        <5>2. Len(f) + j \in 1 .. Len(g)
          BY <2>2, <2>5, <5>1
        <5> QED BY <2>7, <5>1, <5>2
      <4>2. CASE p # k + 1
        <5>1. p \in 1 .. k
          BY <2>1, <4>2
        <5>2. Offset(ss, p) + j \in 1 .. Len(f) /\ f[Offset(ss, p) + j] = ss[p][j]
          BY <2>8, <5>1
        <5> HIDE DEF f, t, g
        <5>3. Offset(ss, p) + j \in 1 .. Len(g)
          BY <2>2, <2>5, <5>2
        <5> QED BY <2>6, <5>2, <5>3
      <4> QED BY <4>1, <4>2
    <3> QED BY <3>1
  <2>10. Only(k + 1)
    <3>1. ASSUME NEW i \in 1 .. Len(g)
          PROVE  \E p \in 1 .. k + 1 : \E j \in 1 .. Len(ss[p]) : i = Offset(ss, p) + j
      <4>1. CASE i <= Len(f)
        <5>1. i \in 1 .. Len(f)
          BY <2>2, <2>5, <4>1
        <5>2. PICK p \in 1 .. k : \E j \in 1 .. Len(ss[p]) : i = Offset(ss, p) + j
          BY <2>8, <5>1
        <5>3. p \in 1 .. k + 1
          BY <2>1
        <5> QED BY <5>2, <5>3
      <4>2. CASE ~(i <= Len(f))
        <5>1. i - Len(f) \in 1 .. Len(t) /\ i = Len(f) + (i - Len(f))
          <6> HIDE DEF f, t, g
          <6> QED BY <2>2, <2>5, <4>2
        <5>2. k + 1 \in 1 .. k + 1
          BY <2>1
        <5>3. i = Offset(ss, k + 1) + (i - Len(f))
          BY <2>4, <5>1
        <5>4. \E j \in 1 .. Len(ss[k + 1]) : i = Offset(ss, k + 1) + j
          <6> HIDE DEF f
          <6> QED BY <5>1, <5>3
        <5> QED BY <5>2, <5>4
      <4> QED BY <4>1, <4>2
    <3> QED BY <3>1
  <2> HIDE DEF Put, Only
  <2> QED BY <2>1, <2>9, <2>10
<1>8. \A k \in 0 .. n : k \in T
  <2> HIDE DEF T
  <2> QED BY <1>1, <1>6, <1>7, UpToInduction
<1>9. n \in T
  <2> HIDE DEF T
  <2> QED BY <1>1, <1>8
<1>10. Flatten(ss) = F[n]
  BY DEF Flatten, F, n
<1>11. F[n] \in Seq(A)
  BY <1>1, <1>4
<1> QED BY <1>5, <1>9, <1>10, <1>11 DEF n

-----------------------------------------------------------------------------
(* The number of hints.                                                    *)

HintsOf == [Nodes -> Seq(Hint)]

\* The places of the hints are finitely many.
LEMMA PlacesFinite ==
    ASSUME NEW h \in HintsOf
    PROVE  IsFiniteSet(Places(h))
<1> DEFINE f == [n \in Nodes |-> {n} \X DOMAIN h[n]]
<1> DEFINE T == {{n} \X DOMAIN h[n] : n \in Nodes}
<1>1. f \in Surjection(Nodes, T)
  BY DEF Surjection
<1>2. IsFiniteSet(T)
  <2> HIDE DEF f, T
  <2> QED BY <1>1, FS_Surjection, HandoffAssumption
<1>3. ASSUME NEW n \in Nodes PROVE IsFiniteSet({n} \X DOMAIN h[n])
  <2>1. DOMAIN h[n] = 1 .. Len(h[n]) /\ Len(h[n]) \in Nat
    BY DEF HintsOf
  <2>2. IsFiniteSet(1 .. Len(h[n]))
    BY <2>1, FS_Interval
  <2> QED BY <2>1, <2>2, FS_Singleton, FS_Product
<1>4. \A t \in T : IsFiniteSet(t)
  BY <1>3
<1>5. Places(h) = UNION T
  BY DEF Places
<1> HIDE DEF T
<1> QED BY <1>2, <1>4, <1>5, FS_UNION

\* Every place is a node and a position in its hints.
LEMMA PlacesAre ==
    ASSUME NEW h \in HintsOf
    PROVE  /\ \A x \in Places(h) : x[1] \in Nodes /\ x[2] \in 1 .. Len(h[x[1]]) /\ x = << x[1], x[2] >>
           /\ \A n \in Nodes : \A j \in 1 .. Len(h[n]) : << n, j >> \in Places(h)
<1>1. \A n \in Nodes : DOMAIN h[n] = 1 .. Len(h[n]) /\ Len(h[n]) \in Nat
  BY DEF HintsOf
<1> QED BY <1>1 DEF Places

\* The count is a natural number, and monotonic in the lengths.
LEMMA CountMonotonic ==
    ASSUME NEW h \in HintsOf, NEW g \in HintsOf, \A n \in Nodes : Len(g[n]) <= Len(h[n])
    PROVE  HintCount(g) \in Nat /\ HintCount(h) \in Nat /\ HintCount(g) <= HintCount(h)
<1>1. IsFiniteSet(Places(h)) /\ IsFiniteSet(Places(g))
  BY PlacesFinite
<1>2. Places(g) \subseteq Places(h)
  <2>1. ASSUME NEW x \in Places(g) PROVE x \in Places(h)
    <3>1. x[1] \in Nodes /\ x[2] \in 1 .. Len(g[x[1]]) /\ x = << x[1], x[2] >>
      BY PlacesAre
    <3>2. x[2] \in 1 .. Len(h[x[1]])
      <4>1. Len(g[x[1]]) \in Nat /\ Len(h[x[1]]) \in Nat
        BY <3>1 DEF HintsOf
      <4> QED BY <3>1, <4>1
    <3>3. << x[1], x[2] >> \in Places(h)
      BY <3>1, <3>2, PlacesAre
    <3> QED BY <3>1, <3>3
  <2> QED BY <2>1
<1> QED BY <1>1, <1>2, FS_Subset, FS_CardinalityType DEF HintCount

\* Replacing the hints of a node changes the count by the difference.
LEMMA CountExcept ==
    ASSUME NEW h \in HintsOf, NEW n \in Nodes, NEW s \in Seq(Hint)
    PROVE  /\ [h EXCEPT ![n] = s] \in HintsOf
           /\ HintCount([h EXCEPT ![n] = s]) = (HintCount(h) - Len(h[n])) + Len(s)
<1> DEFINE g == [h EXCEPT ![n] = s]
<1> DEFINE R == {x \in Places(h) : x[1] # n}
<1> DEFINE At(L) == {n} \X (1 .. L)
<1>1. g \in HintsOf
  BY DEF HintsOf
<1>2. Len(h[n]) \in Nat /\ Len(s) \in Nat
  BY DEF HintsOf
<1>3. g[n] = s /\ \A m \in Nodes : m # n => g[m] = h[m]
  BY DEF HintsOf
<1> HIDE DEF g
<1>4. Places(h) = R \cup At(Len(h[n]))
  <2>1. ASSUME NEW x \in Places(h) PROVE x \in R \cup At(Len(h[n]))
    <3>1. x[1] \in Nodes /\ x[2] \in 1 .. Len(h[x[1]]) /\ x = << x[1], x[2] >>
      BY PlacesAre
    <3> QED BY <3>1
  <2>2. ASSUME NEW x \in At(Len(h[n])) PROVE x \in Places(h)
    <3>1. x[1] = n /\ x[2] \in 1 .. Len(h[n]) /\ x = << x[1], x[2] >>
      OBVIOUS
    <3> QED BY <3>1, PlacesAre
  <2> HIDE DEF At
  <2> QED BY <2>1, <2>2
<1>5. Places(g) = R \cup At(Len(s))
  <2>1. ASSUME NEW x \in Places(g) PROVE x \in R \cup At(Len(s))
    <3>1. x[1] \in Nodes /\ x[2] \in 1 .. Len(g[x[1]]) /\ x = << x[1], x[2] >>
      BY <1>1, PlacesAre
    <3>2. CASE x[1] = n
      BY <1>3, <3>1, <3>2
    <3>3. CASE x[1] # n
      <4>1. << x[1], x[2] >> \in Places(h)
        BY <1>3, <3>1, <3>3, PlacesAre
      <4> QED BY <3>1, <3>3, <4>1
    <3> QED BY <3>2, <3>3
  <2>2. ASSUME NEW x \in At(Len(s)) PROVE x \in Places(g)
    <3>1. x[1] = n /\ x[2] \in 1 .. Len(g[n]) /\ x = << x[1], x[2] >>
      BY <1>3
    <3> QED BY <1>1, <3>1, PlacesAre
  <2>3. ASSUME NEW x \in R PROVE x \in Places(g)
    <3>1. x[1] \in Nodes /\ x[2] \in 1 .. Len(h[x[1]]) /\ x = << x[1], x[2] >> /\ x[1] # n
      BY PlacesAre
    <3>2. << x[1], x[2] >> \in Places(g)
      BY <1>1, <1>3, <3>1, PlacesAre
    <3> QED BY <3>1, <3>2
  <2> HIDE DEF At, R
  <2> QED BY <2>1, <2>2, <2>3
<1>6. ASSUME NEW L \in Nat
      PROVE  IsFiniteSet(At(L)) /\ Cardinality(At(L)) = L /\ R \cap At(L) = {}
  <2>1. IsFiniteSet(1 .. L) /\ Cardinality(1 .. L) = L
    BY FS_Interval
  <2>2. IsFiniteSet({n}) /\ Cardinality({n}) = 1
    BY FS_Singleton
  <2>3. Cardinality({n}) * Cardinality(1 .. L) = L
    BY <2>1, <2>2
  <2>4. R \cap At(L) = {}
    OBVIOUS
  <2> QED BY <2>1, <2>2, <2>3, <2>4, FS_Product
<1>7. IsFiniteSet(R) /\ Cardinality(R) \in Nat
  BY PlacesFinite, FS_Subset, FS_CardinalityType
<1> HIDE DEF R, At
<1>8. ASSUME NEW L \in Nat PROVE Cardinality(R \cup At(L)) = Cardinality(R) + L
  <2>1. IsFiniteSet(At(L)) /\ Cardinality(At(L)) = L /\ R \cap At(L) = {}
    BY <1>6
  <2>2. Cardinality(R \cup At(L)) = Cardinality(R) + Cardinality(At(L)) - Cardinality(R \cap At(L))
    BY <1>7, <2>1, FS_Union
  <2>3. Cardinality(R \cap At(L)) = 0
    BY <2>1, FS_EmptySet
  <2> QED BY <1>7, <2>1, <2>2, <2>3
<1>9. HintCount(h) = Cardinality(R) + Len(h[n]) /\ HintCount(g) = Cardinality(R) + Len(s)
  BY <1>2, <1>4, <1>5, <1>8 DEF HintCount
<1>10. HintCount(g) = (HintCount(h) - Len(h[n])) + Len(s)
  BY <1>2, <1>7, <1>9
<1> QED BY <1>1, <1>10 DEF g

\* Without hints the count is 0.
LEMMA CountEmpty == [n \in Nodes |-> << >>] \in HintsOf /\ HintCount([n \in Nodes |-> << >>]) = 0
<1> DEFINE h == [n \in Nodes |-> << >>]
<1>1. h \in HintsOf
  BY DEF HintsOf
<1>2. Places(h) = {}
  BY DEF Places
<1> QED BY <1>1, <1>2, FS_EmptySet DEF HintCount

-----------------------------------------------------------------------------
(* The file: what load makes of it, and what a flush writes.               *)

Slots == Slot \cup {Hole}

\* The lines of the file that load keeps for a node, in the order of the file.
MineOf(fl, n, t) == Filter(Indices(Len(fl)), LinesOf(fl, n, t))

\* Each line it keeps is a hint of the node, and it keeps no line twice.
LEMMA MineAre ==
    ASSUME NEW fl \in Seq(Slots), NEW n \in Nodes, NEW t
    PROVE  /\ MineOf(fl, n, t) \in Seq(1 .. Len(fl))
           /\ \A j \in 1 .. Len(MineOf(fl, n, t)) : /\ fl[MineOf(fl, n, t)[j]] \in Slot
                                                    /\ fl[MineOf(fl, n, t)[j]].node = n
                                                    /\ fl[MineOf(fl, n, t)[j]].hint.at > t
           /\ \A j, k \in 1 .. Len(MineOf(fl, n, t)) : MineOf(fl, n, t)[j] = MineOf(fl, n, t)[k] => j = k
<1> DEFINE mine == MineOf(fl, n, t)
<1>1. Len(fl) \in Nat /\ \A i \in 1 .. Len(fl) : fl[i] \in Slots
  OBVIOUS
<1>2. /\ mine \in Seq(1 .. Len(fl))
      /\ \A j \in 1 .. Len(mine) : mine[j] \in LinesOf(fl, n, t)
      /\ \A j, k \in 1 .. Len(mine) : mine[j] = mine[k] => j = k
  BY <1>1, FilterInjective DEF MineOf
<1>3. \A i \in LinesOf(fl, n, t) : fl[i] \in Slot /\ fl[i].node = n /\ fl[i].hint.at > t
  BY <1>1 DEF LinesOf, Slots
<1> HIDE DEF mine
<1>4. \A j \in 1 .. Len(mine) : fl[mine[j]] \in Slot /\ fl[mine[j]].node = n /\ fl[mine[j]].hint.at > t
  BY <1>2, <1>3
<1> QED BY <1>2, <1>4 DEF mine

\* What load makes of a line of Loaded.
LEMMA LoadedIs ==
    ASSUME NEW fl, NEW t
    PROVE  /\ Loaded(fl, t) = [n \in Nodes |-> [j \in DOMAIN MineOf(fl, n, t) |-> fl[MineOf(fl, n, t)[j]].hint]]
BY DEF Loaded, MineOf, Indices

\* Every hint that load gives is that of a line, and not too old.
LEMMA LoadedFrom ==
    ASSUME NEW fl \in Seq(Slots), NEW t, NEW n \in Nodes, NEW j \in DOMAIN Loaded(fl, t)[n]
    PROVE  \E i \in DOMAIN fl : /\ fl[i] # Hole
                               /\ Loaded(fl, t)[n][j] = fl[i].hint
                               /\ fl[i].hint.at > t
<1> DEFINE mine == MineOf(fl, n, t)
<1>1. Loaded(fl, t)[n] = [k \in DOMAIN mine |-> fl[mine[k]].hint]
  BY LoadedIs
<1>2. mine \in Seq(1 .. Len(fl)) /\ \A k \in 1 .. Len(mine) : fl[mine[k]] \in Slot /\ fl[mine[k]].hint.at > t
  BY MineAre
<1> HIDE DEF mine
<1>3. j \in 1 .. Len(mine) /\ Loaded(fl, t)[n][j] = fl[mine[j]].hint
  BY <1>1, <1>2
<1>4. mine[j] \in DOMAIN fl /\ fl[mine[j]] # Hole
  BY <1>2, <1>3, HandoffAssumption
<1> QED BY <1>2, <1>3, <1>4

\* load gives hints, not more of them than the file has lines.
LEMMA LoadedType ==
    ASSUME NEW fl \in Seq(Slots), NEW t
    PROVE  /\ Loaded(fl, t) \in HintsOf
           /\ HintCount(Loaded(fl, t)) \in Nat
           /\ HintCount(Loaded(fl, t)) <= Len(fl)
<1> DEFINE h == Loaded(fl, t)
<1>1. ASSUME NEW n \in Nodes
      PROVE  h[n] \in Seq(Hint) /\ Len(h[n]) = Len(MineOf(fl, n, t)) /\ Len(h[n]) \in Nat
  <2> DEFINE mine == MineOf(fl, n, t)
  <2>1. h[n] = [j \in DOMAIN mine |-> fl[mine[j]].hint]
    BY LoadedIs
  <2>2. mine \in Seq(1 .. Len(fl)) /\ \A j \in 1 .. Len(mine) : fl[mine[j]].hint \in Hint
    <3>1. \A x \in Slot : x.hint \in Hint
      BY DEF Slot
    <3> QED BY <3>1, MineAre
  <2>3. DOMAIN mine = 1 .. Len(mine) /\ Len(mine) \in Nat
    BY <2>2
  <2> HIDE DEF mine, h
  <2>4. h[n] \in [1 .. Len(mine) -> Hint]
    BY <2>1, <2>2, <2>3
  <2>5. h[n] \in Seq(Hint) /\ Len(h[n]) = Len(mine)
    BY <2>3, <2>4
  <2> QED BY <2>3, <2>5 DEF mine
<1>2. h \in HintsOf
  <2>1. h = [n \in Nodes |-> h[n]]
    BY LoadedIs
  <2> HIDE DEF h
  <2> QED BY <1>1, <2>1 DEF HintsOf
<1> HIDE DEF h
<1>3. IsFiniteSet(Places(h)) /\ HintCount(h) \in Nat
  BY <1>2, PlacesFinite, FS_CardinalityType DEF HintCount
<1> DEFINE D == 1 .. Len(fl)
<1> DEFINE f == [x \in Places(h) |-> MineOf(fl, x[1], t)[x[2]]]
<1>4. Len(fl) \in Nat /\ IsFiniteSet(D) /\ Cardinality(D) = Len(fl)
  <2>1. Len(fl) \in Nat
    OBVIOUS
  <2>2. \A m \in Nat : IsFiniteSet(1 .. m) /\ Cardinality(1 .. m) = m
    BY FS_Interval
  <2> QED BY <2>1, <2>2
<1>5. ASSUME NEW x \in Places(h)
      PROVE  /\ x[1] \in Nodes /\ x[2] \in 1 .. Len(MineOf(fl, x[1], t)) /\ x = << x[1], x[2] >>
             /\ MineOf(fl, x[1], t)[x[2]] \in D
             /\ fl[MineOf(fl, x[1], t)[x[2]]].node = x[1]
  <2>1. x[1] \in Nodes /\ x[2] \in 1 .. Len(h[x[1]]) /\ x = << x[1], x[2] >>
    BY <1>2, PlacesAre
  <2>2. x[2] \in 1 .. Len(MineOf(fl, x[1], t))
    BY <1>1, <2>1
  <2>3. MineOf(fl, x[1], t) \in Seq(D) /\ fl[MineOf(fl, x[1], t)[x[2]]].node = x[1]
    BY <2>1, <2>2, MineAre
  <2> HIDE DEF D
  <2>4. MineOf(fl, x[1], t)[x[2]] \in D
    BY <2>2, <2>3
  <2> QED BY <2>1, <2>2, <2>3, <2>4
<1>6. f \in [Places(h) -> D]
  <2> HIDE DEF D
  <2> QED BY <1>5
<1>7. ASSUME NEW x \in Places(h), NEW y \in Places(h), f[x] = f[y] PROVE x = y
  <2>1. x[1] = y[1]
    BY <1>5, <1>7
  <2>2. x[2] = y[2]
    BY <1>5, <1>7, <2>1, MineAre
  <2> QED BY <1>5, <2>1, <2>2
<1>8. f \in Injection(Places(h), D)
  <2> HIDE DEF f, D
  <2> QED BY <1>6, <1>7 DEF Injection, IsInjective
<1>9. Cardinality(Places(h)) <= Cardinality(D)
  <2> HIDE DEF f, D
  <2> QED BY <1>4, <1>8, FS_Injection
<1> QED BY <1>2, <1>3, <1>4, <1>9 DEF HintCount, h

\* The sequences a flush joins, for an order of the nodes.
Blocks(order) == [i \in DOMAIN order |-> Tagged(order[i])]

\* An order has every node once, and its blocks are the hints of the nodes.
LEMMA OrderIs ==
    ASSUME NEW o \in Orders, hints \in HintsOf
    PROVE  /\ \A n \in Nodes : \E p \in 1 .. Len(o) : o[p] = n
           /\ \A p \in 1 .. Len(o) : o[p] \in Nodes
           /\ \A p, q \in 1 .. Len(o) : o[p] = o[q] => p = q
           /\ Blocks(o) \in Seq(Seq(Slot)) /\ Len(Blocks(o)) = Len(o)
           /\ \A p \in 1 .. Len(o) :
                 /\ Len(Blocks(o)[p]) = Len(hints[o[p]])
                 /\ \A j \in 1 .. Len(hints[o[p]]) :
                       Blocks(o)[p][j] = [node |-> o[p], hint |-> hints[o[p]][j]]
<1> DEFINE N == Cardinality(Nodes)
<1> DEFINE D == 1 .. N
<1>1. N \in Nat
  BY FS_CardinalityType, HandoffAssumption
<1>2. o \in [D -> Nodes] /\ \A n \in Nodes : \E p \in D : o[p] = n
  <2>1. o \in [D -> Nodes] /\ SeqToSet(o) = Nodes
    BY DEF Orders
  <2> QED BY <2>1 DEF SeqToSet
<1>3. Len(o) = N /\ DOMAIN o = D
  BY <1>1, <1>2
<1>4. IsFiniteSet(D) /\ Cardinality(D) = N
  <2>1. \A m \in Nat : IsFiniteSet(1 .. m) /\ Cardinality(1 .. m) = m
    BY FS_Interval
  <2> HIDE DEF N
  <2> QED BY <1>1, <2>1
<1>5. o \in Injection(D, Nodes)
  <2>1. o \in Surjection(D, Nodes)
    BY <1>2 DEF Surjection
  <2> HIDE DEF D
  <2> QED BY <1>4, <2>1, FS_SurjSameCardinalityImpliesInj
<1>6. \A p, q \in D : o[p] = o[q] => p = q
  BY <1>2, <1>5 DEF Injection, IsInjective
<1>7. ASSUME NEW p \in D
      PROVE  /\ Blocks(o)[p] \in Seq(Slot)
             /\ Len(Blocks(o)[p]) = Len(hints[o[p]])
             /\ \A j \in 1 .. Len(hints[o[p]]) :
                   Blocks(o)[p][j] = [node |-> o[p], hint |-> hints[o[p]][j]]
  <2> DEFINE n == o[p]
  <2>1. n \in Nodes /\ Blocks(o)[p] = Tagged(n)
    BY <1>2, <1>3 DEF Blocks
  <2> HIDE DEF n
  <2>2. hints[n] \in Seq(Hint)
    BY <2>1 DEF HintsOf
  <2>3. DOMAIN hints[n] = 1 .. Len(hints[n]) /\ Len(hints[n]) \in Nat
        /\ \A j \in 1 .. Len(hints[n]) : hints[n][j] \in Hint
    BY <2>2
  <2>4. Tagged(n) = [j \in 1 .. Len(hints[n]) |-> [node |-> n, hint |-> hints[n][j]]]
    BY <2>3 DEF Tagged
  <2>5. Tagged(n) \in [1 .. Len(hints[n]) -> Slot]
    BY <2>1, <2>3, <2>4 DEF Slot
  <2>6. Tagged(n) \in Seq(Slot) /\ Len(Tagged(n)) = Len(hints[n])
    BY <2>3, <2>5
  <2> QED BY <2>1, <2>4, <2>6 DEF n
<1>8. Blocks(o) \in Seq(Seq(Slot)) /\ Len(Blocks(o)) = N
  <2>1. Blocks(o) = [i \in D |-> Blocks(o)[i]]
    BY <1>3 DEF Blocks
  <2>2. Blocks(o) \in [D -> Seq(Slot)]
    <3> HIDE DEF D
    <3> QED BY <1>7, <2>1
  <2> QED BY <1>1, <2>2
<1> QED BY <1>2, <1>3, <1>6, <1>7, <1>8

\* What a flush writes: one line for each hint, each with its node.
LEMMA ContentsType ==
    ASSUME NEW o \in Orders, hints \in HintsOf
    PROVE  Contents(o) \in Seq(Slot) /\ Len(Contents(o)) <= HintCount(hints)
<1> DEFINE ss == Blocks(o)
<1> DEFINE fl == Contents(o)
<1>1. fl = Flatten(ss)
  BY DEF Contents, Blocks
<1>2. ss \in Seq(Seq(Slot)) /\ Len(ss) = Len(o)
  BY OrderIs
<1> HIDE DEF ss, fl
<1>3. fl \in Seq(Slot) /\ Len(fl) \in Nat
  BY <1>1, <1>2, FlattenBlocks
<1> DEFINE At(i, x) == \E p \in 1 .. Len(o) : x[1] = o[p] /\ i = Offset(ss, p) + x[2]
<1> DEFINE D == 1 .. Len(fl)
<1> DEFINE f == [i \in D |-> CHOOSE x \in Places(hints) : At(i, x)]
<1>4. ASSUME NEW i \in D PROVE \E x \in Places(hints) : At(i, x)
  <2>1. PICK p \in 1 .. Len(ss) : \E j \in 1 .. Len(ss[p]) : i = Offset(ss, p) + j
    BY <1>1, <1>2, FlattenBlocks
  <2>2. PICK j \in 1 .. Len(ss[p]) : i = Offset(ss, p) + j
    BY <2>1
  <2>3. p \in 1 .. Len(o) /\ o[p] \in Nodes /\ j \in 1 .. Len(hints[o[p]])
    BY <1>2, OrderIs DEF ss
  <2>4. << o[p], j >> \in Places(hints)
    BY <2>3, PlacesAre
  <2>5. At(i, << o[p], j >>)
    BY <2>2, <2>3
  <2> HIDE DEF At
  <2> QED BY <2>4, <2>5
<1>5. ASSUME NEW i \in D PROVE f[i] \in Places(hints) /\ At(i, f[i])
  <2> HIDE DEF At
  <2>1. f[i] = CHOOSE x \in Places(hints) : At(i, x)
    OBVIOUS
  <2> HIDE DEF f
  <2> QED BY <1>4, <2>1
<1>6. ASSUME NEW i \in D, NEW k \in D, f[i] = f[k] PROVE i = k
  <2> DEFINE x == f[i]
  <2>1. At(i, x) /\ At(k, x)
    <3> HIDE DEF At, f
    <3> QED BY <1>5, <1>6
  <2> HIDE DEF x
  <2>2. PICK p \in 1 .. Len(o) : x[1] = o[p] /\ i = Offset(ss, p) + x[2]
    BY <2>1
  <2>3. PICK q \in 1 .. Len(o) : x[1] = o[q] /\ k = Offset(ss, q) + x[2]
    BY <2>1
  <2>4. \A a, b \in 1 .. Len(o) : o[a] = o[b] => a = b
    BY OrderIs
  <2>5. p = q
    BY <2>2, <2>3, <2>4
  <2> QED BY <2>2, <2>3, <2>5
<1>7. f \in Injection(D, Places(hints))
  <2> HIDE DEF D, At
  <2>1. f = [i \in D |-> f[i]]
    OBVIOUS
  <2> HIDE DEF f
  <2>2. f \in [D -> Places(hints)]
    BY <1>5, <2>1
  <2> QED BY <1>6, <2>2 DEF Injection, IsInjective
<1>8. Cardinality(D) <= HintCount(hints)
  <2> HIDE DEF f, D
  <2> QED BY <1>7, PlacesFinite, FS_Injection DEF HintCount
<1>9. Cardinality(D) = Len(fl)
  <2>1. \A m \in Nat : IsFiniteSet(1 .. m) /\ Cardinality(1 .. m) = m
    BY FS_Interval
  <2> QED BY <1>3, <2>1
<1> QED BY <1>3, <1>8, <1>9 DEF fl

\* Every line a flush writes is a hint of the store.
LEMMA ContentsFrom ==
    ASSUME NEW o \in Orders, hints \in HintsOf, NEW i \in 1 .. Len(Contents(o))
    PROVE  \E n \in Nodes : \E j \in DOMAIN hints[n] : Contents(o)[i] = [node |-> n, hint |-> hints[n][j]]
<1> DEFINE ss == Blocks(o)
<1> DEFINE fl == Contents(o)
<1>1. fl = Flatten(ss)
  BY DEF Contents, Blocks
<1>2. ss \in Seq(Seq(Slot)) /\ Len(ss) = Len(o)
  BY OrderIs
<1>3. \A p \in 1 .. Len(o) : /\ o[p] \in Nodes
                             /\ Len(ss[p]) = Len(hints[o[p]])
                             /\ \A j \in 1 .. Len(hints[o[p]]) :
                                   ss[p][j] = [node |-> o[p], hint |-> hints[o[p]][j]]
  BY OrderIs
<1> HIDE DEF ss, fl
<1>4. i \in 1 .. Len(fl)
  BY DEF fl
<1>5. PICK p \in 1 .. Len(ss) : \E j \in 1 .. Len(ss[p]) : i = Offset(ss, p) + j
  BY <1>1, <1>2, <1>4, FlattenBlocks
<1>6. PICK j \in 1 .. Len(ss[p]) : i = Offset(ss, p) + j
  BY <1>5
<1>7. fl[i] = ss[p][j]
  BY <1>1, <1>2, <1>6, FlattenBlocks
<1>8. o[p] \in Nodes /\ j \in 1 .. Len(hints[o[p]]) /\ fl[i] = [node |-> o[p], hint |-> hints[o[p]][j]]
  BY <1>2, <1>3, <1>7
<1>9. hints[o[p]] \in Seq(Hint)
  BY <1>8 DEF HintsOf
<1>10. j \in DOMAIN hints[o[p]]
  BY <1>8, <1>9
<1> QED BY <1>8, <1>10 DEF fl

\* load reads back what a flush has written to the end.
LEMMA LoadedContents ==
    ASSUME NEW o \in Orders, hints \in HintsOf, NEW t,
           \A n \in Nodes : \A i \in 1 .. Len(hints[n]) : hints[n][i].at > t
    PROVE  Loaded(Contents(o), t) = hints
<1> DEFINE ss == Blocks(o)
<1> DEFINE fl == Contents(o)
<1>1. fl = Flatten(ss)
  BY DEF Contents, Blocks
<1>2. ss \in Seq(Seq(Slot)) /\ Len(ss) = Len(o)
  BY OrderIs
<1>3. \A p, q \in 1 .. Len(o) : o[p] = o[q] => p = q
  BY OrderIs
<1>4. \A p \in 1 .. Len(o) : /\ Len(ss[p]) = Len(hints[o[p]])
                             /\ \A j \in 1 .. Len(hints[o[p]]) :
                                   ss[p][j] = [node |-> o[p], hint |-> hints[o[p]][j]]
  BY OrderIs
<1> HIDE DEF ss, fl
<1>5. fl \in Seq(Slot) /\ Len(fl) \in Nat /\ \A i \in 1 .. Len(fl) : fl[i] \in Slot /\ fl[i] # Hole
  <2>1. fl \in Seq(Slot)
    BY <1>1, <1>2, FlattenBlocks
  <2> QED BY <2>1, HandoffAssumption
<1>6. ASSUME NEW p \in 1 .. Len(o), NEW j \in 1 .. Len(hints[o[p]])
      PROVE  /\ Offset(ss, p) \in Nat /\ Offset(ss, p) + j \in 1 .. Len(fl)
             /\ fl[Offset(ss, p) + j] = [node |-> o[p], hint |-> hints[o[p]][j]]
  <2>1. p \in 1 .. Len(ss) /\ j \in 1 .. Len(ss[p])
    BY <1>2, <1>4
  <2>2. Offset(ss, p) \in Nat /\ Offset(ss, p) + j \in 1 .. Len(fl) /\ fl[Offset(ss, p) + j] = ss[p][j]
    BY <1>1, <1>2, <2>1, FlattenBlocks
  <2> QED BY <1>4, <2>2
<1>7. ASSUME NEW i \in 1 .. Len(fl)
      PROVE  \E p \in 1 .. Len(o) : \E j \in 1 .. Len(hints[o[p]]) : i = Offset(ss, p) + j
  <2>1. PICK p \in 1 .. Len(ss) : \E j \in 1 .. Len(ss[p]) : i = Offset(ss, p) + j
    BY <1>1, <1>2, FlattenBlocks
  <2> QED BY <1>2, <1>4, <2>1
<1>7a. ASSUME NEW i \in 1 .. Len(fl) PROVE fl[i].hint.at > t
  <2>1. PICK p \in 1 .. Len(o) : \E j \in 1 .. Len(hints[o[p]]) : i = Offset(ss, p) + j
    BY <1>7
  <2>2. PICK j \in 1 .. Len(hints[o[p]]) : i = Offset(ss, p) + j
    BY <2>1
  <2>3. fl[i] = [node |-> o[p], hint |-> hints[o[p]][j]] /\ o[p] \in Nodes
    BY <1>6, <2>2, OrderIs
  <2> QED BY <2>3
<1>8. ASSUME NEW n \in Nodes PROVE Loaded(fl, t)[n] = hints[n]
  <2> DEFINE L == Len(hints[n])
  <2> DEFINE mine == MineOf(fl, n, t)
  <2>1. PICK p \in 1 .. Len(o) : o[p] = n
    BY OrderIs
  <2> DEFINE a == IF L = 0 THEN 0 ELSE Offset(ss, p)
  <2>2. hints[n] \in Seq(Hint) /\ L \in Nat
    BY DEF HintsOf
  <2>3. a \in Nat /\ a + L <= Len(fl)
    <3>1. CASE L = 0
      BY <1>5, <3>1
    <3>2. CASE L # 0
      <4>1. L \in 1 .. Len(hints[o[p]])
        BY <2>1, <2>2, <3>2
      <4>2. Offset(ss, p) \in Nat /\ Offset(ss, p) + L \in 1 .. Len(fl)
        <5> HIDE DEF L
        <5> QED BY <1>6, <4>1
      <4> HIDE DEF L
      <4> QED BY <1>5, <2>2, <3>2, <4>2
    <3> QED BY <3>1, <3>2
  <2>4. ASSUME NEW j \in 1 .. L
        PROVE  a + j \in 1 .. Len(fl) /\ fl[a + j] = [node |-> n, hint |-> hints[n][j]]
    <3>1. L # 0 /\ a = Offset(ss, p) /\ j \in 1 .. Len(hints[o[p]])
      BY <2>1, <2>2
    <3> HIDE DEF a
    <3> QED BY <1>6, <2>1, <3>1
  <2>5. ASSUME NEW i \in 1 .. Len(fl)
        PROVE  i \in LinesOf(fl, n, t) <=> a < i /\ i <= a + L
    <3>1. i \in LinesOf(fl, n, t) <=> fl[i].node = n
      <4>1. i > 1 => fl[i - 1] # Hole
        <5>1. i > 1 => i - 1 \in 1 .. Len(fl)
          BY <1>5
        <5> QED BY <1>5, <5>1
      <4> QED BY <1>5, <1>7a, <4>1 DEF LinesOf
    <3>2. ASSUME a < i, i <= a + L PROVE fl[i].node = n
      <4>1. i - a \in 1 .. L /\ i = a + (i - a)
        <5> HIDE DEF a, L
        <5> QED BY <2>2, <2>3, <3>2
      <4> HIDE DEF a, L
      <4>2. fl[i] = [node |-> n, hint |-> hints[n][i - a]]
        BY <2>4, <4>1
      <4> QED BY <4>2
    <3>3. ASSUME fl[i].node = n PROVE a < i /\ i <= a + L
      <4>1. PICK q \in 1 .. Len(o) : \E j \in 1 .. Len(hints[o[q]]) : i = Offset(ss, q) + j
        BY <1>7
      <4>2. PICK j \in 1 .. Len(hints[o[q]]) : i = Offset(ss, q) + j
        BY <4>1
      <4>3. fl[i] = [node |-> o[q], hint |-> hints[o[q]][j]]
        BY <1>6, <4>2
      <4>4. o[q] = n
        BY <3>3, <4>3
      <4>5. q = p
        BY <1>3, <2>1, <4>4
      <4>6. j \in 1 .. L /\ a = Offset(ss, p)
        BY <2>1, <2>2, <4>4
      <4> HIDE DEF a, L
      <4> QED BY <2>2, <2>3, <4>2, <4>5, <4>6
    <3> HIDE DEF a, L
    <3> QED BY <3>1, <3>2, <3>3
  <2>6. mine = [j \in 1 .. L |-> a + j]
    <3>1. a + L \in Nat /\ a <= a + L /\ (a + L) - a = L
      <4> HIDE DEF a, L
      <4> QED BY <2>2, <2>3
    <3>2. \A i \in 1 .. Len(fl) : i \in LinesOf(fl, n, t) <=> a < i /\ i <= a + L
      <4> HIDE DEF a, L
      <4> QED BY <2>5
    <3>3. Filter(Indices(Len(fl)), LinesOf(fl, n, t)) = [j \in 1 .. (a + L) - a |-> a + j]
      <4> DEFINE b == a + L
      <4>1. b \in Nat /\ a <= b /\ b <= Len(fl) /\ IsInterval(LinesOf(fl, n, t), Len(fl), a, b)
        <5> HIDE DEF a, L
        <5> QED BY <2>3, <3>1, <3>2 DEF IsInterval
      <4> HIDE DEF a, L, b
      <4>2. Filter(Indices(Len(fl)), LinesOf(fl, n, t)) = [j \in 1 .. b - a |-> a + j]
        BY <1>5, <2>3, <4>1, FilterInterval
      <4> QED BY <4>2 DEF b
    <3> HIDE DEF a, L
    <3> QED BY <3>1, <3>3 DEF MineOf
  <2>7. Loaded(fl, t)[n] = [j \in DOMAIN mine |-> fl[mine[j]].hint]
    BY LoadedIs
  <2> HIDE DEF mine, a, L
  <2>8. Loaded(fl, t)[n] = [j \in 1 .. L |-> fl[a + j].hint]
    BY <2>6, <2>7
  <2>9. ASSUME NEW j \in 1 .. L PROVE fl[a + j].hint = hints[n][j]
    <3>1. fl[a + j] = [node |-> n, hint |-> hints[n][j]]
      BY <2>4
    <3> QED BY <3>1
  <2>10. hints[n] = [j \in 1 .. L |-> hints[n][j]]
    BY <2>2 DEF L
  <2> QED BY <2>8, <2>9, <2>10
<1>9. Loaded(fl, t) = [n \in Nodes |-> Loaded(fl, t)[n]] /\ hints = [n \in Nodes |-> hints[n]]
  BY LoadedIs DEF HintsOf
<1>10. Loaded(fl, t) = hints
  BY <1>8, <1>9
<1> QED BY <1>10 DEF fl
=============================================================================
