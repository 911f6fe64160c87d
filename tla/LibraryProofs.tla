---------------------------- MODULE LibraryProofs ----------------------------
(***************************************************************************)
(* Proofs about data structures of the library. The ring: the owners of a  *)
(* key are the nearest nodes, for any number of nodes, virtual nodes and   *)
(* replicas and any hash function without collisions, and a change of the  *)
(* ring moves no key between two nodes that stay. The pages of a scan: for *)
(* any keys and limit they leave nothing out. The graph cache: its LRU     *)
(* list and its edge lists agree, whatever methods are called.             *)
(***************************************************************************)
EXTENDS Ring, Pages, GraphCache, Integers, FiniteSetTheorems, SequenceTheorems, WellFoundedInduction, TLAPS

-----------------------------------------------------------------------------
(* The k-th of a finite set of numbers.                                    *)

LEMMA LeastExists ==
    ASSUME NEW S \in SUBSET Nat, S # {}
    PROVE  \E x \in S : \A y \in S : x <= y
<1> DEFINE R == OpToRel(<, Nat)
<1>1. IsWellFoundedOn(R, Nat)
  BY NatLessThanWellFounded
<1>2. PICK x \in S : \A y \in S : ~ (<<y, x>> \in R)
  <2> HIDE DEF R
  <2> QED BY <1>1, WFMin
<1>3. ASSUME NEW y \in S PROVE x <= y
  <2>1. x \in Nat /\ y \in Nat
    OBVIOUS
  <2>2. ~(y < x)
    BY <1>2, <2>1 DEF OpToRel
  <2> QED BY <2>1, <2>2
<1> QED BY <1>3

Rank(K, x) == Cardinality({j \in K : j < x})

LEMMA RankGrows ==
    ASSUME NEW K \in SUBSET Nat, IsFiniteSet(K), NEW x \in K, NEW y \in K, x < y
    PROVE  Rank(K, x) < Rank(K, y)
<1> DEFINE X == {j \in K : j < x}
<1> DEFINE Y == {j \in K : j < y}
<1>0. x \in Nat /\ y \in Nat /\ \A j \in K : j \in Nat
  OBVIOUS
<1>1. X \subseteq Y /\ x \in Y /\ x \notin X /\ Y \subseteq K
  <2>1. ASSUME NEW j \in K, j < x PROVE j < y
    <3>1. j \in Nat
      BY <1>0
    <3> QED BY <1>0, <2>1, <3>1
  <2>2. ~(x < x)
    BY <1>0
  <2> QED BY <2>1, <2>2
<1>2. IsFiniteSet(Y)
  BY <1>1, FS_Subset
<1>3. Cardinality(X) \in Nat /\ Cardinality(Y) \in Nat /\ Cardinality(X) < Cardinality(Y)
  <2> HIDE DEF X, Y
  <2>1. IsFiniteSet(X) /\ Cardinality(X) <= Cardinality(Y) /\ (Cardinality(X) = Cardinality(Y) => X = Y)
    BY <1>1, <1>2, FS_Subset
  <2> QED BY <1>1, <1>2, <2>1, FS_CardinalityType
<1> QED BY <1>3 DEF Rank

LEMMA RankType ==
    ASSUME NEW K \in SUBSET Nat, IsFiniteSet(K), NEW x \in K
    PROVE  Rank(K, x) \in Nat /\ Rank(K, x) < Cardinality(K)
<1> DEFINE X == {j \in K : j < x}
<1>1. X \subseteq K /\ X # K
  OBVIOUS
<1> HIDE DEF X
<1>2. IsFiniteSet(X) /\ Cardinality(X) <= Cardinality(K) /\ (Cardinality(X) = Cardinality(K) => X = K)
  BY <1>1, FS_Subset
<1>3. Cardinality(X) \in Nat /\ Cardinality(K) \in Nat
  BY <1>2, FS_CardinalityType
<1> QED BY <1>1, <1>2, <1>3 DEF Rank, X

\* Nth counts a set through, from the smallest.
LEMMA NthCounts ==
    ASSUME NEW K \in SUBSET Nat, IsFiniteSet(K)
    PROVE  /\ Cardinality(K) \in Nat
           /\ \A k \in 1 .. Cardinality(K) : Nth(K, k) \in K
           /\ \A k, l \in 1 .. Cardinality(K) : k < l <=> Nth(K, k) < Nth(K, l)
           /\ \A x \in K : \E k \in 1 .. Cardinality(K) : Nth(K, k) = x
<1> DEFINE c == Cardinality(K)
<1> DEFINE f == [x \in K |-> Rank(K, x)]
<1>1. c \in Nat
  BY FS_CardinalityType
<1>2. \A x \in K : Rank(K, x) \in 0 .. c - 1
  BY <1>1, RankType
<1>3. \A x, y \in K : x < y => Rank(K, x) < Rank(K, y)
  BY RankGrows
<1>4. \A x, y \in K : Rank(K, x) = Rank(K, y) => x = y
  <2>1. \A x, y \in K : x \in Nat /\ y \in Nat
    OBVIOUS
  <2> QED BY <1>2, <1>3, <2>1
<1>5. f \in Injection(K, 0 .. c - 1)
  BY <1>2, <1>4 DEF Injection, IsInjective
<1>6. IsFiniteSet(0 .. c - 1) /\ Cardinality(0 .. c - 1) = c
  <2>1. 0 \in Int /\ c - 1 \in Int
    BY <1>1
  <2>2. /\ IsFiniteSet(0 .. c - 1)
        /\ Cardinality(0 .. c - 1) = IF 0 > c - 1 THEN 0 ELSE (c - 1) - 0 + 1
    <3> HIDE DEF c
    <3> QED BY <2>1, FS_Interval
  <2> QED BY <1>1, <2>2
<1>7. f \in Surjection(K, 0 .. c - 1)
  <2>1. PICK T : T = 0 .. c - 1
    OBVIOUS
  <2>2. f \in Injection(K, T) /\ IsFiniteSet(T) /\ Cardinality(K) = Cardinality(T)
    BY <1>5, <1>6, <2>1
  <2> HIDE DEF f
  <2>3. f \in Surjection(K, T)
    BY <2>2, FS_Injection
  <2> QED BY <2>1, <2>3
<1>8. \A r \in 0 .. c - 1 : \E x \in K : Rank(K, x) = r
  BY <1>7 DEF Surjection
<1>9. ASSUME NEW k \in 1 .. c PROVE Nth(K, k) \in K /\ Rank(K, Nth(K, k)) = k - 1
  <2>1. k - 1 \in 0 .. c - 1
    BY <1>1
  <2>2. \E x \in K : Cardinality({j \in K : j < x}) = k - 1
    BY <1>8, <2>1 DEF Rank
  <2> QED BY <2>2 DEF Nth, Rank
<1>10. ASSUME NEW k \in 1 .. c, NEW l \in 1 .. c PROVE k < l <=> Nth(K, k) < Nth(K, l)
  <2>1. PICK x \in K, y \in K : x = Nth(K, k) /\ y = Nth(K, l)
    BY <1>9
  <2>2. Rank(K, x) = k - 1 /\ Rank(K, y) = l - 1
    BY <1>9, <2>1
  <2>3. x \in Nat /\ y \in Nat /\ k \in Nat /\ l \in Nat
    BY <1>1
  <2>4. (x < y => k < l) /\ (y < x => l < k) /\ (x = y => k = l)
    BY <1>3, <2>2, <2>3
  <2> QED BY <2>1, <2>3, <2>4
<1>11. ASSUME NEW x \in K PROVE \E k \in 1 .. c : Nth(K, k) = x
  <2>1. PICK k : k = Rank(K, x) + 1
    OBVIOUS
  <2>2. k \in 1 .. c /\ Rank(K, x) = k - 1
    BY <1>1, <1>2, <2>1
  <2>3. Nth(K, k) = x
    BY <1>4, <1>9, <2>2
  <2> QED BY <2>2, <2>3
<1> HIDE DEF c
<1> QED BY <1>1, <1>9, <1>10, <1>11 DEF c

-----------------------------------------------------------------------------
(* The ring is sorted and holds the virtual nodes of its nodes.            *)

VNode == [hash : Hashes, node : RingNodes]

Sorted(s) == \A i, j \in DOMAIN s : i < j => s[i].hash < s[j].hash

\* Every node has virtual nodes, and no two have one at the same place.
Placement(H) ==
    /\ H \in [RingNodes -> SUBSET Hashes]
    /\ \A n \in RingNodes : H[n] # {}
    /\ \A m, n \in RingNodes : m # n => H[m] \cap H[n] = {}

\* s is the sorted list of the virtual nodes of the nodes N.
ListOf(H, N, s) ==
    /\ s \in Seq(VNode)
    /\ Sorted(s)
    /\ \A v \in VNode : (\E i \in DOMAIN s : s[i] = v) <=> v.node \in N /\ v.hash \in H[v.node]

RInv ==
    /\ Placement(hash)
    /\ nodes \subseteq RingNodes
    /\ ListOf(hash, nodes, virtualNodes)

LEMMA HashesFinite == Hashes \subseteq Nat /\ \A K \in SUBSET Hashes : IsFiniteSet(K)
<1>1. HashSpace \in Nat /\ 0 \in Int /\ HashSpace - 1 \in Int
  BY RingAssumption
<1>2. IsFiniteSet(0 .. HashSpace - 1)
  BY <1>1, FS_Interval
<1>3. Hashes \subseteq Nat
  BY <1>1 DEF Hashes
<1> QED BY <1>2, <1>3, FS_Subset DEF Hashes

\* Sorting virtual nodes by hash.
LEMMA ByHashLists ==
    ASSUME NEW H, Placement(H), NEW N \in SUBSET RingNodes, NEW S \in SUBSET VNode,
           \A v \in VNode : v \in S <=> v.node \in N /\ v.hash \in H[v.node]
    PROVE  ListOf(H, N, ByHash(S))
<1> DEFINE K == {v.hash : v \in S}
<1> DEFINE c == Cardinality(K)
<1> DEFINE s == ByHash(S)
<1>1. \A v \in S : v.hash \in Hashes /\ v.node \in RingNodes /\ v.node \in N /\ v.hash \in H[v.node]
  BY DEF VNode
<1>2. \A v, w \in S : v.hash = w.hash => v = w
  <2>1. ASSUME NEW v \in S, NEW w \in S, v.hash = w.hash PROVE v = w
    <3>1. v.node = w.node
      BY <1>1, <2>1 DEF Placement
    <3> QED BY <2>1, <3>1 DEF VNode
  <2> QED BY <2>1
<1>3. K \subseteq Hashes /\ K \in SUBSET Nat /\ IsFiniteSet(K)
  <2>1. K \subseteq Hashes
    BY <1>1
  <2> HIDE DEF K
  <2> QED BY <2>1, HashesFinite
<1>4. /\ c \in Nat
      /\ \A k \in 1 .. c : Nth(K, k) \in K
      /\ \A k, l \in 1 .. c : k < l <=> Nth(K, k) < Nth(K, l)
      /\ \A x \in K : \E k \in 1 .. c : Nth(K, k) = x
  <2> HIDE DEF K
  <2> QED BY <1>3, NthCounts
<1>5. s = [k \in 1 .. c |-> CHOOSE v \in S : v.hash = Nth(K, k)]
  BY DEF ByHash
<1>6. ASSUME NEW k \in 1 .. c PROVE s[k] \in S /\ s[k].hash = Nth(K, k)
  <2>1. \E v \in S : v.hash = Nth(K, k)
    BY <1>4
  <2>2. s[k] = CHOOSE v \in S : v.hash = Nth(K, k)
    <3> HIDE DEF K, c, s
    <3> QED BY <1>5
  <2> HIDE DEF K, c, s
  <2> QED BY <2>1, <2>2
<1>7. DOMAIN s = 1 .. c
  <2> HIDE DEF K, c, s
  <2> QED BY <1>5
<1>8. s \in Seq(VNode)
  <2>1. \A k \in 1 .. c : s[k] \in VNode
    BY <1>6
  <2>2. s \in [1 .. c -> VNode]
    <3> HIDE DEF K, c, s
    <3> QED BY <1>5, <1>7, <2>1
  <2> HIDE DEF K, c, s
  <2> QED BY <1>4, <2>2
<1>9. Sorted(s)
  <2> HIDE DEF K, c, s
  <2> QED BY <1>4, <1>6, <1>7 DEF Sorted
<1>10. ASSUME NEW v \in S PROVE \E i \in DOMAIN s : s[i] = v
  <2>1. v.hash \in K
    OBVIOUS
  <2>2. PICK k \in 1 .. c : Nth(K, k) = v.hash
    BY <1>4, <2>1
  <2>3. s[k] = v
    BY <1>2, <1>6, <2>2
  <2> QED BY <1>7, <2>2, <2>3
<1> HIDE DEF s, c, K
<1>11. \A v \in VNode : (\E i \in DOMAIN s : s[i] = v) <=> v \in S
  BY <1>6, <1>7, <1>10
<1> QED BY <1>8, <1>9, <1>11 DEF ListOf, s

\* Leaving the virtual nodes of a node out.
LEMMA RemovalLists ==
    ASSUME NEW H, NEW N \in SUBSET RingNodes, NEW s, ListOf(H, N, s), NEW n \in RingNodes,
           NEW K, K = {i \in DOMAIN s : s[i].node # n}
    PROVE  ListOf(H, N \ {n}, [k \in 1 .. Cardinality(K) |-> s[Nth(K, k)]])
<1> DEFINE c == Cardinality(K)
<1> DEFINE t == [k \in 1 .. c |-> s[Nth(K, k)]]
<1>1. /\ s \in Seq(VNode) /\ Sorted(s)
      /\ \A v \in VNode : (\E i \in DOMAIN s : s[i] = v) <=> v.node \in N /\ v.hash \in H[v.node]
  BY DEF ListOf
<1>2. DOMAIN s = 1 .. Len(s) /\ Len(s) \in Nat /\ \A i \in DOMAIN s : s[i] \in VNode
  BY <1>1
<1>3. K \in SUBSET Nat /\ IsFiniteSet(K)
  <2>1. K \subseteq 1 .. Len(s)
    BY <1>2
  <2>2. IsFiniteSet(1 .. Len(s))
    <3>1. 1 \in Int /\ Len(s) \in Int
      BY <1>2
    <3> QED BY <3>1, FS_Interval
  <2>3. IsFiniteSet(K)
    BY <2>1, <2>2, FS_Subset
  <2> QED BY <1>2, <2>1, <2>3
<1>4. /\ c \in Nat
      /\ \A k \in 1 .. c : Nth(K, k) \in K
      /\ \A k, l \in 1 .. c : k < l <=> Nth(K, k) < Nth(K, l)
      /\ \A x \in K : \E k \in 1 .. c : Nth(K, k) = x
  BY <1>3, NthCounts
<1> HIDE DEF c
<1>5. t \in Seq(VNode)
  <2>1. \A k \in 1 .. c : s[Nth(K, k)] \in VNode
    BY <1>2, <1>4
  <2>2. t \in [1 .. c -> VNode]
    BY <2>1
  <2> HIDE DEF t
  <2> QED BY <1>4, <2>2
<1>6. Sorted(t)
  <2>1. ASSUME NEW k \in 1 .. c, NEW l \in 1 .. c, k < l PROVE t[k].hash < t[l].hash
    <3>1. Nth(K, k) \in DOMAIN s /\ Nth(K, l) \in DOMAIN s /\ Nth(K, k) < Nth(K, l)
      BY <1>4, <2>1
    <3> QED BY <1>1, <3>1 DEF Sorted
  <2> QED BY <2>1 DEF Sorted
<1>7. ASSUME NEW v \in VNode
      PROVE  (\E k \in DOMAIN t : t[k] = v) <=> v.node \in N \ {n} /\ v.hash \in H[v.node]
  <2>1. ASSUME NEW k \in DOMAIN t, t[k] = v PROVE v.node \in N \ {n} /\ v.hash \in H[v.node]
    <3>1. k \in 1 .. c /\ Nth(K, k) \in K /\ s[Nth(K, k)] = v
      BY <1>4, <2>1
    <3> QED BY <1>1, <3>1
  <2>2. ASSUME v.node \in N \ {n}, v.hash \in H[v.node] PROVE \E k \in DOMAIN t : t[k] = v
    <3>1. PICK i \in DOMAIN s : s[i] = v
      BY <1>1, <2>2
    <3>2. i \in K
      BY <2>2, <3>1
    <3>3. PICK k \in 1 .. c : Nth(K, k) = i
      BY <1>4, <3>2
    <3>4. t[k] = v
      BY <3>1, <3>3
    <3> QED BY <3>3, <3>4
  <2> QED BY <2>1, <2>2
<1> HIDE DEF t
<1> QED BY <1>5, <1>6, <1>7 DEF ListOf, t, c

LEMMA RingStarts == RingInit => RInv
<1> SUFFICES ASSUME RingInit PROVE RInv
  OBVIOUS
<1>1. VirtualNodesPerNode \in Nat \ {0}
  BY RingAssumption
<1>2. /\ hash \in [RingNodes -> kSubset(VirtualNodesPerNode, Hashes)]
      /\ \A m, n \in RingNodes : m # n => hash[m] \cap hash[n] = {}
      /\ virtualNodes = << >> /\ nodes = {}
  BY DEF RingInit
<1>3. ASSUME NEW n \in RingNodes PROVE hash[n] \subseteq Hashes /\ hash[n] # {}
  <2>1. hash[n] \in SUBSET Hashes /\ Cardinality(hash[n]) = VirtualNodesPerNode
    BY <1>2 DEF kSubset
  <2>2. Cardinality({}) = 0
    BY FS_EmptySet
  <2> QED BY <1>1, <2>1, <2>2
<1>4. Placement(hash)
  BY <1>2, <1>3 DEF Placement
<1>5. ListOf(hash, nodes, virtualNodes)
  <2>1. << >> \in Seq(VNode) /\ DOMAIN << >> = {}
    OBVIOUS
  <2> QED BY <1>2, <2>1 DEF ListOf, Sorted
<1> QED BY <1>2, <1>4, <1>5 DEF RInv

LEMMA RingKeeps == RInv /\ [RingNext]_ringVars => RInv' /\ hash' = hash
<1> SUFFICES ASSUME RInv, [RingNext]_ringVars PROVE RInv' /\ hash' = hash
  OBVIOUS
<1>1. hash' = hash
  BY DEF RingNext, AddNode, RemoveNode, Rebalance, ringVars
<1>2. Placement(hash) /\ nodes \subseteq RingNodes /\ ListOf(hash, nodes, virtualNodes)
  BY DEF RInv
<1>3. SUFFICES nodes' \subseteq RingNodes /\ ListOf(hash, nodes', virtualNodes')
  BY <1>1, <1>2 DEF RInv, Placement, ListOf, Sorted, VNode, Hashes
<1>4. ASSUME NEW n \in RingNodes PROVE VirtualNodesOf(n) = {v \in VNode : v.node = n /\ v.hash \in hash[n]}
  <2>1. hash[n] \subseteq Hashes
    BY <1>2 DEF Placement
  <2>2. ASSUME NEW h \in hash[n] PROVE [hash |-> h, node |-> n] \in VNode
    BY <2>1 DEF VNode
  <2>3. ASSUME NEW v \in VNode, v.node = n, v.hash \in hash[n] PROVE v \in VirtualNodesOf(n)
    <3>1. v = [hash |-> v.hash, node |-> n]
      BY <2>3 DEF VNode
    <3> QED BY <2>3, <3>1 DEF VirtualNodesOf
  <2> QED BY <2>2, <2>3 DEF VirtualNodesOf
<1>5. CASE UNCHANGED ringVars
  BY <1>2, <1>5 DEF ringVars
<1>6. ASSUME NEW n \in RingNodes, AddNode(n)
      PROVE  nodes' \subseteq RingNodes /\ ListOf(hash, nodes', virtualNodes')
  <2> DEFINE S == ToSet(virtualNodes) \cup VirtualNodesOf(n)
  <2>1. nodes' = nodes \cup {n} /\ virtualNodes' = ByHash(S)
    BY <1>6 DEF AddNode
  <2>2. ToSet(virtualNodes) \subseteq VNode
    BY <1>2 DEF ToSet, ListOf
  <2>3. S \subseteq VNode
    BY <1>4, <2>2
  <2>4. ASSUME NEW v \in VNode PROVE v \in S <=> v.node \in nodes \cup {n} /\ v.hash \in hash[v.node]
    <3>1. v \in ToSet(virtualNodes) <=> v.node \in nodes /\ v.hash \in hash[v.node]
      BY <1>2 DEF ListOf, ToSet
    <3>2. v \in VirtualNodesOf(n) <=> v.node = n /\ v.hash \in hash[n]
      BY <1>4
    <3> QED BY <3>1, <3>2
  <2>5. nodes \cup {n} \in SUBSET RingNodes
    BY <1>2
  <2> HIDE DEF S
  <2>6. ListOf(hash, nodes \cup {n}, ByHash(S))
    BY <1>2, <2>3, <2>4, <2>5, ByHashLists
  <2> QED BY <2>1, <2>5, <2>6
<1>7. ASSUME NEW n \in RingNodes, RemoveNode(n)
      PROVE  nodes' \subseteq RingNodes /\ ListOf(hash, nodes', virtualNodes')
  <2>1. PICK K : K = {i \in DOMAIN virtualNodes : virtualNodes[i].node # n}
    OBVIOUS
  <2>2. nodes' = nodes \ {n} /\ virtualNodes' = [k \in 1 .. Cardinality(K) |-> virtualNodes[Nth(K, k)]]
    BY <1>7, <2>1 DEF RemoveNode, Select
  <2>3. ListOf(hash, nodes \ {n}, [k \in 1 .. Cardinality(K) |-> virtualNodes[Nth(K, k)]])
    BY <1>2, <2>1, RemovalLists
  <2> QED BY <1>2, <2>2, <2>3
<1>8. ASSUME Rebalance PROVE nodes' \subseteq RingNodes /\ ListOf(hash, nodes', virtualNodes')
  <2> DEFINE S == UNION {VirtualNodesOf(n) : n \in nodes}
  <2>1. nodes' = nodes /\ virtualNodes' = ByHash(S)
    BY <1>8 DEF Rebalance
  <2>2. S \subseteq VNode
    BY <1>2, <1>4
  <2>3. ASSUME NEW v \in VNode PROVE v \in S <=> v.node \in nodes /\ v.hash \in hash[v.node]
    <3>1. ASSUME NEW n \in nodes PROVE v \in VirtualNodesOf(n) <=> v.node = n /\ v.hash \in hash[n]
      BY <1>2, <1>4
    <3> QED BY <3>1
  <2> HIDE DEF S
  <2>4. ListOf(hash, nodes, ByHash(S))
    BY <1>2, <2>2, <2>3, ByHashLists
  <2> QED BY <1>2, <2>1, <2>4
<1> QED BY <1>5, <1>6, <1>7, <1>8 DEF RingNext

LEMMA RingInvariance == RingSpec => []RInv
<1>1. RInv /\ [RingNext]_ringVars => RInv'
  BY RingKeeps
<1> QED BY <1>1, RingStarts, PTL DEF RingSpec

-----------------------------------------------------------------------------
(* The walk.                                                               *)

\* How far a place on the ring is from another, clockwise.
Ahead(h, x) == (x + HashSpace - h) % HashSpace

LEMMA AheadIs ==
    ASSUME NEW h \in Hashes, NEW x \in Hashes
    PROVE  Ahead(h, x) = IF x >= h THEN x - h ELSE x + HashSpace - h
<1>1. HashSpace \in Nat /\ h \in Nat /\ x \in Nat /\ h < HashSpace /\ x < HashSpace
  BY RingAssumption DEF Hashes
<1>2. CASE x >= h
  <2>1. x - h \in Nat /\ x - h < HashSpace /\ HashSpace \in Nat \ {0}
    BY <1>1, <1>2
  <2>2. ((x - h) + HashSpace) % HashSpace = x - h
    BY <2>1
  <2>3. x + HashSpace - h = (x - h) + HashSpace
    BY <1>1
  <2> QED BY <1>2, <2>2, <2>3 DEF Ahead
<1>3. CASE ~(x >= h)
  <2>1. x + HashSpace - h \in Nat /\ x + HashSpace - h < HashSpace
    BY <1>1, <1>3
  <2>2. (x + HashSpace - h) % HashSpace = x + HashSpace - h
    BY <1>1, <2>1
  <2> QED BY <1>3, <2>2 DEF Ahead
<1> QED BY <1>2, <1>3

\* The place in the list where the walk from h is after i steps.
At(h, i) == ((FindVirtualNode(h) + i - 2) % Len(virtualNodes)) + 1

LEMMA StartIs ==
    ASSUME RInv, NEW h \in Hashes, virtualNodes # << >>
    PROVE  /\ FindVirtualNode(h) \in DOMAIN virtualNodes
           /\ \A i \in DOMAIN virtualNodes : i < FindVirtualNode(h) => virtualNodes[i].hash < h
           /\ \/ FindVirtualNode(h) = 1 /\ \A i \in DOMAIN virtualNodes : virtualNodes[i].hash < h
              \/ \A i \in DOMAIN virtualNodes : i >= FindVirtualNode(h) => virtualNodes[i].hash >= h
<1> DEFINE B == {i \in DOMAIN virtualNodes : virtualNodes[i].hash >= h}
<1>1. virtualNodes \in Seq(VNode) /\ Sorted(virtualNodes)
  BY DEF RInv, ListOf
<1>2. /\ DOMAIN virtualNodes = 1 .. Len(virtualNodes) /\ Len(virtualNodes) \in Nat /\ Len(virtualNodes) # 0
      /\ h \in Nat /\ \A i \in DOMAIN virtualNodes : virtualNodes[i].hash \in Nat
  <2>1. \A i \in DOMAIN virtualNodes : virtualNodes[i] \in VNode
    BY <1>1
  <2>2. h \in Nat /\ \A v \in VNode : v.hash \in Nat
    BY HashesFinite DEF VNode
  <2> QED BY <1>1, <2>1, <2>2
<1>3. FindVirtualNode(h) = IF B = {} THEN 1 ELSE CHOOSE i \in B : \A j \in B : i <= j
  BY DEF FindVirtualNode
<1>4. CASE B = {}
  <2>1. \A i \in DOMAIN virtualNodes : virtualNodes[i].hash < h
    BY <1>2, <1>4
  <2> HIDE DEF B
  <2> QED BY <1>2, <1>3, <1>4, <2>1
<1>5. CASE B # {}
  <2>1. B \subseteq Nat /\ B # {}
    BY <1>2, <1>5
  <2>2. \E i \in B : \A j \in B : i <= j
    <3> HIDE DEF B
    <3> QED BY <2>1, LeastExists
  <2>3. PICK s : s = FindVirtualNode(h)
    OBVIOUS
  <2>4. s \in B /\ \A j \in B : s <= j
    <3> HIDE DEF B
    <3> QED BY <1>3, <1>5, <2>2, <2>3
  <2>5. ASSUME NEW i \in DOMAIN virtualNodes, i < s PROVE virtualNodes[i].hash < h
    <3>1. i \notin B
      BY <1>2, <2>4, <2>5
    <3> QED BY <1>2, <3>1
  <2>6. ASSUME NEW i \in DOMAIN virtualNodes, i >= s PROVE virtualNodes[i].hash >= h
    <3>1. s \in DOMAIN virtualNodes /\ virtualNodes[s].hash >= h /\ s \in Nat /\ i \in Nat
      BY <1>2, <2>4
    <3>2. i = s \/ virtualNodes[s].hash < virtualNodes[i].hash
      BY <1>1, <2>6, <3>1 DEF Sorted
    <3> QED BY <1>2, <3>1, <3>2
  <2> QED BY <2>3, <2>4, <2>5, <2>6
<1> QED BY <1>4, <1>5

LEMMA AtIs ==
    ASSUME RInv, NEW h \in Hashes, virtualNodes # << >>, NEW i \in 1 .. Len(virtualNodes)
    PROVE  /\ Len(virtualNodes) \in Nat \ {0}
           /\ At(h, i) \in 1 .. Len(virtualNodes)
           /\ At(h, i) = IF FindVirtualNode(h) + i - 1 <= Len(virtualNodes)
                         THEN FindVirtualNode(h) + i - 1
                         ELSE FindVirtualNode(h) + i - 1 - Len(virtualNodes)
<1>1. PICK n : n = Len(virtualNodes)
  OBVIOUS
<1>2. PICK s : s = FindVirtualNode(h)
  OBVIOUS
<1>3. virtualNodes \in Seq(VNode)
  BY DEF RInv, ListOf
<1>4. n \in Nat \ {0} /\ DOMAIN virtualNodes = 1 .. n
  BY <1>1, <1>3
<1>5. s \in 1 .. n /\ i \in 1 .. n
  BY <1>1, <1>2, <1>4, StartIs
<1>6. s + i - 2 \in Nat /\ s + i - 2 < 2 * n /\ s \in Nat /\ i \in Nat
  BY <1>4, <1>5
<1>7. CASE s + i - 1 <= n
  <2>1. s + i - 2 < n
    BY <1>4, <1>6, <1>7
  <2>2. (s + i - 2) % n = s + i - 2
    BY <1>4, <1>6, <2>1
  <2>3. At(h, i) = s + i - 1
    BY <1>1, <1>2, <1>6, <2>2 DEF At
  <2> QED BY <1>1, <1>2, <1>4, <1>5, <1>7, <2>3
<1>8. CASE ~(s + i - 1 <= n)
  <2>1. n <= s + i - 2
    BY <1>4, <1>6, <1>8
  <2>2. (s + i - 2) % n = (s + i - 2) - n
    BY <1>4, <1>6, <2>1
  <2>3. At(h, i) = s + i - 1 - n
    <3>1. At(h, i) = ((s + i - 2) % n) + 1
      BY <1>1, <1>2 DEF At
    <3>2. At(h, i) = ((s + i - 2) - n) + 1
      BY <2>2, <3>1, Zenon
    <3> QED BY <1>4, <1>6, <3>2
  <2> QED BY <1>1, <1>2, <1>4, <1>5, <1>8, <2>3
<1> QED BY <1>7, <1>8

\* The distance of the virtual node that the walk meets after i steps.
Far(h, i) == Ahead(h, virtualNodes[At(h, i)].hash)

\* The walk meets every virtual node, the nearest first.
LEMMA WalkOrder ==
    ASSUME RInv, NEW h \in Hashes, virtualNodes # << >>
    PROVE  /\ \A i \in 1 .. Len(virtualNodes) : Far(h, i) \in Nat
           /\ \A i, j \in 1 .. Len(virtualNodes) : i < j => Far(h, i) < Far(h, j)
           /\ \A p \in DOMAIN virtualNodes : \E i \in 1 .. Len(virtualNodes) : At(h, i) = p
<1>1. PICK n : n = Len(virtualNodes)
  OBVIOUS
<1>2. PICK s : s = FindVirtualNode(h)
  OBVIOUS
<1>3. virtualNodes \in Seq(VNode) /\ Sorted(virtualNodes)
  BY DEF RInv, ListOf
<1>4. n \in Nat \ {0} /\ DOMAIN virtualNodes = 1 .. n
  BY <1>1, <1>3
<1>5. s \in 1 .. n
  BY <1>2, <1>4, StartIs
<1>6. \A i \in 1 .. n : At(h, i) \in 1 .. n /\ At(h, i) = IF s + i - 1 <= n THEN s + i - 1 ELSE s + i - 1 - n
  BY <1>1, <1>2, AtIs
<1>7. /\ \A p \in 1 .. n : virtualNodes[p].hash \in Hashes
      /\ \A p, q \in 1 .. n : p < q => virtualNodes[p].hash < virtualNodes[q].hash
  <2>1. \A p \in 1 .. n : virtualNodes[p] \in VNode
    BY <1>3, <1>4
  <2> QED BY <1>3, <1>4, <2>1 DEF VNode, Sorted
<1>8. h \in Nat /\ HashSpace \in Nat /\ h < HashSpace /\ \A x \in Hashes : x \in Nat /\ x < HashSpace
  BY RingAssumption DEF Hashes
<1>9. /\ \A p \in 1 .. n : p < s => virtualNodes[p].hash < h
      /\ \/ s = 1 /\ \A p \in 1 .. n : virtualNodes[p].hash < h
         \/ \A p \in 1 .. n : p >= s => virtualNodes[p].hash >= h
  BY <1>2, <1>4, StartIs
<1>10. ASSUME NEW i \in 1 .. n
       PROVE  Far(h, i) = IF virtualNodes[At(h, i)].hash >= h THEN virtualNodes[At(h, i)].hash - h
                          ELSE virtualNodes[At(h, i)].hash + HashSpace - h
  BY <1>6, <1>7, AheadIs DEF Far
<1>11. ASSUME NEW i \in 1 .. n PROVE Far(h, i) \in Nat
  <2>1. virtualNodes[At(h, i)].hash \in Hashes
    BY <1>6, <1>7
  <2>2. PICK x \in Hashes : x = virtualNodes[At(h, i)].hash
    BY <2>1
  <2>3. Far(h, i) = IF x >= h THEN x - h ELSE x + HashSpace - h
    BY <1>10, <2>2
  <2>4. x \in Nat /\ x < HashSpace
    BY <1>8
  <2> QED BY <1>8, <2>3, <2>4
<1>12. ASSUME NEW i \in 1 .. n, NEW j \in 1 .. n, i < j PROVE Far(h, i) < Far(h, j)
  <2>1. PICK p, q : p = At(h, i) /\ q = At(h, j)
    OBVIOUS
  <2>2. /\ p \in 1 .. n /\ p = IF s + i - 1 <= n THEN s + i - 1 ELSE s + i - 1 - n
        /\ q \in 1 .. n /\ q = IF s + j - 1 <= n THEN s + j - 1 ELSE s + j - 1 - n
    BY <1>6, <2>1
  <2>3. PICK x, y : x = virtualNodes[p].hash /\ y = virtualNodes[q].hash
    OBVIOUS
  <2>4. x \in Nat /\ x < HashSpace /\ y \in Nat /\ y < HashSpace
    BY <1>7, <1>8, <2>2, <2>3
  <2>5. /\ Far(h, i) = IF x >= h THEN x - h ELSE x + HashSpace - h
        /\ Far(h, j) = IF y >= h THEN y - h ELSE y + HashSpace - h
    BY <1>10, <2>1, <2>3
  <2>6. CASE p < q
    <3>1. x < y
      BY <1>7, <2>2, <2>3, <2>6
    <3>2. p >= s \/ q < s
      BY <1>4, <1>5, <1>12, <2>2, <2>6
    <3>3. (x >= h /\ y >= h) \/ (x < h /\ y < h)
      <4>1. CASE q < s
        BY <1>5, <1>9, <2>2, <2>3, <2>6, <4>1
      <4>2. CASE p >= s
        BY <1>5, <1>9, <2>2, <2>3, <2>6, <4>2
      <4> QED BY <3>2, <4>1, <4>2
    <3> QED BY <1>8, <2>4, <2>5, <3>1, <3>3
  <2>7. CASE ~(p < q)
    <3>1. p >= s /\ q < s
      BY <1>4, <1>5, <1>12, <2>2, <2>7
    <3>2. y < h /\ s # 1
      BY <1>5, <1>9, <2>2, <2>3, <3>1
    <3>3. x >= h
      BY <1>9, <2>2, <2>3, <3>1, <3>2
    <3> QED BY <1>8, <2>4, <2>5, <3>2, <3>3
  <2> QED BY <2>6, <2>7
<1>13. ASSUME NEW p \in 1 .. n PROVE \E i \in 1 .. n : At(h, i) = p
  <2>1. CASE p >= s
    <3>1. p - s + 1 \in 1 .. n /\ s + (p - s + 1) - 1 = p /\ p <= n
      BY <1>4, <1>5, <2>1
    <3>2. PICK i \in 1 .. n : s + i - 1 = p
      BY <3>1
    <3> QED BY <1>6, <3>1, <3>2
  <2>2. CASE ~(p >= s)
    <3>1. p - s + 1 + n \in 1 .. n /\ s + (p - s + 1 + n) - 1 = p + n /\ ~(p + n <= n) /\ p + n - n = p
      BY <1>4, <1>5, <2>2
    <3>2. PICK i \in 1 .. n : s + i - 1 = p + n
      BY <3>1
    <3>3. At(h, i) = IF s + i - 1 <= n THEN s + i - 1 ELSE s + i - 1 - n
      BY <1>6
    <3>4. ~(s + i - 1 <= n)
      BY <3>1, <3>2, Zenon
    <3>5. At(h, i) = s + i - 1 - n
      BY <3>3, <3>4, Zenon
    <3>6. s + i - 1 - n = p
      BY <1>4, <1>5, <3>2
    <3> QED BY <3>5, <3>6
  <2> QED BY <2>1, <2>2
<1> QED BY <1>1, <1>4, <1>11, <1>12, <1>13

\* Where the walk meets a node for the first time it is at the distance of the node.
LEMMA FreshDistance ==
    ASSUME RInv, NEW h \in Hashes, virtualNodes # << >>, NEW i \in Fresh(h)
    PROVE  NodeAt(h, i) \in nodes /\ Distance(h, NodeAt(h, i)) = Far(h, i)
<1>1. PICK n : n = NodeAt(h, i)
  OBVIOUS
<1>2. PICK len : len = Len(virtualNodes)
  OBVIOUS
<1>3. i \in 1 .. len /\ \A j \in 1 .. i - 1 : NodeAt(h, j) # n
  BY <1>1, <1>2 DEF Fresh
<1>4. /\ virtualNodes \in Seq(VNode) /\ Placement(hash) /\ nodes \subseteq RingNodes
      /\ \A v \in VNode : (\E p \in DOMAIN virtualNodes : virtualNodes[p] = v) <=> v.node \in nodes /\ v.hash \in hash[v.node]
  BY DEF RInv, ListOf
<1>5. len \in Nat \ {0} /\ DOMAIN virtualNodes = 1 .. len /\ \A p \in 1 .. len : virtualNodes[p] \in VNode
  BY <1>2, <1>4
<1>6. \A j \in 1 .. len : At(h, j) \in 1 .. len
  BY <1>2, AtIs
<1>7. \A j \in 1 .. len : NodeAt(h, j) = virtualNodes[At(h, j)].node
  BY DEF NodeAt, At
<1>8. /\ \A j \in 1 .. len : Far(h, j) \in Nat
      /\ \A j, k \in 1 .. len : j < k => Far(h, j) < Far(h, k)
      /\ \A p \in 1 .. len : \E j \in 1 .. len : At(h, j) = p
  BY <1>2, <1>5, WalkOrder
<1>9. n \in nodes /\ n \in RingNodes /\ virtualNodes[At(h, i)].hash \in hash[n]
  <2>1. At(h, i) \in DOMAIN virtualNodes /\ virtualNodes[At(h, i)] \in VNode /\ virtualNodes[At(h, i)].node = n
    BY <1>1, <1>3, <1>5, <1>6, <1>7
  <2> QED BY <1>4, <2>1
<1>10. ASSUME NEW x \in hash[n] PROVE Far(h, i) <= Ahead(h, x) /\ Ahead(h, x) \in Nat
  <2>1. x \in Hashes
    BY <1>4, <1>9 DEF Placement
  <2>2. [hash |-> x, node |-> n] \in VNode
    BY <1>9, <2>1 DEF VNode
  <2>3. PICK p \in 1 .. len : virtualNodes[p] = [hash |-> x, node |-> n]
    BY <1>4, <1>5, <1>9, <2>2
  <2>4. PICK j \in 1 .. len : At(h, j) = p
    BY <1>8
  <2>5. NodeAt(h, j) = n /\ Far(h, j) = Ahead(h, x)
    BY <1>7, <2>3, <2>4 DEF Far
  <2>6. ~(j < i)
    <3>1. j < i => j \in 1 .. i - 1
      BY <1>3, <1>5
    <3> QED BY <1>3, <2>5, <3>1
  <2>7. i = j \/ i < j
    BY <1>3, <1>5, <2>6
  <2>8. Far(h, i) \in Nat /\ Far(h, j) \in Nat /\ (i < j => Far(h, i) < Far(h, j))
    BY <1>3, <1>8
  <2>9. Far(h, i) <= Far(h, j)
    BY <2>7, <2>8
  <2> QED BY <2>5, <2>8, <2>9
<1>11. Distance(h, n) = Far(h, i)
  <2> DEFINE S == {Ahead(h, x) : x \in hash[n]}
  <2>1. Distance(h, n) = CHOOSE x \in S : \A y \in S : x <= y
    BY DEF Distance, Min, Ahead
  <2>2. Far(h, i) \in S /\ \A y \in S : Far(h, i) <= y /\ y \in Nat
    BY <1>9, <1>10 DEF Far
  <2>3. Far(h, i) \in Nat
    BY <1>3, <1>8
  <2> HIDE DEF S
  <2>4. ASSUME NEW x \in S, \A y \in S : x <= y PROVE x = Far(h, i)
    <3>1. x <= Far(h, i) /\ Far(h, i) <= x /\ x \in Nat
      BY <2>2, <2>4
    <3> QED BY <2>3, <3>1
  <2> QED BY <2>1, <2>2, <2>4
<1> QED BY <1>1, <1>9, <1>11

\* The walk meets every node for the first time somewhere, and only once.
LEMMA FreshNodes ==
    ASSUME RInv, NEW h \in Hashes, virtualNodes # << >>
    PROVE  /\ Fresh(h) \in SUBSET Nat /\ IsFiniteSet(Fresh(h))
           /\ \A n \in nodes : \E i \in Fresh(h) : NodeAt(h, i) = n
           /\ \A i, j \in Fresh(h) : NodeAt(h, i) = NodeAt(h, j) => i = j
           /\ Cardinality(Fresh(h)) = Cardinality(nodes)
<1>1. PICK len : len = Len(virtualNodes)
  OBVIOUS
<1>2. /\ virtualNodes \in Seq(VNode) /\ Placement(hash) /\ nodes \subseteq RingNodes
      /\ \A v \in VNode : (\E p \in DOMAIN virtualNodes : virtualNodes[p] = v) <=> v.node \in nodes /\ v.hash \in hash[v.node]
  BY DEF RInv, ListOf
<1>3. len \in Nat \ {0} /\ DOMAIN virtualNodes = 1 .. len
  BY <1>1, <1>2
<1>4. Fresh(h) = {i \in 1 .. len : \A j \in 1 .. i - 1 : NodeAt(h, j) # NodeAt(h, i)}
  BY <1>1 DEF Fresh
<1>5. Fresh(h) \in SUBSET Nat /\ IsFiniteSet(Fresh(h))
  <2>1. Fresh(h) \subseteq 1 .. len
    BY <1>4
  <2>2. IsFiniteSet(1 .. len)
    <3>1. 1 \in Int /\ len \in Int
      BY <1>3
    <3> QED BY <3>1, FS_Interval
  <2> QED BY <1>3, <2>1, <2>2, FS_Subset
<1>6. ASSUME NEW n \in nodes PROVE \E i \in Fresh(h) : NodeAt(h, i) = n
  <2> DEFINE S == {i \in 1 .. len : NodeAt(h, i) = n}
  <2>1. n \in RingNodes /\ hash[n] \subseteq Hashes /\ hash[n] # {}
    BY <1>2 DEF Placement
  <2>2. PICK x \in hash[n] : x \in Hashes
    BY <2>1
  <2>3. [hash |-> x, node |-> n] \in VNode
    BY <2>1, <2>2 DEF VNode
  <2>4. PICK p \in 1 .. len : virtualNodes[p] = [hash |-> x, node |-> n]
    BY <1>2, <1>3, <2>2, <2>3
  <2>5. PICK i \in 1 .. len : At(h, i) = p
    BY <1>1, <1>3, WalkOrder
  <2>6. NodeAt(h, i) = n
    BY <2>4, <2>5 DEF NodeAt, At
  <2>7. S \in SUBSET Nat /\ S # {}
    BY <1>3, <2>6
  <2>8. PICK k \in S : \A j \in S : k <= j
    <3> HIDE DEF S
    <3> QED BY <2>7, LeastExists
  <2>9. k \in 1 .. len /\ NodeAt(h, k) = n
    OBVIOUS
  <2>10. ASSUME NEW j \in 1 .. k - 1 PROVE NodeAt(h, j) # n
    <3>1. j \in 1 .. len /\ ~(k <= j)
      BY <1>3, <2>9
    <3> QED BY <2>8, <3>1
  <2> QED BY <1>4, <2>9, <2>10
<1>7. ASSUME NEW i \in Fresh(h), NEW j \in Fresh(h), NodeAt(h, i) = NodeAt(h, j) PROVE i = j
  <2>1. i \in 1 .. len /\ j \in 1 .. len
    BY <1>4
  <2>2. ~(i < j) /\ ~(j < i)
    <3>1. (i < j => i \in 1 .. j - 1) /\ (j < i => j \in 1 .. i - 1)
      BY <1>3, <2>1
    <3> QED BY <1>4, <1>7, <3>1
  <2> QED BY <1>3, <2>1, <2>2
<1>8. Cardinality(Fresh(h)) = Cardinality(nodes)
  <2> DEFINE f == [i \in Fresh(h) |-> NodeAt(h, i)]
  <2>1. \A i \in Fresh(h) : NodeAt(h, i) \in nodes
    BY FreshDistance
  <2>2. f \in [Fresh(h) -> nodes]
    BY <2>1
  <2>3. f \in Injection(Fresh(h), nodes)
    BY <1>7, <2>2 DEF Injection, IsInjective
  <2>4. f \in Surjection(Fresh(h), nodes)
    BY <1>6, <2>2 DEF Surjection
  <2> HIDE DEF f
  <2>5. ExistsBijection(Fresh(h), nodes)
    BY <2>3, <2>4 DEF ExistsBijection, Bijection
  <2> QED BY <1>5, <2>5, FS_Bijection
<1> QED BY <1>5, <1>6, <1>7, <1>8

\* What OwnersAreNearest says of a hash.
Nearest(h, owners) ==
    /\ Len(owners) = IF Cardinality(nodes) < ReplicationFactor THEN Cardinality(nodes) ELSE ReplicationFactor
    /\ ToSet(owners) \subseteq nodes
    /\ \A i, j \in DOMAIN owners : i < j => Distance(h, owners[i]) < Distance(h, owners[j])
    /\ \A i \in DOMAIN owners, n \in nodes \ ToSet(owners) : Distance(h, owners[i]) < Distance(h, n)

LEMMA SmallerIs ==
    ASSUME NEW a \in Nat, NEW b \in Nat
    PROVE  Min({a, b}) = IF b < a THEN b ELSE a
<1> DEFINE m == IF b < a THEN b ELSE a
<1>1. m \in {a, b} /\ \A y \in {a, b} : m <= y
  OBVIOUS
<1>2. \A x \in {a, b} : (\A y \in {a, b} : x <= y) => x = m
  OBVIOUS
<1>3. Min({a, b}) = CHOOSE x \in {a, b} : \A y \in {a, b} : x <= y
  BY DEF Min
<1> HIDE DEF m
<1>4. Min({a, b}) = m
  BY <1>1, <1>2, <1>3
<1> QED BY <1>4 DEF m

\* The owners, when there are virtual nodes.
LEMMA WalkOwners ==
    ASSUME RInv, NEW h \in Hashes, virtualNodes # << >>
    PROVE  Nearest(h, GetOwners(h)) /\ \A n \in nodes : Distance(h, n) \in Nat
<1>1. PICK K : K = Fresh(h)
  OBVIOUS
<1>2. PICK len : len = Len(virtualNodes)
  OBVIOUS
<1>3. PICK c : c = Cardinality(K)
  OBVIOUS
<1>4. /\ K \in SUBSET Nat /\ IsFiniteSet(K)
      /\ \A n \in nodes : \E i \in K : NodeAt(h, i) = n
      /\ c = Cardinality(nodes)
  BY <1>1, <1>3, FreshNodes
<1>5. /\ c \in Nat
      /\ \A k \in 1 .. c : Nth(K, k) \in K
      /\ \A k, l \in 1 .. c : k < l <=> Nth(K, k) < Nth(K, l)
      /\ \A x \in K : \E k \in 1 .. c : Nth(K, k) = x
  BY <1>3, <1>4, NthCounts
<1>6. K \subseteq 1 .. len
  BY <1>1, <1>2 DEF Fresh
<1>7. /\ \A i \in 1 .. len : Far(h, i) \in Nat
      /\ \A i, j \in 1 .. len : i < j => Far(h, i) < Far(h, j)
  BY <1>2, WalkOrder
<1>8. \A i \in K : NodeAt(h, i) \in nodes /\ Distance(h, NodeAt(h, i)) = Far(h, i)
  BY <1>1, FreshDistance
<1>9. ReplicationFactor \in Nat
  BY RingAssumption
<1>10. PICK m : m = IF c < ReplicationFactor THEN c ELSE ReplicationFactor
  OBVIOUS
<1>11. m \in Nat /\ m <= c
  BY <1>5, <1>9, <1>10
<1>12. PICK s : s = GetOwners(h)
  OBVIOUS
<1>13. s = [k \in 1 .. m |-> NodeAt(h, Nth(K, k))]
  <2>1. Min({ReplicationFactor, c}) = m
    BY <1>5, <1>9, <1>10, SmallerIs
  <2> QED BY <1>1, <1>3, <1>12, <2>1 DEF GetOwners
<1>14. DOMAIN s = 1 .. m /\ \A k \in 1 .. m : s[k] = NodeAt(h, Nth(K, k))
  BY <1>13
<1>15. \A k \in 1 .. m : Nth(K, k) \in K /\ k \in 1 .. c
  BY <1>5, <1>11
<1>16. \A k \in 1 .. m : s[k] \in nodes /\ Distance(h, s[k]) = Far(h, Nth(K, k))
  BY <1>8, <1>14, <1>15
<1>17. Len(s) = m
  <2>1. s \in [1 .. m -> nodes]
    BY <1>13, <1>14, <1>16
  <2>2. s \in Seq(nodes)
    BY <1>11, <2>1
  <2>3. Len(s) \in Nat /\ DOMAIN s = 1 .. Len(s)
    BY <2>2
  <2> QED BY <1>11, <1>14, <2>3
<1>18. ToSet(s) = {s[k] : k \in 1 .. m}
  BY <1>14 DEF ToSet
<1>19. ASSUME NEW i \in 1 .. m, NEW j \in 1 .. m, i < j PROVE Distance(h, s[i]) < Distance(h, s[j])
  <2>1. Nth(K, i) < Nth(K, j) /\ Nth(K, i) \in 1 .. len /\ Nth(K, j) \in 1 .. len
    BY <1>5, <1>6, <1>15, <1>19
  <2> QED BY <1>7, <1>16, <2>1
<1>20. ASSUME NEW i \in 1 .. m, NEW n \in nodes \ ToSet(s) PROVE Distance(h, s[i]) < Distance(h, n)
  <2>1. PICK x \in K : NodeAt(h, x) = n
    BY <1>4
  <2>2. PICK l \in 1 .. c : Nth(K, l) = x
    BY <1>5
  <2>3. l \notin 1 .. m
    BY <1>14, <1>18, <2>1, <2>2
  <2>4. i < l
    BY <1>5, <1>11, <2>3
  <2>5. Nth(K, i) < x /\ Nth(K, i) \in 1 .. len /\ x \in 1 .. len
    BY <1>5, <1>6, <1>15, <2>2, <2>4
  <2>6. Distance(h, n) = Far(h, x)
    BY <1>8, <2>1
  <2> QED BY <1>7, <1>16, <2>5, <2>6
<1>21. ASSUME NEW n \in nodes PROVE Distance(h, n) \in Nat
  <2>1. PICK x \in K : NodeAt(h, x) = n
    BY <1>4
  <2>2. Distance(h, n) = Far(h, x) /\ x \in 1 .. len
    BY <1>6, <1>8, <2>1
  <2> QED BY <1>7, <2>2
<1>22. Nearest(h, s)
  <2>1. ToSet(s) \subseteq nodes
    BY <1>16, <1>18
  <2>2. Len(s) = IF Cardinality(nodes) < ReplicationFactor THEN Cardinality(nodes) ELSE ReplicationFactor
    BY <1>4, <1>10, <1>17
  <2> QED BY <1>14, <1>19, <1>20, <2>1, <2>2 DEF Nearest
<1> QED BY <1>12, <1>21, <1>22

\* The owners of every hash, in every state.
LEMMA OwnersNearest ==
    ASSUME RInv, NEW h \in Hashes
    PROVE  Nearest(h, GetOwners(h)) /\ \A n \in nodes : Distance(h, n) \in Nat
<1>1. CASE virtualNodes # << >>
  BY <1>1, WalkOwners
<1>2. CASE virtualNodes = << >>
  <2>1. nodes = {}
    <3>1. ASSUME NEW n \in nodes PROVE FALSE
      <4>1. n \in RingNodes /\ hash[n] \subseteq Hashes /\ hash[n] # {}
        BY DEF RInv, Placement
      <4>2. PICK x \in hash[n] : x \in Hashes
        BY <4>1
      <4>3. [hash |-> x, node |-> n] \in VNode
        BY <4>1, <4>2 DEF VNode
      <4>4. \E i \in DOMAIN virtualNodes : virtualNodes[i] = [hash |-> x, node |-> n]
        BY <4>2, <4>3 DEF RInv, ListOf
      <4> QED BY <1>2, <4>4
    <3> QED BY <3>1
  <2>2. Fresh(h) = {}
    BY <1>2 DEF Fresh
  <2>3. Cardinality(nodes) = 0 /\ Cardinality(Fresh(h)) = 0
    BY <2>1, <2>2, FS_EmptySet
  <2>4. ReplicationFactor \in Nat \ {0}
    BY RingAssumption
  <2>5. Min({ReplicationFactor, Cardinality(Fresh(h))}) = 0
    BY <2>3, <2>4, SmallerIs
  <2>6. GetOwners(h) = [k \in 1 .. 0 |-> NodeAt(h, Nth(Fresh(h), k))]
    BY <2>5 DEF GetOwners
  <2>7. GetOwners(h) = << >>
    BY <2>6
  <2>8. Nearest(h, << >>)
    BY <2>1, <2>3, <2>4 DEF Nearest, ToSet
  <2> QED BY <2>1, <2>7, <2>8
<1> QED BY <1>1, <1>2

\* GetOwners returns the nodes nearest clockwise, the nearest first, as many as there
\* are up to the replication factor, whatever AddNode, RemoveNode and Rebalance have
\* done before, for any number of nodes, of virtual nodes and of replicas and for every
\* placement of the virtual nodes without a collision.
THEOREM OwnersAlwaysNearest == RingSpec => []OwnersAreNearest
<1>1. RInv => OwnersAreNearest
  <2> SUFFICES ASSUME RInv PROVE OwnersAreNearest
    OBVIOUS
  <2>1. \A h \in Hashes : Nearest(h, GetOwners(h))
    BY OwnersNearest
  <2> QED BY <2>1 DEF OwnersAreNearest, Nearest
<1> QED BY <1>1, RingInvariance, PTL

\* Preferred owners are nearer.
LEMMA PreferredIsNearer ==
    ASSUME RInv, NEW h \in Hashes, NEW m \in nodes, NEW n \in nodes, Prefers(GetOwners(h), m, n)
    PROVE  Distance(h, m) < Distance(h, n)
<1>1. PICK s : s = GetOwners(h)
  OBVIOUS
<1>2. Nearest(h, s)
  BY <1>1, OwnersNearest
<1>3. PICK i \in DOMAIN s : s[i] = m /\ \A j \in 1 .. i : s[j] # n
  BY <1>1 DEF Prefers
<1>4. PICK c \in Nat : DOMAIN s = 1 .. c
  <2>1. PICK c : c = Min({ReplicationFactor, Cardinality(Fresh(h))})
    OBVIOUS
  <2>2. DOMAIN s = 1 .. c
    BY <1>1, <2>1 DEF GetOwners
  <2>3. c \in Nat
    <3>1. Cardinality(Fresh(h)) \in Nat /\ ReplicationFactor \in Nat
      <4>1. Len(virtualNodes) \in Nat
        BY DEF RInv, ListOf
      <4>2. 1 \in Int /\ Len(virtualNodes) \in Int
        BY <4>1
      <4>3. IsFiniteSet(1 .. Len(virtualNodes))
        BY <4>2, FS_Interval
      <4>4. Fresh(h) \subseteq 1 .. Len(virtualNodes)
        BY DEF Fresh
      <4>5. IsFiniteSet(Fresh(h))
        BY <4>3, <4>4, FS_Subset
      <4> QED BY <4>5, RingAssumption, FS_CardinalityType
    <3> QED BY <2>1, <3>1, SmallerIs
  <2> QED BY <2>2, <2>3
<1>5. CASE n \in ToSet(s)
  <2>1. PICK j \in DOMAIN s : s[j] = n
    BY <1>5 DEF ToSet
  <2>2. ~(j \in 1 .. i)
    BY <1>3, <2>1
  <2>3. i < j
    BY <1>3, <1>4, <2>1, <2>2
  <2> QED BY <1>2, <1>3, <2>1, <2>3 DEF Nearest
<1>6. CASE n \notin ToSet(s)
  BY <1>2, <1>3, <1>6 DEF Nearest
<1> QED BY <1>5, <1>6

\* Of two nodes, the one that the owners prefer is nearer.
NearerPreferred ==
    \A h \in Hashes, m, n \in nodes :
        /\ Distance(h, m) \in Nat
        /\ Prefers(GetOwners(h), m, n) => Distance(h, m) < Distance(h, n)

\* No AddNode, RemoveNode or Rebalance moves a key between two nodes that stay: for
\* any ring, the owners of a key before and after it prefer no two of them the other
\* way around.
THEOREM KeysStayWithNodes == RingSpec => OnlyChangedNodeMoves
<1> DEFINE Moves == \A h \in Hashes, m, n \in nodes \cap nodes' :
                       Prefers(GetOwners(h), m, n) => ~Prefers(GetOwners(h)', n, m)
<1>1. RInv => NearerPreferred
  BY OwnersNearest, PreferredIsNearer DEF NearerPreferred
<1>2. NearerPreferred /\ NearerPreferred' /\ hash' = hash => Moves
  <2> SUFFICES ASSUME NearerPreferred, NearerPreferred', hash' = hash,
                      NEW h \in Hashes, NEW m \in nodes \cap nodes', NEW n \in nodes \cap nodes',
                      Prefers(GetOwners(h), m, n), Prefers(GetOwners(h)', n, m)
               PROVE  FALSE
    OBVIOUS
  <2>1. Distance(h, m) < Distance(h, n) /\ Distance(h, m) \in Nat /\ Distance(h, n) \in Nat
    BY DEF NearerPreferred
  <2>2. \A i, j \in nodes' : Prefers(GetOwners(h)', i, j) => Distance(h, i)' < Distance(h, j)'
    BY DEF NearerPreferred, Prefers, Hashes
  <2>3. Distance(h, n)' < Distance(h, m)'
    BY <2>2
  <2>4. Distance(h, n)' = Distance(h, n) /\ Distance(h, m)' = Distance(h, m)
    BY DEF Distance
  <2> QED BY <2>1, <2>3, <2>4
<1>3. RInv /\ [RingNext]_ringVars => hash' = hash
  BY RingKeeps
<1> HIDE DEF Moves
<1> QED BY <1>1, <1>2, <1>3, RingInvariance, PTL DEF RingSpec, OnlyChangedNodeMoves, Moves

-----------------------------------------------------------------------------
(* The pages of a scan.                                                    *)

ScanType ==
    /\ stored \subseteq ScanKeys
    /\ scan \in [limit : Nat \ {0}, token : Nat, got : Seq(Nat), had : SUBSET ScanKeys, more : BOOLEAN]
    /\ scan.had \subseteq stored
    /\ scan.token <= Cardinality(stored)
    /\ ~scan.more => scan.token = Cardinality(stored)

\* The keys ahead of the token are there, whatever was stored since: a new key moves
\* others behind the token, never ahead of it.
CoveredSoFar == \A x \in scan.had : Rank(stored, x) < scan.token => x \in ToSet(scan.got)

\* Without a new key they are what the scan has returned.
QuietSoFar == stored = scan.had => scan.got = [k \in 1 .. scan.token |-> Nth(stored, k)]

PInv == ScanType /\ CoveredSoFar /\ QuietSoFar

LEMMA StoredFinite ==
    ASSUME NEW S \in SUBSET ScanKeys
    PROVE  S \in SUBSET Nat /\ IsFiniteSet(S) /\ Cardinality(S) \in Nat
<1>1. S \in SUBSET Nat /\ IsFiniteSet(S)
  BY PagesAssumption, FS_Subset
<1> QED BY <1>1, FS_CardinalityType

\* A new key leaves nothing with a smaller rank.
LEMMA RankAfter ==
    ASSUME NEW S \in SUBSET ScanKeys, NEW k \in ScanKeys, NEW x \in S
    PROVE  Rank(S, x) <= Rank(S \cup {k}, x)
<1> DEFINE X == {j \in S : j < x}
<1> DEFINE Y == {j \in S \cup {k} : j < x}
<1>1. X \subseteq Y /\ Y \subseteq ScanKeys
  OBVIOUS
<1>2. IsFiniteSet(Y)
  BY <1>1, StoredFinite
<1>3. Cardinality(X) <= Cardinality(Y)
  <2> HIDE DEF X, Y
  <2> QED BY <1>1, <1>2, FS_Subset
<1> QED BY <1>3 DEF Rank

\* The k-th of a set has the rank k - 1.
LEMMA RankOfNth ==
    ASSUME NEW K \in SUBSET Nat, IsFiniteSet(K), NEW x \in K
    PROVE  Rank(K, x) + 1 \in 1 .. Cardinality(K) /\ Nth(K, Rank(K, x) + 1) = x
<1>1. Rank(K, x) \in Nat /\ Rank(K, x) < Cardinality(K) /\ Cardinality(K) \in Nat
  BY RankType, FS_CardinalityType
<1>2. PICK k : k = Rank(K, x) + 1
  OBVIOUS
<1>3. k \in 1 .. Cardinality(K) /\ k - 1 = Rank(K, x)
  BY <1>1, <1>2
<1>4. \A y \in K : Rank(K, y) = Rank(K, x) => y = x
  <2>1. ASSUME NEW y \in K, Rank(K, y) = Rank(K, x) PROVE y = x
    <3>1. x \in Nat /\ y \in Nat /\ Rank(K, y) \in Nat
      BY RankType
    <3>2. (x < y => Rank(K, x) < Rank(K, y)) /\ (y < x => Rank(K, y) < Rank(K, x))
      BY RankGrows
    <3> QED BY <1>1, <2>1, <3>1, <3>2
  <2> QED BY <2>1
<1>5. Nth(K, k) = x
  <2>1. \E y \in K : Cardinality({j \in K : j < y}) = k - 1
    BY <1>3 DEF Rank
  <2>2. Nth(K, k) \in K /\ Rank(K, Nth(K, k)) = k - 1
    BY <2>1 DEF Nth, Rank
  <2> QED BY <1>3, <1>4, <2>2
<1> QED BY <1>2, <1>3, <1>5

LEMMA ScanStarts == ScanInit => PInv
<1> SUFFICES ASSUME ScanInit PROVE PInv
  OBVIOUS
<1>1. PICK l \in Limits : scan = [limit |-> l, token |-> 0, got |-> << >>, had |-> stored, more |-> TRUE]
  BY DEF ScanInit
<1>2. stored \in SUBSET ScanKeys /\ Cardinality(stored) \in Nat /\ l \in Nat \ {0}
  BY StoredFinite, PagesAssumption DEF ScanInit
<1>3. << >> \in Seq(Nat)
  OBVIOUS
<1>4. ScanType
  BY <1>1, <1>2, <1>3 DEF ScanType
<1>5. CoveredSoFar
  <2>1. ASSUME NEW x \in stored PROVE ~(Rank(stored, x) < 0)
    <3>1. Rank(stored, x) \in Nat
      BY <1>2, StoredFinite, RankType
    <3> QED BY <3>1
  <2> QED BY <1>1, <2>1 DEF CoveredSoFar
<1>6. QuietSoFar
  <2>1. [k \in 1 .. 0 |-> Nth(stored, k)] = << >>
    OBVIOUS
  <2> QED BY <1>1, <2>1 DEF QuietSoFar
<1> QED BY <1>4, <1>5, <1>6 DEF PInv

LEMMA StoreKeyKeeps ==
    ASSUME PInv, NEW k \in ScanKeys, StoreKey(k)
    PROVE  PInv'
<1>1. scan.more /\ k \notin stored /\ stored' = stored \cup {k} /\ scan' = scan
  BY DEF StoreKey
<1>2. /\ stored \in SUBSET ScanKeys /\ scan.had \subseteq stored
      /\ scan \in [limit : Nat \ {0}, token : Nat, got : Seq(Nat), had : SUBSET ScanKeys, more : BOOLEAN]
      /\ scan.token <= Cardinality(stored) /\ scan.token \in Nat
  BY DEF PInv, ScanType
<1>3. Cardinality(stored) \in Nat /\ IsFiniteSet(stored)
  BY <1>2, StoredFinite
<1>4. Cardinality(stored \cup {k}) = Cardinality(stored) + 1
  BY <1>1, <1>3, FS_AddElement
<1>5. ScanType'
  <2>1. scan.token <= Cardinality(stored \cup {k})
    BY <1>2, <1>3, <1>4
  <2> QED BY <1>1, <1>2, <2>1 DEF ScanType
<1>6. CoveredSoFar'
  <2>1. ASSUME NEW x \in scan.had, Rank(stored \cup {k}, x) < scan.token PROVE x \in ToSet(scan.got)
    <3>1. x \in stored /\ Rank(stored, x) <= Rank(stored \cup {k}, x)
      BY <1>2, RankAfter
    <3>2. Rank(stored, x) \in Nat
      BY <1>2, <3>1, StoredFinite, RankType
    <3>3. Rank(stored \cup {k}, x) \in Nat
      <4>1. stored \cup {k} \in SUBSET ScanKeys /\ x \in stored \cup {k}
        BY <1>2, <3>1
      <4> QED BY <4>1, StoredFinite, RankType
    <3>4. Rank(stored, x) < scan.token
      BY <1>2, <2>1, <3>1, <3>2, <3>3
    <3> QED BY <3>4 DEF PInv, CoveredSoFar
  <2> QED BY <1>1, <2>1 DEF CoveredSoFar, Rank
<1>7. QuietSoFar'
  <2>1. stored' # scan'.had
    BY <1>1, <1>2
  <2> QED BY <2>1 DEF QuietSoFar
<1> QED BY <1>5, <1>6, <1>7 DEF PInv

\* The next page: the keys with the ranks from the token to the new one.
LEMMA PageIs ==
    ASSUME PInv, RangeScan
    PROVE  \E end \in Nat, page \in Seq(Nat) :
              /\ scan.token <= end /\ end <= Cardinality(stored)
              /\ end < Cardinality(stored) => scan'.more
              /\ ~(end < Cardinality(stored)) => ~scan'.more
              /\ Len(page) = end - scan.token
              /\ \A i \in 1 .. end - scan.token : page[i] = Nth(stored, scan.token + i)
              /\ scan' = [scan EXCEPT !.got = @ \o page, !.token = end, !.more = end < Cardinality(stored)]
              /\ stored' = stored
<1>1. /\ stored \in SUBSET ScanKeys
      /\ scan \in [limit : Nat \ {0}, token : Nat, got : Seq(Nat), had : SUBSET ScanKeys, more : BOOLEAN]
      /\ scan.token <= Cardinality(stored) /\ scan.token \in Nat /\ scan.limit \in Nat \ {0}
  BY DEF PInv, ScanType
<1>2. PICK c \in Nat : c = Cardinality(stored)
  BY <1>1, StoredFinite
<1>3. PICK t \in Nat : t = scan.token
  BY <1>1
<1>4. PICK keys : keys = InOrder(stored)
  OBVIOUS
<1>5. \A k \in 1 .. c : Nth(stored, k) \in Nat
  <2>1. stored \in SUBSET Nat /\ IsFiniteSet(stored)
    BY <1>1, StoredFinite
  <2>2. \A k \in 1 .. c : Nth(stored, k) \in stored
    BY <1>2, <2>1, NthCounts
  <2> QED BY <2>1, <2>2
<1>6. keys \in Seq(Nat) /\ Len(keys) = c /\ \A k \in 1 .. c : keys[k] = Nth(stored, k)
  <2>1. keys = [k \in 1 .. c |-> Nth(stored, k)]
    BY <1>2, <1>4 DEF InOrder
  <2>2. keys \in [1 .. c -> Nat]
    BY <1>5, <2>1
  <2>3. keys \in Seq(Nat) /\ Len(keys) = c
    BY <2>2
  <2> QED BY <2>1, <2>3
<1>7. t <= c /\ Min({t, c}) = t
  <2>1. t <= c
    BY <1>1, <1>2, <1>3
  <2>2. Min({t, c}) = IF c < t THEN c ELSE t
    BY SmallerIs
  <2> QED BY <2>1, <2>2
<1>8. PICK end : end = Min({t + scan.limit, c})
  OBVIOUS
<1>9. end \in Nat /\ t <= end /\ end <= c
  <2>1. t + scan.limit \in Nat
    BY <1>1
  <2>2. end = IF c < t + scan.limit THEN c ELSE t + scan.limit
    BY <1>8, <2>1, SmallerIs
  <2> QED BY <1>1, <1>7, <2>1, <2>2
<1>10. PICK page : page = SubSeq(keys, t + 1, end)
  OBVIOUS
<1>11. page \in Seq(Nat) /\ Len(page) = end - t /\ \A i \in 1 .. end - t : page[i] = keys[t + i]
  <2>1. t + 1 \in 1 .. Len(keys) + 1 /\ end \in t .. Len(keys)
    BY <1>6, <1>7, <1>9
  <2>2. page = [i \in 1 .. end - t |-> keys[t + i]]
    BY <1>6, <1>7, <1>9, <1>10, <2>1
  <2>3. \A i \in 1 .. end - t : keys[t + i] \in Nat
    <3>1. \A i \in 1 .. end - t : t + i \in 1 .. c
      BY <1>7, <1>9
    <3> QED BY <1>5, <1>6, <3>1
  <2>4. page \in [1 .. end - t -> Nat] /\ end - t \in Nat
    BY <1>9, <2>2, <2>3
  <2>5. PICK m \in Nat : m = end - t
    BY <2>4
  <2>6. page \in [1 .. m -> Nat]
    BY <2>4, <2>5, Zenon
  <2>7. page \in Seq(Nat) /\ Len(page) = m
    BY <2>6
  <2>8. \A i \in 1 .. end - t : page[i] = keys[t + i]
    BY <2>2, Zenon
  <2> QED BY <2>5, <2>7, <2>8, Zenon
<1>12. \A i \in 1 .. end - t : page[i] = Nth(stored, t + i)
  <2>1. \A i \in 1 .. end - t : t + i \in 1 .. c
    BY <1>7, <1>9
  <2> QED BY <1>6, <1>11, <2>1
<1>13. scan' = [scan EXCEPT !.got = @ \o page, !.token = end, !.more = end < c] /\ stored' = stored
  BY <1>3, <1>4, <1>6, <1>7, <1>8, <1>10 DEF RangeScan
<1>14. scan'.more = (end < c)
  BY <1>1, <1>13
<1> QED BY <1>2, <1>3, <1>9, <1>11, <1>12, <1>13, <1>14

\* A page keeps what the scan has covered.
LEMMA RangeScanKeeps ==
    ASSUME PInv, RangeScan
    PROVE  PInv'
<1>1. PICK end \in Nat, page \in Seq(Nat) :
          /\ scan.token <= end /\ end <= Cardinality(stored)
          /\ end < Cardinality(stored) => scan'.more
          /\ ~(end < Cardinality(stored)) => ~scan'.more
          /\ Len(page) = end - scan.token
          /\ \A i \in 1 .. end - scan.token : page[i] = Nth(stored, scan.token + i)
          /\ scan' = [scan EXCEPT !.got = @ \o page, !.token = end, !.more = end < Cardinality(stored)]
          /\ stored' = stored
  BY PageIs
<1>2. /\ stored \in SUBSET ScanKeys /\ scan.had \subseteq stored
      /\ scan \in [limit : Nat \ {0}, token : Nat, got : Seq(Nat), had : SUBSET ScanKeys, more : BOOLEAN]
      /\ scan.token \in Nat /\ scan.got \in Seq(Nat)
  BY DEF PInv, ScanType
<1>3. stored \in SUBSET Nat /\ IsFiniteSet(stored) /\ Cardinality(stored) \in Nat
  BY <1>2, StoredFinite
<1>4. scan'.token = end /\ scan'.got = scan.got \o page /\ scan'.had = scan.had
  BY <1>1, <1>2
<1>5. PICK g : g = scan.got \o page
  OBVIOUS
<1>6. /\ g \in Seq(Nat) /\ Len(g) = Len(scan.got) + Len(page) /\ Len(scan.got) \in Nat
      /\ \A i \in 1 .. Len(scan.got) : g[i] = scan.got[i]
      /\ \A i \in 1 .. Len(page) : g[Len(scan.got) + i] = page[i]
  <2>1. Len(scan.got) \in Nat /\ Len(page) \in Nat
    BY <1>1, <1>2, LenProperties
  <2>2. g \in Seq(Nat) /\ Len(g) = Len(scan.got) + Len(page)
    BY <1>1, <1>2, <1>5, ConcatProperties
  <2>3. \A i \in 1 .. Len(scan.got) + Len(page) :
           g[i] = IF i <= Len(scan.got) THEN scan.got[i] ELSE page[i - Len(scan.got)]
    BY <1>1, <1>2, <1>5, ConcatProperties
  <2>4. \A i \in 1 .. Len(scan.got) : g[i] = scan.got[i]
    BY <2>1, <2>3
  <2>5. ASSUME NEW i \in 1 .. Len(page) PROVE g[Len(scan.got) + i] = page[i]
    <3>1. PICK j : j = Len(scan.got) + i
      OBVIOUS
    <3>2. j \in 1 .. Len(scan.got) + Len(page) /\ ~(j <= Len(scan.got)) /\ j - Len(scan.got) = i
      BY <2>1, <2>5, <3>1
    <3>3. g[j] = page[j - Len(scan.got)]
      BY <2>3, <3>2
    <3> QED BY <3>1, <3>2, <3>3, Zenon
  <2> QED BY <2>1, <2>2, <2>4, <2>5
<1>7. ScanType'
  <2>1. ~scan'.more => end = Cardinality(stored)
    BY <1>1, <1>3
  <2>2. scan' \in [limit : Nat \ {0}, token : Nat, got : Seq(Nat), had : SUBSET ScanKeys, more : BOOLEAN]
    <3>1. scan.got \o page \in Seq(Nat) /\ (end < Cardinality(stored)) \in BOOLEAN
      BY <1>5, <1>6
    <3> QED BY <1>1, <1>2, <3>1
  <2> QED BY <1>1, <1>2, <1>4, <2>1, <2>2 DEF ScanType
<1>8. CoveredSoFar'
  <2>1. ASSUME NEW x \in scan.had, Rank(stored, x) < end PROVE x \in ToSet(g)
    <3>1. x \in stored /\ Rank(stored, x) \in Nat
      BY <1>2, <1>3, RankType
    <3>2. CASE Rank(stored, x) < scan.token
      <4>1. x \in ToSet(scan.got)
        BY <3>2 DEF PInv, CoveredSoFar
      <4>2. PICK i \in 1 .. Len(scan.got) : scan.got[i] = x
        BY <1>2, <4>1 DEF ToSet
      <4>3. i \in 1 .. Len(g) /\ g[i] = x
        BY <1>1, <1>6, <4>2, LenProperties
      <4> QED BY <1>6, <4>3 DEF ToSet
    <3>3. CASE ~(Rank(stored, x) < scan.token)
      <4>1. PICK i : i = Rank(stored, x) + 1 - scan.token
        OBVIOUS
      <4>2. i \in 1 .. end - scan.token /\ scan.token + i = Rank(stored, x) + 1
        BY <1>1, <1>2, <2>1, <3>1, <3>3, <4>1
      <4>3. page[i] = Nth(stored, Rank(stored, x) + 1)
        BY <1>1, <4>2
      <4>4. page[i] = x
        BY <1>3, <3>1, <4>3, RankOfNth
      <4>5. i \in 1 .. Len(page)
        BY <1>1, <4>2
      <4>6. g[Len(scan.got) + i] = x
        BY <1>6, <4>4, <4>5
      <4>7. Len(scan.got) + i \in 1 .. Len(g)
        BY <1>6, <1>1, <4>5, LenProperties
      <4> QED BY <1>6, <4>6, <4>7 DEF ToSet
    <3> QED BY <3>2, <3>3
  <2> QED BY <1>1, <1>4, <1>5, <2>1 DEF CoveredSoFar, Rank
<1>9. QuietSoFar'
  <2>1. ASSUME stored = scan.had PROVE g = [k \in 1 .. end |-> Nth(stored, k)]
    <3>1. scan.got = [k \in 1 .. scan.token |-> Nth(stored, k)]
      BY <2>1 DEF PInv, QuietSoFar
    <3>2. Len(scan.got) = scan.token
      BY <1>2, <3>1
    <3>3. Len(g) = end
      BY <1>1, <1>2, <1>6, <3>2
    <3>4. ASSUME NEW k \in 1 .. end PROVE g[k] = Nth(stored, k)
      <4>1. CASE k <= scan.token
        <5>1. k \in 1 .. scan.token
          BY <1>2, <3>4, <4>1
        <5> QED BY <1>6, <3>1, <3>2, <5>1
      <4>2. CASE ~(k <= scan.token)
        <5>1. PICK i : i = k - scan.token
          OBVIOUS
        <5>2. i \in 1 .. end - scan.token /\ scan.token + i = k
          BY <1>1, <1>2, <3>4, <4>2, <5>1
        <5>3. page[i] = Nth(stored, k)
          BY <1>1, <5>2
        <5>4. g[scan.token + i] = page[i]
          BY <1>1, <1>6, <3>2, <5>2
        <5> QED BY <5>2, <5>3, <5>4, Zenon
      <4> QED BY <4>1, <4>2
    <3>5. g = [k \in 1 .. Len(g) |-> g[k]]
      BY <1>6
    <3> QED BY <3>3, <3>4, <3>5
  <2> QED BY <1>1, <1>4, <1>5, <2>1 DEF QuietSoFar
<1> QED BY <1>7, <1>8, <1>9 DEF PInv

\* Pages and writes keep it.
LEMMA ScanInvariance == ScanSpec => []PInv
<1>1. ScanInit => PInv
  BY ScanStarts
<1>2. PInv /\ [ScanNext]_scanVars => PInv'
  <2> SUFFICES ASSUME PInv, [ScanNext]_scanVars PROVE PInv'
    OBVIOUS
  <2>1. CASE RangeScan
    BY <2>1, RangeScanKeeps
  <2>2. ASSUME NEW k \in ScanKeys, StoreKey(k) PROVE PInv'
    BY <2>2, StoreKeyKeeps
  <2>3. CASE UNCHANGED scanVars
    <3>1. stored' = stored /\ scan' = scan
      BY <2>3 DEF scanVars
    <3>2. ScanType'
      BY <3>1 DEF PInv, ScanType
    <3>3. CoveredSoFar'
      <4>1. \A x \in scan.had : Rank(stored, x) < scan.token => x \in ToSet(scan.got)
        BY DEF PInv, CoveredSoFar
      <4> QED BY <3>1, <4>1 DEF CoveredSoFar, Rank
    <3>4. QuietSoFar'
      <4>1. stored = scan.had => scan.got = [k \in 1 .. scan.token |-> Nth(stored, k)]
        BY DEF PInv, QuietSoFar
      <4> QED BY <3>1, <4>1 DEF QuietSoFar
    <3> QED BY <3>2, <3>3, <3>4 DEF PInv
  <2> QED BY <2>1, <2>2, <2>3 DEF ScanNext
<1> QED BY <1>1, <1>2, PTL DEF ScanSpec

\* For any keys and any limit of a page, the pages of RangeScan hold all keys that were
\* there at its start, whatever is stored between two pages, and without a write they
\* are the keys in order.
THEOREM PagesLeaveNothingOut == ScanSpec => []ScanSound
<1>1. PInv => ScanSound
  <2> SUFFICES ASSUME PInv, ~scan.more PROVE ScanSound
    BY DEF ScanSound, ScanReturnsAll, QuietScanIsSorted
  <2>1. /\ stored \in SUBSET ScanKeys /\ scan.had \subseteq stored
        /\ scan.token = Cardinality(stored)
    BY DEF PInv, ScanType
  <2>2. ASSUME NEW x \in scan.had PROVE x \in ToSet(scan.got)
    <3>1. Rank(stored, x) < scan.token
      BY <2>1, StoredFinite, RankType
    <3> QED BY <3>1 DEF PInv, CoveredSoFar
  <2>3. stored = scan.had => scan.got = InOrder(stored)
    BY <2>1 DEF PInv, QuietSoFar, InOrder
  <2> QED BY <2>2, <2>3 DEF ScanSound, ScanReturnsAll, QuietScanIsSorted
<1> QED BY <1>1, ScanInvariance, PTL

-----------------------------------------------------------------------------
(* The graph cache.                                                        *)

\* The caches of some entities.
EdgesAmong(E) == [from : E, to : E]
CacheMaps(E) == UNION {[D -> SUBSET EdgesAmong(E)] : D \in SUBSET E}
Caches(E) == [out : CacheMaps(E), inc : CacheMaps(E), lru : Seq(E)]

\* No entity twice.
Once(s) == \A i, j \in DOMAIN s : s[i] = s[j] => i = j

\* A list has no element twice if and only if it is as long as its set is large.
LEMMA OnceCounts ==
    ASSUME NEW E, NEW s \in Seq(E)
    PROVE  /\ IsFiniteSet(ToSet(s)) /\ Len(s) \in Nat /\ Cardinality(ToSet(s)) \in Nat
           /\ Cardinality(ToSet(s)) = Len(s) <=> Once(s)
<1>1. DOMAIN s = 1 .. Len(s) /\ Len(s) \in Nat
  OBVIOUS
<1>2. IsFiniteSet(DOMAIN s) /\ Cardinality(DOMAIN s) = Len(s)
  <2>1. 1 \in Int /\ Len(s) \in Int
    BY <1>1
  <2>2. /\ IsFiniteSet(1 .. Len(s))
        /\ Cardinality(1 .. Len(s)) = IF 1 > Len(s) THEN 0 ELSE Len(s) - 1 + 1
    BY <2>1, FS_Interval
  <2> QED BY <1>1, <2>2
<1>3. PICK D, T : D = DOMAIN s /\ T = ToSet(s)
  OBVIOUS
<1>4. s \in [D -> T] /\ \A t \in T : \E i \in D : s[i] = t
  <2>1. T = {s[i] : i \in D}
    BY <1>3 DEF ToSet
  <2>2. s = [i \in D |-> s[i]]
    BY <1>1, <1>3
  <2> QED BY <2>1, <2>2
<1>5. s \in Surjection(D, T)
  BY <1>4 DEF Surjection
<1>6. IsFiniteSet(T) /\ (Cardinality(T) = Cardinality(D) <=> s \in Injection(D, T))
  BY <1>2, <1>3, <1>5, FS_Surjection
<1>7. s \in Injection(D, T) <=> Once(s)
  BY <1>3, <1>4 DEF Injection, IsInjective, Once
<1>8. Cardinality(T) \in Nat
  BY <1>6, FS_CardinalityType
<1> QED BY <1>1, <1>2, <1>3, <1>6, <1>7, <1>8

\* Leaving an entity out of the list.
LEMMA DropIs ==
    ASSUME NEW E, NEW s \in Seq(E), Once(s), NEW e
    PROVE  /\ DropEntity(s, e) \in Seq(E) /\ Once(DropEntity(s, e))
           /\ ToSet(DropEntity(s, e)) = ToSet(s) \ {e}
<1>1. PICK K : K = {i \in DOMAIN s : s[i] # e}
  OBVIOUS
<1>2. PICK c : c = Cardinality(K)
  OBVIOUS
<1>3. DOMAIN s = 1 .. Len(s) /\ Len(s) \in Nat /\ \A i \in DOMAIN s : s[i] \in E
  OBVIOUS
<1>4. K \in SUBSET Nat /\ IsFiniteSet(K)
  <2>1. K \subseteq 1 .. Len(s)
    BY <1>1, <1>3
  <2>2. 1 \in Int /\ Len(s) \in Int
    BY <1>3
  <2>3. IsFiniteSet(1 .. Len(s))
    BY <2>2, FS_Interval
  <2>4. IsFiniteSet(K)
    BY <2>1, <2>3, FS_Subset
  <2>5. \A i \in 1 .. Len(s) : i \in Nat
    BY <1>3
  <2> QED BY <2>1, <2>4, <2>5
<1>5. /\ c \in Nat
      /\ \A k \in 1 .. c : Nth(K, k) \in K
      /\ \A k, l \in 1 .. c : k < l <=> Nth(K, k) < Nth(K, l)
      /\ \A x \in K : \E k \in 1 .. c : Nth(K, k) = x
  BY <1>2, <1>4, NthCounts
<1>6. PICK t : t = DropEntity(s, e)
  OBVIOUS
<1>7. t = [k \in 1 .. c |-> s[Nth(K, k)]]
  BY <1>1, <1>2, <1>6 DEF DropEntity, Select
<1>8. DOMAIN t = 1 .. c /\ \A k \in 1 .. c : t[k] = s[Nth(K, k)]
  BY <1>7
<1>9. t \in Seq(E)
  <2>1. \A k \in 1 .. c : s[Nth(K, k)] \in E
    BY <1>1, <1>3, <1>5
  <2>2. t \in [1 .. c -> E]
    BY <1>7, <2>1
  <2> QED BY <1>5, <2>2
<1>10. Once(t)
  <2>1. ASSUME NEW k \in 1 .. c, NEW l \in 1 .. c, t[k] = t[l] PROVE k = l
    <3>1. Nth(K, k) = Nth(K, l)
      BY <1>1, <1>5, <1>8, <2>1 DEF Once
    <3>2. ~(k < l) /\ ~(l < k)
      <4>1. Nth(K, k) \in Nat
        BY <1>4, <1>5
      <4> QED BY <1>5, <3>1, <4>1
    <3> QED BY <1>5, <3>2
  <2> QED BY <1>8, <2>1 DEF Once
<1>11. ToSet(t) = ToSet(s) \ {e}
  <2>1. ASSUME NEW k \in 1 .. c PROVE t[k] \in ToSet(s) \ {e}
    BY <1>1, <1>5, <1>8 DEF ToSet
  <2>2. ASSUME NEW i \in DOMAIN s, s[i] # e PROVE \E k \in 1 .. c : t[k] = s[i]
    <3>1. i \in K
      BY <1>1, <2>2
    <3> QED BY <1>5, <1>8, <3>1
  <2> QED BY <1>8, <2>1, <2>2 DEF ToSet
<1> QED BY <1>6, <1>9, <1>10, <1>11

\* A new entity in front of the list.
LEMMA PushIs ==
    ASSUME NEW E, NEW s \in Seq(E), Once(s), NEW e \in E, e \notin ToSet(s)
    PROVE  /\ << e >> \o s \in Seq(E) /\ Once(<< e >> \o s)
           /\ ToSet(<< e >> \o s) = ToSet(s) \cup {e}
<1>1. DOMAIN s = 1 .. Len(s) /\ Len(s) \in Nat /\ << e >> \in Seq(E) /\ Len(<< e >>) = 1
  OBVIOUS
<1>2. PICK t : t = << e >> \o s
  OBVIOUS
<1>3. /\ t \in Seq(E) /\ Len(t) = 1 + Len(s)
      /\ \A i \in 1 .. 1 + Len(s) : t[i] = IF i <= 1 THEN << e >>[i] ELSE s[i - 1]
  <2>1. /\ << e >> \o s \in Seq(E) /\ Len(<< e >> \o s) = Len(<< e >>) + Len(s)
        /\ \A i \in 1 .. Len(<< e >>) + Len(s) :
              (<< e >> \o s)[i] = IF i <= Len(<< e >>) THEN << e >>[i] ELSE s[i - Len(<< e >>)]
    BY <1>1, ConcatProperties
  <2> QED BY <1>1, <1>2, <2>1
<1>4. DOMAIN t = 1 .. 1 + Len(s) /\ t[1] = e
  BY <1>1, <1>3
<1>5. \A i \in 1 .. 1 + Len(s) : i # 1 => i - 1 \in DOMAIN s /\ t[i] = s[i - 1]
  BY <1>1, <1>3
<1>6. Once(t)
  <2>1. ASSUME NEW i \in 1 .. 1 + Len(s), NEW j \in 1 .. 1 + Len(s), t[i] = t[j] PROVE i = j
    <3>1. CASE i = 1 /\ j = 1
      BY <3>1
    <3>2. CASE i # 1 /\ j # 1
      <4>1. i - 1 = j - 1
        BY <1>5, <2>1, <3>2 DEF Once
      <4> QED BY <1>1, <4>1
    <3>3. CASE i = 1 /\ j # 1
      BY <1>4, <1>5, <2>1, <3>3 DEF ToSet
    <3>4. CASE i # 1 /\ j = 1
      BY <1>4, <1>5, <2>1, <3>4 DEF ToSet
    <3> QED BY <3>1, <3>2, <3>3, <3>4
  <2> QED BY <1>4, <2>1 DEF Once
<1>7. ToSet(t) = ToSet(s) \cup {e}
  <2>1. ASSUME NEW i \in 1 .. 1 + Len(s) PROVE t[i] \in ToSet(s) \cup {e}
    BY <1>4, <1>5 DEF ToSet
  <2>2. ASSUME NEW i \in DOMAIN s PROVE \E j \in 1 .. 1 + Len(s) : t[j] = s[i]
    <3>1. i + 1 \in 1 .. 1 + Len(s) /\ i + 1 # 1 /\ (i + 1) - 1 = i
      BY <1>1
    <3>2. t[i + 1] = s[i]
      BY <1>5, <3>1
    <3> QED BY <3>1, <3>2
  <2>3. 1 \in 1 .. 1 + Len(s)
    BY <1>1
  <2>4. ToSet(t) = {t[i] : i \in 1 .. 1 + Len(s)} /\ ToSet(s) = {s[i] : i \in DOMAIN s}
    BY <1>4 DEF ToSet
  <2>5. \A x \in ToSet(s) : \E j \in 1 .. 1 + Len(s) : t[j] = x
    BY <2>2, <2>4, Zenon
  <2>6. \A x \in ToSet(t) : \E j \in 1 .. 1 + Len(s) : t[j] = x
    BY <2>4, Zenon
  <2>7. ToSet(t) \subseteq ToSet(s) \cup {e}
    BY <2>1, <2>6, Zenon
  <2>8. ToSet(s) \subseteq ToSet(t) /\ e \in ToSet(t)
    BY <1>4, <2>3, <2>4, <2>5, Zenon
  <2> QED BY <2>7, <2>8, Zenon
<1> QED BY <1>2, <1>3, <1>6, <1>7

\* The list without its last.
LEMMA FrontIs ==
    ASSUME NEW E, NEW s \in Seq(E), Once(s), Len(s) > 0
    PROVE  /\ Front(s) \in Seq(E) /\ Once(Front(s)) /\ Last(s) \in ToSet(s)
           /\ ToSet(Front(s)) = ToSet(s) \ {Last(s)}
<1>1. DOMAIN s = 1 .. Len(s) /\ Len(s) \in Nat /\ \A i \in DOMAIN s : s[i] \in E
  OBVIOUS
<1>2. PICK m \in Nat : m = Len(s) - 1 /\ m + 1 = Len(s)
  <2>1. PICK n \in Nat : n = Len(s) /\ n > 0
    BY <1>1
  <2>2. n - 1 \in Nat /\ (n - 1) + 1 = n
    BY <2>1
  <2> QED BY <2>1, <2>2
<1>3. PICK t : t = Front(s)
  OBVIOUS
<1>4. t = [i \in 1 .. m |-> s[i]]
  <2>1. m \in 0 .. Len(s) /\ 1 \in 1 .. Len(s) + 1
    BY <1>1, <1>2
  <2>2. t = SubSeq(s, 1, m)
    BY <1>2, <1>3 DEF Front
  <2> QED BY <1>1, <2>1, <2>2
<1>5. \A i \in 1 .. m : i \in DOMAIN s /\ i # Len(s)
  <2>1. ASSUME NEW i \in 1 .. m PROVE i \in 1 .. Len(s) /\ i # Len(s)
    <3>1. i \in 1 .. m + 1 /\ i # m + 1
      OBVIOUS
    <3> QED BY <1>2, <3>1, Zenon
  <2> QED BY <1>1, <2>1
<1>6. t \in [1 .. m -> E]
  BY <1>1, <1>4, <1>5
<1>7. t \in Seq(E)
  BY <1>6
<1>8. DOMAIN t = 1 .. m /\ \A i \in 1 .. m : t[i] = s[i]
  BY <1>4
<1>9. Once(t)
  BY <1>5, <1>8 DEF Once
<1>10. Len(s) \in DOMAIN s /\ Last(s) = s[Len(s)]
  BY <1>1 DEF Last
<1>11. ToSet(t) = ToSet(s) \ {Last(s)}
  <2>1. ASSUME NEW i \in 1 .. m PROVE t[i] \in ToSet(s) \ {Last(s)}
    BY <1>5, <1>8, <1>10 DEF ToSet, Once
  <2>2. ASSUME NEW i \in DOMAIN s, s[i] # Last(s) PROVE \E j \in 1 .. m : t[j] = s[i]
    <3>1. i # Len(s)
      BY <1>10, <2>2
    <3>2. i \in 1 .. m
      BY <1>1, <1>2, <3>1
    <3> QED BY <1>8, <3>2
  <2>3. ToSet(t) = {t[i] : i \in 1 .. m} /\ ToSet(s) = {s[i] : i \in DOMAIN s}
    BY <1>8 DEF ToSet
  <2>4. ToSet(t) \subseteq ToSet(s) \ {Last(s)}
    BY <2>1, <2>3, Zenon
  <2>5. \A x \in ToSet(s) : x # Last(s) => \E j \in 1 .. m : t[j] = x
    BY <2>2, <2>3, Zenon
  <2>6. \A x \in ToSet(s) : x # Last(s) => x \in ToSet(t)
    BY <2>3, <2>5, Zenon
  <2> QED BY <2>4, <2>6, Zenon
<1> QED BY <1>3, <1>7, <1>9, <1>10, <1>11 DEF ToSet

\* What the maps of a cache are, and what stays one.
LEMMA MapIs ==
    ASSUME NEW E, NEW f \in CacheMaps(E)
    PROVE  DOMAIN f \in SUBSET E /\ \A y \in DOMAIN f : f[y] \in SUBSET EdgesAmong(E)
<1>1. PICK D \in SUBSET E : f \in [D -> SUBSET EdgesAmong(E)]
  BY DEF CacheMaps
<1> QED BY <1>1

LEMMA PutStays ==
    ASSUME NEW E, NEW f \in CacheMaps(E), NEW e \in E, NEW v \in SUBSET EdgesAmong(E)
    PROVE  Put(f, e, v) \in CacheMaps(E)
<1>1. DOMAIN f \in SUBSET E /\ \A y \in DOMAIN f : f[y] \in SUBSET EdgesAmong(E)
  BY MapIs
<1>2. Put(f, e, v) \in [DOMAIN f \cup {e} -> SUBSET EdgesAmong(E)]
  BY <1>1 DEF Put
<1>3. DOMAIN f \cup {e} \in SUBSET E
  BY <1>1
<1> QED BY <1>2, <1>3 DEF CacheMaps

LEMMA WithoutStays ==
    ASSUME NEW E, NEW f \in CacheMaps(E), NEW x
    PROVE  Without(f, x) \in CacheMaps(E)
<1>1. DOMAIN f \in SUBSET E /\ \A y \in DOMAIN f : f[y] \in SUBSET EdgesAmong(E)
  BY MapIs
<1>2. Without(f, x) \in [DOMAIN f \ {x} -> SUBSET EdgesAmong(E)]
  BY <1>1 DEF Without
<1>3. DOMAIN f \ {x} \in SUBSET E
  BY <1>1
<1> QED BY <1>2, <1>3 DEF CacheMaps

\* The list governs the maps but for an entity that is about to be touched.
GovernsBut(g, e) ==
    /\ ToSet(g.lru) \cup {e} = DOMAIN g.out \cup DOMAIN g.inc
    /\ Cardinality(ToSet(g.lru)) = Len(g.lru)
    /\ Len(g.lru) <= MaxGraphSize

\* A touch moves e to the front, or evicts v for it.
MovesUp(g, h, e) ==
    /\ h.out = g.out /\ h.inc = g.inc
    /\ ToSet(h.lru) = ToSet(g.lru) \cup {e}

Evicts(g, h, e, v) ==
    /\ v \in ToSet(g.lru) /\ e \notin ToSet(g.lru)
    /\ h.out = Without(g.out, v) /\ h.inc = Without(g.inc, v)
    /\ ToSet(h.lru) = (ToSet(g.lru) \ {v}) \cup {e}
    /\ Len(h.lru) = MaxGraphSize

LEMMA TouchIs ==
    ASSUME NEW E, NEW e \in E, NEW g \in Caches(E), GovernsBut(g, e),
           NEW h, h = TouchEntity(g, e)
    PROVE  /\ h \in Caches(E) /\ LRUGovernsMaps(h)
           /\ MovesUp(g, h, e) \/ \E v : Evicts(g, h, e, v)
<1>1. /\ g.out \in CacheMaps(E) /\ g.inc \in CacheMaps(E) /\ g.lru \in Seq(E)
      /\ g = [out |-> g.out, inc |-> g.inc, lru |-> g.lru]
  BY DEF Caches
<1>2. PICK s : s = g.lru
  OBVIOUS
<1>3. /\ s \in Seq(E) /\ Once(s) /\ Len(s) \in Nat /\ IsFiniteSet(ToSet(s)) /\ Cardinality(ToSet(s)) = Len(s)
      /\ Len(s) <= MaxGraphSize /\ ToSet(s) \cup {e} = DOMAIN g.out \cup DOMAIN g.inc
  BY <1>1, <1>2, OnceCounts DEF GovernsBut
<1>4. MaxGraphSize \in Nat \ {0}
  BY GraphAssumption
<1>5. CASE e \in ToSet(s)
  <2>1. PICK d : d = DropEntity(s, e)
    OBVIOUS
  <2>2. d \in Seq(E) /\ Once(d) /\ ToSet(d) = ToSet(s) \ {e}
    BY <1>3, <2>1, DropIs
  <2>3. PICK t : t = << e >> \o d
    OBVIOUS
  <2>4. t \in Seq(E) /\ Once(t) /\ ToSet(t) = ToSet(s)
    <3>1. e \notin ToSet(d)
      BY <2>2
    <3>2. t \in Seq(E) /\ Once(t) /\ ToSet(t) = ToSet(d) \cup {e}
      BY <2>2, <2>3, <3>1, PushIs
    <3> QED BY <1>5, <2>2, <3>2
  <2>5. Cardinality(ToSet(t)) = Len(t)
    BY <2>4, OnceCounts
  <2>6. h = [out |-> g.out, inc |-> g.inc, lru |-> t]
    <3>1. h = [g EXCEPT !.lru = << e >> \o DropEntity(@, e)]
      BY <1>2, <1>5 DEF TouchEntity
    <3> QED BY <1>1, <1>2, <2>1, <2>3, <3>1
  <2>7. h.out = g.out /\ h.inc = g.inc /\ h.lru = t
    BY <2>6
  <2>8. h \in Caches(E)
    BY <1>1, <2>4, <2>6 DEF Caches
  <2>9. LRUGovernsMaps(h)
    BY <1>3, <1>5, <2>4, <2>5, <2>7 DEF LRUGovernsMaps
  <2>10. MovesUp(g, h, e)
    BY <1>2, <1>5, <2>4, <2>7 DEF MovesUp
  <2> QED BY <2>8, <2>9, <2>10
<1>6. CASE e \notin ToSet(s) /\ ~(Len(s) >= MaxGraphSize)
  <2>1. PICK t : t = << e >> \o s
    OBVIOUS
  <2>2. t \in Seq(E) /\ Once(t) /\ ToSet(t) = ToSet(s) \cup {e}
    BY <1>3, <1>6, <2>1, PushIs
  <2>3. Cardinality(ToSet(t)) = Len(t)
    BY <2>2, OnceCounts
  <2>4. Cardinality(ToSet(t)) = Len(s) + 1
    BY <1>3, <1>6, <2>2, FS_AddElement
  <2>5. Len(t) <= MaxGraphSize
    BY <1>3, <1>4, <1>6, <2>3, <2>4
  <2>6. h = [out |-> g.out, inc |-> g.inc, lru |-> t]
    <3>1. h = [g EXCEPT !.lru = << e >> \o @]
      BY <1>2, <1>6 DEF TouchEntity
    <3> QED BY <1>1, <1>2, <2>1, <3>1
  <2>7. h.out = g.out /\ h.inc = g.inc /\ h.lru = t
    BY <2>6
  <2>8. h \in Caches(E)
    BY <1>1, <2>2, <2>6 DEF Caches
  <2>9. LRUGovernsMaps(h)
    BY <1>3, <2>2, <2>3, <2>5, <2>7 DEF LRUGovernsMaps
  <2>10. MovesUp(g, h, e)
    BY <1>2, <2>2, <2>7 DEF MovesUp
  <2> QED BY <2>8, <2>9, <2>10
<1>7. CASE e \notin ToSet(s) /\ Len(s) >= MaxGraphSize
  <2>1. Len(s) > 0 /\ Len(s) = MaxGraphSize
    BY <1>3, <1>4, <1>7
  <2>2. PICK v, f : v = Last(s) /\ f = Front(s)
    OBVIOUS
  <2>3. f \in Seq(E) /\ Once(f) /\ v \in ToSet(s) /\ ToSet(f) = ToSet(s) \ {v}
    BY <1>3, <2>1, <2>2, FrontIs
  <2>4. PICK t : t = << e >> \o f
    OBVIOUS
  <2>5. t \in Seq(E) /\ Once(t) /\ ToSet(t) = (ToSet(s) \ {v}) \cup {e}
    <3>1. e \notin ToSet(f)
      BY <1>7, <2>3
    <3>2. t \in Seq(E) /\ Once(t) /\ ToSet(t) = ToSet(f) \cup {e}
      BY <2>3, <2>4, <3>1, PushIs
    <3> QED BY <2>3, <3>2
  <2>6. Cardinality(ToSet(t)) = Len(t)
    BY <2>5, OnceCounts
  <2>7. Len(t) = MaxGraphSize
    <3>1. IsFiniteSet(ToSet(s) \ {v}) /\ Cardinality(ToSet(s) \ {v}) = Len(s) - 1
      BY <1>3, <2>3, FS_RemoveElement
    <3>2. PICK F : F = ToSet(s) \ {v}
      OBVIOUS
    <3>3. e \notin F /\ IsFiniteSet(F) /\ Cardinality(F) = Len(s) - 1
      BY <1>7, <3>1, <3>2
    <3>4. Cardinality(F \cup {e}) = Cardinality(F) + 1
      BY <3>3, FS_AddElement
    <3>5. Cardinality(ToSet(t)) = (Len(s) - 1) + 1
      BY <2>5, <3>2, <3>3, <3>4
    <3>6. (Len(s) - 1) + 1 = Len(s)
      BY <1>3
    <3> QED BY <2>1, <2>6, <3>5, <3>6
  <2>8. h = [out |-> Without(g.out, v), inc |-> Without(g.inc, v), lru |-> t]
    <3>1. h = [EvictLRU(g) EXCEPT !.lru = << e >> \o @]
      BY <1>2, <1>7 DEF TouchEntity
    <3>2. EvictLRU(g) = [out |-> Without(g.out, v), inc |-> Without(g.inc, v), lru |-> f]
      BY <1>2, <2>2 DEF EvictLRU
    <3>3. PICK o, i : o = Without(g.out, v) /\ i = Without(g.inc, v)
      OBVIOUS
    <3>4. h = [[out |-> o, inc |-> i, lru |-> f] EXCEPT !.lru = << e >> \o f]
      <4>1. EvictLRU(g) = [out |-> o, inc |-> i, lru |-> f]
        BY <3>2, <3>3, Zenon
      <4>2. EvictLRU(g).lru = f
        BY <4>1
      <4> QED BY <3>1, <4>1, <4>2
    <3>5. h = [out |-> o, inc |-> i, lru |-> t]
      <4>1. h = [[out |-> o, inc |-> i, lru |-> f] EXCEPT !.lru = t]
        BY <2>4, <3>4, Zenon
      <4> QED BY <4>1
    <3> QED BY <3>3, <3>5, Zenon
  <2>9. h.out = Without(g.out, v) /\ h.inc = Without(g.inc, v) /\ h.lru = t
    BY <2>8
  <2>10. Without(g.out, v) \in CacheMaps(E) /\ Without(g.inc, v) \in CacheMaps(E)
    BY <1>1, WithoutStays
  <2>11. h \in Caches(E)
    BY <2>5, <2>8, <2>10 DEF Caches
  <2>12. LRUGovernsMaps(h)
    <3>1. DOMAIN h.out = DOMAIN g.out \ {v} /\ DOMAIN h.inc = DOMAIN g.inc \ {v}
      BY <2>9 DEF Without
    <3>2. ToSet(h.lru) = DOMAIN h.out \cup DOMAIN h.inc
      BY <1>3, <1>7, <2>3, <2>5, <2>9, <3>1
    <3>3. Len(t) <= MaxGraphSize
      BY <1>4, <2>7
    <3> QED BY <2>6, <2>9, <3>2, <3>3 DEF LRUGovernsMaps
  <2>13. Evicts(g, h, e, v)
    BY <1>2, <1>7, <2>3, <2>5, <2>7, <2>9 DEF Evicts
  <2> QED BY <2>11, <2>12, <2>13
<1> QED BY <1>5, <1>6, <1>7

\* An empty list that is put first makes no difference.
LEMMA PutTwice ==
    ASSUME NEW E, NEW f \in CacheMaps(E), NEW e, e \notin DOMAIN f, NEW x
    PROVE  Put(Put(f, e, {}), e, EdgesOf(Put(f, e, {}), e) \cup {x}) = Put(f, e, EdgesOf(f, e) \cup {x})
<1>1. EdgesOf(Put(f, e, {}), e) = {} /\ EdgesOf(f, e) = {}
  BY DEF EdgesOf, Put
<1>2. PICK p : p = Put(f, e, {})
  OBVIOUS
<1>3. DOMAIN p = DOMAIN f \cup {e} /\ \A y \in DOMAIN f : p[y] = f[y]
  BY <1>2 DEF Put
<1>4. Put(p, e, {x}) = Put(f, e, {x})
  BY <1>3 DEF Put
<1>5. {} \cup {x} = {x}
  OBVIOUS
<1> QED BY <1>1, <1>2, <1>4, <1>5, Zenon

\* Every edge is in lists of its own ends, at both of them as long as nothing was evicted.
OwnLists(g) ==
    /\ \A e \in DOMAIN g.out : \A x \in g.out[e] : x.from = e
    /\ \A e \in DOMAIN g.inc : \A x \in g.inc[e] : x.to = e

BothLists(g) ==
    /\ \A e \in DOMAIN g.out : \A x \in g.out[e] : x \in EdgesOf(g.inc, x.to)
    /\ \A e \in DOMAIN g.inc : \A x \in g.inc[e] : x \in EdgesOf(g.out, x.from)

\* That is what EdgesTwoSided says: neighbours are mutual because of it.
LEMMA TwoSidedIs ==
    ASSUME NEW g
    PROVE  /\ EdgesTwoSided(g, TRUE) <=> OwnLists(g)
           /\ EdgesTwoSided(g, FALSE) <=> OwnLists(g) /\ BothLists(g)
<1>1. EdgesTwoSided(g, TRUE) <=> OwnLists(g)
  BY DEF EdgesTwoSided, OwnLists
<1>2. EdgesTwoSided(g, FALSE) => OwnLists(g) /\ BothLists(g)
  BY DEF EdgesTwoSided, OwnLists, BothLists
<1>3. ASSUME OwnLists(g), BothLists(g), NEW e, NEW x \in Neighbors(g, e) PROVE e \in Neighbors(g, x)
  <2>1. CASE \E y \in EdgesOf(g.out, e) : y.to = x
    <3>1. PICK y \in EdgesOf(g.out, e) : y.to = x
      BY <2>1
    <3>2. e \in DOMAIN g.out /\ y \in g.out[e]
      BY <3>1 DEF EdgesOf
    <3>3. y.from = e /\ y \in EdgesOf(g.inc, x)
      BY <1>3, <3>1, <3>2 DEF OwnLists, BothLists
    <3> QED BY <3>3 DEF Neighbors
  <2>2. CASE \E y \in EdgesOf(g.inc, e) : y.from = x
    <3>1. PICK y \in EdgesOf(g.inc, e) : y.from = x
      BY <2>2
    <3>2. e \in DOMAIN g.inc /\ y \in g.inc[e]
      BY <3>1 DEF EdgesOf
    <3>3. y.to = e /\ y \in EdgesOf(g.out, x)
      BY <1>3, <3>1, <3>2 DEF OwnLists, BothLists
    <3> QED BY <3>3 DEF Neighbors
  <2> QED BY <1>3, <2>1, <2>2 DEF Neighbors
<1>4. OwnLists(g) /\ BothLists(g) => EdgesTwoSided(g, FALSE)
  BY <1>3 DEF EdgesTwoSided, OwnLists, BothLists
<1> QED BY <1>1, <1>2, <1>4

OutTouched(g, a) == IF a \in DOMAIN g.out THEN g ELSE TouchEntity([g EXCEPT !.out = Put(@, a, {})], a)
OutListed(g, a, edge) == [g EXCEPT !.out = Put(@, a, EdgesOf(@, a) \cup {edge})]

\* Nobody was evicted, or one was and the cache is full.
OutDone(g, h, a, edge) ==
    \/ /\ h.out = Put(g.out, a, EdgesOf(g.out, a) \cup {edge}) /\ h.inc = g.inc
       /\ ToSet(h.lru) = ToSet(g.lru) \cup {a}
    \/ /\ \E v \in ToSet(g.lru) : v # a /\ ToSet(h.lru) = (ToSet(g.lru) \ {v}) \cup {a}
       /\ a \notin ToSet(g.lru) /\ Len(h.lru) = MaxGraphSize

\* AddEdge, its first half: the list of an end gets the edge; an end without a list is touched.
LEMMA OutIs ==
    ASSUME NEW E, NEW g \in Caches(E), LRUGovernsMaps(g), NEW edge \in EdgesAmong(E),
           NEW a, a = edge.from,
           NEW g1, g1 = OutTouched(g, a), NEW h, h = OutListed(g1, a, edge)
    PROVE  /\ h \in Caches(E) /\ LRUGovernsMaps(h) /\ (OwnLists(g) => OwnLists(h))
           /\ OutDone(g, h, a, edge)
<1>1. /\ g.out \in CacheMaps(E) /\ g.inc \in CacheMaps(E) /\ g.lru \in Seq(E)
      /\ g = [out |-> g.out, inc |-> g.inc, lru |-> g.lru] /\ a \in E
  BY DEF Caches, EdgesAmong
<1>2. PICK g0 : g0 = [g EXCEPT !.out = Put(@, a, {})]
  OBVIOUS
<1>3. g0.out = Put(g.out, a, {}) /\ g0.inc = g.inc /\ g0.lru = g.lru
  BY <1>1, <1>2
<1>4. Put(g.out, a, {}) \in CacheMaps(E) /\ DOMAIN Put(g.out, a, {}) = DOMAIN g.out \cup {a}
  <2>1. {} \in SUBSET EdgesAmong(E)
    OBVIOUS
  <2>2. PICK v : v = {}
    OBVIOUS
  <2>3. PICK f : f = g.out
    OBVIOUS
  <2>4. a \in E /\ f \in CacheMaps(E) /\ v \in SUBSET EdgesAmong(E)
    BY <1>1, <2>2, <2>3
  <2>5. Put(f, a, v) \in CacheMaps(E)
    BY <2>4, PutStays, Zenon
  <2>6. DOMAIN Put(f, a, v) = DOMAIN f \cup {a}
    BY DEF Put
  <2> QED BY <2>2, <2>3, <2>5, <2>6, Zenon
<1>5. ToSet(g.lru) = DOMAIN g.out \cup DOMAIN g.inc
  BY DEF LRUGovernsMaps
\* Adding an edge to a list that is there.
<1>6. ASSUME NEW k \in Caches(E), LRUGovernsMaps(k), a \in DOMAIN k.out,
             h = OutListed(k, a, edge)
      PROVE  /\ h \in Caches(E) /\ LRUGovernsMaps(h) /\ (OwnLists(k) => OwnLists(h))
             /\ h.out = Put(k.out, a, EdgesOf(k.out, a) \cup {edge}) /\ h.inc = k.inc /\ h.lru = k.lru
  <2>1. /\ k.out \in CacheMaps(E) /\ k.inc \in CacheMaps(E) /\ k.lru \in Seq(E)
        /\ k = [out |-> k.out, inc |-> k.inc, lru |-> k.lru]
    BY <1>6 DEF Caches
  <2>2. PICK p : p = Put(k.out, a, EdgesOf(k.out, a) \cup {edge})
    OBVIOUS
  <2>3. p \in CacheMaps(E) /\ DOMAIN p = DOMAIN k.out
    <3>1. EdgesOf(k.out, a) \cup {edge} \in SUBSET EdgesAmong(E)
      <4>1. k.out[a] \in SUBSET EdgesAmong(E)
        BY <1>6, <2>1, MapIs
      <4>2. EdgesOf(k.out, a) = k.out[a]
        BY <1>6 DEF EdgesOf
      <4> QED BY <4>1, <4>2
    <3>2. p \in CacheMaps(E) /\ DOMAIN p = DOMAIN k.out \cup {a}
      <4>1. PICK f : f = k.out
        OBVIOUS
      <4>2. PICK v : v = EdgesOf(k.out, a) \cup {edge}
        OBVIOUS
      <4>3. a \in E /\ f \in CacheMaps(E) /\ v \in SUBSET EdgesAmong(E)
        BY <1>1, <2>1, <3>1, <4>1, <4>2
      <4>4. Put(f, a, v) \in CacheMaps(E)
        BY <4>3, PutStays, Zenon
      <4>5. p = Put(f, a, v)
        BY <2>2, <4>1, <4>2, Zenon
      <4>6. DOMAIN Put(f, a, v) = DOMAIN f \cup {a}
        BY DEF Put
      <4> QED BY <4>1, <4>4, <4>5, <4>6, Zenon
    <3> QED BY <1>6, <3>2
  <2>4. h.out = p /\ h.inc = k.inc /\ h.lru = k.lru /\ h = [k EXCEPT !.out = p]
    BY <1>6, <2>1, <2>2 DEF OutListed
  <2>5. h \in Caches(E)
    BY <2>3, <2>4 DEF Caches
  <2>6. LRUGovernsMaps(h)
    BY <1>6, <2>3, <2>4 DEF LRUGovernsMaps
  <2>7. ASSUME OwnLists(k) PROVE OwnLists(h)
    <3>1. ASSUME NEW e \in DOMAIN p, NEW x \in p[e] PROVE x.from = e
      <4>1. CASE e = a
        <5>1. p[a] = EdgesOf(k.out, a) \cup {edge}
          BY <1>6, <2>2 DEF Put
        <5>2. EdgesOf(k.out, a) = k.out[a]
          BY <1>6 DEF EdgesOf
        <5> QED BY <1>6, <2>7, <3>1, <4>1, <5>1, <5>2 DEF OwnLists
      <4>2. CASE e # a
        <5>1. e \in DOMAIN k.out
          BY <2>3, <3>1
        <5>2. p[e] = k.out[e]
          BY <2>2, <4>2, <5>1 DEF Put
        <5> QED BY <2>7, <3>1, <5>1, <5>2 DEF OwnLists
      <4> QED BY <4>1, <4>2
    <3> QED BY <2>4, <2>7, <3>1 DEF OwnLists
  <2> QED BY <2>2, <2>4, <2>5, <2>6, <2>7
<1>7. CASE a \in DOMAIN g.out
  <2>1. h = OutListed(g, a, edge)
    BY <1>7 DEF OutTouched
  <2>2. ToSet(g.lru) \cup {a} = ToSet(g.lru)
    BY <1>5, <1>7
  <2>3. /\ h \in Caches(E) /\ LRUGovernsMaps(h) /\ (OwnLists(g) => OwnLists(h))
        /\ h.out = Put(g.out, a, EdgesOf(g.out, a) \cup {edge}) /\ h.inc = g.inc /\ h.lru = g.lru
    BY <1>6, <1>7, <2>1
  <2> QED BY <2>2, <2>3 DEF OutDone
<1>8. CASE a \notin DOMAIN g.out
  <2>1. g1 = TouchEntity(g0, a)
    BY <1>2, <1>8 DEF OutTouched
  <2>2. g0 \in Caches(E)
    BY <1>2, <1>4 DEF Caches
  <2>3. GovernsBut(g0, a)
    <3>1. ToSet(g.lru) \cup {a} = (DOMAIN g.out \cup {a}) \cup DOMAIN g.inc
      BY <1>5
    <3> QED BY <1>3, <1>4, <3>1 DEF GovernsBut, LRUGovernsMaps
  <2>4. /\ g1 \in Caches(E) /\ LRUGovernsMaps(g1)
        /\ MovesUp(g0, g1, a) \/ \E v : Evicts(g0, g1, a, v)
    BY <1>1, <2>1, <2>2, <2>3, TouchIs
  <2>5. OwnLists(g) => OwnLists(g0)
    <3>1. Put(g.out, a, {})[a] = {} /\ \A e \in DOMAIN g.out : Put(g.out, a, {})[e] = g.out[e]
      BY <1>8 DEF Put
    <3> QED BY <1>3, <1>4, <3>1 DEF OwnLists
  <2>6. CASE MovesUp(g0, g1, a)
    <3>1. g1.out = Put(g.out, a, {}) /\ g1.inc = g.inc /\ ToSet(g1.lru) = ToSet(g.lru) \cup {a}
      BY <1>3, <2>6 DEF MovesUp
    <3>2. a \in DOMAIN g1.out
      BY <1>4, <3>1
    <3>3. OwnLists(g) => OwnLists(g1)
      BY <1>3, <2>5, <3>1 DEF OwnLists
    <3>4. /\ h \in Caches(E) /\ LRUGovernsMaps(h) /\ (OwnLists(g1) => OwnLists(h))
          /\ h.out = Put(g1.out, a, EdgesOf(g1.out, a) \cup {edge}) /\ h.inc = g1.inc /\ h.lru = g1.lru
      BY <1>6, <2>4, <3>2
    <3>5. h.out = Put(g.out, a, EdgesOf(g.out, a) \cup {edge})
      <4>1. PICK f \in CacheMaps(E) : f = g.out
        BY <1>1
      <4>2. a \notin DOMAIN f
        BY <1>8, <4>1
      <4>3. Put(Put(f, a, {}), a, EdgesOf(Put(f, a, {}), a) \cup {edge}) = Put(f, a, EdgesOf(f, a) \cup {edge})
        BY <4>2, PutTwice
      <4>4. g1.out = Put(f, a, {})
        BY <3>1, <4>1, Zenon
      <4> QED BY <3>4, <4>1, <4>3, <4>4, Zenon
    <3> QED BY <3>1, <3>3, <3>4, <3>5 DEF OutDone
  <2>7. ASSUME NEW v, Evicts(g0, g1, a, v)
        PROVE  /\ h \in Caches(E) /\ LRUGovernsMaps(h) /\ (OwnLists(g) => OwnLists(h))
               /\ v \in ToSet(g.lru) /\ v # a /\ ToSet(h.lru) = (ToSet(g.lru) \ {v}) \cup {a}
               /\ a \notin ToSet(g.lru) /\ Len(h.lru) = MaxGraphSize
    <3>1. /\ g1.out = Without(Put(g.out, a, {}), v) /\ g1.inc = Without(g.inc, v)
          /\ ToSet(g1.lru) = (ToSet(g.lru) \ {v}) \cup {a}
          /\ v \in ToSet(g.lru) /\ a \notin ToSet(g.lru) /\ Len(g1.lru) = MaxGraphSize
      BY <1>3, <2>7 DEF Evicts
    <3>2. v # a
      BY <3>1
    <3>3. a \in DOMAIN g1.out
      BY <1>4, <3>1, <3>2 DEF Without
    <3>4. OwnLists(g0) => OwnLists(g1)
      BY <1>3, <3>1 DEF OwnLists, Without
    <3>5. /\ h \in Caches(E) /\ LRUGovernsMaps(h) /\ (OwnLists(g1) => OwnLists(h)) /\ h.lru = g1.lru
      BY <1>6, <2>4, <3>3
    <3> QED BY <2>5, <3>1, <3>2, <3>4, <3>5
  <2> QED BY <2>4, <2>6, <2>7 DEF OutDone
<1> QED BY <1>7, <1>8

IncTouched(g, a) == IF a \in DOMAIN g.inc THEN g ELSE TouchEntity([g EXCEPT !.inc = Put(@, a, {})], a)
IncListed(g, a, edge) == [g EXCEPT !.inc = Put(@, a, EdgesOf(@, a) \cup {edge})]

\* Nobody was evicted, or one was and the cache is full.
IncDone(g, h, a, edge) ==
    \/ /\ h.inc = Put(g.inc, a, EdgesOf(g.inc, a) \cup {edge}) /\ h.out = g.out
       /\ ToSet(h.lru) = ToSet(g.lru) \cup {a}
    \/ /\ \E v \in ToSet(g.lru) : v # a /\ ToSet(h.lru) = (ToSet(g.lru) \ {v}) \cup {a}
       /\ a \notin ToSet(g.lru) /\ Len(h.lru) = MaxGraphSize

\* AddEdge, its second half: the list of an end gets the edge; an end without a list is touched.
LEMMA IncIs ==
    ASSUME NEW E, NEW g \in Caches(E), LRUGovernsMaps(g), NEW edge \in EdgesAmong(E),
           NEW a, a = edge.to,
           NEW g1, g1 = IncTouched(g, a), NEW h, h = IncListed(g1, a, edge)
    PROVE  /\ h \in Caches(E) /\ LRUGovernsMaps(h) /\ (OwnLists(g) => OwnLists(h))
           /\ IncDone(g, h, a, edge)
<1>1. /\ g.out \in CacheMaps(E) /\ g.inc \in CacheMaps(E) /\ g.lru \in Seq(E)
      /\ g = [out |-> g.out, inc |-> g.inc, lru |-> g.lru] /\ a \in E
  BY DEF Caches, EdgesAmong
<1>2. PICK g0 : g0 = [g EXCEPT !.inc = Put(@, a, {})]
  OBVIOUS
<1>3. g0.inc = Put(g.inc, a, {}) /\ g0.out = g.out /\ g0.lru = g.lru
  BY <1>1, <1>2
<1>4. Put(g.inc, a, {}) \in CacheMaps(E) /\ DOMAIN Put(g.inc, a, {}) = DOMAIN g.inc \cup {a}
  <2>1. {} \in SUBSET EdgesAmong(E)
    OBVIOUS
  <2>2. PICK v : v = {}
    OBVIOUS
  <2>3. PICK f : f = g.inc
    OBVIOUS
  <2>4. a \in E /\ f \in CacheMaps(E) /\ v \in SUBSET EdgesAmong(E)
    BY <1>1, <2>2, <2>3
  <2>5. Put(f, a, v) \in CacheMaps(E)
    BY <2>4, PutStays, Zenon
  <2>6. DOMAIN Put(f, a, v) = DOMAIN f \cup {a}
    BY DEF Put
  <2> QED BY <2>2, <2>3, <2>5, <2>6, Zenon
<1>5. ToSet(g.lru) = DOMAIN g.out \cup DOMAIN g.inc
  BY DEF LRUGovernsMaps
\* Adding an edge to a list that is there.
<1>6. ASSUME NEW k \in Caches(E), LRUGovernsMaps(k), a \in DOMAIN k.inc,
             h = IncListed(k, a, edge)
      PROVE  /\ h \in Caches(E) /\ LRUGovernsMaps(h) /\ (OwnLists(k) => OwnLists(h))
             /\ h.inc = Put(k.inc, a, EdgesOf(k.inc, a) \cup {edge}) /\ h.out = k.out /\ h.lru = k.lru
  <2>1. /\ k.out \in CacheMaps(E) /\ k.inc \in CacheMaps(E) /\ k.lru \in Seq(E)
        /\ k = [out |-> k.out, inc |-> k.inc, lru |-> k.lru]
    BY <1>6 DEF Caches
  <2>2. PICK p : p = Put(k.inc, a, EdgesOf(k.inc, a) \cup {edge})
    OBVIOUS
  <2>3. p \in CacheMaps(E) /\ DOMAIN p = DOMAIN k.inc
    <3>1. EdgesOf(k.inc, a) \cup {edge} \in SUBSET EdgesAmong(E)
      <4>1. k.inc[a] \in SUBSET EdgesAmong(E)
        BY <1>6, <2>1, MapIs
      <4>2. EdgesOf(k.inc, a) = k.inc[a]
        BY <1>6 DEF EdgesOf
      <4> QED BY <4>1, <4>2
    <3>2. p \in CacheMaps(E) /\ DOMAIN p = DOMAIN k.inc \cup {a}
      <4>1. PICK f : f = k.inc
        OBVIOUS
      <4>2. PICK v : v = EdgesOf(k.inc, a) \cup {edge}
        OBVIOUS
      <4>3. a \in E /\ f \in CacheMaps(E) /\ v \in SUBSET EdgesAmong(E)
        BY <1>1, <2>1, <3>1, <4>1, <4>2
      <4>4. Put(f, a, v) \in CacheMaps(E)
        BY <4>3, PutStays, Zenon
      <4>5. p = Put(f, a, v)
        BY <2>2, <4>1, <4>2, Zenon
      <4>6. DOMAIN Put(f, a, v) = DOMAIN f \cup {a}
        BY DEF Put
      <4> QED BY <4>1, <4>4, <4>5, <4>6, Zenon
    <3> QED BY <1>6, <3>2
  <2>4. h.inc = p /\ h.out = k.out /\ h.lru = k.lru /\ h = [k EXCEPT !.inc = p]
    BY <1>6, <2>1, <2>2 DEF IncListed
  <2>5. h \in Caches(E)
    BY <2>3, <2>4 DEF Caches
  <2>6. LRUGovernsMaps(h)
    BY <1>6, <2>3, <2>4 DEF LRUGovernsMaps
  <2>7. ASSUME OwnLists(k) PROVE OwnLists(h)
    <3>1. ASSUME NEW e \in DOMAIN p, NEW x \in p[e] PROVE x.to = e
      <4>1. CASE e = a
        <5>1. p[a] = EdgesOf(k.inc, a) \cup {edge}
          BY <1>6, <2>2 DEF Put
        <5>2. EdgesOf(k.inc, a) = k.inc[a]
          BY <1>6 DEF EdgesOf
        <5> QED BY <1>6, <2>7, <3>1, <4>1, <5>1, <5>2 DEF OwnLists
      <4>2. CASE e # a
        <5>1. e \in DOMAIN k.inc
          BY <2>3, <3>1
        <5>2. p[e] = k.inc[e]
          BY <2>2, <4>2, <5>1 DEF Put
        <5> QED BY <2>7, <3>1, <5>1, <5>2 DEF OwnLists
      <4> QED BY <4>1, <4>2
    <3> QED BY <2>4, <2>7, <3>1 DEF OwnLists
  <2> QED BY <2>2, <2>4, <2>5, <2>6, <2>7
<1>7. CASE a \in DOMAIN g.inc
  <2>1. h = IncListed(g, a, edge)
    BY <1>7 DEF IncTouched
  <2>2. ToSet(g.lru) \cup {a} = ToSet(g.lru)
    BY <1>5, <1>7
  <2>3. /\ h \in Caches(E) /\ LRUGovernsMaps(h) /\ (OwnLists(g) => OwnLists(h))
        /\ h.inc = Put(g.inc, a, EdgesOf(g.inc, a) \cup {edge}) /\ h.out = g.out /\ h.lru = g.lru
    BY <1>6, <1>7, <2>1
  <2> QED BY <2>2, <2>3 DEF IncDone
<1>8. CASE a \notin DOMAIN g.inc
  <2>1. g1 = TouchEntity(g0, a)
    BY <1>2, <1>8 DEF IncTouched
  <2>2. g0 \in Caches(E)
    BY <1>2, <1>4 DEF Caches
  <2>3. GovernsBut(g0, a)
    <3>1. ToSet(g.lru) \cup {a} = (DOMAIN g.inc \cup {a}) \cup DOMAIN g.out
      BY <1>5
    <3> QED BY <1>3, <1>4, <3>1 DEF GovernsBut, LRUGovernsMaps
  <2>4. /\ g1 \in Caches(E) /\ LRUGovernsMaps(g1)
        /\ MovesUp(g0, g1, a) \/ \E v : Evicts(g0, g1, a, v)
    BY <1>1, <2>1, <2>2, <2>3, TouchIs
  <2>5. OwnLists(g) => OwnLists(g0)
    <3>1. Put(g.inc, a, {})[a] = {} /\ \A e \in DOMAIN g.inc : Put(g.inc, a, {})[e] = g.inc[e]
      BY <1>8 DEF Put
    <3> QED BY <1>3, <1>4, <3>1 DEF OwnLists
  <2>6. CASE MovesUp(g0, g1, a)
    <3>1. g1.inc = Put(g.inc, a, {}) /\ g1.out = g.out /\ ToSet(g1.lru) = ToSet(g.lru) \cup {a}
      BY <1>3, <2>6 DEF MovesUp
    <3>2. a \in DOMAIN g1.inc
      BY <1>4, <3>1
    <3>3. OwnLists(g) => OwnLists(g1)
      BY <1>3, <2>5, <3>1 DEF OwnLists
    <3>4. /\ h \in Caches(E) /\ LRUGovernsMaps(h) /\ (OwnLists(g1) => OwnLists(h))
          /\ h.inc = Put(g1.inc, a, EdgesOf(g1.inc, a) \cup {edge}) /\ h.out = g1.out /\ h.lru = g1.lru
      BY <1>6, <2>4, <3>2
    <3>5. h.inc = Put(g.inc, a, EdgesOf(g.inc, a) \cup {edge})
      <4>1. PICK f \in CacheMaps(E) : f = g.inc
        BY <1>1
      <4>2. a \notin DOMAIN f
        BY <1>8, <4>1
      <4>3. Put(Put(f, a, {}), a, EdgesOf(Put(f, a, {}), a) \cup {edge}) = Put(f, a, EdgesOf(f, a) \cup {edge})
        BY <4>2, PutTwice
      <4>4. g1.inc = Put(f, a, {})
        BY <3>1, <4>1, Zenon
      <4> QED BY <3>4, <4>1, <4>3, <4>4, Zenon
    <3> QED BY <3>1, <3>3, <3>4, <3>5 DEF IncDone
  <2>7. ASSUME NEW v, Evicts(g0, g1, a, v)
        PROVE  /\ h \in Caches(E) /\ LRUGovernsMaps(h) /\ (OwnLists(g) => OwnLists(h))
               /\ v \in ToSet(g.lru) /\ v # a /\ ToSet(h.lru) = (ToSet(g.lru) \ {v}) \cup {a}
               /\ a \notin ToSet(g.lru) /\ Len(h.lru) = MaxGraphSize
    <3>1. /\ g1.inc = Without(Put(g.inc, a, {}), v) /\ g1.out = Without(g.out, v)
          /\ ToSet(g1.lru) = (ToSet(g.lru) \ {v}) \cup {a}
          /\ v \in ToSet(g.lru) /\ a \notin ToSet(g.lru) /\ Len(g1.lru) = MaxGraphSize
      BY <1>3, <2>7 DEF Evicts
    <3>2. v # a
      BY <3>1
    <3>3. a \in DOMAIN g1.inc
      BY <1>4, <3>1, <3>2 DEF Without
    <3>4. OwnLists(g0) => OwnLists(g1)
      BY <1>3, <3>1 DEF OwnLists, Without
    <3>5. /\ h \in Caches(E) /\ LRUGovernsMaps(h) /\ (OwnLists(g1) => OwnLists(h)) /\ h.lru = g1.lru
      BY <1>6, <2>4, <3>3
    <3> QED BY <2>5, <3>1, <3>2, <3>4, <3>5
  <2> QED BY <2>4, <2>6, <2>7 DEF IncDone
<1> QED BY <1>7, <1>8

\* AddEdge: both halves. Who is in the cache afterwards says whether one of them
\* evicted somebody.
LEMMA AddEdgeIs ==
    ASSUME NEW E, NEW g \in Caches(E), LRUGovernsMaps(g), NEW edge \in EdgesAmong(E),
           NEW h, h = AddEdge(g, edge)
    PROVE  /\ h \in Caches(E) /\ LRUGovernsMaps(h) /\ (OwnLists(g) => OwnLists(h))
           /\ \/ /\ h.out = Put(g.out, edge.from, EdgesOf(g.out, edge.from) \cup {edge})
                 /\ h.inc = Put(g.inc, edge.to, EdgesOf(g.inc, edge.to) \cup {edge})
              \/ ~(ToSet(g.lru) \cup {edge.from, edge.to} \subseteq ToSet(h.lru))
<1>1. PICK a, b : a = edge.from /\ b = edge.to
  OBVIOUS
<1>2. PICK g1 : g1 = OutTouched(g, a)
  OBVIOUS
<1>3. PICK g2 : g2 = OutListed(g1, a, edge)
  OBVIOUS
<1>4. PICK g3 : g3 = IncTouched(g2, b)
  OBVIOUS
<1>5. h = IncListed(g3, b, edge)
  BY <1>1, <1>2, <1>3, <1>4 DEF AddEdge, OutTouched, OutListed, IncTouched, IncListed
<1>6. /\ g2 \in Caches(E) /\ LRUGovernsMaps(g2) /\ (OwnLists(g) => OwnLists(g2))
      /\ \/ /\ g2.out = Put(g.out, a, EdgesOf(g.out, a) \cup {edge}) /\ g2.inc = g.inc
            /\ ToSet(g2.lru) = ToSet(g.lru) \cup {a}
         \/ /\ \E v \in ToSet(g.lru) : v # a /\ ToSet(g2.lru) = (ToSet(g.lru) \ {v}) \cup {a}
            /\ a \notin ToSet(g.lru) /\ Len(g2.lru) = MaxGraphSize
  <2>1. /\ g2 \in Caches(E) /\ LRUGovernsMaps(g2) /\ (OwnLists(g) => OwnLists(g2))
        /\ OutDone(g, g2, a, edge)
    BY <1>1, <1>2, <1>3, OutIs, Zenon
  <2> QED BY <2>1, Zenon DEF OutDone
<1>7. /\ h \in Caches(E) /\ LRUGovernsMaps(h) /\ (OwnLists(g2) => OwnLists(h))
      /\ \/ /\ h.inc = Put(g2.inc, b, EdgesOf(g2.inc, b) \cup {edge}) /\ h.out = g2.out
            /\ ToSet(h.lru) = ToSet(g2.lru) \cup {b}
         \/ /\ \E v \in ToSet(g2.lru) : v # b /\ ToSet(h.lru) = (ToSet(g2.lru) \ {v}) \cup {b}
            /\ b \notin ToSet(g2.lru) /\ Len(h.lru) = MaxGraphSize
  <2>1. /\ h \in Caches(E) /\ LRUGovernsMaps(h) /\ (OwnLists(g2) => OwnLists(h))
        /\ IncDone(g2, h, b, edge)
    BY <1>1, <1>4, <1>5, <1>6, IncIs, Zenon
  <2> QED BY <2>1, Zenon DEF IncDone
<1>8. CASE \E v \in ToSet(g2.lru) : v # b /\ ToSet(h.lru) = (ToSet(g2.lru) \ {v}) \cup {b}
  <2>1. PICK v \in ToSet(g2.lru) : v # b /\ ToSet(h.lru) = (ToSet(g2.lru) \ {v}) \cup {b}
    BY <1>8
  <2>2. v \in ToSet(g.lru) \cup {a}
    BY <1>6, <2>1
  <2>3. v \notin ToSet(h.lru)
    BY <2>1
  <2> QED BY <1>1, <1>6, <1>7, <2>2, <2>3
<1>9. CASE /\ h.inc = Put(g2.inc, b, EdgesOf(g2.inc, b) \cup {edge}) /\ h.out = g2.out
           /\ ToSet(h.lru) = ToSet(g2.lru) \cup {b}
  <2>1. CASE g2.out = Put(g.out, a, EdgesOf(g.out, a) \cup {edge}) /\ g2.inc = g.inc
    <3>1. /\ h.out = Put(g.out, edge.from, EdgesOf(g.out, edge.from) \cup {edge})
          /\ h.inc = Put(g.inc, edge.to, EdgesOf(g.inc, edge.to) \cup {edge})
      BY <1>1, <1>9, <2>1, Zenon
    <3> QED BY <1>6, <1>7, <3>1, Zenon
  <2>2. CASE /\ \E v \in ToSet(g.lru) : v # a /\ ToSet(g2.lru) = (ToSet(g.lru) \ {v}) \cup {a}
             /\ a \notin ToSet(g.lru) /\ Len(g2.lru) = MaxGraphSize
    <3>1. PICK v \in ToSet(g.lru) : v # a /\ ToSet(g2.lru) = (ToSet(g.lru) \ {v}) \cup {a}
      BY <2>2
    <3>2. v \notin ToSet(g2.lru)
      BY <3>1
    \* A place for b would be one more than the cache has.
    <3>3. b \in ToSet(g2.lru)
      <4>1. SUFFICES ASSUME b \notin ToSet(g2.lru) PROVE FALSE
        OBVIOUS
      <4>2. g2.lru \in Seq(E) /\ h.lru \in Seq(E)
        BY <1>6, <1>7 DEF Caches
      <4>3. IsFiniteSet(ToSet(g2.lru)) /\ Cardinality(ToSet(g2.lru)) = MaxGraphSize
        BY <1>6, <2>2, <4>2, OnceCounts DEF LRUGovernsMaps
      <4>4. Cardinality(ToSet(g2.lru) \cup {b}) = MaxGraphSize + 1
        BY <4>1, <4>3, FS_AddElement
      <4>5. Cardinality(ToSet(h.lru)) <= MaxGraphSize
        BY <1>7 DEF LRUGovernsMaps
      <4>6. MaxGraphSize + 1 <= MaxGraphSize
        BY <1>9, <4>4, <4>5
      <4> QED BY <4>6, GraphAssumption
    <3>4. v \notin ToSet(h.lru)
      BY <1>9, <3>2, <3>3
    <3> QED BY <1>6, <1>7, <3>4
  <2> QED BY <1>6, <2>1, <2>2
<1> QED BY <1>7, <1>8, <1>9

\* The lists of both ends have the edge then.
LEMMA AddEdgeBoth ==
    ASSUME NEW g, NEW edge, NEW h, OwnLists(g), BothLists(g),
           h.out = Put(g.out, edge.from, EdgesOf(g.out, edge.from) \cup {edge}),
           h.inc = Put(g.inc, edge.to, EdgesOf(g.inc, edge.to) \cup {edge})
    PROVE  BothLists(h)
<1>1. \A e : EdgesOf(h.out, e) = IF e = edge.from THEN EdgesOf(g.out, e) \cup {edge} ELSE EdgesOf(g.out, e)
  BY DEF EdgesOf, Put
<1>2. \A e : EdgesOf(h.inc, e) = IF e = edge.to THEN EdgesOf(g.inc, e) \cup {edge} ELSE EdgesOf(g.inc, e)
  BY DEF EdgesOf, Put
<1>3. ASSUME NEW e \in DOMAIN h.out, NEW x \in h.out[e] PROVE x \in EdgesOf(h.inc, x.to)
  <2>1. x \in EdgesOf(h.out, e)
    BY DEF EdgesOf
  <2>2. x = edge \/ x \in EdgesOf(g.out, e)
    BY <1>1, <2>1
  <2>3. x \in EdgesOf(g.out, e) => x \in EdgesOf(g.inc, x.to)
    BY DEF EdgesOf, BothLists
  <2> QED BY <1>2, <2>2, <2>3
<1>4. ASSUME NEW e \in DOMAIN h.inc, NEW x \in h.inc[e] PROVE x \in EdgesOf(h.out, x.from)
  <2>1. x \in EdgesOf(h.inc, e)
    BY DEF EdgesOf
  <2>2. x = edge \/ x \in EdgesOf(g.inc, e)
    BY <1>2, <2>1
  <2>3. x \in EdgesOf(g.inc, e) => x \in EdgesOf(g.out, x.from)
    BY DEF EdgesOf, BothLists
  <2> QED BY <1>1, <2>2, <2>3
<1> QED BY <1>3, <1>4 DEF BothLists

\* The getters touch only what is in the cache, and evict nothing.
LEMMA GettersKeep ==
    ASSUME NEW E, NEW g \in Caches(E), LRUGovernsMaps(g), NEW e \in E,
           NEW h \in {AfterNeighbors(g, e), AfterOutgoing(g, e), AfterIncoming(g, e)}
    PROVE  h \in Caches(E) /\ LRUGovernsMaps(h) /\ h.out = g.out /\ h.inc = g.inc
<1>1. h = g \/ (h = TouchEntity(g, e) /\ e \in DOMAIN g.out \cup DOMAIN g.inc)
  BY DEF AfterNeighbors, AfterOutgoing, AfterIncoming, TouchIf
<1>2. CASE h = TouchEntity(g, e) /\ e \in DOMAIN g.out \cup DOMAIN g.inc
  <2>1. e \in ToSet(g.lru)
    BY <1>2 DEF LRUGovernsMaps
  <2>2. GovernsBut(g, e)
    BY <2>1 DEF GovernsBut, LRUGovernsMaps
  <2>3. /\ h \in Caches(E) /\ LRUGovernsMaps(h)
        /\ MovesUp(g, h, e) \/ \E v : Evicts(g, h, e, v)
    BY <1>2, <2>2, TouchIs
  <2> QED BY <2>1, <2>3 DEF MovesUp, Evicts
<1> QED BY <1>1, <1>2

\* RemoveEntity takes the lists of an entity and its edges out of the other lists.
LEMMA RemovalIs ==
    ASSUME NEW E, NEW g \in Caches(E), LRUGovernsMaps(g), OwnLists(g), NEW e \in E,
           NEW h, h = RemoveEntity(g, e)
    PROVE  /\ h \in Caches(E) /\ LRUGovernsMaps(h) /\ OwnLists(h)
           /\ BothLists(g) => BothLists(h)
<1>1. g.out \in CacheMaps(E) /\ g.inc \in CacheMaps(E) /\ g.lru \in Seq(E)
  BY DEF Caches
<1>2. /\ DOMAIN g.out \in SUBSET E /\ \A y \in DOMAIN g.out : g.out[y] \in SUBSET EdgesAmong(E)
      /\ DOMAIN g.inc \in SUBSET E /\ \A y \in DOMAIN g.inc : g.inc[y] \in SUBSET EdgesAmong(E)
  BY <1>1, MapIs
<1>3. PICK ends : ends = {x.to : x \in EdgesOf(g.out, e)}
  OBVIOUS
<1>4. PICK inc1 : inc1 = [x \in DOMAIN g.inc |->
                            IF x \in ends THEN {y \in g.inc[x] : y.from # e} ELSE g.inc[x]]
  OBVIOUS
<1>5. PICK out1 : out1 = Without(g.out, e)
  OBVIOUS
<1>6. PICK starts : starts = {x.from : x \in EdgesOf(inc1, e)}
  OBVIOUS
<1>7. PICK out2 : out2 = [x \in DOMAIN out1 |->
                            IF x \in starts THEN {y \in out1[x] : y.to # e} ELSE out1[x]]
  OBVIOUS
<1>8. h = [out |-> out2, inc |-> Without(inc1, e), lru |-> DropEntity(g.lru, e)]
  BY <1>3, <1>4, <1>5, <1>6, <1>7, Zenon DEF RemoveEntity
<1>9. h.out = out2 /\ h.inc = Without(inc1, e) /\ h.lru = DropEntity(g.lru, e)
  BY <1>8
<1>10. /\ DOMAIN inc1 = DOMAIN g.inc
       /\ \A x \in DOMAIN g.inc : inc1[x] = IF x \in ends THEN {y \in g.inc[x] : y.from # e} ELSE g.inc[x]
  BY <1>4
<1>11. /\ DOMAIN out2 = DOMAIN g.out \ {e}
       /\ \A x \in DOMAIN out2 : out2[x] = IF x \in starts THEN {y \in g.out[x] : y.to # e} ELSE g.out[x]
  BY <1>5, <1>7 DEF Without
<1>12. /\ DOMAIN h.inc = DOMAIN g.inc \ {e}
       /\ \A x \in DOMAIN h.inc : h.inc[x] = inc1[x]
  BY <1>9, <1>10 DEF Without
<1>13. h \in Caches(E)
  <2>1. \A x \in DOMAIN g.inc : inc1[x] \in SUBSET EdgesAmong(E)
    BY <1>2, <1>10
  <2>2. inc1 \in [DOMAIN g.inc -> SUBSET EdgesAmong(E)]
    BY <1>4, <1>10, <2>1
  <2>3. inc1 \in CacheMaps(E)
    BY <1>2, <2>2 DEF CacheMaps
  <2>4. Without(inc1, e) \in CacheMaps(E)
    BY <2>3, WithoutStays
  <2>5. \A x \in DOMAIN out2 : out2[x] \in SUBSET EdgesAmong(E)
    BY <1>2, <1>11
  <2>6. out2 \in [DOMAIN g.out \ {e} -> SUBSET EdgesAmong(E)]
    BY <1>7, <1>11, <2>5
  <2>7. DOMAIN g.out \ {e} \in SUBSET E
    BY <1>2
  <2>8. out2 \in CacheMaps(E)
    BY <2>6, <2>7 DEF CacheMaps
  <2>9. Once(g.lru)
    BY <1>1, OnceCounts DEF LRUGovernsMaps
  <2>10. DropEntity(g.lru, e) \in Seq(E)
    BY <1>1, <2>9, DropIs
  <2> QED BY <1>8, <2>4, <2>8, <2>10 DEF Caches
<1>14. LRUGovernsMaps(h)
  <2>1. Once(g.lru) /\ IsFiniteSet(ToSet(g.lru)) /\ Cardinality(ToSet(g.lru)) \in Nat
    BY <1>1, OnceCounts DEF LRUGovernsMaps
  <2>2. h.lru \in Seq(E) /\ Once(h.lru) /\ ToSet(h.lru) = ToSet(g.lru) \ {e}
    BY <1>1, <1>9, <2>1, DropIs
  <2>3. Cardinality(ToSet(h.lru)) = Len(h.lru)
    BY <2>2, OnceCounts
  <2>4. Cardinality(ToSet(g.lru) \ {e}) <= Cardinality(ToSet(g.lru))
    <3>1. Cardinality(ToSet(g.lru) \ {e})
             = IF e \in ToSet(g.lru) THEN Cardinality(ToSet(g.lru)) - 1 ELSE Cardinality(ToSet(g.lru))
      BY <2>1, FS_RemoveElement
    <3> QED BY <2>1, <3>1
  <2>5. Cardinality(ToSet(g.lru) \ {e}) \in Nat
    <3>1. IsFiniteSet(ToSet(g.lru) \ {e})
      BY <2>1, FS_RemoveElement
    <3> QED BY <3>1, FS_CardinalityType
  <2>6. Len(h.lru) <= MaxGraphSize
    <3>1. Cardinality(ToSet(g.lru)) <= MaxGraphSize
      BY DEF LRUGovernsMaps
    <3> QED BY <2>1, <2>2, <2>3, <2>4, <2>5, <3>1, GraphAssumption
  <2>7. ToSet(h.lru) = DOMAIN h.out \cup DOMAIN h.inc
    BY <1>9, <1>11, <1>12, <2>2 DEF LRUGovernsMaps
  <2> QED BY <2>3, <2>6, <2>7 DEF LRUGovernsMaps
<1>15. OwnLists(h)
  <2>1. ASSUME NEW x \in DOMAIN h.out, NEW y \in h.out[x] PROVE y.from = x
    <3>1. x \in DOMAIN g.out /\ y \in g.out[x]
      BY <1>9, <1>11
    <3> QED BY <3>1 DEF OwnLists
  <2>2. ASSUME NEW x \in DOMAIN h.inc, NEW y \in h.inc[x] PROVE y.to = x
    <3>1. x \in DOMAIN g.inc /\ y \in g.inc[x]
      BY <1>10, <1>12
    <3> QED BY <3>1 DEF OwnLists
  <2> QED BY <2>1, <2>2 DEF OwnLists
<1>16. ASSUME BothLists(g) PROVE BothLists(h)
  <2>1. ASSUME NEW x \in DOMAIN h.out, NEW y \in h.out[x] PROVE y \in EdgesOf(h.inc, y.to)
    <3>1. x \in DOMAIN g.out /\ x # e /\ y \in g.out[x] /\ (x \in starts => y.to # e)
      BY <1>9, <1>11
    <3>2. y.from = x /\ y \in EdgesOf(g.inc, y.to)
      BY <1>16, <3>1 DEF OwnLists, BothLists
    <3>3. y.to \in DOMAIN g.inc /\ y \in g.inc[y.to]
      BY <3>2 DEF EdgesOf
    <3>4. y \in inc1[y.to]
      BY <1>10, <3>1, <3>2, <3>3
    <3>5. y.to # e
      <4>1. SUFFICES ASSUME y.to = e PROVE x \in starts
        BY <3>1
      <4>2. y \in EdgesOf(inc1, e)
        BY <1>10, <3>3, <3>4, <4>1 DEF EdgesOf
      <4> QED BY <1>6, <3>2, <4>2
    <3>6. y.to \in DOMAIN h.inc /\ y \in h.inc[y.to]
      BY <1>12, <3>3, <3>4, <3>5
    <3> QED BY <3>6 DEF EdgesOf
  <2>2. ASSUME NEW x \in DOMAIN h.inc, NEW y \in h.inc[x] PROVE y \in EdgesOf(h.out, y.from)
    <3>1. x \in DOMAIN g.inc /\ x # e /\ y \in g.inc[x] /\ (x \in ends => y.from # e)
      BY <1>10, <1>12
    <3>2. y.to = x /\ y \in EdgesOf(g.out, y.from)
      BY <1>16, <3>1 DEF OwnLists, BothLists
    <3>3. y.from \in DOMAIN g.out /\ y \in g.out[y.from]
      BY <3>2 DEF EdgesOf
    <3>4. y.from # e
      <4>1. SUFFICES ASSUME y.from = e PROVE x \in ends
        BY <3>1
      <4>2. y \in EdgesOf(g.out, e)
        BY <3>2, <4>1
      <4> QED BY <1>3, <3>2, <4>2
    <3>5. y.from \in DOMAIN out2 /\ y \in out2[y.from]
      BY <1>11, <3>1, <3>2, <3>3, <3>4
    <3> QED BY <1>9, <3>5 DEF EdgesOf
  <2> QED BY <2>1, <2>2 DEF BothLists
<1> QED BY <1>13, <1>14, <1>15, <1>16

\* What the methods make of a cache.
AfterMethods(E, g) ==
    {AddEdge(g, edge) : edge \in EdgesAmong(E)}
        \cup {AfterNeighbors(g, e) : e \in E} \cup {AfterOutgoing(g, e) : e \in E}
        \cup {AfterIncoming(g, e) : e \in E} \cup {RemoveEntity(g, e) : e \in E}

\* The lists of a graph with the same maps.
LEMMA SameLists ==
    ASSUME NEW g, NEW h, h.out = g.out, h.inc = g.inc
    PROVE  (OwnLists(g) => OwnLists(h)) /\ (BothLists(g) => BothLists(h))
  BY DEF OwnLists, BothLists

\* The graph cache, of any size and for any entities, keeps its form from the empty
\* cache on, whatever methods are called in whatever order: the LRU list has exactly
\* the entities with edge lists, each once and no more than fit, through evictions
\* and removals, and the lists of an entity have only edges of its own.
THEOREM CacheKeepsForm ==
    ASSUME NEW E
    PROVE  /\ EmptyGraph \in Caches(E) /\ LRUGovernsMaps(EmptyGraph) /\ EdgesTwoSided(EmptyGraph, FALSE)
           /\ \A g \in Caches(E) : \A h \in AfterMethods(E, g) :
                 LRUGovernsMaps(g) /\ EdgesTwoSided(g, TRUE)
                    => h \in Caches(E) /\ LRUGovernsMaps(h) /\ EdgesTwoSided(h, TRUE)
<1>1. EmptyGraph \in Caches(E) /\ LRUGovernsMaps(EmptyGraph) /\ EdgesTwoSided(EmptyGraph, FALSE)
  <2>1. << >> \in Seq(E) /\ DOMAIN << >> = {} /\ Len(<< >>) = 0
    OBVIOUS
  <2>2. << >> \in CacheMaps(E)
    <3>1. << >> \in [{} -> SUBSET EdgesAmong(E)]
      OBVIOUS
    <3>2. {} \in SUBSET E
      OBVIOUS
    <3> QED BY <3>1, <3>2 DEF CacheMaps
  <2>3. EmptyGraph \in Caches(E)
    BY <2>1, <2>2 DEF EmptyGraph, Caches
  <2>4. EmptyGraph.out = << >> /\ EmptyGraph.inc = << >> /\ EmptyGraph.lru = << >>
    BY DEF EmptyGraph
  <2>5. ToSet(EmptyGraph.lru) = {}
    BY <2>1, <2>4 DEF ToSet
  <2>6. Cardinality({}) = 0
    BY FS_EmptySet
  <2>7. LRUGovernsMaps(EmptyGraph)
    BY <2>1, <2>4, <2>5, <2>6, GraphAssumption DEF LRUGovernsMaps
  <2>8. OwnLists(EmptyGraph) /\ BothLists(EmptyGraph)
    BY <2>1, <2>4 DEF OwnLists, BothLists
  <2> QED BY <2>3, <2>7, <2>8, TwoSidedIs
<1>2. ASSUME NEW g \in Caches(E), NEW h \in AfterMethods(E, g), LRUGovernsMaps(g), EdgesTwoSided(g, TRUE)
      PROVE  h \in Caches(E) /\ LRUGovernsMaps(h) /\ EdgesTwoSided(h, TRUE)
  <2>1. OwnLists(g)
    BY <1>2, TwoSidedIs
  <2>2. SUFFICES h \in Caches(E) /\ LRUGovernsMaps(h) /\ OwnLists(h)
    BY TwoSidedIs
  <2>3. CASE \E edge \in EdgesAmong(E) : h = AddEdge(g, edge)
    <3>1. PICK edge \in EdgesAmong(E) : h = AddEdge(g, edge)
      BY <2>3
    <3> QED BY <1>2, <2>1, <3>1, AddEdgeIs
  <2>4. CASE \E e \in E : h \in {AfterNeighbors(g, e), AfterOutgoing(g, e), AfterIncoming(g, e)}
    <3>1. PICK e \in E : h \in {AfterNeighbors(g, e), AfterOutgoing(g, e), AfterIncoming(g, e)}
      BY <2>4
    <3>2. h \in Caches(E) /\ LRUGovernsMaps(h) /\ h.out = g.out /\ h.inc = g.inc
      BY <1>2, <3>1, GettersKeep
    <3> QED BY <2>1, <3>2, SameLists
  <2>5. CASE \E e \in E : h = RemoveEntity(g, e)
    <3>1. PICK e \in E : h = RemoveEntity(g, e)
      BY <2>5
    <3> QED BY <1>2, <2>1, <3>1, RemovalIs
  <2> QED BY <1>2, <2>3, <2>4, <2>5 DEF AfterMethods
<1> QED BY <1>1, <1>2

\* No method of the graph cache makes an edge one-sided unless it evicts an entity:
\* an edge is in the list of its start if and only if it is in that of its end, so that
\* neighbours are mutual and RemoveEntity takes all edges of an entity. AddEdge evicts
\* nobody if the entities of the cache and both ends are in it afterwards.
THEOREM EdgesStayTwoSided ==
    ASSUME NEW E, NEW g \in Caches(E), LRUGovernsMaps(g), EdgesTwoSided(g, FALSE)
    PROVE  /\ \A edge \in EdgesAmong(E) :
                 ToSet(g.lru) \cup {edge.from, edge.to} \subseteq ToSet(AddEdge(g, edge).lru)
                    => EdgesTwoSided(AddEdge(g, edge), FALSE)
           /\ \A e \in E : /\ EdgesTwoSided(AfterNeighbors(g, e), FALSE)
                           /\ EdgesTwoSided(AfterOutgoing(g, e), FALSE)
                           /\ EdgesTwoSided(AfterIncoming(g, e), FALSE)
                           /\ EdgesTwoSided(RemoveEntity(g, e), FALSE)
<1>1. OwnLists(g) /\ BothLists(g)
  BY TwoSidedIs
<1>2. ASSUME NEW edge \in EdgesAmong(E),
             ToSet(g.lru) \cup {edge.from, edge.to} \subseteq ToSet(AddEdge(g, edge).lru)
      PROVE  EdgesTwoSided(AddEdge(g, edge), FALSE)
  <2>1. PICK h : h = AddEdge(g, edge)
    OBVIOUS
  <2>2. /\ OwnLists(h)
        /\ h.out = Put(g.out, edge.from, EdgesOf(g.out, edge.from) \cup {edge})
        /\ h.inc = Put(g.inc, edge.to, EdgesOf(g.inc, edge.to) \cup {edge})
    <3>1. /\ OwnLists(g) => OwnLists(h)
          /\ \/ /\ h.out = Put(g.out, edge.from, EdgesOf(g.out, edge.from) \cup {edge})
                /\ h.inc = Put(g.inc, edge.to, EdgesOf(g.inc, edge.to) \cup {edge})
             \/ ~(ToSet(g.lru) \cup {edge.from, edge.to} \subseteq ToSet(h.lru))
      BY <2>1, AddEdgeIs, Zenon
    <3>2. ToSet(g.lru) \cup {edge.from, edge.to} \subseteq ToSet(h.lru)
      BY <1>2, <2>1, Zenon
    <3> QED BY <1>1, <3>1, <3>2, Zenon
  <2>3. BothLists(h)
    BY <1>1, <2>2, AddEdgeBoth, Zenon
  <2> QED BY <2>1, <2>2, <2>3, TwoSidedIs
<1>3. ASSUME NEW e \in E, NEW h \in {AfterNeighbors(g, e), AfterOutgoing(g, e), AfterIncoming(g, e)}
      PROVE  EdgesTwoSided(h, FALSE)
  <2>1. h.out = g.out /\ h.inc = g.inc
    BY GettersKeep
  <2> QED BY <1>1, <2>1, SameLists, TwoSidedIs
<1>4. ASSUME NEW e \in E PROVE EdgesTwoSided(RemoveEntity(g, e), FALSE)
  <2>1. PICK h : h = RemoveEntity(g, e)
    OBVIOUS
  <2>2. OwnLists(h) /\ (BothLists(g) => BothLists(h))
    BY <1>1, <2>1, RemovalIs
  <2> QED BY <1>1, <2>1, <2>2, TwoSidedIs
<1> QED BY <1>2, <1>3, <1>4
=============================================================================
