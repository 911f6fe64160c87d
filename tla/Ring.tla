-------------------------------- MODULE Ring --------------------------------
(***************************************************************************)
(* The consistent hash ring (core/cluster/ring/ring.go): virtual nodes in  *)
(* the order of their hashes, to which nodes are added and from which they *)
(* are removed, and the owners of a key: the first distinct nodes found    *)
(* clockwise from the hash of the key.                                     *)
(*                                                                         *)
(* The hash of a virtual node is chosen once and for all, like SHA-1 is.   *)
(* No two virtual nodes have the same hash: the order of equal hashes is   *)
(* that of an unstable sort, and 64 bits make them unlikely.               *)
(***************************************************************************)
EXTENDS Naturals, Sequences, FiniteSets, FiniteSetsExt, SequencesExt, Ranks

CONSTANTS
    RingNodes,           \* the physical nodes
    VirtualNodesPerNode,
    ReplicationFactor,
    HashSpace            \* hashes are 0 .. HashSpace - 1

ASSUME RingAssumption ==
    /\ IsFiniteSet(RingNodes) /\ HashSpace \in Nat
    /\ VirtualNodesPerNode \in Nat \ {0} /\ ReplicationFactor \in Nat \ {0}
    /\ Cardinality(RingNodes) * VirtualNodesPerNode <= HashSpace

VARIABLES
    hash,          \* hash[n]: the positions of the virtual nodes of node n
    virtualNodes,  \* the virtual nodes of the ring, by hash
    nodes          \* the physical nodes of the ring

ringVars == << hash, virtualNodes, nodes >>

Hashes == 0 .. HashSpace - 1
VirtualNodesOf(n) == {[hash |-> h, node |-> n] : h \in hash[n]}

ByHash(S) ==
    LET hashes == {v.hash : v \in S}
    IN  [k \in 1 .. Cardinality(hashes) |-> CHOOSE v \in S : v.hash = Nth(hashes, k)]

RingInit ==
    /\ hash \in {h \in [RingNodes -> kSubset(VirtualNodesPerNode, Hashes)] :
                    \A m, n \in RingNodes : m # n => h[m] \cap h[n] = {}}
    /\ virtualNodes = << >> /\ nodes = {}

\* Mutant: the virtual nodes are not sorted again.
AddsUnsorted(n) ==
    /\ n \notin nodes
    /\ virtualNodes' = virtualNodes \o ByHash(VirtualNodesOf(n))
    /\ nodes' = nodes \cup {n}
    /\ UNCHANGED hash

AddNode(n) ==
    /\ n \notin nodes
    /\ virtualNodes' = ByHash(ToSet(virtualNodes) \cup VirtualNodesOf(n))
    /\ nodes' = nodes \cup {n}
    /\ UNCHANGED hash

RemoveNode(n) ==
    /\ n \in nodes
    /\ virtualNodes' = Select(virtualNodes, {i \in DOMAIN virtualNodes : virtualNodes[i].node # n})
    /\ nodes' = nodes \ {n}
    /\ UNCHANGED hash

\* The ring is built anew from its nodes.
Rebalance ==
    /\ virtualNodes' = ByHash(UNION {VirtualNodesOf(n) : n \in nodes})
    /\ UNCHANGED << hash, nodes >>

RingNext == (\E n \in RingNodes : AddNode(n) \/ RemoveNode(n)) \/ Rebalance
RingSpec == RingInit /\ [][RingNext]_ringVars

\* Mutant: a hash behind the last virtual node stays there.
NoWrap(h) ==
    LET behind == {i \in DOMAIN virtualNodes : virtualNodes[i].hash >= h}
    IN IF behind = {} THEN Len(virtualNodes) ELSE CHOOSE i \in behind : \A j \in behind : i <= j

\* The first virtual node at or behind a hash, or the first of all.
FindVirtualNode(h) ==
    LET behind == {i \in DOMAIN virtualNodes : virtualNodes[i].hash >= h}
    IN IF behind = {} THEN 1 ELSE CHOOSE i \in behind : \A j \in behind : i <= j

\* The i-th virtual node of the walk from a hash, and its node.
NodeAt(h, i) == virtualNodes[((FindVirtualNode(h) + i - 2) % Len(virtualNodes)) + 1].node

\* Where the walk meets a node that it has not seen.
Fresh(h) == {i \in 1 .. Len(virtualNodes) : \A j \in 1 .. i - 1 : NodeAt(h, j) # NodeAt(h, i)}

\* Once around the ring, past the nodes that were seen already, until there are
\* enough owners.
GetOwners(h) ==
    [k \in 1 .. Min({ReplicationFactor, Cardinality(Fresh(h))}) |-> NodeAt(h, Nth(Fresh(h), k))]

-----------------------------------------------------------------------------
(* Properties.                                                             *)

Distance(h, n) ==
    Min({(v + HashSpace - h) % HashSpace : v \in hash[n]})

\* ring.go, GetOwners: the owners of a key are the nodes nearest clockwise, the
\* nearest first, as many as there are up to the replication factor, also where
\* the walk goes around the end of the ring, whatever was added and removed.
OwnersAreNearest ==
    \A h \in Hashes :
        LET owners == GetOwners(h) IN
        /\ Len(owners) = IF Cardinality(nodes) < ReplicationFactor
                         THEN Cardinality(nodes) ELSE ReplicationFactor
        /\ ToSet(owners) \subseteq nodes
        /\ \A i, j \in DOMAIN owners : i < j => Distance(h, owners[i]) < Distance(h, owners[j])
        /\ \A i \in DOMAIN owners, n \in nodes \ ToSet(owners) :
              Distance(h, owners[i]) < Distance(h, n)

\* m is an owner, and n is none or comes later.
Prefers(owners, m, n) ==
    \E i \in DOMAIN owners : owners[i] = m /\ \A j \in 1 .. i : owners[j] # n

\* Consistent hashing: adding or removing a node, or Rebalance, moves no key
\* between two other nodes; those that stay keep their order.
OnlyChangedNodeMoves ==
    [][\A h \in Hashes, m, n \in nodes \cap nodes' :
          Prefers(GetOwners(h), m, n) => ~Prefers(GetOwners(h)', n, m)]_ringVars
=============================================================================
