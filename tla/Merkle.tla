------------------------------- MODULE Merkle -------------------------------
(***************************************************************************)
(* Merkle trees of anti-entropy repair (core/cluster/repair/entropy/       *)
(* merkle.go), the comparison of the trees of several replicas             *)
(* (compare.go) and the repair of one divergent range (executor.go).       *)
(*                                                                         *)
(* The data of a replica are a function from its keys, which are numbers   *)
(* in their order as strings, to values. SHA-256 is taken to be injective: *)
(* the hash of a leaf is its key and value, that of a node its two hashes. *)
(***************************************************************************)
EXTENDS Naturals, Sequences, FiniteSets, SequencesExt

NoNode == [hash |-> << >>, kids |-> << >>, first |-> 0, last |-> 0]
IsLeaf(n) == n.kids = << >>
RangeOf(n) == [first |-> n.first, last |-> n.last]

\* hashData and hashNodes, taken to have no collisions (keys have no zero bytes).
HashData(k, v) == << "leaf", k, v >>
HashNodes(a, b) == << "node", a, b >>

\* A leaf for every key; its range starts at the key before.
Leaves(data) ==
    LET keys == SetToSortSeq(DOMAIN data, <)
    IN [i \in DOMAIN keys |->
          [hash |-> HashData(keys[i], data[keys[i]]), kids |-> << >>,
           first |-> IF i = 1 THEN keys[i] ELSE keys[i - 1], last |-> keys[i]]]

\* One level of the tree from the one below; an odd last node is taken twice.
NextLevel(level) ==
    [i \in 1 .. (Len(level) + 1) \div 2 |->
        LET left == level[2 * i - 1]
            right == IF 2 * i <= Len(level) THEN level[2 * i] ELSE left
        IN [hash |-> HashNodes(left.hash, right.hash), kids |-> << left, right >>,
            first |-> left.first, last |-> right.last]]

RECURSIVE BuildFromLeaves(_)
BuildFromLeaves(level) ==
    IF Len(level) = 1 THEN level[1] ELSE BuildFromLeaves(NextLevel(level))

\* BuildTree: the root, or none for no data, and the ranges of the leaves.
BuildTree(data) ==
    LET leaves == Leaves(data)
    IN [root |-> IF leaves = << >> THEN NoNode ELSE BuildFromLeaves(leaves),
        ranges |-> {RangeOf(leaves[i]) : i \in DOMAIN leaves}]

Kid(n, i) == IF IsLeaf(n) THEN NoNode ELSE n.kids[i]

\* compareNodes.
RECURSIVE CompareNodes(_, _)
CompareNodes(a, b) ==
    IF a = NoNode /\ b = NoNode THEN {}
    ELSE IF a = NoNode THEN {RangeOf(b)}
    ELSE IF b = NoNode THEN {RangeOf(a)}
    ELSE IF a.hash = b.hash THEN {}
    ELSE IF IsLeaf(a) /\ IsLeaf(b) THEN {RangeOf(a)}
    ELSE CompareNodes(Kid(a, 1), Kid(b, 1)) \cup CompareNodes(Kid(a, 2), Kid(b, 2))

FindDivergentRanges(t, other) ==
    IF t.root = NoNode /\ other.root = NoNode THEN {}
    ELSE IF t.root = NoNode THEN other.ranges
    ELSE IF other.root = NoNode THEN t.ranges
    ELSE CompareNodes(t.root, other.root)

\* Serialize and DeserializeMerkleTree: the nodes go over the wire, and the
\* ranges are collected from the leaves again.
RECURSIVE CollectKeyRanges(_)
CollectKeyRanges(n) ==
    IF n = NoNode THEN {}
    ELSE IF IsLeaf(n) THEN {RangeOf(n)}
    ELSE CollectKeyRanges(n.kids[1]) \cup CollectKeyRanges(n.kids[2])

OverTheWire(t) == [root |-> t.root, ranges |-> CollectKeyRanges(t.root)]

-----------------------------------------------------------------------------
(* The comparator. trees is a function from replicas to trees.             *)

\* Mutant: half of the replicas, rounded down, are a majority.
HalfIsEnough(trees) ==
    {n \in DOMAIN trees :
        /\ trees[n].root # NoNode
        /\ Cardinality({m \in DOMAIN trees : trees[m].root # NoNode /\ trees[m].root.hash = trees[n].root.hash})
              >= Cardinality(DOMAIN trees) \div 2}

\* findMajorityTree: the nodes whose tree more than half of the replicas have.
\* Empty trees are not counted.
MajorityNodes(trees) ==
    {n \in DOMAIN trees :
        /\ trees[n].root # NoNode
        /\ Cardinality({m \in DOMAIN trees : trees[m].root # NoNode /\ trees[m].root.hash = trees[n].root.hash})
              > Cardinality(DOMAIN trees) \div 2}

\* findDivergentRanges: without a majority all ranges, with nobody to repair;
\* otherwise what each of the others has different, and a node to copy from.
DivergentRanges(trees) ==
    IF MajorityNodes(trees) = {}
    THEN {[range |-> r, nodes |-> {}, correct |-> 0] : r \in UNION {trees[n].ranges : n \in DOMAIN trees}}
    ELSE LET correct == CHOOSE n \in MajorityNodes(trees) : TRUE IN
         UNION {{[range |-> r, nodes |-> {n}, correct |-> correct] :
                     r \in FindDivergentRanges(trees[correct], trees[n])} : n \in DOMAIN trees \ {correct}}

\* GetRangeData of the correct node: a range scan, which leaves out the end.
RangeData(data, range) == {k \in DOMAIN data : range.first <= k /\ k < range.last}

\* RepairRange: what the correct node has in the range is written, through the
\* coordinator, to every replica. Without divergent nodes it is an error.
RepairRange(datas, d) ==
    IF d.nodes = {} THEN datas
    ELSE LET copied == RangeData(datas[d.correct], d.range) IN
         [n \in DOMAIN datas |->
             [k \in DOMAIN datas[n] \cup copied |->
                 IF k \in copied THEN datas[d.correct][k] ELSE datas[n][k]]]

\* repairPartition, with nothing else going on.
RepairPartition(datas) ==
    FoldSet(LAMBDA d, ds : RepairRange(ds, d), datas,
            DivergentRanges([n \in DOMAIN datas |-> BuildTree(datas[n])]))

-----------------------------------------------------------------------------
(* Properties.                                                             *)

Agree(a, b, k) == k \in DOMAIN a /\ k \in DOMAIN b /\ a[k] = b[k]

\* merkle.go: two replicas have divergent ranges if and only if their data
\* differ, whatever the shapes of their trees, also when one has no data; and a
\* tree that went over the wire says the same.
DivergenceIsFound(a, b) ==
    LET s == BuildTree(a)
        t == OverTheWire(BuildTree(b))
    IN /\ (FindDivergentRanges(s, t) = {}) = (a = b)
       /\ t = BuildTree(b)

\* compare.go, executor.go: a repair takes a value that a majority of replicas
\* hold from none of them, and gives no replica a value that nobody held.
RepairKeepsMajority(datas) ==
    LET after == RepairPartition(datas)
        Holders(ds, k, v) == {n \in DOMAIN ds : k \in DOMAIN ds[n] /\ ds[n][k] = v}
        repaired == MajorityNodes([m \in DOMAIN datas |-> BuildTree(datas[m])]) # {}
    IN \A n \in DOMAIN datas : \A k \in DOMAIN after[n] :
          /\ \E m \in DOMAIN datas : Agree(after[n], datas[m], k)
          /\ repaired /\ k \in DOMAIN datas[n]
                /\ 2 * Cardinality(Holders(datas, k, datas[n][k])) > Cardinality(DOMAIN datas)
             => after[n][k] = datas[n][k]

\* executor.go: repairing the divergent ranges copies "correct data to divergent
\* nodes": afterwards every replica has what the majority has.
RangesAreRepaired(datas) ==
    LET after == RepairPartition(datas)
    IN \A n \in DOMAIN datas, c \in MajorityNodes([m \in DOMAIN datas |-> BuildTree(datas[m])]) :
          \A k \in DOMAIN datas[c] : Agree(after[n], datas[c], k)
=============================================================================
