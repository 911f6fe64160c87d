----------------------------- MODULE MCLibrary -----------------------------
(***************************************************************************)
(* The algorithms and data structures of the library, for TLC. A behaviour *)
(* has one subject. The planner, SSTables, the codec, Merkle trees and the *)
(* expansion of queries are checked on every small input; the ring, pages, *)
(* gossip, HNSW graph, graph cache and index take their steps.             *)
(***************************************************************************)
EXTENDS CompactionPlanner, Ring, SSTableFormat, EntityCodec, Merkle, Query, Pages, UnifiedIndex, Gossip

CONSTANTS Subjects, MaxFiles, MaxFileSize

VARIABLES
    subject,   \* what the behaviour is about
    input      \* the input, the HNSW graph or the graph cache

MCLinks == [e \in Entities |-> IF e = 1 THEN {2} ELSE {}]
MCBackLinks == [e \in Entities |-> IF e = 1 THEN {1} ELSE {}]

libraryVars == <<subject, input, ringVars, scanVars, indexVars, gossipVars>>

Dirs ==
    UNION {UNION {SortedLists({[name |-> n, size |-> f[n][1], mtime |-> n, old |-> f[n][2]] : n \in 1..k})
                     : f \in [1..k -> (0..MaxFileSize) \X BOOLEAN]} : k \in 0..MaxFiles}

\* Tables of at most three rows in the order of their ids, at most one damaged.
Tables(t) ==
    {[i \in DOMAIN ids |-> [id |-> ids[i], data |-> << t, i >>, damaged |-> i = bad]] :
        ids \in {s \in SeqOf(1..3, 3) : \A i \in 2 .. Len(s) : s[i - 1] <= s[i]}, bad \in 0 .. 3}

Texts == {<< >>, << 7, 8 >>}
SampleEdge(s, t) == << s, t, << 5 >>, 50, 35 >>
\* The entities without a tenant have the zero time as creation time.
Samples ==
    {[head |-> << << 1 >>, s, << 2 >> >>, embeddings |-> em, incoming |-> inc, outgoing |-> out,
      chunks |-> ch, tail |-> << 2, IF s = << >> THEN 0 ELSE 32, 47 >>] :
        s \in Texts,
        em \in SeqOf({<< 1, 33, v >> : v \in Texts}, 2),
        inc \in SeqOf({SampleEdge(v, << 1 >>) : v \in Texts}, 1),
        out \in SeqOf({SampleEdge(<< 1 >>, v) : v \in Texts}, 2),
        ch \in SeqOf({[id |-> << 6 >>, text |-> v, meta |-> m] :
                         v \in Texts, m \in {<< >>, << << << 5 >>, << >> >>, << << >>, << 9 >> >> >>}}, 1)}

Data(n) == UNION {[K -> {1, 2}] : K \in SUBSET (1..n)}

Sorted(S) == SetToSortSeq(S, <)
Graph(out) ==
    [out |-> out, nbrs |-> [e \in 1..3 |-> Sorted(out[e] \cup {x \in 1..3 : e \in out[x]})],
     weight |-> [a \in 1..3 |-> [b \in 1..3 |-> 40 * a + 20 * b]]]
Queries ==
    {[c |-> [defaultK |-> 1, defaultExpandFactor |-> 2, maxCandidates |-> m, maxGraphHops |-> h],
      g |-> Graph(out), factor |-> f, seeds |-> s] :
        m \in {2, 3}, h \in 0..2, out \in [1..3 -> SUBSET (1..3)], f \in {0, 3},
        s \in {<< 1 >>, << 2, 1 >>}}
\* The entities of the queries: the third has no embedding.
Sample(e) ==
    [tenant |-> e % 2, embedded |-> e # 3, near |-> 30 * e, cosine |-> 30 * e, importance |-> 50,
     sigmoid |-> 60, recency |-> 90 - 20 * e]

\* A behaviour about something else leaves these alone.
RingAtRest == hash = << >> /\ virtualNodes = << >> /\ nodes = {}
ScanAtRest == stored = {} /\ scan = [limit |-> 1, token |-> 0, got |-> << >>, had |-> {}, more |-> FALSE]

Inputs ==
    CASE subject = "planner" -> Dirs
      [] subject = "tables" -> Tables(1) \X Tables(2)
      [] subject = "codec" -> Samples
      [] subject = "trees" -> Data(4) \X Data(4)
      [] subject = "repair" -> Data(3) \X Data(3) \X Data(2)
      [] subject = "query" -> Queries
      [] subject = "hnsw" -> {EmptyHNSW}
      [] subject = "graph" -> {[g |-> EmptyGraph, evicted |-> FALSE]}
      [] OTHER -> {0}

Init ==
    /\ subject \in Subjects
    /\ input \in Inputs
    /\ IF subject = "ring" THEN RingInit ELSE RingAtRest
    /\ IF subject = "scan" THEN ScanInit ELSE ScanAtRest
    /\ IndexInit /\ (subject # "index" => kind = "meta")
    /\ GossipInit /\ (subject # "gossip" => transport = "sender")

RingStep ==
    /\ subject = "ring" /\ RingNext
    /\ UNCHANGED <<subject, input, scanVars, indexVars, gossipVars>>

ScanStep ==
    /\ subject = "scan" /\ ScanNext
    /\ UNCHANGED <<subject, input, ringVars, indexVars, gossipVars>>

IndexStep ==
    /\ subject = "index" /\ IndexNext
    /\ UNCHANGED <<subject, input, ringVars, scanVars, gossipVars>>

GossipStep ==
    /\ subject = "gossip" /\ GossipNext
    /\ UNCHANGED <<subject, input, ringVars, scanVars, indexVars>>

\* Five vectors come in any order, each on any level.
HNSWStep ==
    /\ subject = "hnsw"
    /\ \E id \in (1..5) \ DOMAIN input.node, level \in 1 .. MaxLevel : input' = Add(input, id, level)
    /\ UNCHANGED <<subject, ringVars, scanVars, indexVars, gossipVars>>

GraphOps(g) ==
    {AddEdge(g, [from |-> a, to |-> b]) : a \in 1..3, b \in 1..3}
        \cup {AfterNeighbors(g, e) : e \in 1..3}
        \cup {AfterOutgoing(g, e) : e \in 1..3} \cup {AfterIncoming(g, e) : e \in 1..3}

GraphStep ==
    /\ subject = "graph"
    /\ \/ \E g \in GraphOps(input.g) :
             input' = [g |-> g, evicted |-> input.evicted \/ ~ToSet(input.g.lru) \subseteq ToSet(g.lru)]
       \/ \E e \in 1..3 : input' = [input EXCEPT !.g = RemoveEntity(@, e)]
    /\ UNCHANGED <<subject, ringVars, scanVars, indexVars, gossipVars>>

Next == RingStep \/ ScanStep \/ IndexStep \/ GossipStep \/ HNSWStep \/ GraphStep
Spec == Init /\ [][Next]_libraryVars

-----------------------------------------------------------------------------
(* The properties of the modules, each for its subject.                    *)

\* groupBySizeTier neither loses nor repeats a file, so that two jobs of a plan
\* never share one; a plan never merges fewer than two files, and ShouldCompact
\* never hides one.
PlansAreSound ==
    subject = "planner" => TiersPartition(input) /\ PlanMergesSeveral(input) /\ PlanImpliesShould(input)

\* See GetFindsRows, RoundTrips and CutIsRefused: Reader.Get and MergeReader.Get
\* find the rows of an entity, also next to damaged ones and at the ends of a
\* file, and FromBytes reads what ToBytes has written and refuses what was cut off.
FormatsReadBack ==
    /\ subject = "tables" => \A id \in 1..4 : GetFindsRows(input, id)
    /\ subject = "codec" => RoundTrips(input) /\ CutIsRefused(input)

\* See DivergenceIsFound and RepairKeepsMajority: trees of different data have
\* divergent ranges, and a repair takes nothing from a majority.
AntiEntropySound ==
    /\ subject = "trees" => DivergenceIsFound(input[1], input[2])
    /\ subject = "repair" => RepairKeepsMajority(input)

\* See RangesAreRepaired: a repair brings the replicas to what a majority has.
RepairConverges == subject = "repair" => RangesAreRepaired(input)

\* See ExpansionFollowsGraph and ResultsAreTenantsBest: a query expands along
\* paths of the graph, and a tenant gets the best of its own.
QuerySound ==
    subject = "query" =>
        /\ ExpansionFollowsGraph(input.c, input.g, input.factor, input.seeds)
        /\ \A k \in 1..2, t \in 0..1 :
              ResultsAreTenantsBest(input.c, input.g, [e \in 1..3 |-> Sample(e)], ToSet(input.seeds), k, input.factor, t)

\* See HNSWWellFormed, SearchFindsSomething, LRUGovernsMaps and EdgesTwoSided:
\* the two graphs of the index keep their form whatever is added and removed.
GraphsSound ==
    /\ subject = "hnsw" => HNSWWellFormed(input) /\ SearchFindsSomething(input, 1..5)
    /\ subject = "graph" => LRUGovernsMaps(input.g) /\ EdgesTwoSided(input.g, input.evicted)

\* See IndexConsistent and ReloadMissesNothing: the index after reloads that race
\* with adds, flushes and compactions.
IndexSound == subject = "index" => IndexConsistent /\ ReloadMissesNothing
=============================================================================
