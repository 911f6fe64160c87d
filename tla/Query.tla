------------------------------- MODULE Query -------------------------------
(***************************************************************************)
(* Queries: the executor (core/query/executor.go) takes the candidates of  *)
(* the vector search, expands them along the graph, scores them            *)
(* (scorer.go) and keeps the best k; the handler Query of the gRPC server  *)
(* filters them by tenant.                                                 *)
(*                                                                         *)
(* A graph has, for every entity, nbrs: its neighbours in the order of the *)
(* range over the map of the cache, and out: those its own edges lead to;  *)
(* the edge from a to b has weight[a][b]. Scores are in percent. An entity *)
(* has tenant and embedded, whether it has an embedding, and what the      *)
(* floating point functions of its data give: cosine (computeCosineScore), *)
(* near (1 / (1 + distance) in Search), importance, sigmoid                *)
(* (computeImportanceScore) and recency (computeRecencyScore).             *)
(***************************************************************************)
EXTENDS Naturals, Sequences, FiniteSets, SequencesExt

AtLeast(a, b) == IF a < b THEN b ELSE a
AtMost(a, b) == IF a > b THEN b ELSE a

\* QueryWithOptions: the default factor, and not more than the hops.
ExpandFactor(c, asked) == AtMost(IF asked = 0 THEN c.defaultExpandFactor ELSE asked, c.maxGraphHops)
\* annSearch: how many candidates the index is asked for.
SearchK(c, wanted) == AtLeast(AtMost(wanted, c.maxCandidates), c.defaultK)
MaxHops(c) == AtLeast(c.maxGraphHops, 1)

\* Mutant: the path is that of the seed, without the nodes in between.
ForgetsPath(c, g, factor, s, item) ==
    FoldLeft(LAMBDA t, n :
        IF n \in DOMAIN t.paths \/ t.count >= factor \/ Cardinality(DOMAIN t.paths) >= c.maxCandidates
        THEN t
        ELSE LET path == << item[1], n >> IN
             [paths |-> [m \in DOMAIN t.paths \cup {n} |-> IF m = n THEN path ELSE t.paths[m]],
              queue |-> Append(t.queue, path), count |-> t.count + 1],
        [s EXCEPT !.count = 0], g.nbrs[Last(item)])

\* One item of the queue: new neighbours, up to the factor and the limit.
ExpandItem(c, g, factor, s, item) ==
    FoldLeft(LAMBDA t, n :
        IF n \in DOMAIN t.paths \/ t.count >= factor \/ Cardinality(DOMAIN t.paths) >= c.maxCandidates
        THEN t
        ELSE LET path == Append(item, n) IN
             [paths |-> [m \in DOMAIN t.paths \cup {n} |-> IF m = n THEN path ELSE t.paths[m]],
              queue |-> Append(t.queue, path), count |-> t.count + 1],
        [s EXCEPT !.count = 0], g.nbrs[Last(item)])

\* graphExpansion: breadth first. The queue holds the paths from the seeds.
RECURSIVE Expand(_, _, _, _)
Expand(c, g, factor, s) ==
    IF s.queue = << >> THEN s.paths
    ELSE LET item == Head(s.queue)
             rest == [s EXCEPT !.queue = Tail(@)]
         IN IF Len(item) - 1 >= MaxHops(c) THEN Expand(c, g, factor, rest)
            ELSE Expand(c, g, factor, ExpandItem(c, g, factor, rest, item))

GraphExpansion(c, g, factor, seeds) ==
    Expand(c, g, factor, [paths |-> [e \in ToSet(seeds) |-> << e >>],
                          queue |-> [i \in DOMAIN seeds |-> << seeds[i] >>], count |-> 0])

\* getEdgeWeight: that of the edge, of the edge back, or one half.
EdgeWeight(g, a, b) ==
    CASE b \in g.out[a] -> g.weight[a][b]
      [] b \notin g.out[a] /\ a \in g.out[b] -> g.weight[b][a]
      [] OTHER -> 50

PathWeights(g, path) == [i \in 1 .. Len(path) - 1 |-> EdgeWeight(g, path[i], path[i + 1])]

\* computeGraphScore: the average of the weights on the path, within bounds.
SumOf(s) == FoldLeft(LAMBDA a, b : a + b, 0, s)
GraphScore(weights) ==
    IF weights = << >> THEN 100 ELSE AtMost(SumOf(weights) \div Len(weights), 100)

\* Score: the weighted sum of similarity, path, importance and recency; an
\* entity without an embedding scores nothing.
Score(e, weights) ==
    IF ~e.embedded THEN 0
    ELSE 10 * e.cosine + 3 * GraphScore(weights) + 2 * e.sigmoid + e.recency

\* Best first; of equal scores any may come first, here the smaller id.
Ranked(scored) ==
    SetToSortSeq(scored, LAMBDA a, b : a.score > b.score \/ (a.score = b.score /\ a.id < b.id))

TopKSelection(scored, k) ==
    LET sorted == Ranked(scored) IN SubSeq(sorted, 1, AtMost(Len(sorted), k))

\* UnifiedIndex.Search: the hits of the HNSW graph and their neighbours, ranked
\* by distance and importance.
IndexSearch(g, ents, hits, k) ==
    LET cands == {e \in DOMAIN ents \cap (hits \cup UNION {ToSet(g.nbrs[h]) : h \in hits}) : ents[e].embedded}
        top == TopKSelection({[id |-> e, score |-> ents[e].near * (100 + ents[e].importance)] : e \in cands}, k)
    IN [i \in DOMAIN top |-> top[i].id]

\* unifiedScoring of what annSearch and graphExpansion found; entities that the
\* index cannot find are left out.
Scored(c, g, ents, hits, k, asked) ==
    LET factor == ExpandFactor(c, asked)
        paths == GraphExpansion(c, g, factor, IndexSearch(g, ents, hits, SearchK(c, k * factor)))
    IN {[id |-> e, score |-> Score(ents[e], PathWeights(g, paths[e]))] : e \in DOMAIN paths \cap DOMAIN ents}

\* Server.Query: of the best k of all tenants, those of the tenant.
FilterTenant(results, ents, tenant) == SelectSeq(results, LAMBDA r : ents[r.id].tenant = tenant)
QueryTenant(c, g, ents, hits, k, asked, tenant) ==
    FilterTenant(TopKSelection(Scored(c, g, ents, hits, k, asked), k), ents, tenant)

-----------------------------------------------------------------------------
(* Properties.                                                             *)

\* executor.go, graphExpansion: an expansion has at most MaxCandidates entities
\* unless there were more seeds, and each of them came along a path of the
\* graph from a seed, without a repetition and of at most MaxGraphHops edges;
\* and nothing within reach is left out unless a limit was met.
ExpansionFollowsGraph(c, g, factor, seeds) ==
    LET paths == GraphExpansion(c, g, factor, seeds)
        Edge(a, b) == b \in ToSet(g.nbrs[a])
    IN /\ Cardinality(DOMAIN paths) <= AtLeast(c.maxCandidates, Cardinality(ToSet(seeds)))
       /\ \A e \in DOMAIN paths :
             /\ paths[e][1] \in ToSet(seeds) /\ Last(paths[e]) = e
             /\ Len(paths[e]) - 1 <= MaxHops(c)
             /\ \A i \in 1 .. Len(paths[e]) - 1 : Edge(paths[e][i], paths[e][i + 1])
             /\ Cardinality(ToSet(paths[e])) = Len(paths[e])
       /\ factor >= Cardinality(DOMAIN g.nbrs) /\ c.maxCandidates >= Cardinality(DOMAIN g.nbrs)
             => \A e \in DOMAIN paths, f \in DOMAIN g.nbrs :
                   Edge(e, f) /\ Len(paths[e]) <= MaxHops(c) => f \in DOMAIN paths

\* server.go, Query: the best k of all tenants are cut first and filtered then.
\* What a tenant gets is the top of the ranking of its own candidates, though
\* perhaps fewer than k of them, and never an entity of another tenant.
ResultsAreTenantsBest(c, g, ents, hits, k, asked, tenant) ==
    LET results == QueryTenant(c, g, ents, hits, k, asked, tenant)
        own == {r \in Scored(c, g, ents, hits, k, asked) : ents[r.id].tenant = tenant}
    IN IsPrefix(results, Ranked(own)) /\ Len(results) <= k
=============================================================================
