----------------------------- MODULE GraphCache -----------------------------
(***************************************************************************)
(* The graph cache (core/index/graph/cache.go): the edges of an entity, by *)
(* where they start and by where they end, for the entities that were used *)
(* last. Every method runs under the mutex and is an operator from the     *)
(* cache to the cache. An edge that was added twice is one edge.           *)
(***************************************************************************)
EXTENDS Naturals, Sequences, FiniteSets, SequencesExt, Ranks

CONSTANT MaxGraphSize   \* the entities the cache may hold

ASSUME GraphAssumption == MaxGraphSize \in Nat \ {0}

EmptyGraph == [out |-> << >>, inc |-> << >>, lru |-> << >>]   \* lru: the last used first

EdgesOf(f, e) == IF e \in DOMAIN f THEN f[e] ELSE {}
Put(f, e, v) == [x \in DOMAIN f \cup {e} |-> IF x = e THEN v ELSE f[x]]
Without(f, e) == [x \in DOMAIN f \ {e} |-> f[x]]
DropEntity(s, e) == Select(s, {i \in DOMAIN s : s[i] # e})

EvictLRU(g) ==
    LET victim == Last(g.lru)
    IN [out |-> Without(g.out, victim), inc |-> Without(g.inc, victim), lru |-> Front(g.lru)]

TouchEntity(g, e) ==
    IF e \in ToSet(g.lru) THEN [g EXCEPT !.lru = << e >> \o DropEntity(@, e)]
    ELSE LET room == IF Len(g.lru) >= MaxGraphSize THEN EvictLRU(g) ELSE g
         IN [room EXCEPT !.lru = << e >> \o @]

\* AddEdge: an entity that has no list yet is touched, which may evict another.
AddEdge(g, edge) ==
    LET g1 == IF edge.from \in DOMAIN g.out THEN g
              ELSE TouchEntity([g EXCEPT !.out = Put(@, edge.from, {})], edge.from)
        g2 == [g1 EXCEPT !.out = Put(@, edge.from, EdgesOf(@, edge.from) \cup {edge})]
        g3 == IF edge.to \in DOMAIN g2.inc THEN g2
              ELSE TouchEntity([g2 EXCEPT !.inc = Put(@, edge.to, {})], edge.to)
    IN [g3 EXCEPT !.inc = Put(@, edge.to, EdgesOf(@, edge.to) \cup {edge})]

\* GetOutgoingEdges, GetIncomingEdges and GetNeighbors touch what they find.
TouchIf(g, e, present) == IF present THEN TouchEntity(g, e) ELSE g
Neighbors(g, e) == {x.to : x \in EdgesOf(g.out, e)} \cup {x.from : x \in EdgesOf(g.inc, e)}
AfterNeighbors(g, e) == TouchIf(g, e, e \in DOMAIN g.out \cup DOMAIN g.inc)
AfterOutgoing(g, e) == TouchIf(g, e, e \in DOMAIN g.out)
AfterIncoming(g, e) == TouchIf(g, e, e \in DOMAIN g.inc)

\* RemoveEntity: the lists of the entity and, found through them, its edges in
\* the lists of others.
RemoveEntity(g, e) ==
    LET ends == {x.to : x \in EdgesOf(g.out, e)}
        inc1 == [x \in DOMAIN g.inc |->
                   IF x \in ends THEN {y \in g.inc[x] : y.from # e} ELSE g.inc[x]]
        out1 == Without(g.out, e)
        starts == {x.from : x \in EdgesOf(inc1, e)}
        out2 == [x \in DOMAIN out1 |->
                   IF x \in starts THEN {y \in out1[x] : y.to # e} ELSE out1[x]]
    IN [out |-> out2, inc |-> Without(inc1, e), lru |-> DropEntity(g.lru, e)]

-----------------------------------------------------------------------------
(* Properties.                                                             *)

\* The LRU list governs the maps: every entity with a list is in it once, every
\* entity in it has a list, and there are never more than the cache may hold.
LRUGovernsMaps(g) ==
    /\ ToSet(g.lru) = DOMAIN g.out \cup DOMAIN g.inc
    /\ Cardinality(ToSet(g.lru)) = Len(g.lru)
    /\ Len(g.lru) <= MaxGraphSize

\* As long as nothing was evicted an edge is in the list of its start if and
\* only if it is in that of its end, so that removing an entity takes all its
\* edges and GetNeighbors is symmetric; no edge is ever in the list of another
\* entity.
EdgesTwoSided(g, evicted) ==
    /\ \A e \in DOMAIN g.out : \A x \in g.out[e] :
          x.from = e /\ (evicted \/ x \in EdgesOf(g.inc, x.to))
    /\ \A e \in DOMAIN g.inc : \A x \in g.inc[e] :
          x.to = e /\ (evicted \/ x \in EdgesOf(g.out, x.from))
    /\ ~evicted => \A e \in ToSet(g.lru) : \A x \in Neighbors(g, e) : e \in Neighbors(g, x)
=============================================================================
